---------------------------- MODULE SecretPages ----------------------------
(***************************************************************************)
(* What the locked pages of the native helpers promise: at any time the    *)
(* pages that are taken are those the objects in use lie on, whatever      *)
(* pages the objects share and in whatever order they come and go.         *)
(***************************************************************************)
CONSTANTS
    Object,  \* what may hold secrets
    Page     \* the pages of memory

VARIABLES
    held,    \* the pages of each object, none if it is not in use
    taken    \* the pages that are taken

Init == held = [o \in Object |-> {}] /\ taken = {}

Hold(o) ==
    /\ held[o] = {}
    /\ \E pages \in SUBSET Page :
           held' = [held EXCEPT ![o] = pages] /\ taken' = taken \cup pages

Release(o) ==
    /\ held' = [held EXCEPT ![o] = {}]
    /\ taken' = UNION {held'[other] : other \in Object}

Next == \E o \in Object : Hold(o) \/ Release(o)

Spec == Init /\ [][Next]_<<held, taken>>
=============================================================================
