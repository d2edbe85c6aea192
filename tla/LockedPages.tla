---------------------------- MODULE LockedPages ----------------------------
(***************************************************************************)
(* LockedPageManagerBase (cpp/allocators.h) and the objects that use it:   *)
(* secure_allocator and the pair LockObject and UnlockObject.  Memory that *)
(* holds a secret is kept on pages the system does not swap.  Objects      *)
(* share pages, so the manager counts for each page the objects on it; the *)
(* system may refuse to lock a page, and nobody looks at that.  The mutex  *)
(* of the manager makes each of its calls one step; the steps of several   *)
(* threads interleave around them.                                         *)
(***************************************************************************)
EXTENDS Naturals, FiniteSets

CONSTANTS
    Object,    \* the objects of all threads
    PageSize,  \* page_size
    PageCount  \* bound on the memory, in pages

ASSUME PageAssumption ==
    /\ IsFiniteSet(Object)
    /\ PageSize \in Nat \ {0}
    /\ PageCount \in Nat \ {0}

VARIABLES
    object,     \* the phase of each object and where it lies
    histogram,  \* the lock count of each page, zero for one that is not in the map
    locked,     \* the pages the system has locked
    refused     \* the pages the system refused to lock and that are counted all the same

pageVars == <<object, histogram, locked, refused>>

Address == 0..PageSize * PageCount - 1
Sizes   == 0..PageSize * PageCount
Phases  == {"free", "allocated", "held", "cleansed", "unlocked"}

(* address & page_mask                                                     *)
PageOf(address) == address - (address % PageSize)

Page == {PageOf(address) : address \in Address}

Bytes(o) == {a \in Address : object[o].base <= a /\ a < object[o].base + object[o].size}

(* Mutant: the loops end before the page of the last byte.                 *)
PagesBeforeLast(o) ==
    {page \in Page :
        /\ object[o].size # 0
        /\ PageOf(object[o].base) <= page
        /\ page < PageOf(object[o].base + object[o].size - 1)}

(* The pages of the loops of LockRange and UnlockRange.                    *)
PagesOf(o) ==
    {page \in Page :
        /\ object[o].size # 0
        /\ PageOf(object[o].base) <= page
        /\ page <= PageOf(object[o].base + object[o].size - 1)}

Nowhere == [phase |-> "free", base |-> 0, size |-> 0]

PageInit ==
    /\ object = [o \in Object |-> Nowhere]
    /\ histogram = [page \in Page |-> 0]
    /\ locked = {} /\ refused = {}

----------------------------------------------------------------------------
GoesTo(o, from, to) ==
    /\ object[o].phase = from
    /\ object' = [object EXCEPT ![o].phase = to]

(* std::allocator gives memory nobody else has.                            *)
Allocate(o) ==
    /\ object[o].phase = "free"
    /\ \E base \in Address, size \in Sizes :
           /\ base + size <= PageSize * PageCount
           /\ \A other \in Object :
                  object[other].phase # "free"
                      => Bytes(other) \cap {a \in Address : base <= a /\ a < base + size} = {}
           /\ object' = [object EXCEPT ![o] = [phase |-> "allocated", base |-> base, size |-> size]]
    /\ UNCHANGED <<histogram, locked, refused>>

(* Mutant: a page the system refuses does not enter the map.               *)
LockRangeUnlessRefused(o) ==
    /\ GoesTo(o, "allocated", "held")
    /\ \E failed \in SUBSET {page \in PagesOf(o) : histogram[page] = 0} :
           /\ histogram' = [page \in Page |-> IF page \in PagesOf(o) \ failed
                                              THEN histogram[page] + 1 ELSE histogram[page]]
           /\ locked' = locked \cup ({page \in PagesOf(o) : histogram[page] = 0} \ failed)
           /\ refused' = refused \cup failed

(* LockRange: a page that is new in the map is locked, or is not and       *)
(* counts all the same.  From here on the object holds its secret.         *)
LockRange(o) ==
    /\ GoesTo(o, "allocated", "held")
    /\ histogram' = [page \in Page |-> IF page \in PagesOf(o) THEN histogram[page] + 1
                                       ELSE histogram[page]]
    /\ \E failed \in SUBSET {page \in PagesOf(o) : histogram[page] = 0} :
           /\ locked' = locked \cup ({page \in PagesOf(o) : histogram[page] = 0} \ failed)
           /\ refused' = refused \cup failed

(* OPENSSL_cleanse, before anything is unlocked.                           *)
Cleanse(o) ==
    /\ GoesTo(o, "held", "cleansed")
    /\ UNCHANGED <<histogram, locked, refused>>

(* The pages on which this object was the last.                            *)
LastOn(o) == {page \in PagesOf(o) : histogram[page] = 1}

(* Mutant: a page leaves the map with the first object that leaves it.     *)
EraseAtOnce(o) ==
    /\ GoesTo(o, "cleansed", "unlocked")
    /\ histogram' = [page \in Page |-> IF page \in PagesOf(o) THEN 0 ELSE histogram[page]]
    /\ locked' = locked \ PagesOf(o)
    /\ refused' = refused \ PagesOf(o)

(* UnlockRange                                                             *)
UnlockRange(o) ==
    /\ GoesTo(o, "cleansed", "unlocked")
    /\ histogram' = [page \in Page |-> IF page \in PagesOf(o) THEN histogram[page] - 1
                                       ELSE histogram[page]]
    /\ locked' = locked \ LastOn(o)
    /\ refused' = refused \ LastOn(o)

Deallocate(o) ==
    /\ object[o].phase = "unlocked"
    /\ object' = [object EXCEPT ![o] = Nowhere]
    /\ UNCHANGED <<histogram, locked, refused>>

PageNext ==
    \E o \in Object :
        Allocate(o) \/ LockRange(o) \/ Cleanse(o) \/ UnlockRange(o) \/ Deallocate(o)

PageSpec == PageInit /\ [][PageNext]_pageVars

----------------------------------------------------------------------------
PageTypeOK ==
    /\ object \in [Object -> [phase : Phases, base : Address, size : Sizes]]
    /\ histogram \in [Page -> Nat]
    /\ locked \subseteq Page
    /\ refused \subseteq Page

Counted(o) == object[o].phase \in {"held", "cleansed"}

HoldersOf(page) == {o \in Object : Counted(o) /\ page \in PagesOf(o)}

(* The count of a page is the number of the objects on it: the assertion   *)
(* of UnlockRange (allocators.h line 79) never fails, and a page leaves    *)
(* the map with the last of them.                                          *)
CountIsRight == \A page \in Page : histogram[page] = Cardinality(HoldersOf(page))

(* No byte of a secret that is in use lies on a page that may be swapped,  *)
(* but for the pages the system refused to lock, a refusal that holds for  *)
(* every object that comes to the page until the last one has left it.     *)
SecretIsLocked ==
    \A o \in Object : object[o].phase = "held"
        => {PageOf(a) : a \in Bytes(o)} \subseteq locked \cup refused

(* The manager keeps the promise of SecretPages.                           *)
Promise == INSTANCE SecretPages WITH
    held  <- [o \in Object |-> IF Counted(o) THEN PagesOf(o) ELSE {}],
    taken <- {page \in Page : histogram[page] > 0}

KeepsPromise == Promise!Spec
=============================================================================
