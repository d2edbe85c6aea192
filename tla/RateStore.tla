----------------------------- MODULE RateStore -----------------------------
(***************************************************************************)
(* The table of rates (RateDb), for one coin, and the threads that fill    *)
(* it.  Every connectivity event asks for a rate if the stored one is old, *)
(* on a thread of its own; a thread looks whether the coin has a row and   *)
(* then inserts one or updates the rows there are.  Rates are told apart   *)
(* by their timestamps.                                                    *)
(***************************************************************************)
EXTENDS Naturals, Sequences, FiniteSets, SequencesExt

CONSTANTS
    Requester,  \* the threads
    RateTtl,    \* RATE_UPDATE_TIME
    MaxTime     \* bound on the clock

ASSUME RateAssumption ==
    /\ IsFiniteSet(Requester)
    /\ RateTtl \in Nat /\ MaxTime \in Nat

VARIABLES
    clock,
    rows,       \* the timestamps of the rows of the coin, in the order of their ids
    request,    \* the step of each thread, its rate, and whether it found a row
    overlapped  \* did a thread look while another was between its look and its write?

rateVars == <<clock, rows, request, overlapped>>

Steps == {"new", "asking", "has rate", "looked", "ended"}

RateInit ==
    /\ clock = 0 /\ rows = <<>>
    /\ request = [r \in Requester |-> [step |-> "new", rate |-> 0, found |-> FALSE]]
    /\ overlapped = FALSE

Tick ==
    /\ clock < MaxTime
    /\ clock' = clock + 1
    /\ UNCHANGED <<rows, request, overlapped>>

(* requestRateCoin: getRate returns the first row.                         *)
RequestRateCoin(r) ==
    /\ request[r].step = "new"
    /\ rows # <<>> => rows[1] + RateTtl < clock
    /\ request' = [request EXCEPT ![r].step = "asking"]
    /\ UNCHANGED <<clock, rows, overlapped>>

(* The server answers, or the thread gives up.                             *)
Answer(r) ==
    /\ request[r].step = "asking"
    /\ \/ request' = [request EXCEPT ![r].step = "has rate", ![r].rate = clock]
       \/ request' = [request EXCEPT ![r].step = "ended"]
    /\ UNCHANGED <<clock, rows, overlapped>>

(* Mutant: only a rate that is still good counts as one.                   *)
LookForFreshRate(r) ==
    /\ request[r].step = "has rate"
    /\ request' = [request EXCEPT ![r].step = "looked",
                                  ![r].found = rows # <<>> /\ rows[1] + RateTtl >= clock]
    /\ overlapped' = (overlapped \/ \E other \in Requester : request[other].step = "looked")
    /\ UNCHANGED <<clock, rows>>

(* insertOrUpdateIfExist: is there a rate?                                 *)
LookForRate(r) ==
    /\ request[r].step = "has rate"
    /\ request' = [request EXCEPT ![r].step = "looked", ![r].found = rows # <<>>]
    /\ overlapped' = (overlapped \/ \E other \in Requester : request[other].step = "looked")
    /\ UNCHANGED <<clock, rows>>

(* The insert, or the update of every row of the coin.                     *)
WriteRate(r) ==
    /\ request[r].step = "looked"
    /\ rows' = IF request[r].found THEN [i \in 1..Len(rows) |-> request[r].rate]
               ELSE Append(rows, request[r].rate)
    /\ request' = [request EXCEPT ![r].step = "ended"]
    /\ UNCHANGED <<clock, overlapped>>

(* The process dies with its threads, and the table stays.                 *)
KillRequests ==
    /\ \E r \in Requester : request[r].step \notin {"new", "ended"}
    /\ request' = [r \in Requester |->
                      IF request[r].step = "new" THEN request[r]
                      ELSE [request[r] EXCEPT !.step = "ended"]]
    /\ UNCHANGED <<clock, rows, overlapped>>

RateNext ==
    \/ Tick \/ KillRequests
    \/ \E r \in Requester :
           RequestRateCoin(r) \/ Answer(r) \/ LookForRate(r) \/ WriteRate(r)

RateSpec == RateInit /\ [][RateNext]_rateVars

----------------------------------------------------------------------------
RateTypeOK ==
    /\ clock \in 0..MaxTime
    /\ rows \in BoundedSeq(0..MaxTime, Cardinality(Requester))
    /\ request \in [Requester -> [step : Steps, rate : 0..MaxTime, found : BOOLEAN]]
    /\ overlapped \in BOOLEAN

(* A coin has one row unless two threads were between look and write at    *)
(* once; a death in between leaves no second row either.                   *)
OneRowPerCoin == overlapped \/ Len(rows) <= 1
=============================================================================
