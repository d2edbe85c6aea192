---------------------------- MODULE ListLoader ----------------------------
(***************************************************************************)
(* A list screen (BaseRecyclerFragment) and its loads.  Each visit has an  *)
(* executor of one thread; onStop gives it up with shutdownNow, but a load *)
(* that runs may go on.  A load writes the field list and posts a runnable *)
(* that hands the field to the adapter.  The data are counted in versions. *)
(***************************************************************************)
EXTENDS Naturals, Sequences, SequencesExt

CONSTANTS
    MaxVersion,  \* bound on the changes of the data
    MaxLoads     \* bound on the loads that run, wait or have posted

ASSUME LoaderAssumption == MaxVersion \in Nat /\ MaxLoads \in Nat \ {0}

VARIABLES
    version,     \* the data
    visible,     \* between onResume and onStop
    queued,      \* loads waiting on the executor
    running,     \* the loads that run: own are those of the present executor
    list,        \* field list
    posted,      \* results on their way to the main thread: did onLoading succeed?
    shown,       \* what the adapter shows
    refreshing,  \* the refresh indicator
    late         \* did a load of an earlier executor write the field?

loaderVars == <<version, visible, queued, running, list, posted, shown, refreshing, late>>

LoaderInit ==
    /\ version = 0 /\ visible = FALSE
    /\ queued = 0 /\ running = <<>>
    /\ list = 0 /\ posted = <<>> /\ shown = 0
    /\ refreshing = FALSE /\ late = FALSE

----------------------------------------------------------------------------
(* Bound: loads are asked for while there is room for them.                *)
LoadRoom == queued + Len(running) + Len(posted) < MaxLoads

ChangeData ==
    /\ version < MaxVersion
    /\ version' = version + 1
    /\ UNCHANGED <<visible, queued, running, list, posted, shown, refreshing, late>>

(* load(): the indicator turns, and the executor, if any, gets the load.   *)
Load(executor) ==
    /\ LoadRoom
    /\ refreshing' = TRUE
    /\ queued' = IF executor THEN queued + 1 ELSE queued

OnResumeList ==
    /\ ~visible /\ visible' = TRUE
    /\ Load(TRUE)
    /\ UNCHANGED <<version, running, list, posted, shown, late>>

(* The swipe, or refresh() of the screen around it, at any time.           *)
Refresh ==
    /\ Load(visible)
    /\ UNCHANGED <<version, visible, running, list, posted, shown, late>>

(* onStop: shutdownNow drops what waits and interrupts what runs.          *)
OnStop ==
    /\ visible /\ visible' = FALSE
    /\ queued' = 0
    /\ running' = [i \in 1..Len(running) |-> [running[i] EXCEPT !.own = FALSE]]
    /\ UNCHANGED <<version, list, posted, shown, refreshing, late>>

(* Mutant: the executor has several threads.                               *)
BeginTwoLoads ==
    /\ queued > 0
    /\ queued' = queued - 1
    /\ running' = Append(running, [own |-> TRUE, read |-> FALSE, got |-> 0])
    /\ UNCHANGED <<version, visible, list, posted, shown, refreshing, late>>

(* The one thread of the executor takes the next load.                     *)
BeginLoad ==
    /\ queued > 0
    /\ \A i \in 1..Len(running) : ~running[i].own
    /\ queued' = queued - 1
    /\ running' = Append(running, [own |-> TRUE, read |-> FALSE, got |-> 0])
    /\ UNCHANGED <<version, visible, list, posted, shown, refreshing, late>>

(* onLoading has read the data.                                            *)
ReadData ==
    /\ \E i \in 1..Len(running) :
           /\ ~running[i].read
           /\ running' = [running EXCEPT ![i].read = TRUE, ![i].got = version]
    /\ UNCHANGED <<version, visible, queued, list, posted, shown, refreshing, late>>

(* The result is written to the field and posted.                          *)
EndLoad ==
    /\ \E i \in 1..Len(running) :
           /\ running[i].read
           /\ list' = running[i].got
           /\ late' = (late \/ ~running[i].own)
           /\ running' = RemoveAt(running, i)
    /\ posted' = Append(posted, TRUE)
    /\ UNCHANGED <<version, visible, queued, shown, refreshing>>

(* Mutant: a failed load posts nothing.                                    *)
FailSilently ==
    /\ \E i \in 1..Len(running) :
           ~running[i].read /\ running' = RemoveAt(running, i)
    /\ UNCHANGED <<version, visible, queued, list, posted, shown, refreshing, late>>

(* onLoading throws, of itself or because it was interrupted.              *)
FailLoad ==
    /\ \E i \in 1..Len(running) :
           ~running[i].read /\ running' = RemoveAt(running, i)
    /\ posted' = Append(posted, FALSE)
    /\ UNCHANGED <<version, visible, queued, list, shown, refreshing, late>>

(* The runnable of a load, on the main thread.                             *)
ShowList ==
    /\ posted # <<>>
    /\ posted' = Tail(posted)
    /\ refreshing' = FALSE
    /\ shown' = IF Head(posted) THEN list ELSE shown
    /\ UNCHANGED <<version, visible, queued, running, list, late>>

LoaderNext ==
    \/ ChangeData \/ OnResumeList \/ Refresh \/ OnStop
    \/ BeginLoad \/ ReadData \/ EndLoad \/ FailLoad \/ ShowList

LoaderSpec == LoaderInit /\ [][LoaderNext]_loaderVars

(* Threads run, loads end and the main thread runs what was posted.        *)
LoaderFairness ==
    /\ WF_loaderVars(BeginLoad)
    /\ WF_loaderVars(ReadData \/ FailLoad) /\ WF_loaderVars(EndLoad)
    /\ WF_loaderVars(ShowList)

----------------------------------------------------------------------------
LoaderTypeOK ==
    /\ {version, list, shown} \subseteq 0..MaxVersion
    /\ {visible, refreshing, late} \subseteq BOOLEAN
    /\ queued \in 0..MaxLoads
    /\ running \in BoundedSeq([own : BOOLEAN, read : BOOLEAN, got : 0..MaxVersion], MaxLoads)
    /\ posted \in BoundedSeq(BOOLEAN, MaxLoads)

(* The list never goes back to older data, unless a load of an earlier     *)
(* visit wrote the field: the runnable reads the field when it runs and    *)
(* not what its load has read, and one executor never has two loads at     *)
(* once.                                                                   *)
NeverOlder == [][shown' >= shown \/ late]_loaderVars

(* The indicator stops turning as long as the screen is there: whatever    *)
(* happened to the loads of earlier visits, a waiting load begins, and a   *)
(* load that fails says so.                                                *)
RefreshEnds == refreshing ~> ~refreshing \/ ~visible
=============================================================================
