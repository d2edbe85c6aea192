---------------------------- MODULE CrashTraces ----------------------------
(***************************************************************************)
(* The file background.trace (CrashReporter).  Threads append traces to    *)
(* it, one at a time; a report of the user copies the file and deletes it, *)
(* without the lock of the writers; and appendSavedBackgroundTraces of an  *)
(* exception, called where an exception is to be kept, copies the file     *)
(* into a text nobody reads and deletes it.  A file that was deleted lives *)
(* on for a writer that has it open.                                       *)
(***************************************************************************)
EXTENDS Naturals, FiniteSets

CONSTANTS
    Trace,       \* what is saved
    Reader,      \* reports, and calls that only swallow the file
    MaxReboots   \* bound on the deaths of the process

ASSUME TraceAssumption == MaxReboots \in Nat

VARIABLES
    file,       \* the traces in the file; NoFile if there is none
    writing,    \* the trace being saved, and whether its file was deleted meanwhile
    reader,     \* the step of each reader and what it copied
    kept,       \* the traces saved so far
    reported,   \* traces in a report that was sent
    gone,       \* traces that were swallowed, or lost by a known race or failure
    reboots

traceVars == <<file, writing, reader, kept, reported, gone, reboots>>

NoFile  == [there |-> FALSE, traces |-> {}]
NoWrite == [open |-> FALSE, trace |-> "none", unlinked |-> FALSE]
Idle    == [step |-> "idle", copied |-> {}, report |-> FALSE]

TraceInit ==
    /\ file = NoFile /\ writing = NoWrite
    /\ reader = [r \in Reader |-> Idle]
    /\ kept = {} /\ reported = {} /\ gone = {}
    /\ reboots = 0

----------------------------------------------------------------------------
(* Mutant: the file is opened anew instead of for appending, as that of    *)
(* the last crash is.                                                      *)
OpenAnew ==
    /\ ~writing.open
    /\ \E t \in Trace \ kept : writing' = [open |-> TRUE, trace |-> t, unlinked |-> FALSE]
    /\ file' = [there |-> TRUE, traces |-> {}]
    /\ UNCHANGED <<reader, kept, reported, gone, reboots>>

(* saveBackgroundTrace opens the file for appending ...                    *)
OpenTraces ==
    /\ ~writing.open
    /\ \E t \in Trace \ kept : writing' = [open |-> TRUE, trace |-> t, unlinked |-> FALSE]
    /\ file' = [file EXCEPT !.there = TRUE]
    /\ UNCHANGED <<reader, kept, reported, gone, reboots>>

(* ... and writes; if the file was deleted since, the trace goes with it.  *)
WriteTrace ==
    /\ writing.open
    /\ writing' = NoWrite
    /\ kept' = kept \cup {writing.trace}
    /\ IF writing.unlinked
       THEN gone' = gone \cup {writing.trace} /\ UNCHANGED file
       ELSE file' = [file EXCEPT !.traces = @ \cup {writing.trace}] /\ UNCHANGED gone
    /\ UNCHANGED <<reader, reported, reboots>>

(* The disk refuses the trace, which is only logged.                       *)
FailTrace ==
    /\ writing.open
    /\ writing' = NoWrite
    /\ UNCHANGED <<file, reader, kept, reported, gone, reboots>>

(* A report looks for the file first; the other callers create it.         *)
CopyTraces(r) ==
    /\ reader[r].step = "idle"
    /\ \E report \in BOOLEAN :
           /\ report => file.there
           /\ reader' = [reader EXCEPT ![r] = [step |-> "copied", copied |-> file.traces,
                                               report |-> report]]
    /\ file' = [file EXCEPT !.there = TRUE]
    /\ UNCHANGED <<writing, kept, reported, gone, reboots>>

(* The copy fails half-way, and the file is deleted all the same.          *)
CopyFails(r) ==
    /\ reader[r].step = "copied" /\ reader[r].copied # {}
    /\ reader' = [reader EXCEPT ![r].copied = {}]
    /\ UNCHANGED <<file, writing, kept, reported, gone, reboots>>

(* The file is deleted, with the traces written since it was copied.       *)
DeleteTraces(r) ==
    /\ reader[r].step = "copied"
    /\ reader' = [reader EXCEPT ![r].step = "deleted"]
    /\ file' = NoFile
    /\ writing' = [writing EXCEPT !.unlinked = writing.open]
    /\ gone' = gone \cup (file.traces \ reader[r].copied)
    /\ UNCHANGED <<kept, reported, reboots>>

(* The report is sent, or the copy is dropped.                             *)
EndReader(r) ==
    /\ reader[r].step = "deleted"
    /\ IF reader[r].report
       THEN reported' = reported \cup reader[r].copied /\ UNCHANGED gone
       ELSE gone' = gone \cup reader[r].copied /\ UNCHANGED reported
    /\ reader' = [reader EXCEPT ![r] = Idle]
    /\ UNCHANGED <<file, writing, kept, reboots>>

Copied == UNION {reader[r].copied : r \in Reader}

(* The process dies; what a reader has deleted and not sent is lost.       *)
DieWithTraces ==
    /\ reboots < MaxReboots
    /\ reboots' = reboots + 1
    /\ gone' = gone \cup (Copied \ file.traces)
    /\ writing' = NoWrite
    /\ reader' = [r \in Reader |-> Idle]
    /\ UNCHANGED <<file, kept, reported>>

TraceNext ==
    \/ OpenTraces \/ WriteTrace \/ FailTrace \/ DieWithTraces
    \/ \E r \in Reader : CopyTraces(r) \/ CopyFails(r) \/ DeleteTraces(r) \/ EndReader(r)

TraceSpec == TraceInit /\ [][TraceNext]_traceVars

----------------------------------------------------------------------------
TraceTypeOK ==
    /\ file \in [there : BOOLEAN, traces : SUBSET Trace]
    /\ writing \in [open : BOOLEAN, trace : Trace \cup {NoWrite.trace}, unlinked : BOOLEAN]
    /\ reader \in [Reader -> [step : {"idle", "copied", "deleted"}, copied : SUBSET Trace,
                              report : BOOLEAN]]
    /\ {kept, reported, gone} \subseteq SUBSET Trace
    /\ reboots \in 0..MaxReboots

(* A saved trace is in the file, with a reader, or in a report, or it is   *)
(* gone in one of the ways the code knows: swallowed by a call that meant  *)
(* to keep an exception, written between the copy and the delete, or with  *)
(* a copy that failed or died.  Saving one never costs another.            *)
TracesAccountedFor ==
    kept \subseteq file.traces \cup Copied \cup reported \cup gone
=============================================================================
