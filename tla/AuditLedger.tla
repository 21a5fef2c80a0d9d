---------------------------- MODULE AuditLedger ----------------------------
(***************************************************************************)
(* What a store with an append-only audit trail promises: every change of  *)
(* the current rows is the recording of one event, appended to a log that  *)
(* is never rewritten, and a row is what its latest event recorded.        *)
(***************************************************************************)
EXTENDS Integers, Sequences

CONSTANTS
    Keys,   \* what the rows are stored under
    Null    \* the absent row

VARIABLES
    log,     \* the events, oldest first: records with case_id and record
    current  \* the row stored under each key

vars == <<log, current>>

Init ==
    /\ log = <<>>
    /\ current = [k \in Keys |-> Null]

\* One more event, and the row it is about replaced by what it records.
RecordEvent ==
    /\ Len(log') = Len(log) + 1
    /\ LET event == log'[Len(log) + 1]
       IN  /\ event.case_id \in Keys
           /\ log' = Append(log, event)
           /\ current' = [current EXCEPT ![event.case_id] = event.record]

Spec == Init /\ [][RecordEvent]_vars

-----------------------------------------------------------------------------
\* i is the position of the last event about k.
LatestAt(k, i) ==
    /\ i \in 1 .. Len(log)
    /\ log[i].case_id = k
    /\ \A j \in (i + 1) .. Len(log) : log[j].case_id # k

\* The log alone determines the rows: an absent row has no event, a present
\* one is what its last event recorded.
RowsFollowLog ==
    \A k \in Keys :
        \/ current[k] = Null /\ \A i \in 1 .. Len(log) : log[i].case_id # k
        \/ \E i \in 1 .. Len(log) : LatestAt(k, i) /\ current[k] = log[i].record
=============================================================================
