----------------------------- MODULE AuditTrail -----------------------------
(***************************************************************************)
(* What is left of AuditLedger when a row and its event are two separate   *)
(* writes: each version of a row is written first and its event recorded   *)
(* later, once or never.  The events are told apart and ordered by the     *)
(* time they carry, not by when they arrive.                               *)
(***************************************************************************)
EXTENDS Integers, Sequences

CONSTANT Keys  \* what the rows are stored under

VARIABLES
    written,  \* for each key, the versions of its row, oldest first
    pending,  \* the events whose row is written and which may still be recorded
    log       \* the recorded events, with case_id, recorded_at and record

vars == <<written, pending, log>>

Init ==
    /\ written = [k \in Keys |-> <<>>]
    /\ pending = {}
    /\ log = {}

VersionOf(event) == [recorded_at |-> event.recorded_at, record |-> event.record]

\* A version of a row is written, at a time that no other event carries.
Write(event) ==
    /\ event.case_id \in Keys
    /\ \A other \in pending \cup log : other.recorded_at # event.recorded_at
    /\ written' = [written EXCEPT ![event.case_id] = Append(@, VersionOf(event))]
    /\ pending' = pending \cup {event}
    /\ UNCHANGED log

Record(event) ==
    /\ pending' = pending \ {event}
    /\ log' = log \cup {event}
    /\ UNCHANGED written

\* The writer stopped between the two writes.
Lose(event) ==
    /\ pending' = pending \ {event}
    /\ UNCHANGED <<written, log>>

Next ==
    \/ \E event \in pending' : Write(event)
    \/ \E event \in pending : Record(event) \/ Lose(event)

Spec == Init /\ [][Next]_vars

=============================================================================
