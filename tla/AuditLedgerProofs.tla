------------------------- MODULE AuditLedgerProofs -------------------------
(***************************************************************************)
(* A store that implements the ledger can be rebuilt from its log: each    *)
(* row is what the last event about it recorded.                           *)
(***************************************************************************)
EXTENDS AuditLedger, SequenceTheorems, TLAPS

LedgerInvariant ==
    /\ \E S : log \in Seq(S)
    /\ DOMAIN current = Keys
    /\ RowsFollowLog

LEMMA InitLedger == Init => LedgerInvariant
<1>. SUFFICES ASSUME Init PROVE LedgerInvariant
    OBVIOUS
<1>1. log \in Seq({})
    BY DEF Init
<1>2. DOMAIN current = Keys /\ RowsFollowLog
    BY DEF Init, RowsFollowLog
<1>3. QED BY <1>1, <1>2 DEF LedgerInvariant

LEMMA StepLedger == LedgerInvariant /\ [RecordEvent]_vars => LedgerInvariant'
<1>. SUFFICES ASSUME LedgerInvariant, [RecordEvent]_vars PROVE LedgerInvariant'
    OBVIOUS
<1>1. CASE UNCHANGED vars
    BY <1>1 DEF vars, LedgerInvariant, RowsFollowLog, LatestAt
<1>2. CASE RecordEvent
  <2>1. PICK S : log \in Seq(S)
    BY DEF LedgerInvariant
  <2>2. PICK n : n = Len(log)
    OBVIOUS
  <2>3. PICK event : event = log'[n + 1]
    OBVIOUS
  <2>4. /\ n \in Nat
        /\ event.case_id \in Keys
        /\ log' = Append(log, event)
        /\ current' = [current EXCEPT ![event.case_id] = event.record]
    BY <1>2, <2>1, <2>2, <2>3 DEF RecordEvent
  <2>5. log \in Seq(S \cup {event})
    BY <2>1
  <2>6. log' \in Seq(S \cup {event})
    BY <2>4, <2>5
  <2>7. /\ Len(log') = n + 1
        /\ log'[n + 1] = event
        /\ \A i \in 1 .. n : log'[i] = log[i]
    BY <2>2, <2>4, <2>5
  <2>8. ASSUME NEW k \in Keys
        PROVE  \/ current'[k] = Null /\ \A i \in 1 .. Len(log') : log'[i].case_id # k
               \/ \E i \in 1 .. Len(log') : LatestAt(k, i)' /\ current'[k] = log'[i].record
    <3>1. CASE k = event.case_id
      <4>1. LatestAt(k, n + 1)'
        BY <2>4, <2>7, <3>1 DEF LatestAt
      <4>2. current'[k] = log'[n + 1].record
        BY <2>4, <2>7, <3>1 DEF LedgerInvariant
      <4>3. n + 1 \in 1 .. Len(log')
        BY <2>4, <2>7
      <4>4. QED BY <4>1, <4>2, <4>3
    <3>2. CASE k # event.case_id
      <4>1. current'[k] = current[k]
        BY <2>4, <3>2 DEF LedgerInvariant
      <4>2. CASE current[k] = Null /\ \A i \in 1 .. Len(log) : log[i].case_id # k
        BY <2>2, <2>4, <2>7, <3>2, <4>1, <4>2
      <4>3. CASE \E i \in 1 .. Len(log) : LatestAt(k, i) /\ current[k] = log[i].record
        <5>1. PICK i \in 1 .. n : LatestAt(k, i) /\ current[k] = log[i].record
          BY <2>2, <4>3
        <5>2. LatestAt(k, i)'
          BY <2>2, <2>4, <2>7, <3>2, <5>1 DEF LatestAt
        <5>3. i \in 1 .. Len(log') /\ current'[k] = log'[i].record
          BY <2>4, <2>7, <4>1, <5>1
        <5>4. QED BY <5>2, <5>3
      <4>4. QED BY <4>2, <4>3 DEF LedgerInvariant, RowsFollowLog
    <3>3. QED BY <3>1, <3>2
  <2>9. RowsFollowLog'
    BY <2>8 DEF RowsFollowLog
  <2>10. DOMAIN current' = Keys
    BY <2>4 DEF LedgerInvariant
  <2>11. QED BY <2>6, <2>9, <2>10 DEF LedgerInvariant
<1>3. QED BY <1>1, <1>2

\* The log of a ledger alone determines its rows, so the decision and review
\* tables of a store that implements it are redundant with their histories.
THEOREM LogDeterminesRows == Spec => []RowsFollowLog
<1>1. LedgerInvariant => RowsFollowLog
    BY DEF LedgerInvariant
<1>2. QED BY <1>1, InitLedger, StepLedger, PTL DEF Spec
=============================================================================
