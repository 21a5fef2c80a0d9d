------------------------- MODULE AuditExportProofs -------------------------
(***************************************************************************)
(* The safety properties of the audit export, for every batch size, retry  *)
(* limit, stream and number of days.                                       *)
(*                                                                         *)
(* NoHealthyEventLost speaks of the records the event source is done with. *)
(* The invariant says what is known of the others, those of the batch in   *)
(* progress: each failed attempt that left such an event out of the bucket *)
(* cost a fault of its own, and the handler has noted every event behind   *)
(* it that is not in the bucket.                                           *)
(***************************************************************************)
EXTENDS AuditExport, TLAPS

\* Behind a running handler, what is not in the bucket is among the failures.
Noted ==
    Running => \A n \in position .. (at - 1) :
        stream[n].event_name = "INSERT" /\ ~Archived(n) => n \in failures

\* An event of the batch that is still missing has cost a fault in each attempt
\* so far, and one more if the running handler has been past it.
FaultsCoverAttempts ==
    \A n \in position .. batch_end :
        Healthy(n) /\ ~Archived(n) =>
            /\ faults >= attempts
            /\ Running /\ n < at => faults > attempts

\* The retries are counted for the batch in progress.
CountedPerBatch == ~InBatch => attempts = 0

Inv ==
    /\ TypeOK
    /\ Noted
    /\ FaultsCoverAttempts
    /\ CountedPerBatch
    /\ NoHealthyEventLost
    /\ OneObjectPerEvent

-----------------------------------------------------------------------------
(***************************************************************************)
(* What a step can do.                                                     *)
(***************************************************************************)

\* The counters are natural numbers, in this order.
LEMMA Counters ==
    ASSUME TypeOK
    PROVE  /\ position \in Nat /\ batch_end \in Int /\ attempts \in Nat
           /\ at \in Nat /\ faults \in Nat /\ Len(stream) \in Nat
           /\ batch_end >= position - 1 /\ batch_end <= Len(stream)
           /\ Running => position <= at /\ at <= batch_end + 1
BY ExportAssumption DEF TypeOK, Running

LEMMA InitInv == Init => Inv
BY ExportAssumption
DEF Init, Inv, TypeOK, Noted, FaultsCoverAttempts, CountedPerBatch, NoHealthyEventLost,
    OneObjectPerEvent, Running, InBatch, Day, Record

\* Counting a fault raises the count, until no more faults matter.
LEMMA FaultCounts ==
    ASSUME faults \in 0 .. (RetryAttempts + 1), Fault
    PROVE  /\ faults' \in 0 .. (RetryAttempts + 1)
           /\ faults' >= faults
           /\ \A k \in 0 .. RetryAttempts : faults >= k => faults' > k
BY ExportAssumption DEF Fault

\* A published record changes nothing of the records before it.
LEMMA PublishInv ==
    ASSUME Inv, NEW record \in Record, Publish(record)
    PROVE  Inv'
<1>1. /\ stream' \in Seq(Record)
      /\ Len(stream') = Len(stream) + 1
      /\ \A n \in 1 .. Len(stream) : stream'[n] = stream[n]
    BY DEF Inv, TypeOK, Publish
<1>2. UNCHANGED <<position, batch_end, attempts, at, failures, objects, today, faults>>
    BY DEF Publish, shard
<1>3. TypeOK'
    BY <1>1, <1>2, ExportAssumption DEF Inv, TypeOK, Running, InBatch
<1>4. \A n \in 1 .. Len(stream) :
          /\ Archived(n)' <=> Archived(n)
          /\ Healthy(n)' <=> Healthy(n)
    BY <1>1, <1>2 DEF Archived, Healthy
<1>5. position - 1 <= Len(stream) /\ batch_end <= Len(stream) /\ at - 1 <= Len(stream)
    BY ExportAssumption DEF Inv, TypeOK
<1>6. Noted'
  <2>1. \A n \in position .. (at - 1) : n \in 1 .. Len(stream)
      BY <1>5, Counters DEF Inv, TypeOK
  <2>2. QED BY <1>1, <1>2, <1>4, <2>1 DEF Inv, Noted, Running
<1>7. FaultsCoverAttempts'
  <2>1. \A n \in position .. batch_end : n \in 1 .. Len(stream)
      BY <1>5, Counters DEF Inv, TypeOK
  <2>2. QED BY <1>2, <1>4, <2>1 DEF Inv, FaultsCoverAttempts, Running
<1>8. CountedPerBatch'
    BY <1>2 DEF Inv, CountedPerBatch, InBatch
<1>9. NoHealthyEventLost' /\ OneObjectPerEvent'
    BY <1>1, <1>2, <1>4, <1>5 DEF Inv, TypeOK, NoHealthyEventLost, OneObjectPerEvent
<1>10. QED BY <1>3, <1>6, <1>7, <1>8, <1>9 DEF Inv

LEMMA NextDayInv ==
    ASSUME Inv, NextDay
    PROVE  Inv'
<1>1. UNCHANGED <<stream, position, batch_end, attempts, at, failures, objects, faults>>
    BY DEF NextDay, shard
<1>2. TypeOK'
    BY <1>1, ExportAssumption DEF Inv, TypeOK, NextDay, Day, Running, InBatch
<1>3. QED
    BY <1>1, <1>2 DEF Inv, Noted, FaultsCoverAttempts, CountedPerBatch, NoHealthyEventLost,
                      OneObjectPerEvent, Running, InBatch, Archived, Healthy

\* A new batch starts with no attempt counted.
LEMMA InvokeInv ==
    ASSUME Inv, Invoke
    PROVE  Inv'
<1>1. /\ at = 0 /\ at' = position
      /\ batch_end' \in position .. Len(stream)
      /\ InBatch => batch_end' = batch_end
      /\ UNCHANGED <<stream, position, attempts, failures, objects, today, faults>>
    BY DEF Inv, TypeOK, Invoke, Running, InBatch
<1>2. TypeOK'
  <2>1. failures \subseteq position .. batch_end'
    <3>1. CASE InBatch
        BY <1>1, <3>1 DEF Inv, TypeOK
    <3>2. CASE ~InBatch
      <4>1. batch_end < position /\ position \in Int /\ batch_end \in Int
          BY <3>2, Counters DEF Inv, InBatch
      <4>2. \A n \in position .. batch_end : FALSE
          BY <4>1
      <4>3. QED BY <4>2, Zenon DEF Inv, TypeOK
    <3>3. QED BY <3>1, <3>2
  <2>2. /\ batch_end' \in (position' - 1) .. Len(stream')
        /\ at' \in {0} \cup position' .. (batch_end' + 1)
        /\ Running' => InBatch'
      BY <1>1, Counters DEF Inv, Running, InBatch
  <2>3. failures' \subseteq position' .. batch_end'
      BY <1>1, <2>1
  <2>4. QED BY <1>1, <2>2, <2>3 DEF Inv, TypeOK
<1>3. Noted' /\ CountedPerBatch'
    BY <1>1 DEF Inv, TypeOK, Noted, CountedPerBatch, Running, InBatch
<1>4. FaultsCoverAttempts'
    BY <1>1, ExportAssumption
    DEF Inv, TypeOK, FaultsCoverAttempts, CountedPerBatch, Running, InBatch, Archived, Healthy
<1>5. NoHealthyEventLost' /\ OneObjectPerEvent'
    BY <1>1 DEF Inv, NoHealthyEventLost, OneObjectPerEvent, Archived, Healthy
<1>6. QED BY <1>2, <1>3, <1>4, <1>5 DEF Inv

-----------------------------------------------------------------------------
(***************************************************************************)
(* The handler.                                                            *)
(***************************************************************************)

\* The handler stores the object of an insertion, or notes it as a failure; a
\* healthy event that it does not store costs a fault.
LEMMA ExportRecordInv ==
    ASSUME Inv, ExportRecord
    PROVE  Inv'
<1>1. /\ at # 0 /\ at \in position .. batch_end /\ at \in 1 .. Len(stream)
      /\ at' = at + 1
      /\ UNCHANGED <<stream, position, batch_end, attempts, today>>
    BY Counters DEF Inv, TypeOK, ExportRecord, Running, shard
<1>2. stream[at] \in Record
    BY <1>1 DEF Inv, TypeOK
<1>3. /\ Key(at) \in [dt : Day, event : 1 .. Len(stream)]
      /\ Key(at).event = at
      /\ stream[at].recorded_at # Undated => Key(at).dt = stream[at].recorded_at
    BY <1>1, <1>2 DEF Inv, TypeOK, Key, DatePartition, Record
<1>4. /\ objects' \in {objects, objects \cup {Key(at)}}
      /\ objects' # objects => Healthy(at)
      /\ failures' \in {failures, failures \cup {at}}
      /\ faults' = faults \/ Fault
      /\ stream[at].event_name = "INSERT" =>
             Key(at) \in objects' \/ at \in failures'
      /\ Healthy(at) => Key(at) \in objects' \/ Fault
    BY DEF ExportRecord, Healthy
<1>5. /\ faults' \in 0 .. (RetryAttempts + 1)
      /\ faults' >= faults
    BY <1>4, FaultCounts, ExportAssumption DEF Inv, TypeOK
<1>6. TypeOK'
    BY <1>1, <1>3, <1>4, <1>5, Counters DEF Inv, TypeOK, Running, InBatch
<1>7. \A n \in Nat : Archived(n) => Archived(n)'
    BY <1>4 DEF Archived
<1>8. \A n : n = at /\ stream[n].event_name = "INSERT" =>
          (\E object \in objects' : object.event = n) \/ n \in failures'
    BY <1>1, <1>3, <1>4
<1>9. Noted'
  <2>1. SUFFICES ASSUME NEW n \in position .. at,
                        stream[n].event_name = "INSERT", ~Archived(n)'
                 PROVE  n \in failures'
      BY <1>1, Counters DEF Inv, Noted
  <2>2. CASE n = at
      BY <1>8, <2>1, <2>2 DEF Archived
  <2>3. CASE n # at
    <3>1. n \in position .. (at - 1) /\ n \in Nat
        BY <2>3, Counters DEF Inv
    <3>2. QED BY <1>1, <1>4, <1>7, <2>1, <3>1 DEF Inv, Noted, Running
  <2>4. QED BY <2>2, <2>3
<1>10. FaultsCoverAttempts'
  <2>1. SUFFICES ASSUME NEW n \in position .. batch_end, Healthy(n), ~Archived(n)'
                 PROVE  /\ faults' >= attempts
                        /\ n < at + 1 => faults' > attempts
      BY <1>1 DEF FaultsCoverAttempts, Healthy
  <2>2. n \in Nat /\ ~Archived(n)
      BY <1>7, <2>1, Counters DEF Inv
  <2>3. faults >= attempts /\ (n < at => faults > attempts)
      BY <1>1, <2>1, <2>2 DEF Inv, FaultsCoverAttempts, Running
  <2>4. n = at => faults' > attempts
    <3>1. n = at => Fault
        BY <1>3, <1>4, <2>1 DEF Archived
    <3>2. QED BY <2>3, <3>1, FaultCounts DEF Inv, TypeOK
  <2>5. QED BY <1>5, <2>3, <2>4, Counters DEF Inv
<1>11. CountedPerBatch' /\ NoHealthyEventLost'
    BY <1>1, <1>5, <1>7, Counters, ExportAssumption
    DEF Inv, CountedPerBatch, InBatch, NoHealthyEventLost, Healthy
<1>12. OneObjectPerEvent'
    BY <1>1, <1>3, <1>4 DEF Inv, OneObjectPerEvent, Healthy
<1>13. QED BY <1>6, <1>9, <1>10, <1>11, <1>12 DEF Inv

-----------------------------------------------------------------------------
(***************************************************************************)
(* The end of an invocation.                                               *)
(***************************************************************************)

\* A failed batch is repeated in part or given up: what it leaves behind is in
\* the bucket or has cost more faults than there are retries.
LEMMA RetryInv ==
    ASSUME Inv, Running, NEW resume \in position .. batch_end,
           Retry(resume), at' = 0, failures' = {},
           UNCHANGED <<stream, objects, today>>,
           faults' \in 0 .. (RetryAttempts + 1), faults' >= faults,
           \A n \in position .. (resume - 1) : Healthy(n) => Archived(n),
           \A n \in resume .. batch_end : Healthy(n) /\ ~Archived(n) => faults' > attempts
    PROVE  Inv'
<1>1. /\ position' \in 1 .. (Len(stream) + 1)
      /\ batch_end' \in (position' - 1) .. Len(stream)
      /\ attempts' \in 0 .. RetryAttempts
  <2>1. /\ position \in Nat \ {0} /\ batch_end \in Nat /\ attempts \in Nat
        /\ batch_end <= Len(stream) /\ Len(stream) \in Nat /\ RetryAttempts \in Nat
      BY Counters, ExportAssumption DEF Inv, TypeOK
  <2>2. resume \in Nat \ {0} /\ position <= resume /\ resume <= batch_end
      BY <2>1
  <2>3. CASE position' = resume
    <3>1. /\ batch_end' \in Int /\ resume - 1 <= batch_end' /\ batch_end' <= batch_end
          /\ attempts' \in 0 .. RetryAttempts
        BY <2>1, <2>2, <2>3 DEF Inv, TypeOK, Retry, Advance
    <3>2. QED BY <2>1, <2>2, <2>3, <3>1
  <2>4. CASE position' # resume
    <3>1. Advance(batch_end + 1)
        BY <2>4 DEF Retry
    <3>2. QED BY <2>1, <3>1 DEF Advance
  <2>5. QED BY <2>3, <2>4
<1>2. TypeOK'
    BY <1>1 DEF Inv, TypeOK, Running
<1>3. Noted' /\ CountedPerBatch'
    BY Counters DEF Inv, Noted, CountedPerBatch, Running, InBatch, Retry, Advance
<1>4. \A n : (Archived(n)' <=> Archived(n)) /\ (Healthy(n)' <=> Healthy(n))
    BY DEF Archived, Healthy
<1>5. FaultsCoverAttempts'
  <2>1. SUFFICES ASSUME NEW n \in position' .. batch_end', Healthy(n), ~Archived(n)
                 PROVE  faults' >= attempts'
      BY <1>4 DEF FaultsCoverAttempts, Running
  <2>2. attempts \in Nat /\ RetryAttempts \in Nat /\ faults' \in Int
      BY Counters, ExportAssumption DEF Inv
  <2>3. CASE position' = resume
    <3>1. batch_end' <= batch_end /\ attempts' <= attempts + 1 /\ attempts' \in Int
        BY <1>1, <2>2, <2>3, Counters DEF Inv, Retry, Advance
    <3>2. n \in resume .. batch_end
        BY <1>1, <2>1, <2>3, <3>1, Counters DEF Inv
    <3>3. QED BY <2>1, <2>2, <3>1, <3>2
  <2>4. CASE position' # resume
    <3>1. position' = batch_end + 1 /\ batch_end' = batch_end
        BY <2>4, Counters DEF Inv, Retry, Advance
    <3>2. QED BY <2>1, <3>1, Counters DEF Inv
  <2>5. QED BY <2>3, <2>4
<1>6. NoHealthyEventLost'
  <2>1. SUFFICES ASSUME NEW n \in 1 .. (position' - 1), Healthy(n), ~Archived(n)
                 PROVE  faults' > RetryAttempts
      BY <1>4 DEF NoHealthyEventLost
  <2>2. CASE n < position
      BY <2>1, <2>2, Counters, ExportAssumption DEF Inv, NoHealthyEventLost
  <2>3. CASE n >= position /\ n < resume
      BY <2>1, <2>3, Counters DEF Inv
  <2>4. CASE n >= resume
    <3>1. n \in resume .. batch_end /\ attempts = RetryAttempts
        BY <2>1, <2>4, Counters, ExportAssumption DEF Inv, Retry, Advance
    <3>2. QED BY <2>1, <3>1
  <2>5. QED BY <2>2, <2>3, <2>4, Counters DEF Inv
<1>7. OneObjectPerEvent'
    BY <1>4 DEF Inv, OneObjectPerEvent
<1>8. QED BY <1>2, <1>3, <1>5, <1>6, <1>7 DEF Inv

LEMMA ReturnInv ==
    ASSUME Inv, Return
    PROVE  Inv'
<1>1. /\ Running /\ at > batch_end /\ at' = 0 /\ failures' = {}
      /\ UNCHANGED <<stream, objects, today, faults>>
    BY DEF Return
<1>2. /\ \A n \in position .. batch_end : Healthy(n) /\ ~Archived(n) => n \in failures
      /\ \A n \in position .. batch_end : Healthy(n) /\ ~Archived(n) => faults > attempts
    BY <1>1, Counters DEF Inv, Noted, FaultsCoverAttempts, Healthy
<1>3. CASE failures = {}
  <2>1. /\ position' = batch_end + 1 /\ batch_end' = batch_end /\ attempts' = 0
      BY <1>3, Counters DEF Inv, Return, Advance
  <2>2. TypeOK'
      BY <1>1, <2>1, Counters, ExportAssumption DEF Inv, TypeOK, Running
  <2>3. Noted' /\ FaultsCoverAttempts' /\ CountedPerBatch'
      BY <1>1, <2>1, Counters DEF Inv, Noted, FaultsCoverAttempts, CountedPerBatch, Running
  <2>4. \A n : (Archived(n)' <=> Archived(n)) /\ (Healthy(n)' <=> Healthy(n))
      BY <1>1 DEF Archived, Healthy
  <2>5. NoHealthyEventLost' /\ OneObjectPerEvent'
      BY <1>1, <1>2, <1>3, <2>1, <2>4, Counters DEF Inv, NoHealthyEventLost, OneObjectPerEvent
  <2>6. QED BY <2>2, <2>3, <2>5 DEF Inv
<1>4. CASE failures # {}
  <2>1. PICK resume \in position .. batch_end :
            /\ \A n \in failures : resume <= n
            /\ Retry(resume)
      BY <1>4 DEF Return
  <2>2. \A n \in position .. (resume - 1) : Healthy(n) => Archived(n)
      BY <1>2, <2>1, Counters DEF Inv
  <2>3. \A n \in resume .. batch_end : Healthy(n) /\ ~Archived(n) => faults' > attempts
      BY <1>1, <1>2, <2>1, Counters DEF Inv
  <2>4. faults' \in 0 .. (RetryAttempts + 1) /\ faults' >= faults
      BY <1>1, Counters DEF Inv, TypeOK
  <2>5. QED BY <1>1, <2>1, <2>2, <2>3, <2>4, RetryInv
<1>5. QED BY <1>3, <1>4

LEMMA CrashInv ==
    ASSUME Inv, Crash
    PROVE  Inv'
<1>1. /\ Running /\ at' = 0 /\ failures' = {} /\ Retry(position) /\ Fault
      /\ UNCHANGED <<stream, objects, today>>
    BY DEF Crash
<1>2. position \in position .. batch_end /\ attempts \in 0 .. RetryAttempts
    BY <1>1, Counters DEF Inv, TypeOK, InBatch
<1>3. /\ faults' \in 0 .. (RetryAttempts + 1) /\ faults' >= faults
      /\ faults >= attempts => faults' > attempts
    BY <1>1, <1>2, FaultCounts DEF Inv, TypeOK
<1>4. \A n \in position .. batch_end : Healthy(n) /\ ~Archived(n) => faults' > attempts
    BY <1>3 DEF Inv, FaultsCoverAttempts
<1>5. \A n \in position .. (position - 1) : Healthy(n) => Archived(n)
    BY Counters DEF Inv
<1>6. QED BY <1>1, <1>2, <1>3, <1>4, <1>5, RetryInv

-----------------------------------------------------------------------------
(***************************************************************************)
(* The theorems.                                                           *)
(***************************************************************************)

\* The invariant holds throughout.
LEMMA Invariance == Spec => []Inv
<1>1. Inv /\ [Next]_vars => Inv'
  <2>1. SUFFICES ASSUME Inv, [Next]_vars PROVE Inv'
      OBVIOUS
  <2>2. CASE UNCHANGED vars
    <3>1. /\ UNCHANGED <<stream, position, batch_end, attempts, at>>
          /\ UNCHANGED <<failures, objects, today, faults>>
        BY <2>2 DEF vars, shard
    <3>2. TypeOK' /\ CountedPerBatch' /\ OneObjectPerEvent'
        BY <2>1, <3>1 DEF Inv, TypeOK, CountedPerBatch, OneObjectPerEvent, Running, InBatch, Healthy
    <3>3. Noted' /\ FaultsCoverAttempts' /\ NoHealthyEventLost'
        BY <2>1, <3>1 DEF Inv, Noted, FaultsCoverAttempts, NoHealthyEventLost, Running, Archived, Healthy
    <3>4. QED BY <3>2, <3>3 DEF Inv
  <2>3. CASE Next
      BY <2>1, <2>3, PublishInv, NextDayInv, InvokeInv, ExportRecordInv, ReturnInv, CrashInv
      DEF Next
  <2>4. QED BY <2>1, <2>2, <2>3
<1>2. QED BY <1>1, InitInv, PTL DEF Spec

\* The state of the export is always well-typed.
THEOREM ExportTyped == Spec => []TypeOK
BY Invariance, PTL DEF Inv

\* However events are batched, repeated and cut short, one that can be exported
\* is lost only to more faults than there are retries.
THEOREM ExportLosesNothing == Spec => []NoHealthyEventLost
BY Invariance, PTL DEF Inv

\* Exporting an event again, on whatever day, does not add a second object.
THEOREM ExportIsIdempotent == Spec => []OneObjectPerEvent
BY Invariance, PTL DEF Inv

\* The event source gives up an event that is not in the bucket only when the
\* retries are used up.
THEOREM ExportRetriesFully == Spec => GivenUpAfterRetries
<1>1. Inv /\ [Next]_vars =>
          [\A n \in 1 .. Len(stream) :
              /\ position <= n
              /\ n < position'
              /\ stream[n].event_name = "INSERT"
              /\ ~Archived(n)
              => attempts = RetryAttempts]_vars
  <2>1. SUFFICES ASSUME Inv, Next, NEW n \in 1 .. Len(stream), position <= n, n < position',
                        stream[n].event_name = "INSERT", ~Archived(n)
                 PROVE  attempts = RetryAttempts
      OBVIOUS
  <2>2. position' # position
      BY <2>1, Counters DEF Inv
  <2>3. Return \/ Crash
      BY <2>1, <2>2 DEF Next, Publish, NextDay, Invoke, ExportRecord, shard
  <2>4. CASE Crash
      BY <2>1, <2>4, Counters, ExportAssumption DEF Inv, Crash, Retry, Advance
  <2>5. CASE Return
    <3>1. Running /\ at > batch_end
        BY <2>5 DEF Return
    <3>2. n \in failures \/ n > batch_end
        BY <2>1, <3>1, Counters DEF Inv, Noted
    <3>3. CASE failures = {}
        BY <2>1, <2>5, <3>2, <3>3, Counters DEF Inv, Return, Advance
    <3>4. CASE failures # {}
      <4>1. PICK resume \in position .. batch_end :
                /\ \A f \in failures : resume <= f
                /\ Retry(resume)
          BY <2>5, <3>4 DEF Return
      <4>2. resume <= n
          BY <2>1, <3>2, <4>1, Counters DEF Inv
      <4>3. position' = resume \/ attempts = RetryAttempts
          BY <4>1 DEF Retry
      <4>4. QED BY <2>1, <4>2, <4>3, Counters DEF Inv
    <3>5. QED BY <3>3, <3>4
  <2>6. QED BY <2>3, <2>4, <2>5
<1>2. QED BY <1>1, Invariance, PTL DEF Spec, GivenUpAfterRetries
=============================================================================
