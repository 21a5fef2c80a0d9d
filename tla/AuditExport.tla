---------------------------- MODULE AuditExport ----------------------------
(***************************************************************************)
(* The export of the audit trail: the records of a history table's stream, *)
(* handed in batches to infra/lambda/audit_export, which writes each event *)
(* as one object of the bucket.                                            *)
(*                                                                         *)
(* The handler goes through its batch record by record and reports those   *)
(* that raised.  The event source around it (Lambda, as configured in      *)
(* infra/api_stack.py) is external: it invokes the handler on the records  *)
(* after its position, and after a failure invokes it again on the rest of *)
(* the batch or on a first part of that, until the retries are used up and *)
(* the rest of the batch is dropped.  The handler reports an event id,     *)
(* where the event source expects a sequence number, so how much of the    *)
(* batch before the first failure is repeated is left open.                *)
(*                                                                         *)
(* ExportSwallowing, ExportUntilFailure, ExportDayPartition,               *)
(* RetriesWithoutLimit and ReturnKeepingFailures are slips of the          *)
(* definitions after them.                                                 *)
(***************************************************************************)
EXTENDS Integers, Sequences

CONSTANTS
    BatchSize,      \* batch_size
    RetryAttempts,  \* retry_attempts
    MaxRecords,     \* no event is published once the stream holds this many
    LastDay,        \* days are counted up to here
    Undated         \* a recorded_at that is missing or no date

ASSUME ExportAssumption ==
    /\ BatchSize \in Nat \ {0}
    /\ RetryAttempts \in Nat
    /\ MaxRecords \in Nat
    /\ LastDay \in Nat
    /\ Undated \notin Nat

VARIABLES
    stream,    \* the records of the shard, in the order of the table's writes
    position,  \* the first record that the event source is not done with
    batch_end, \* the last record of the batch in progress; before position: none
    attempts,  \* how often that batch has failed
    at,        \* the record the running handler is at; 0: no handler runs
    failures,  \* batch_item_failures
    objects,   \* the objects of the bucket
    today,
    faults     \* S3 errors and stopped invocations so far, as far as it matters

shard == <<position, batch_end, attempts>>
vars == <<stream, shard, at, failures, objects, today, faults>>

Day == 0 .. LastDay

\* A record that the handler cannot convert or write is poison.
Record ==
    [event_name : {"INSERT", "REMOVE"}, recorded_at : Day \cup {Undated}, poison : BOOLEAN]

InBatch == batch_end >= position
Running == at # 0

Init ==
    /\ stream = <<>>
    /\ position = 1
    /\ batch_end = 0
    /\ attempts = 0
    /\ at = 0
    /\ failures = {}
    /\ objects = {}
    /\ today = 0
    /\ faults = 0

-----------------------------------------------------------------------------
(***************************************************************************)
(* The table and the clock.                                                *)
(***************************************************************************)

\* A history entry is put, stamped with the day, or a record that this program
\* does not write turns up: an undated or unreadable one, or a removal.
Publish(record) ==
    /\ Len(stream) < MaxRecords
    /\ record.recorded_at \in {today, Undated}
    /\ stream' = Append(stream, record)
    /\ UNCHANGED <<shard, at, failures, objects, today, faults>>

NextDay ==
    /\ today < LastDay
    /\ today' = today + 1
    /\ UNCHANGED <<stream, shard, at, failures, objects, faults>>

-----------------------------------------------------------------------------
(***************************************************************************)
(* The handler.                                                            *)
(***************************************************************************)

ExportDayPartition(recorded_at) == today

\* _date_partition: the day of the event, or of the export for want of one.
DatePartition(recorded_at) == IF recorded_at = Undated THEN today ELSE recorded_at

\* The key of the object of the n-th event; the event id is its place in the stream.
Key(n) == [dt |-> DatePartition(stream[n].recorded_at), event |-> n]

\* One more thing went wrong.  Past RetryAttempts nothing depends on the number.
Fault == faults' = IF faults > RetryAttempts THEN faults ELSE faults + 1

ExportSwallowing ==
    /\ Running
    /\ at <= batch_end
    /\ at' = at + 1
    /\ \/ /\ stream[at].event_name = "INSERT" /\ ~stream[at].poison
          /\ objects' = objects \cup {Key(at)}
          /\ UNCHANGED faults
       \/ Fault /\ UNCHANGED objects
       \/ (stream[at].event_name # "INSERT" \/ stream[at].poison) /\ UNCHANGED <<objects, faults>>
    /\ UNCHANGED <<stream, shard, failures, today>>

ExportUntilFailure ==
    /\ Running
    /\ at <= batch_end
    /\ \/ /\ stream[at].event_name = "INSERT" => stream[at].poison
          /\ UNCHANGED <<objects, faults>>
       \/ /\ stream[at].event_name = "INSERT" /\ ~stream[at].poison
          /\ objects' = objects \cup {Key(at)}
          /\ UNCHANGED faults
    /\ IF stream[at].event_name = "INSERT" /\ stream[at].poison
       THEN at' = batch_end + 1 /\ failures' = failures \cup {at}
       ELSE at' = at + 1 /\ UNCHANGED failures
    /\ UNCHANGED <<stream, shard, today>>

\* One turn of the handler's loop.  Only an insertion is exported; whatever
\* raises is noted and the loop goes on.  A put_object that raises may have
\* stored the object all the same.
ExportRecord ==
    /\ Running
    /\ at <= batch_end
    /\ at' = at + 1
    /\ \/ /\ stream[at].event_name # "INSERT"
          /\ UNCHANGED <<objects, failures, faults>>
       \/ /\ stream[at].event_name = "INSERT"
          /\ stream[at].poison
          /\ failures' = failures \cup {at}
          /\ UNCHANGED <<objects, faults>>
       \/ /\ stream[at].event_name = "INSERT"
          /\ ~stream[at].poison
          /\ objects' = objects \cup {Key(at)}
          /\ UNCHANGED <<failures, faults>>
       \/ /\ stream[at].event_name = "INSERT"
          /\ ~stream[at].poison
          /\ objects' \in {objects, objects \cup {Key(at)}}
          /\ failures' = failures \cup {at}
          /\ Fault
    /\ UNCHANGED <<stream, shard, today>>

-----------------------------------------------------------------------------
(***************************************************************************)
(* The event source.                                                       *)
(***************************************************************************)

\* Invokes the handler on the batch in progress, or on a new one.
Invoke ==
    /\ ~Running
    /\ position <= Len(stream)
    /\ at' = position
    /\ IF InBatch THEN UNCHANGED batch_end
       ELSE batch_end' \in {n \in position .. Len(stream) : n < position + BatchSize}
    /\ UNCHANGED <<stream, position, attempts, failures, objects, today, faults>>

\* The event source is done with the records before n.
Advance(n) ==
    /\ position' = n
    /\ batch_end' = n - 1
    /\ attempts' = 0

RetriesWithoutLimit(resume) ==
    /\ position' = resume
    /\ UNCHANGED <<batch_end, attempts>>

\* After a failure, with the batch to be repeated from resume on: once more, or
\* only its first part (bisect_batch_on_error, which may or may not count as a
\* retry), or not at all, as there is no retry left.
Retry(resume) ==
    \/ /\ attempts < RetryAttempts
       /\ position' = resume
       /\ attempts' = attempts + 1
       /\ UNCHANGED batch_end
    \/ /\ batch_end > resume
       /\ position' = resume
       /\ batch_end' \in resume .. (batch_end - 1)
       /\ attempts' \in {attempts, IF attempts < RetryAttempts THEN attempts + 1 ELSE attempts}
    \/ /\ attempts = RetryAttempts
       /\ Advance(batch_end + 1)

ReturnKeepingFailures ==
    /\ Running
    /\ at > batch_end
    /\ at' = 0
    /\ IF failures = {} THEN Advance(batch_end + 1)
       ELSE \E resume \in position .. batch_end :
                /\ \A n \in failures : resume <= n
                /\ Retry(resume)
    /\ UNCHANGED <<stream, failures, objects, today, faults>>

\* The handler has been through its batch and returns batchItemFailures.
Return ==
    /\ Running
    /\ at > batch_end
    /\ at' = 0
    /\ failures' = {}
    /\ IF failures = {} THEN Advance(batch_end + 1)
       ELSE \E resume \in position .. batch_end :
                /\ \A n \in failures : resume <= n
                /\ Retry(resume)
    /\ UNCHANGED <<stream, objects, today, faults>>

\* The invocation ends without an answer: it times out or the process dies.
Crash ==
    /\ Running
    /\ at' = 0
    /\ failures' = {}
    /\ Retry(position)
    /\ Fault
    /\ UNCHANGED <<stream, objects, today>>

-----------------------------------------------------------------------------
Next ==
    \/ \E record \in Record : Publish(record)
    \/ NextDay
    \/ Invoke
    \/ ExportRecord
    \/ Return
    \/ Crash

\* The event source polls, and an invocation goes on until it ends: by itself
\* or at its time limit.
Fairness == WF_vars(Invoke) /\ WF_vars(ExportRecord \/ Return)

Spec == Init /\ [][Next]_vars /\ Fairness

-----------------------------------------------------------------------------
\* The positions are those of records, and the handler is within its batch.
TypeOK ==
    /\ stream \in Seq(Record)
    /\ position \in 1 .. (Len(stream) + 1)
    /\ batch_end \in (position - 1) .. Len(stream)
    /\ attempts \in 0 .. RetryAttempts
    /\ at \in {0} \cup position .. (batch_end + 1)
    /\ Running => InBatch
    /\ failures \subseteq position .. batch_end
    /\ objects \subseteq [dt : Day, event : 1 .. Len(stream)]
    /\ today \in Day
    /\ faults \in 0 .. (RetryAttempts + 1)

Archived(n) == \E object \in objects : object.event = n

Healthy(n) == stream[n].event_name = "INSERT" /\ ~stream[n].poison

\* An event that can be exported is lost only if more went wrong on the way than
\* the retries make up for: neither a neighbour in its batch that always fails,
\* nor a batch cut short or repeated from its middle, leaves it behind.
NoHealthyEventLost ==
    \A n \in 1 .. (position - 1) :
        Healthy(n) => Archived(n) \/ faults > RetryAttempts

\* What the bucket holds are insertions, and however often and on whatever days
\* a dated event is exported, it is one object, in the partition of its own day.
OneObjectPerEvent ==
    \A object \in objects :
        /\ Healthy(object.event)
        /\ stream[object.event].recorded_at # Undated =>
               object.dt = stream[object.event].recorded_at

\* No event is given up early: the event source passes an insertion that is not
\* in the bucket only after the first attempt and all the retries have failed.
GivenUpAfterRetries ==
    [][\A n \in 1 .. Len(stream) :
          /\ position <= n
          /\ n < position'
          /\ stream[n].event_name = "INSERT"
          /\ ~Archived(n)
          => attempts = RetryAttempts]_vars

\* "Poison records must not block a shard": every record is passed in the end,
\* whatever records the table emits and however often S3 or the function fails.
ShardAdvances ==
    \A n \in 1 .. MaxRecords : n <= Len(stream) ~> position > n

\* An event that can be exported reaches the bucket, unless more goes wrong than
\* the retries make up for.
HealthyEventsArrive ==
    \A n \in 1 .. MaxRecords :
        n <= Len(stream) /\ Healthy(n) ~> Archived(n) \/ faults > RetryAttempts
=============================================================================
