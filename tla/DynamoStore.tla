---------------------------- MODULE DynamoStore ----------------------------
(***************************************************************************)
(* The handlers of app/main.py over the DynamoDB store                     *)
(* (app/storage_dynamodb.py).                                              *)
(*                                                                         *)
(* save_review and save_decision stamp the time, put the row and put its   *)
(* history item: three steps, with nothing that joins them.  get_decision  *)
(* is an eventually consistent read: it returns some version the row has   *)
(* had, or none, however old (the service keeps the delay short, but gives *)
(* no bound).  A put is atomic, and no put is conditional.  The clocks of  *)
(* the workers are taken to agree (clock); the item key is the time and a  *)
(* random suffix, so here the time alone.                                  *)
(*                                                                         *)
(* RecordDecisionEarly, PutDecisionEarly, RecordReviewEarly, StampOnce and *)
(* StartAnyReview are slips of the definitions after them.                 *)
(***************************************************************************)
EXTENDS ReviewRecords, Sequences

CONSTANTS
    Cases,          \* case ids
    Workers,        \* handlers that can be in progress at once
    AuthContexts,   \* the authenticated users
    Verdicts,       \* what evaluations can say
    Submissions,    \* what reviewers can submit
    MaxSaves        \* no request is taken once this many saves have begun

ASSUME StoreAssumption ==
    /\ AuthContexts \subseteq AuthContext
    /\ Verdicts \subseteq Verdict
    /\ Submissions \subseteq Submission
    /\ None \notin DecisionRecord
    /\ None \notin ReviewRecord
    /\ MaxSaves \in Nat

VARIABLES
    decisions,         \* for each case the versions of its item, the last one current
    decision_history,  \* the items of the history table
    reviews,
    review_history,
    request,           \* for each worker, what its handler still has to write
    clock              \* the latest time a save was stamped with

tables == <<decisions, decision_history, reviews, review_history>>
vars == <<tables, request, clock>>

Time == Nat \ {0}

DecisionEvent ==
    {"decision_evaluated", "review_assigned", "review_started",
     "review_completed", "case_reopened"}

DecisionVersion == [recorded_at : Time, record : DecisionRecord]
ReviewVersion == [recorded_at : Time, record : ReviewRecord]

DecisionItem ==
    [case_id : Cases, recorded_at : Time, event_type : DecisionEvent,
     actor : AuthContext, record : DecisionRecord]

ReviewItem ==
    [case_id : Cases, recorded_at : Time, event_type : {"review_submitted"},
     actor : AuthContext, record : ReviewRecord]

\* The saves that are left, first of the review if there is one; the time the
\* first of them is stamped with, or 0; and whether it has put its row.
Request ==
    [case_id : Cases, event_type : DecisionEvent, actor : AuthContext,
     review : ReviewRecord \cup {None}, decision : DecisionRecord,
     recorded_at : Nat, row_put : BOOLEAN]

NoRequest == [event_type |-> "none"]

Busy(w) == request[w] # NoRequest

Init ==
    /\ decisions = [c \in Cases |-> <<>>]
    /\ decision_history = {}
    /\ reviews = [c \in Cases |-> <<>>]
    /\ review_history = {}
    /\ request = [w \in Workers |-> NoRequest]
    /\ clock = 0

-----------------------------------------------------------------------------
(***************************************************************************)
(* Handlers, each with the row that its read returned.                     *)
(***************************************************************************)

\* What get_decision can return.
Readable(case_id) ==
    {None} \cup {decisions[case_id][i].record : i \in 1 .. Len(decisions[case_id])}

Admits(w, user, roles) ==
    /\ ~Busy(w)
    /\ user.role \in roles
    /\ clock < MaxSaves

Plan(w, case_id, event_type, user, review, decision) ==
    /\ request' = [request EXCEPT ![w] =
           [case_id |-> case_id, event_type |-> event_type, actor |-> user,
            review |-> review, decision |-> decision,
            recorded_at |-> 0, row_put |-> FALSE]]
    /\ UNCHANGED <<tables, clock>>

UnderReview(row) == row # None /\ row.review_required

MayReview(user, row) == row.assigned_reviewer_id \in {None, user.user_id}

EvaluateCase(w, user, case_id, verdict) ==
    /\ Admits(w, user, {"employee", "compliance_analyst", "compliance_manager"})
    /\ Plan(w, case_id, "decision_evaluated", user, None, Fresh(verdict))

AssignReview(w, user, case_id, row, reviewer_id) ==
    /\ Admits(w, user, {"compliance_manager"})
    /\ UnderReview(row)
    /\ row.review_status # "completed"
    /\ Plan(w, case_id, "review_assigned", user, None, Assigned(row, reviewer_id))

StartAnyReview(w, user, case_id, row) ==
    /\ Admits(w, user, {"compliance_analyst", "compliance_manager"})
    /\ row # None
    /\ MayReview(user, row)
    /\ Plan(w, case_id, "review_started", user, None, Started(row, user.user_id))

StartReview(w, user, case_id, row) ==
    /\ Admits(w, user, {"compliance_analyst", "compliance_manager"})
    /\ UnderReview(row)
    /\ MayReview(user, row)
    /\ Plan(w, case_id, "review_started", user, None, Started(row, user.user_id))

SubmitReview(w, user, case_id, row, submission) ==
    /\ Admits(w, user, {"compliance_analyst", "compliance_manager"})
    /\ UnderReview(row)
    /\ submission.final_decision # "human_review_required"
    /\ MayReview(user, row)
    /\ Plan(w, case_id, "review_completed", user,
            [reviewer_id |-> user.user_id, outcome |-> submission.outcome,
             final_decision |-> submission.final_decision],
            Finalized(row, user.user_id, submission))

ReopenReview(w, user, case_id, row, reason) ==
    /\ Admits(w, user, {"compliance_manager"})
    /\ row # None
    /\ row.review_status = "completed"
    /\ Plan(w, case_id, "case_reopened", user, None, Reopened(row, reason))

-----------------------------------------------------------------------------
(***************************************************************************)
(* save_review, then save_decision.                                        *)
(***************************************************************************)

Stamped(w) == Busy(w) /\ request[w].recorded_at # 0

StampOnce(w) ==
    /\ Busy(w)
    /\ ~Stamped(w)
    /\ clock' = IF clock = 0 THEN 1 ELSE clock
    /\ request' = [request EXCEPT ![w].recorded_at = clock']
    /\ UNCHANGED tables

\* recorded_at = datetime.now, before the puts.
StampSave(w) ==
    /\ Busy(w)
    /\ ~Stamped(w)
    /\ clock' = clock + 1
    /\ request' = [request EXCEPT ![w].recorded_at = clock']
    /\ UNCHANGED tables

Version(w, record) == [recorded_at |-> request[w].recorded_at, record |-> record]

ReviewItemOf(r) ==
    [case_id |-> r.case_id, recorded_at |-> r.recorded_at,
     event_type |-> "review_submitted", actor |-> r.actor, record |-> r.review]

DecisionItemOf(r) ==
    [case_id |-> r.case_id, recorded_at |-> r.recorded_at,
     event_type |-> r.event_type, actor |-> r.actor, record |-> r.decision]

PutReview(w) ==
    /\ Stamped(w)
    /\ request[w].review # None
    /\ ~request[w].row_put
    /\ reviews' = [reviews EXCEPT ![request[w].case_id] =
           Append(@, Version(w, request[w].review))]
    /\ request' = [request EXCEPT ![w].row_put = TRUE]
    /\ UNCHANGED <<decisions, decision_history, review_history, clock>>

\* The save has ended; the next one will be stamped and put anew.
EndSave(w) ==
    request' = [request EXCEPT ![w].review = None, ![w].recorded_at = 0, ![w].row_put = FALSE]

RecordReviewEarly(w) ==
    /\ Stamped(w)
    /\ request[w].review # None
    /\ review_history' = review_history \cup {ReviewItemOf(request[w])}
    /\ EndSave(w)
    /\ UNCHANGED <<decisions, decision_history, reviews, clock>>

RecordReview(w) ==
    /\ Stamped(w)
    /\ request[w].review # None
    /\ request[w].row_put
    /\ review_history' = review_history \cup {ReviewItemOf(request[w])}
    /\ EndSave(w)
    /\ UNCHANGED <<decisions, decision_history, reviews, clock>>

PutDecisionEarly(w) ==
    /\ Stamped(w)
    /\ ~request[w].row_put
    /\ decisions' = [decisions EXCEPT ![request[w].case_id] =
           Append(@, Version(w, request[w].decision))]
    /\ request' = [request EXCEPT ![w].row_put = TRUE, ![w].review = None]
    /\ UNCHANGED <<decision_history, reviews, review_history, clock>>

PutDecision(w) ==
    /\ Stamped(w)
    /\ request[w].review = None
    /\ ~request[w].row_put
    /\ decisions' = [decisions EXCEPT ![request[w].case_id] =
           Append(@, Version(w, request[w].decision))]
    /\ request' = [request EXCEPT ![w].row_put = TRUE]
    /\ UNCHANGED <<decision_history, reviews, review_history, clock>>

RecordDecisionEarly(w) ==
    /\ Stamped(w)
    /\ request[w].review = None
    /\ decision_history' = decision_history \cup {DecisionItemOf(request[w])}
    /\ request' = [request EXCEPT ![w] = NoRequest]
    /\ UNCHANGED <<decisions, reviews, review_history, clock>>

\* The last put of every handler: the worker is free again.
RecordDecision(w) ==
    /\ Stamped(w)
    /\ request[w].review = None
    /\ request[w].row_put
    /\ decision_history' = decision_history \cup {DecisionItemOf(request[w])}
    /\ request' = [request EXCEPT ![w] = NoRequest]
    /\ UNCHANGED <<decisions, reviews, review_history, clock>>

\* A put raises, or the function is stopped, before the next write.
AbortRequest(w) ==
    /\ Busy(w)
    /\ request' = [request EXCEPT ![w] = NoRequest]
    /\ UNCHANGED <<tables, clock>>

-----------------------------------------------------------------------------
Handle(w, user, case_id, row) ==
    \/ \E verdict \in Verdicts : EvaluateCase(w, user, case_id, verdict)
    \/ \E reviewer_id \in UserIds : AssignReview(w, user, case_id, row, reviewer_id)
    \/ StartReview(w, user, case_id, row)
    \/ \E submission \in Submissions : SubmitReview(w, user, case_id, row, submission)
    \/ \E reason \in ReopenReasons : ReopenReview(w, user, case_id, row, reason)

Next ==
    \E w \in Workers :
        \/ \E user \in AuthContexts, case_id \in Cases :
               \E row \in Readable(case_id) : Handle(w, user, case_id, row)
        \/ StampSave(w)
        \/ PutReview(w)
        \/ RecordReview(w)
        \/ PutDecision(w)
        \/ RecordDecision(w)
        \/ AbortRequest(w)

Spec == Init /\ [][Next]_vars

-----------------------------------------------------------------------------
(***************************************************************************)
(* Properties.                                                             *)
(***************************************************************************)

Current(versions) == IF versions = <<>> THEN None ELSE versions[Len(versions)].record

Lifecycle == INSTANCE ReviewLifecycle
    WITH case <- [c \in Cases |-> View(Current(decisions[c]))], Nobody <- None

\* Pending are the saves that have put their row and not yet their history item.
DecisionTrail == INSTANCE AuditTrail
    WITH Keys <- Cases, written <- decisions, log <- decision_history,
         pending <- {DecisionItemOf(request[w]) :
             w \in {v \in Workers : Busy(v) /\ request[v].review = None /\ request[v].row_put}}

ReviewTrail == INSTANCE AuditTrail
    WITH Keys <- Cases, written <- reviews, log <- review_history,
         pending <- {ReviewItemOf(request[w]) :
             w \in {v \in Workers : Busy(v) /\ request[v].review # None /\ request[v].row_put}}

\* The tables and the planned writes hold values of their types.
TypeOK ==
    /\ decisions \in [Cases -> Seq(DecisionVersion)]
    /\ decision_history \subseteq DecisionItem
    /\ reviews \in [Cases -> Seq(ReviewVersion)]
    /\ review_history \subseteq ReviewItem
    /\ request \in [Workers -> Request \cup {NoRequest}]
    /\ clock \in Nat

\* A first state of the case, or a successor of one of its first n versions that
\* is stamped with an earlier time.
HasBasis(case_id, recorded_at, record, n) ==
    \/ Lifecycle!Evaluated(View(record))
    \/ \E j \in 1 .. n :
           /\ decisions[case_id][j].recorded_at < recorded_at
           /\ Lifecycle!Follows(View(decisions[case_id][j].record), View(record))

\* However stale the reads, every version of a row agrees with itself and is a
\* legal step from a version put before, with an earlier time: read in the order
\* of its keys, the history shows no step before the one it rests on, if both
\* were recorded.
VersionsHaveBasis ==
    \A c \in Cases : \A i \in 1 .. Len(decisions[c]) :
        /\ Consistent(decisions[c][i].record)
        /\ HasBasis(c, decisions[c][i].recorded_at, decisions[c][i].record, i - 1)

\* Before this time its reviewer had recorded the review that this row completes.
Adjudicated(case_id, recorded_at, row) ==
    \E item \in review_history :
        /\ item.case_id = case_id
        /\ item.recorded_at < recorded_at
        /\ item.actor.user_id = row.assigned_reviewer_id
        /\ item.record = [reviewer_id |-> row.assigned_reviewer_id,
                          outcome |-> row.final_reviewer_outcome,
                          final_decision |-> row.decision]

\* No case is ever seen completed, however the four puts of submit_review are
\* cut short, without its review in the history before it.
CompletionsAdjudicated ==
    \A c \in Cases : \A i \in 1 .. Len(decisions[c]) :
        decisions[c][i].record.review_status = "completed" =>
            Adjudicated(c, decisions[c][i].recorded_at, decisions[c][i].record)

\* A decision's event is recorded after its row is put, as it was put, at most
\* once, at a time of its own; it may be lost, but never the row alone.
DecisionsTrailed == DecisionTrail!Spec

\* The same of reviews.
ReviewsTrailed == ReviewTrail!Spec
=============================================================================
