--------------------------- MODULE ReviewService ---------------------------
(***************************************************************************)
(* The HTTP handlers of app/main.py over the SQLite store.                 *)
(*                                                                         *)
(* A handler runs on a worker (a thread of the server's pool, or one of    *)
(* several processes).  It reads the case in one transaction, decides what *)
(* to write, and writes it in one transaction per table; no lock and no    *)
(* version check joins the read to the writes.  So a handler is one step   *)
(* that reads and plans, then one step for each transaction it commits.    *)
(* A request that is refused writes nothing and is left out.               *)
(*                                                                         *)
(* The definitions named for a slip (StartOthersReview, ReopenAnyReview,   *)
(* SaveFirstReview, SaveEvaluationQuietly, SaveDecisionFirst) are variants *)
(* of the one that follows them, with a guard or a write missing.  Nothing *)
(* uses them: put in its place, each must break a property.                *)
(***************************************************************************)
EXTENDS ReviewRecords, Sequences

CONSTANTS
    Cases,          \* case ids
    Workers,        \* handlers that can be in progress at once
    AuthContexts,   \* the authenticated users, as [user_id, role]
    Verdicts,       \* what evaluations can say
    Submissions,    \* what reviewers can submit
    MaxEvents       \* no request is taken once the histories hold this many

ASSUME ServiceAssumption ==
    /\ AuthContexts \subseteq AuthContext
    /\ Verdicts \subseteq Verdict
    /\ Submissions \subseteq Submission
    /\ None \notin DecisionRecord
    /\ None \notin ReviewRecord
    /\ MaxEvents \in Nat

VARIABLES
    decisions,         \* table decisions: the row of each case, or None
    decision_history,  \* table decision_history, in id order
    reviews,           \* table reviews: the row of each case, or None
    review_history,    \* table review_history, in id order
    request            \* for each worker, what its handler still has to write

tables == <<decisions, decision_history, reviews, review_history>>
vars == <<tables, request>>

DecisionEvent ==
    {"decision_evaluated", "review_assigned", "review_started",
     "review_completed", "case_reopened"}

DecisionEntry ==
    [case_id : Cases, event_type : DecisionEvent, actor : AuthContext, record : DecisionRecord]

ReviewEntry ==
    [case_id : Cases, event_type : {"review_submitted"}, actor : AuthContext, record : ReviewRecord]

\* The writes of a handler that has not ended: the review row, when there is
\* one still to be saved, and the decision row.
Request ==
    [case_id : Cases, event_type : DecisionEvent, actor : AuthContext,
     review : ReviewRecord \cup {None}, decision : DecisionRecord]

NoRequest == [event_type |-> "none"]

Busy(w) == request[w] # NoRequest

Init ==
    /\ decisions = [c \in Cases |-> None]
    /\ decision_history = <<>>
    /\ reviews = [c \in Cases |-> None]
    /\ review_history = <<>>
    /\ request = [w \in Workers |-> NoRequest]

-----------------------------------------------------------------------------
(***************************************************************************)
(* Handlers: authorization, the read, the checks, and the planned writes.  *)
(***************************************************************************)

\* A worker takes a request of a user in one of these roles.
Admits(w, user, roles) ==
    /\ ~Busy(w)
    /\ user.role \in roles
    /\ Len(decision_history) + Len(review_history) < MaxEvents

Plan(w, case_id, event_type, user, review, decision) ==
    /\ request' = [request EXCEPT ![w] =
           [case_id |-> case_id, event_type |-> event_type, actor |-> user,
            review |-> review, decision |-> decision]]
    /\ UNCHANGED tables

\* get_decision found a row, and the row is under review.
UnderReview(case_id) ==
    /\ decisions[case_id] # None
    /\ decisions[case_id].review_required

\* The user acts as the reviewer named in the body, and nobody else holds the case.
MayReview(user, case_id) ==
    decisions[case_id].assigned_reviewer_id \in {None, user.user_id}

\* evaluate_case never looks at the row it replaces.
EvaluateCase(w, user, case_id, verdict) ==
    /\ Admits(w, user, {"employee", "compliance_analyst", "compliance_manager"})
    /\ Plan(w, case_id, "decision_evaluated", user, None, Fresh(verdict))

AssignReview(w, user, case_id, reviewer_id) ==
    /\ Admits(w, user, {"compliance_manager"})
    /\ UnderReview(case_id)
    /\ decisions[case_id].review_status # "completed"
    /\ Plan(w, case_id, "review_assigned", user, None,
            Assigned(decisions[case_id], reviewer_id))

StartOthersReview(w, user, case_id) ==
    /\ Admits(w, user, {"compliance_analyst", "compliance_manager"})
    /\ UnderReview(case_id)
    /\ Plan(w, case_id, "review_started", user, None,
            Started(decisions[case_id], user.user_id))

StartReview(w, user, case_id) ==
    /\ Admits(w, user, {"compliance_analyst", "compliance_manager"})
    /\ UnderReview(case_id)
    /\ MayReview(user, case_id)
    /\ Plan(w, case_id, "review_started", user, None,
            Started(decisions[case_id], user.user_id))

SubmitReview(w, user, case_id, submission) ==
    /\ Admits(w, user, {"compliance_analyst", "compliance_manager"})
    /\ UnderReview(case_id)
    /\ submission.final_decision # "human_review_required"
    /\ MayReview(user, case_id)
    /\ Plan(w, case_id, "review_completed", user,
            [reviewer_id |-> user.user_id, outcome |-> submission.outcome,
             final_decision |-> submission.final_decision],
            Finalized(decisions[case_id], user.user_id, submission))

ReopenAnyReview(w, user, case_id, reason) ==
    /\ Admits(w, user, {"compliance_manager"})
    /\ decisions[case_id] # None
    /\ Plan(w, case_id, "case_reopened", user, None, Reopened(decisions[case_id], reason))

ReopenReview(w, user, case_id, reason) ==
    /\ Admits(w, user, {"compliance_manager"})
    /\ decisions[case_id] # None
    /\ decisions[case_id].review_status = "completed"
    /\ Plan(w, case_id, "case_reopened", user, None, Reopened(decisions[case_id], reason))

-----------------------------------------------------------------------------
(***************************************************************************)
(* Transactions.  Each upserts one row and inserts its history row.        *)
(***************************************************************************)

SaveFirstReview(w) ==
    /\ Busy(w)
    /\ request[w].review # None
    /\ reviews' = [reviews EXCEPT ![request[w].case_id] =
           IF @ = None THEN request[w].review ELSE @]
    /\ review_history' = Append(review_history,
           [case_id |-> request[w].case_id, event_type |-> "review_submitted",
            actor |-> request[w].actor, record |-> request[w].review])
    /\ request' = [request EXCEPT ![w].review = None]
    /\ UNCHANGED <<decisions, decision_history>>

\* save_review, the first write of submit_review.
SaveReview(w) ==
    /\ Busy(w)
    /\ request[w].review # None
    /\ reviews' = [reviews EXCEPT ![request[w].case_id] = request[w].review]
    /\ review_history' = Append(review_history,
           [case_id |-> request[w].case_id, event_type |-> "review_submitted",
            actor |-> request[w].actor, record |-> request[w].review])
    /\ request' = [request EXCEPT ![w].review = None]
    /\ UNCHANGED <<decisions, decision_history>>

SaveEvaluationQuietly(w) ==
    /\ Busy(w)
    /\ request[w].review = None
    /\ decisions' = [decisions EXCEPT ![request[w].case_id] = request[w].decision]
    /\ IF request[w].event_type = "decision_evaluated"
       THEN UNCHANGED decision_history
       ELSE decision_history' = Append(decision_history,
                [case_id |-> request[w].case_id, event_type |-> request[w].event_type,
                 actor |-> request[w].actor, record |-> request[w].decision])
    /\ request' = [request EXCEPT ![w] = NoRequest]
    /\ UNCHANGED <<reviews, review_history>>

SaveDecisionFirst(w) ==
    /\ Busy(w)
    /\ decisions' = [decisions EXCEPT ![request[w].case_id] = request[w].decision]
    /\ decision_history' = Append(decision_history,
           [case_id |-> request[w].case_id, event_type |-> request[w].event_type,
            actor |-> request[w].actor, record |-> request[w].decision])
    /\ request' = [request EXCEPT ![w] = NoRequest]
    /\ UNCHANGED <<reviews, review_history>>

\* save_decision, the last write of every handler: the worker is free again.
SaveDecision(w) ==
    /\ Busy(w)
    /\ request[w].review = None
    /\ decisions' = [decisions EXCEPT ![request[w].case_id] = request[w].decision]
    /\ decision_history' = Append(decision_history,
           [case_id |-> request[w].case_id, event_type |-> request[w].event_type,
            actor |-> request[w].actor, record |-> request[w].decision])
    /\ request' = [request EXCEPT ![w] = NoRequest]
    /\ UNCHANGED <<reviews, review_history>>

\* The handler ends before its next transaction commits: sqlite3 raises
\* (database is locked), or the process stops.
AbortRequest(w) ==
    /\ Busy(w)
    /\ request' = [request EXCEPT ![w] = NoRequest]
    /\ UNCHANGED tables

-----------------------------------------------------------------------------
Handle(w, user, case_id) ==
    \/ \E verdict \in Verdicts : EvaluateCase(w, user, case_id, verdict)
    \/ \E reviewer_id \in UserIds : AssignReview(w, user, case_id, reviewer_id)
    \/ StartReview(w, user, case_id)
    \/ \E submission \in Submissions : SubmitReview(w, user, case_id, submission)
    \/ \E reason \in ReopenReasons : ReopenReview(w, user, case_id, reason)

Next ==
    \E w \in Workers :
        \/ \E user \in AuthContexts, case_id \in Cases : Handle(w, user, case_id)
        \/ SaveReview(w)
        \/ SaveDecision(w)
        \/ AbortRequest(w)

Spec == Init /\ [][Next]_vars
=============================================================================
