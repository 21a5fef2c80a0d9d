--------------------------- MODULE ReviewRecords ---------------------------
(***************************************************************************)
(* The rows that the review workflow keeps, and what each handler of       *)
(* app/main.py makes of the row it read.                                   *)
(*                                                                         *)
(* A decision row keeps the fields of DecisionRecord that some handler, or *)
(* some report, branches on.  A timestamp is kept as "is it set", because  *)
(* the code only ever asks that.  What a row says beside (reasoning text,  *)
(* evidence, scores, rule metadata) is carried along unread.               *)
(*                                                                         *)
(* FreshZeroBased and ReopenedKeepingOutcome are slips of the definitions  *)
(* after them, which the properties have to notice.                        *)
(***************************************************************************)
EXTENDS Integers

CONSTANTS
    UserIds,        \* who can be named as a reviewer
    ReopenReasons,  \* members of ReopenReason in use
    None            \* the null of an optional field, and of an absent row

ASSUME NoneAssumption ==
    /\ None \notin UserIds
    /\ None \notin ReopenReasons
    /\ None \notin {"approved", "rejected", "overridden"}

DecisionState == {"approved", "blocked", "insufficient_evidence", "human_review_required"}
RiskBand == {"low", "medium", "high", "critical"}
ReviewStatus == {"not_required", "pending", "assigned", "in_review", "reopened", "completed"}
ReviewerOutcome == {"approved", "rejected", "overridden"}
UserRole == {"employee", "compliance_analyst", "compliance_manager", "auditor"}

AuthContext == [user_id : UserIds, role : UserRole]

\* What an evaluation says of a case.
Verdict == [decision : DecisionState, risk_band : RiskBand]

\* The body of a submission, without the free text of its notes.
Submission == [outcome : ReviewerOutcome, final_decision : DecisionState]

DecisionRecord ==
    [decision : DecisionState,
     risk_band : RiskBand,
     review_required : BOOLEAN,
     review_status : ReviewStatus,
     review_cycle_id : Nat \ {0},
     reopen_reason : ReopenReasons \cup {None},
     assigned_reviewer_id : UserIds \cup {None},
     assigned_at : BOOLEAN,
     review_started_at : BOOLEAN,
     final_reviewer_outcome : ReviewerOutcome \cup {None},
     final_reviewed_at : BOOLEAN]

ReviewRecord ==
    [reviewer_id : UserIds, outcome : ReviewerOutcome, final_decision : DecisionState]

-----------------------------------------------------------------------------
(***************************************************************************)
(* What each handler writes.                                               *)
(***************************************************************************)

\* Every evaluator closes a case by itself only when it approves at low risk.
ReviewNeeded(verdict) == ~(verdict.decision = "approved" /\ verdict.risk_band = "low")

FreshZeroBased(verdict) ==
    [decision |-> verdict.decision,
     risk_band |-> verdict.risk_band,
     review_required |-> ReviewNeeded(verdict),
     review_status |-> IF ReviewNeeded(verdict) THEN "pending" ELSE "not_required",
     review_cycle_id |-> 0,
     reopen_reason |-> None,
     assigned_reviewer_id |-> None,
     assigned_at |-> FALSE,
     review_started_at |-> FALSE,
     final_reviewer_outcome |-> None,
     final_reviewed_at |-> FALSE]

\* The record of a new evaluation: the first cycle, nobody assigned.
Fresh(verdict) ==
    [decision |-> verdict.decision,
     risk_band |-> verdict.risk_band,
     review_required |-> ReviewNeeded(verdict),
     review_status |-> IF ReviewNeeded(verdict) THEN "pending" ELSE "not_required",
     review_cycle_id |-> 1,
     reopen_reason |-> None,
     assigned_reviewer_id |-> None,
     assigned_at |-> FALSE,
     review_started_at |-> FALSE,
     final_reviewer_outcome |-> None,
     final_reviewed_at |-> FALSE]

\* assign_review: a start time of an earlier reviewer stays in the row.
Assigned(row, reviewer_id) ==
    [row EXCEPT !.review_status = "assigned",
                !.assigned_reviewer_id = reviewer_id,
                !.assigned_at = TRUE]

\* start_review: assigned_at is kept if set and stamped otherwise.
Started(row, reviewer_id) ==
    [row EXCEPT !.review_status = "in_review",
                !.assigned_reviewer_id = reviewer_id,
                !.assigned_at = TRUE,
                !.review_started_at = TRUE]

\* submit_review: assigned_at is left as it was read, set or not.
Finalized(row, reviewer_id, submission) ==
    [row EXCEPT !.decision = submission.final_decision,
                !.review_required = FALSE,
                !.review_status = "completed",
                !.assigned_reviewer_id = IF @ = None THEN reviewer_id ELSE @,
                !.review_started_at = TRUE,
                !.final_reviewer_outcome = submission.outcome,
                !.final_reviewed_at = TRUE]

ReopenedKeepingOutcome(row, reason) ==
    [row EXCEPT !.decision = "human_review_required",
                !.review_required = TRUE,
                !.review_status = "reopened",
                !.review_cycle_id = @ + 1,
                !.reopen_reason = reason,
                !.assigned_reviewer_id = None,
                !.assigned_at = FALSE,
                !.review_started_at = FALSE]

\* reopen_review: a new cycle, with everything the last one decided cleared.
Reopened(row, reason) ==
    [row EXCEPT !.decision = "human_review_required",
                !.review_required = TRUE,
                !.review_status = "reopened",
                !.review_cycle_id = @ + 1,
                !.reopen_reason = reason,
                !.assigned_reviewer_id = None,
                !.assigned_at = FALSE,
                !.review_started_at = FALSE,
                !.final_reviewer_outcome = None,
                !.final_reviewed_at = FALSE]

-----------------------------------------------------------------------------
(***************************************************************************)
(* What the fields of one row have to say about each other.                *)
(***************************************************************************)

ActiveStatus == {"pending", "assigned", "in_review", "reopened"}

Consistent(row) ==
    /\ row.review_required <=> row.review_status \in ActiveStatus
    /\ row.review_status = "not_required" =>
           row.decision = "approved" /\ row.risk_band = "low"
    /\ row.review_status = "completed" => row.decision # "human_review_required"
    /\ row.review_status = "completed" <=> row.final_reviewer_outcome # None
    /\ row.final_reviewed_at <=> row.final_reviewer_outcome # None
    /\ row.review_status \in {"assigned", "in_review", "completed"} <=>
           row.assigned_reviewer_id # None
    /\ row.review_status \in {"in_review", "completed"} => row.review_started_at
    /\ row.review_status \in {"assigned", "in_review"} => row.assigned_at
    /\ row.reopen_reason # None <=> row.review_cycle_id > 1

\* A decision row as the lifecycle sees it.
Stage(row) ==
    IF row.review_required
    THEN IF row.review_status = "in_review" THEN "working" ELSE "waiting"
    ELSE IF row.review_status = "completed" THEN "settled" ELSE "closed"

View(row) ==
    IF row = None THEN [stage |-> "absent"]
    ELSE [stage |-> Stage(row),
          cycle |-> row.review_cycle_id,
          reviewer |-> row.assigned_reviewer_id,
          decision |-> row.decision,
          risk_band |-> row.risk_band]
=============================================================================
