------------------------- MODULE ReviewRecordProofs -------------------------
(***************************************************************************)
(* What the row transformers of ReviewRecords return: rows of the type,    *)
(* consistent when the row they were given was.                            *)
(***************************************************************************)
EXTENDS ReviewRecords, TLAPS

\* An evaluation writes a well-typed, consistent row (evaluate_case).
LEMMA FreshRow ==
    ASSUME NEW verdict \in Verdict
    PROVE  Fresh(verdict) \in DecisionRecord /\ Consistent(Fresh(verdict))
<1>1. Fresh(verdict) \in DecisionRecord
    BY DEF Verdict, Fresh, DecisionRecord, ReviewNeeded, DecisionState, RiskBand, ReviewStatus
<1>2. Consistent(Fresh(verdict))
  <2>. DEFINE row == Fresh(verdict)
  <2>0. /\ row.review_cycle_id = 1
        /\ row.reopen_reason = None
        /\ row.assigned_reviewer_id = None
        /\ row.final_reviewer_outcome = None
        /\ ~row.final_reviewed_at
    BY DEF Fresh
  <2>1. CASE ReviewNeeded(verdict)
    <3>1. row.review_required /\ row.review_status = "pending"
      BY <2>1 DEF Fresh
    <3>2. QED BY <2>0, <3>1 DEF Consistent, ActiveStatus
  <2>2. CASE ~ReviewNeeded(verdict)
    <3>1. ~row.review_required /\ row.review_status = "not_required"
      BY <2>2 DEF Fresh
    <3>2. row.decision = "approved" /\ row.risk_band = "low"
      BY <2>2 DEF Fresh, ReviewNeeded
    <3>3. QED BY <2>0, <3>1, <3>2 DEF Consistent, ActiveStatus
  <2>3. QED BY <2>1, <2>2
<1>3. QED BY <1>1, <1>2

\* An assignment keeps a row under review well-typed and consistent (assign_review).
LEMMA AssignedRow ==
    ASSUME NEW row \in DecisionRecord, NEW r \in UserIds,
           Consistent(row), row.review_required
    PROVE  Assigned(row, r) \in DecisionRecord /\ Consistent(Assigned(row, r))
<1>1. Assigned(row, r) \in DecisionRecord
    BY DEF Assigned, DecisionRecord, ReviewStatus
<1>2. Consistent(Assigned(row, r))
    BY NoneAssumption DEF Assigned, DecisionRecord, Consistent, ActiveStatus
<1>3. QED BY <1>1, <1>2

\* So does a start (start_review).
LEMMA StartedRow ==
    ASSUME NEW row \in DecisionRecord, NEW r \in UserIds,
           Consistent(row), row.review_required
    PROVE  Started(row, r) \in DecisionRecord /\ Consistent(Started(row, r))
<1>1. Started(row, r) \in DecisionRecord
    BY DEF Started, DecisionRecord, ReviewStatus
<1>2. Consistent(Started(row, r))
    BY NoneAssumption DEF Started, DecisionRecord, Consistent, ActiveStatus
<1>3. QED BY <1>1, <1>2

\* A submission that decides something completes a row under review (submit_review).
LEMMA FinalizedRow ==
    ASSUME NEW row \in DecisionRecord, NEW r \in UserIds, NEW s \in Submission,
           Consistent(row), row.review_required, s.final_decision # "human_review_required"
    PROVE  Finalized(row, r, s) \in DecisionRecord /\ Consistent(Finalized(row, r, s))
<1>0. s.final_decision \in DecisionState /\ s.outcome \in ReviewerOutcome
    BY DEF Submission
<1>1. Finalized(row, r, s) \in DecisionRecord
  <2> DEFINE settled == [row EXCEPT !.decision = s.final_decision,
                                    !.review_required = FALSE,
                                    !.review_status = "completed"]
             reviewer == IF row.assigned_reviewer_id = None THEN r
                         ELSE row.assigned_reviewer_id
             named == [settled EXCEPT !.assigned_reviewer_id = reviewer,
                                      !.review_started_at = TRUE]
  <2>1. settled \in DecisionRecord
      BY <1>0 DEF DecisionRecord, ReviewStatus
  <2>2. reviewer \in UserIds \cup {None}
      BY DEF DecisionRecord
  <2>3. named \in DecisionRecord
    <3> HIDE DEF settled, reviewer
    <3>1. QED BY <2>1, <2>2 DEF DecisionRecord
  <2>4. Finalized(row, r, s) = [named EXCEPT !.final_reviewer_outcome = s.outcome,
                                             !.final_reviewed_at = TRUE]
      BY Zenon DEF Finalized
  <2> HIDE DEF named
  <2>5. QED BY <1>0, <2>3, <2>4 DEF DecisionRecord
<1>2. s.outcome # None
    BY NoneAssumption DEF Submission, ReviewerOutcome
<1>3. Consistent(Finalized(row, r, s))
    BY <1>2, NoneAssumption DEF Finalized, DecisionRecord, Consistent, ActiveStatus, Submission
<1>4. QED BY <1>1, <1>3

\* A reopening starts the next cycle of a completed row (reopen_review).
LEMMA ReopenedRow ==
    ASSUME NEW row \in DecisionRecord, NEW reason \in ReopenReasons, Consistent(row)
    PROVE  Reopened(row, reason) \in DecisionRecord /\ Consistent(Reopened(row, reason))
<1>0. row.review_cycle_id \in Nat \ {0} /\ row.review_cycle_id + 1 \in Nat \ {0}
    BY DEF DecisionRecord
<1>1. Reopened(row, reason) \in DecisionRecord
    BY <1>0 DEF Reopened, DecisionRecord, ReviewStatus, DecisionState
<1>2. Consistent(Reopened(row, reason))
    BY <1>0, NoneAssumption DEF Reopened, DecisionRecord, Consistent, ActiveStatus
<1>3. QED BY <1>1, <1>2
=============================================================================
