----------------------------- MODULE MCReview ------------------------------
(***************************************************************************)
(* Small instances of the review service for TLC.                          *)
(***************************************************************************)
EXTENDS ReviewReports, TLC

CONSTANTS ana, max, mia, w1, w2

Manager == [user_id |-> mia, role |-> "compliance_manager"]
Analyst == [user_id |-> ana, role |-> "compliance_analyst"]
Employee == [user_id |-> max, role |-> "employee"]

MCUsers == {Manager, Analyst, Employee}
MCTwoReviewers == {Manager, Analyst}

\* One case that needs review, one that is closed at once.
Blocked == [decision |-> "blocked", risk_band |-> "critical"]
Cleared == [decision |-> "approved", risk_band |-> "low"]

MCVerdicts == {Blocked, Cleared}

\* A reviewer who agrees, one who overrides, and one who decides nothing.
MCSubmissions ==
    {[outcome |-> "rejected", final_decision |-> "blocked"],
     [outcome |-> "overridden", final_decision |-> "approved"],
     [outcome |-> "approved", final_decision |-> "human_review_required"]}

\* All that the next step depends on: of the histories, only how long they are.
RowsView == <<decisions, reviews, request, Len(decision_history) + Len(review_history)>>

WorkerSymmetry == Permutations(Workers)
=============================================================================
