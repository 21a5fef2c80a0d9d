--------------------------- MODULE ReviewReports ---------------------------
(***************************************************************************)
(* What the reporting endpoints compute from the tables: the review queue, *)
(* the queue metrics and the two summaries.  Each tally is counted the way *)
(* the code counts it, so that the reports can disagree with each other.   *)
(* Ages, SLA breaches and per-control tables are left out.                 *)
(* MetricsWithoutReopened is a slip of QueueMetrics that ReportsReconcile  *)
(* has to notice.                                                          *)
(***************************************************************************)
EXTENDS ReviewProperties, FiniteSets

\* list_decisions
Listed == {c \in Cases : decisions[c] # None}

\* How many listed decisions have this value in this field.
Tally(field, value) == Cardinality({c \in Listed : decisions[c][field] = value})

Active == {c \in Listed : decisions[c].review_required}

ActiveTally(field, value) == Cardinality({c \in Active : decisions[c][field] = value})

\* list_review_queue: of the active cases, those with no review row.
ReviewQueue == {c \in Active : reviews[c] = None}

MetricsWithoutReopened ==
    [active_review_count |-> Cardinality(Active),
     pending_count |-> ActiveTally("review_status", "pending"),
     assigned_count |-> ActiveTally("review_status", "assigned"),
     in_review_count |-> ActiveTally("review_status", "in_review"),
     reopened_count |-> 0,
     active_by_risk_band |-> [band \in RiskBand |-> ActiveTally("risk_band", band)]]

\* calculate_review_queue_metrics
QueueMetrics ==
    [active_review_count |-> Cardinality(Active),
     pending_count |-> ActiveTally("review_status", "pending"),
     assigned_count |-> ActiveTally("review_status", "assigned"),
     in_review_count |-> ActiveTally("review_status", "in_review"),
     reopened_count |-> ActiveTally("review_status", "reopened"),
     active_by_risk_band |-> [band \in RiskBand |-> ActiveTally("risk_band", band)]]

\* get_summary_report
SummaryReport ==
    [total_decisions |-> Cardinality(Listed),
     decision_counts |-> [d \in DecisionState |-> Tally("decision", d)],
     active_review_count |-> Cardinality(Active),
     completed_review_count |-> Tally("review_status", "completed"),
     override_count |-> Tally("final_reviewer_outcome", "overridden"),
     reopened_case_count |-> Cardinality({c \in Listed : decisions[c].review_cycle_id > 1}),
     by_risk_band |-> [band \in RiskBand |-> Tally("risk_band", band)],
     active_by_risk_band |-> [band \in RiskBand |-> ActiveTally("risk_band", band)],
     reopen_reason_counts |-> [reason \in ReopenReasons |-> Tally("reopen_reason", reason)]]

-----------------------------------------------------------------------------
\* The sum of a table of counts, each of them at most Cardinality(Cases).
Total(counts) ==
    Cardinality({p \in (DOMAIN counts) \X (1 .. Cardinality(Cases)) : p[2] <= counts[p[1]]})

\* The numbers of one page, and of two pages, agree: the four queue columns
\* partition the active reviews, every decision is active, completed or closed
\* without review, only completed cases count as overridden, and the reopen
\* reasons account for the reopened cases.
ReportsReconcile ==
    LET closed == {c \in Listed : decisions[c].review_status = "not_required"}
    IN  /\ QueueMetrics.pending_count + QueueMetrics.assigned_count
               + QueueMetrics.in_review_count + QueueMetrics.reopened_count
           = QueueMetrics.active_review_count
        /\ SummaryReport.active_review_count + SummaryReport.completed_review_count
               + Cardinality(closed)
           = SummaryReport.total_decisions
        /\ Total(SummaryReport.decision_counts) = SummaryReport.total_decisions
        /\ Total(SummaryReport.by_risk_band) = SummaryReport.total_decisions
        /\ SummaryReport.active_by_risk_band = QueueMetrics.active_by_risk_band
        /\ Total(QueueMetrics.active_by_risk_band) = SummaryReport.active_review_count
        /\ SummaryReport.override_count <= SummaryReport.completed_review_count
        /\ Total(SummaryReport.reopen_reason_counts) = SummaryReport.reopened_case_count

\* GET /reviews/queue is the active review queue: a reopened case, which the
\* metrics count among the active reviews, is listed there.
ReopenedCasesQueued ==
    \A c \in Active : decisions[c].review_status = "reopened" => c \in ReviewQueue
=============================================================================
