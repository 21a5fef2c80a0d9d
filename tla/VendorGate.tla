----------------------------- MODULE VendorGate -----------------------------
(***************************************************************************)
(* A case at POST /evaluate: it is submitted, and submitted again with     *)
(* other facts or other evidence, as often as its requestor likes.  Each   *)
(* time the engine decides from the transaction alone.                     *)
(***************************************************************************)
EXTENDS VendorEngine

VARIABLES
    transaction,  \* the transaction evaluated last
    decision      \* what the engine said of it

vars == <<transaction, decision>>

Init ==
    /\ transaction \in VendorTransaction
    /\ decision = EvaluateVendorCase(transaction)

\* evaluate_case; the decision before is not looked at.
Resubmit(t) ==
    /\ transaction' = t
    /\ decision' = EvaluateVendorCase(t)

Next == \E t \in VendorTransaction : Resubmit(t)

Spec == Init /\ [][Next]_vars

-----------------------------------------------------------------------------
(***************************************************************************)
(* What the catalogs in data/rules ask for, read off each description and  *)
(* its escalation_triggers and not off the evaluators: "at or above" an    *)
(* amount is >=, and no operator of VendorEngine decides it.               *)
(***************************************************************************)

\* The catalogs' allowance for a receipt, in hundredths of a cent; a claim of
\* nothing is taken as one cent (engine.py:770).
Allowance(t) == ReceiptTolerance * (IF t.amount = 0 THEN 1 ELSE t.amount)

\* The evidence that a catalog's description requires is on file, with nothing
\* that speaks against the transaction.
EvidenceMet(t) ==
    CASE t.control_id = "SPEND-APPROVAL" ->
            /\ t.approval # "denied"
            /\ t.amount >= SingleApprovalAmount => t.approval = "granted"
            /\ t.amount >= DualApprovalAmount => t.second_approval = "granted"
      [] t.control_id = "DUEDILIGENCE" ->  \* "including a sanctions/watchlist check"
            /\ t.screening # "failed"
            /\ t.new_vendor \/ t.vendor_risk_level = "high" => t.screening = "passed"
            /\ t.amount >= ElevatedAmount => t.screening = "passed"
      [] t.control_id = "INTL" ->  \* "completed vendor screening"
            /\ t.screening # "failed"
            /\ t.high_risk_country \/ t.amount >= ElevatedAmount =>
                   /\ t.screening \notin {"none", "incomplete"}
                   /\ t.enhanced_due_diligence
      [] t.control_id = "COI" ->
            /\ t.disclosure # "rejected"
            /\ t.potential_conflict => t.disclosure = "cleared"
      [] t.control_id = "RECEIPT" ->
            /\ t.amount >= ReceiptAmount => t.attached
            /\ t.attached /\ t.has_total =>
                   100 * t.receipt_total \in 100 * t.amount - Allowance(t)
                                             .. 100 * t.amount + Allowance(t)
      [] t.control_id = "PAYMENT-CHANGE" ->
            t.details_changed => t.verification = "confirmed"
      [] t.control_id = "GIFTS-HOSPITALITY" ->  \* from the amounts its triggers set
            /\ t.approval # "denied"
            /\ t.amount >= GiftAmount => t.approval = "granted"
            /\ t.government_official /\ t.amount >= OfficialGiftAmount => t.approval = "granted"
      [] t.control_id = "PART-TIME" ->
            t.part_time => t.assessment = "confirmed"

\* A screening completed without a sanctions result, of which the catalog asks
\* one: engine.py:390 refuses only a result that is False.
ResultOpen(t) == t.control_id = "DUEDILIGENCE" /\ t.screening = "no_result"

\* A receipt that differs by the tolerance itself: the quotient of the floats
\* may fall on either side of it.
AtTolerance(t) ==
    /\ t.control_id = "RECEIPT" /\ t.attached /\ t.has_total
    /\ 100 * t.receipt_total \in {100 * t.amount - Allowance(t), 100 * t.amount + Allowance(t)}

\* The fields that say how risky a transaction is, apart from its amount and
\* its vendor's level.
RiskFlags ==
    {"prior_flagged", "high_risk_vendor", "new_vendor", "high_risk_country",
     "potential_conflict", "details_changed", "government_official", "part_time",
     "long_hours"}

Level == [low |-> 0, medium |-> 1, high |-> 2]

\* u is t with the same evidence and no risk taken away.  A receipt is read
\* against the amount, so there both stay as they are.
AtLeastAsRisky(t, u) ==
    /\ DOMAIN u = DOMAIN t
    /\ u.control_id = t.control_id
    /\ \A f \in (DOMAIN t) \ (RiskFlags \cup {"amount", "vendor_risk_level"}) : u[f] = t[f]
    /\ \A f \in (DOMAIN t) \cap RiskFlags : t[f] => u[f]
    /\ u.amount >= t.amount
    /\ u.control_id = "RECEIPT" => u.amount = t.amount
    /\ "vendor_risk_level" \in DOMAIN t =>
           Level[u.vendor_risk_level] >= Level[t.vendor_risk_level]

-----------------------------------------------------------------------------
\* Where a case goes that a person has to look at.
Queues ==
    {"mandatory_review", "queue_for_approval", "queue_for_assessment", "queue_for_coi_clearance",
     "queue_for_determination", "queue_for_disclosure", "queue_for_enhanced_due_diligence",
     "queue_for_receipt", "queue_for_reclassification_review", "queue_for_review",
     "queue_for_screening", "queue_for_second_approval", "queue_for_verification"}

\* Every decision is of its type.
TypeOK ==
    /\ transaction \in VendorTransaction
    /\ decision \in [decision : DecisionState, risk_band : RiskBand,
                     escalation_decision : Queues \cup {"auto_close"}, review_required : BOOLEAN]

\* The early returns of the eight evaluators, in their order, approve exactly
\* the transactions for which the catalog finds all it requires on file, with
\* one exception: a due-diligence screening without a sanctions result passes
\* too.
ApprovedExactlyOnEvidence ==
    AtTolerance(transaction) \/
        (decision.decision = "approved" <=> EvidenceMet(transaction) \/ ResultOpen(transaction))

\* A case escapes human review exactly when it is approved at low risk, and
\* then its escalation says so: the decision and the band determine the
\* review fields that the workflow starts from.
ReviewUnlessCleared ==
    /\ decision.review_required <=>
           ~(decision.decision = "approved" /\ decision.risk_band = "low")
    /\ decision.escalation_decision = "auto_close" <=> ~decision.review_required

\* Nobody gets past a person by making a transaction look worse: with the same
\* evidence, a riskier one is approved, or closed without review, only if the
\* less risky one is.
RiskNeverHelps ==
    [][AtLeastAsRisky(transaction, transaction') =>
          /\ decision'.decision = "approved" => decision.decision = "approved"
          /\ ~decision'.review_required => ~decision.review_required]_vars
=============================================================================
