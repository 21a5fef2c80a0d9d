---------------------------- MODULE VendorEngine ----------------------------
(***************************************************************************)
(* The deterministic rule engine of app/engine.py: one operator for each   *)
(* control's evaluator, from a vendor transaction to a decision.           *)
(*                                                                         *)
(* Amounts are whole cents and scores are tenths (2.0 is 20).  A record of *)
(* evidence is named for what the evaluator tells apart, "none" being no   *)
(* record at all.  Texts, signal lists and evidence references are left    *)
(* out.                                                                    *)
(*                                                                         *)
(* BandFallingThrough, ApprovedReviewedFromHigh, ScreeningRequiredAbove    *)
(* and ScreeningScoreWithoutHigh are slips of the definitions after them,  *)
(* which the properties of VendorGate have to notice.                      *)
(***************************************************************************)
EXTENDS Integers

CONSTANTS
    Amounts,             \* transaction amounts and receipt totals, in cents
    RiskMedium, RiskHigh, RiskCritical,          \* risk_score_* of the catalogs
    SingleApprovalAmount, DualApprovalAmount,    \* PROC-SPEND-APPROVAL-001
    ElevatedAmount,      \* the 5000 of the screening, jurisdiction, COI and payment rules
    ReceiptAmount, ReceiptTolerance,             \* PROC-EXPENSE-RECEIPT-001, in percent
    GiftAmount, OfficialGiftAmount               \* PROC-GIFTS-HOSPITALITY-001

ASSUME EngineAssumption ==
    /\ Amounts \subseteq Nat
    /\ RiskMedium \in Nat /\ RiskHigh \in Nat /\ RiskCritical \in Nat
    /\ SingleApprovalAmount \in Nat /\ DualApprovalAmount \in Nat
    /\ SingleApprovalAmount <= DualApprovalAmount
    /\ ElevatedAmount \in Nat /\ ReceiptAmount \in Nat /\ ReceiptTolerance \in Nat
    /\ GiftAmount \in Nat /\ OfficialGiftAmount \in Nat

DecisionState == {"approved", "blocked", "insufficient_evidence", "human_review_required"}
RiskBand == {"low", "medium", "high", "critical"}

\* An ApprovalRecord: approved is True or False.
Approval == {"none", "granted", "denied"}

\* A VendorScreeningRecord: not completed, or completed with
\* sanctions_check_passed True, False or None.
Screening == {"none", "incomplete", "passed", "failed", "no_result"}

\* A ConflictOfInterestRecord: not disclosed, or disclosed with cleared
\* True, False or None.
Disclosure == {"none", "undisclosed", "cleared", "rejected", "pending"}

\* A PaymentChangeVerificationRecord, and a MisclassificationAssessmentRecord:
\* not attempted (completed), or with an outcome True, False or None.
Determination == {"none", "not_done", "confirmed", "refuted", "pending"}

SpendTransaction ==
    [control_id : {"SPEND-APPROVAL"}, amount : Amounts, prior_flagged : BOOLEAN,
     high_risk_vendor : BOOLEAN, approval : Approval, second_approval : Approval]

ScreeningTransaction ==
    [control_id : {"DUEDILIGENCE"}, amount : Amounts, prior_flagged : BOOLEAN,
     vendor_risk_level : {"low", "medium", "high"}, new_vendor : BOOLEAN,
     screening : Screening]

JurisdictionTransaction ==
    [control_id : {"INTL"}, amount : Amounts, prior_flagged : BOOLEAN,
     high_risk_country : BOOLEAN, new_vendor : BOOLEAN,
     screening : Screening, enhanced_due_diligence : BOOLEAN]

ConflictTransaction ==
    [control_id : {"COI"}, amount : Amounts, prior_flagged : BOOLEAN,
     potential_conflict : BOOLEAN, disclosure : Disclosure]

\* float_above: how the quotient of the two floats falls when the exact ratio
\* is the tolerance itself.
ReceiptTransaction ==
    [control_id : {"RECEIPT"}, amount : Amounts, prior_flagged : BOOLEAN,
     attached : BOOLEAN, has_total : BOOLEAN, receipt_total : Amounts,
     float_above : BOOLEAN]

PaymentTransaction ==
    [control_id : {"PAYMENT-CHANGE"}, amount : Amounts, prior_flagged : BOOLEAN,
     details_changed : BOOLEAN, verification : Determination]

GiftTransaction ==
    [control_id : {"GIFTS-HOSPITALITY"}, amount : Amounts, prior_flagged : BOOLEAN,
     government_official : BOOLEAN, approval : Approval]

ContractTransaction ==
    [control_id : {"PART-TIME"}, amount : Amounts, prior_flagged : BOOLEAN,
     part_time : BOOLEAN, long_hours : BOOLEAN, assessment : Determination]

VendorTransaction ==
    UNION {SpendTransaction, ScreeningTransaction, JurisdictionTransaction,
           ConflictTransaction, ReceiptTransaction, PaymentTransaction,
           GiftTransaction, ContractTransaction}

-----------------------------------------------------------------------------
(***************************************************************************)
(* Scores, bands and the shapes of a decision.                             *)
(***************************************************************************)

Points(condition, n) == IF condition THEN n ELSE 0

Capped(score) == IF score > 100 THEN 100 ELSE score

BandFallingThrough(score) ==
    IF score >= RiskCritical THEN "critical"
    ELSE IF score >= RiskHigh THEN "high"
    ELSE IF score >= RiskMedium THEN "medium"
    ELSE "none"

\* _risk_band_for_score
Band(score) ==
    IF score >= RiskCritical THEN "critical"
    ELSE IF score >= RiskHigh THEN "high"
    ELSE IF score >= RiskMedium THEN "medium"
    ELSE "low"

Decided(decision, band, escalation, review) ==
    [decision |-> decision, risk_band |-> band,
     escalation_decision |-> escalation, review_required |-> review]

\* Evidence the control needs is not there: ask for it.
Lacking(band, queue) == Decided("insufficient_evidence", band, queue, TRUE)

\* Evidence on file speaks against the transaction.
Blocked == Decided("blocked", "critical", "mandatory_review", TRUE)

\* A person has to decide.
Undecided(band, queue) == Decided("human_review_required", band, queue, TRUE)

ApprovedReviewedFromHigh(band) ==
    Decided("approved", band,
            IF band = "low" THEN "auto_close" ELSE "queue_for_review",
            band \in {"high", "critical"})

\* The last return of every evaluator: approved, and reviewed unless low risk.
Approved(band) ==
    Decided("approved", band,
            IF band = "low" THEN "auto_close" ELSE "queue_for_review",
            band # "low")

-----------------------------------------------------------------------------
(***************************************************************************)
(* The evaluators.  The order of the conditions is the order of the early  *)
(* returns.                                                                *)
(***************************************************************************)

SpendScore(t) ==
    Capped(20 + (IF t.amount >= DualApprovalAmount THEN 40
                 ELSE Points(t.amount >= SingleApprovalAmount, 20))
              + Points(t.high_risk_vendor, 20) + Points(t.prior_flagged, 15))

EvaluateSpendApproval(t) ==
    IF t.amount >= SingleApprovalAmount /\ t.approval = "none"
        THEN Lacking("high", "queue_for_approval")
    ELSE IF t.approval = "denied" THEN Blocked
    ELSE IF t.amount >= DualApprovalAmount /\ t.second_approval = "none"
        THEN Undecided(Band(SpendScore(t)), "queue_for_second_approval")
    ELSE IF t.amount >= DualApprovalAmount /\ t.second_approval = "denied" THEN Blocked
    ELSE Approved(Band(SpendScore(t)))

ScreeningRequiredAbove(t) ==
    t.new_vendor \/ t.vendor_risk_level = "high" \/ t.amount > ElevatedAmount

ScreeningRequired(t) ==
    t.new_vendor \/ t.vendor_risk_level = "high" \/ t.amount >= ElevatedAmount

ScreeningScoreWithoutHigh(t) ==
    Capped(20 + Points(t.vendor_risk_level = "medium", 10)
              + Points(t.new_vendor, 15) + Points(t.amount >= ElevatedAmount, 15)
              + Points(t.prior_flagged, 10))

ScreeningScore(t) ==
    Capped(20 + (IF t.vendor_risk_level = "high" THEN 30
                 ELSE Points(t.vendor_risk_level = "medium", 10))
              + Points(t.new_vendor, 15) + Points(t.amount >= ElevatedAmount, 15)
              + Points(t.prior_flagged, 10))

EvaluateVendorDueDiligence(t) ==
    IF ScreeningRequired(t) /\ t.screening \in {"none", "incomplete"}
        THEN Lacking("high", "queue_for_screening")
    ELSE IF t.screening = "failed" THEN Blocked
    ELSE Approved(Band(ScreeningScore(t)))

EnhancedRequired(t) == t.high_risk_country \/ t.amount >= ElevatedAmount

JurisdictionScore(t) ==
    Capped(20 + Points(t.high_risk_country, 40) + Points(t.amount >= ElevatedAmount, 15)
              + Points(t.new_vendor, 10) + Points(t.prior_flagged, 10))

EvaluateJurisdiction(t) ==
    IF EnhancedRequired(t) /\ t.screening \in {"none", "incomplete"}
        THEN Lacking("high", "queue_for_screening")
    ELSE IF t.screening = "failed" THEN Blocked
    ELSE IF EnhancedRequired(t) /\ ~t.enhanced_due_diligence
        THEN Undecided(Band(JurisdictionScore(t)), "queue_for_enhanced_due_diligence")
    ELSE Approved(Band(JurisdictionScore(t)))

ConflictScore(t) ==
    Capped(20 + Points(t.potential_conflict, 40) + Points(t.amount >= ElevatedAmount, 15)
              + Points(t.prior_flagged, 10))

EvaluateConflictOfInterest(t) ==
    IF t.potential_conflict /\ t.disclosure \in {"none", "undisclosed"}
        THEN Lacking("high", "queue_for_disclosure")
    ELSE IF t.disclosure = "rejected" THEN Blocked
    ELSE IF t.potential_conflict /\ t.disclosure = "pending"
        THEN Undecided(Band(ConflictScore(t)), "queue_for_coi_clearance")
    ELSE Approved(Band(ConflictScore(t)))

\* |total - amount| / max(amount, 0.01) > tolerance, without the division.
Mismatch(t) ==
    LET gap == IF t.receipt_total > t.amount THEN t.receipt_total - t.amount
               ELSE t.amount - t.receipt_total
        allowed == ReceiptTolerance * (IF t.amount = 0 THEN 1 ELSE t.amount)
    IN  100 * gap > allowed \/ (100 * gap = allowed /\ t.float_above)

ReceiptScore(t) ==
    Capped(20 + Points(t.amount >= ReceiptAmount, 10) + Points(t.prior_flagged, 15))

EvaluateExpenseReceipt(t) ==
    IF t.amount >= ReceiptAmount /\ ~t.attached
        THEN Lacking("medium", "queue_for_receipt")
    ELSE IF t.attached /\ t.has_total /\ Mismatch(t)
        THEN Undecided("high", "queue_for_review")
    ELSE Approved(Band(ReceiptScore(t)))

PaymentScore(t) ==
    Capped(60 + Points(t.amount >= ElevatedAmount, 15) + Points(t.prior_flagged, 10))

EvaluatePaymentChange(t) ==
    IF ~t.details_changed THEN Approved("low")
    ELSE IF t.verification \in {"none", "not_done"}
        THEN Lacking("high", "queue_for_verification")
    ELSE IF t.verification = "refuted" THEN Blocked
    ELSE IF t.verification = "pending" THEN Undecided("high", "queue_for_determination")
    ELSE Approved(Band(PaymentScore(t)))

GiftApprovalRequired(t) ==
    t.amount >= GiftAmount \/ (t.government_official /\ t.amount >= OfficialGiftAmount)

GiftScore(t) ==
    Capped(20 + Points(t.government_official, 40) + Points(t.amount >= GiftAmount, 15)
              + Points(t.prior_flagged, 10))

EvaluateGifts(t) ==
    IF GiftApprovalRequired(t) /\ t.approval = "none"
        THEN Lacking(IF t.government_official THEN "critical" ELSE "high", "queue_for_approval")
    ELSE IF t.approval = "denied" THEN Blocked
    ELSE Approved(Band(GiftScore(t)))

ContractScore(t) ==
    Capped(60 + Points(t.long_hours, 15) + Points(t.prior_flagged, 10))

EvaluatePartTimeContract(t) ==
    IF ~t.part_time THEN Approved("low")
    ELSE IF t.assessment \in {"none", "not_done"} THEN Lacking("high", "queue_for_assessment")
    ELSE IF t.assessment = "refuted"
        THEN Undecided("high", "queue_for_reclassification_review")
    ELSE IF t.assessment = "pending" THEN Undecided("medium", "queue_for_determination")
    ELSE Approved(Band(ContractScore(t)))

\* The catalogs shipped with the service mention one of these words each.
EvaluateVendorCase(t) ==
    CASE t.control_id = "PAYMENT-CHANGE" -> EvaluatePaymentChange(t)
      [] t.control_id = "GIFTS-HOSPITALITY" -> EvaluateGifts(t)
      [] t.control_id = "PART-TIME" -> EvaluatePartTimeContract(t)
      [] t.control_id = "RECEIPT" -> EvaluateExpenseReceipt(t)
      [] t.control_id = "COI" -> EvaluateConflictOfInterest(t)
      [] t.control_id = "INTL" -> EvaluateJurisdiction(t)
      [] t.control_id = "DUEDILIGENCE" -> EvaluateVendorDueDiligence(t)
      [] t.control_id = "SPEND-APPROVAL" -> EvaluateSpendApproval(t)
=============================================================================
