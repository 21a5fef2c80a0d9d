-------------------------- MODULE VendorGateProofs --------------------------
(***************************************************************************)
(* What the rule engine decides, for every choice of thresholds: each      *)
(* evaluator approves exactly on the evidence its catalog asks for, but    *)
(* for an open sanctions result; it leaves to no person only an approval   *)
(* at low risk; and of two transactions with the same evidence the riskier *)
(* fares no better.                                                        *)
(***************************************************************************)
EXTENDS VendorGate, TLAPS

\* What the early returns of a control's evaluator let through.
Accepted(t) ==
    CASE t.control_id = "SPEND-APPROVAL" ->
            /\ t.approval # "denied"
            /\ t.amount >= SingleApprovalAmount => t.approval = "granted"
            /\ t.amount >= DualApprovalAmount => t.second_approval = "granted"
      [] t.control_id = "DUEDILIGENCE" ->
            /\ t.screening # "failed"
            /\ ScreeningRequired(t) => t.screening \in {"passed", "no_result"}
      [] t.control_id = "INTL" ->
            /\ t.screening # "failed"
            /\ EnhancedRequired(t) =>
                   t.screening \in {"passed", "no_result"} /\ t.enhanced_due_diligence
      [] t.control_id = "COI" ->
            /\ t.disclosure # "rejected"
            /\ t.potential_conflict => t.disclosure = "cleared"
      [] t.control_id = "RECEIPT" ->
            /\ t.amount >= ReceiptAmount => t.attached
            /\ ~(t.attached /\ t.has_total /\ Mismatch(t))
      [] t.control_id = "PAYMENT-CHANGE" ->
            t.details_changed => t.verification = "confirmed"
      [] t.control_id = "GIFTS-HOSPITALITY" ->
            /\ t.approval # "denied"
            /\ GiftApprovalRequired(t) => t.approval = "granted"
      [] t.control_id = "PART-TIME" ->
            t.part_time => t.assessment = "confirmed"

\* The review fields agree with the decision and the band.
Fitting(d) ==
    /\ d.review_required <=> ~(d.decision = "approved" /\ d.risk_band = "low")
    /\ d.escalation_decision = "auto_close" <=> ~d.review_required

LEMMA LackingFits ==
    ASSUME NEW band, NEW queue, queue # "auto_close"
    PROVE  Lacking(band, queue).decision # "approved" /\ Fitting(Lacking(band, queue))
BY DEF Lacking, Decided, Fitting

LEMMA BlockedFits == Blocked.decision # "approved" /\ Fitting(Blocked)
BY DEF Blocked, Decided, Fitting

LEMMA UndecidedFits ==
    ASSUME NEW band, NEW queue, queue # "auto_close"
    PROVE  Undecided(band, queue).decision # "approved" /\ Fitting(Undecided(band, queue))
BY DEF Undecided, Decided, Fitting

LEMMA ApprovedFits ==
    ASSUME NEW band
    PROVE  Approved(band).decision = "approved" /\ Fitting(Approved(band))
BY DEF Approved, Decided, Fitting

\* The order of the early returns of _evaluate_spend_approval.
LEMMA SpendDecision ==
    ASSUME NEW t \in SpendTransaction
    PROVE  /\ EvaluateSpendApproval(t).decision = "approved" <=> Accepted(t)
           /\ Fitting(EvaluateSpendApproval(t))
<1>1. /\ t.control_id = "SPEND-APPROVAL"
      /\ t.approval \in Approval /\ t.second_approval \in Approval
      /\ t.amount \in Nat
    BY EngineAssumption DEF SpendTransaction
<1>2. Accepted(t) <=>
          /\ t.approval # "denied"
          /\ t.amount >= SingleApprovalAmount => t.approval = "granted"
          /\ t.amount >= DualApprovalAmount => t.second_approval = "granted"
    BY <1>1 DEF Accepted
<1>3. QED
    BY <1>1, <1>2, EngineAssumption, LackingFits, BlockedFits, UndecidedFits, ApprovedFits
    DEF EvaluateSpendApproval, Approval

\* The order of the early returns of _evaluate_vendor_due_diligence.
LEMMA ScreeningDecision ==
    ASSUME NEW t \in ScreeningTransaction
    PROVE  /\ EvaluateVendorDueDiligence(t).decision = "approved" <=> Accepted(t)
           /\ Fitting(EvaluateVendorDueDiligence(t))
<1>1. t.control_id = "DUEDILIGENCE" /\ t.screening \in Screening
    BY DEF ScreeningTransaction
<1>2. Accepted(t) <=>
          /\ t.screening # "failed"
          /\ ScreeningRequired(t) => t.screening \in {"passed", "no_result"}
    BY <1>1 DEF Accepted
<1>3. QED
    BY <1>1, <1>2, LackingFits, BlockedFits, UndecidedFits, ApprovedFits
    DEF EvaluateVendorDueDiligence, Screening

\* The order of the early returns of _evaluate_jurisdiction_due_diligence.
LEMMA JurisdictionDecision ==
    ASSUME NEW t \in JurisdictionTransaction
    PROVE  /\ EvaluateJurisdiction(t).decision = "approved" <=> Accepted(t)
           /\ Fitting(EvaluateJurisdiction(t))
<1>1. t.control_id = "INTL" /\ t.screening \in Screening
    BY DEF JurisdictionTransaction
<1>2. Accepted(t) <=>
          /\ t.screening # "failed"
          /\ EnhancedRequired(t) =>
                 t.screening \in {"passed", "no_result"} /\ t.enhanced_due_diligence
    BY <1>1 DEF Accepted
<1>3. QED
    BY <1>1, <1>2, LackingFits, BlockedFits, UndecidedFits, ApprovedFits
    DEF EvaluateJurisdiction, Screening

\* The order of the early returns of _evaluate_conflict_of_interest.
LEMMA ConflictDecision ==
    ASSUME NEW t \in ConflictTransaction
    PROVE  /\ EvaluateConflictOfInterest(t).decision = "approved" <=> Accepted(t)
           /\ Fitting(EvaluateConflictOfInterest(t))
<1>1. t.control_id = "COI" /\ t.disclosure \in Disclosure
    BY DEF ConflictTransaction
<1>2. Accepted(t) <=>
          /\ t.disclosure # "rejected"
          /\ t.potential_conflict => t.disclosure = "cleared"
    BY <1>1 DEF Accepted
<1>3. QED
    BY <1>1, <1>2, LackingFits, BlockedFits, UndecidedFits, ApprovedFits
    DEF EvaluateConflictOfInterest, Disclosure

\* The order of the early returns of _evaluate_expense_receipt.
LEMMA ReceiptDecision ==
    ASSUME NEW t \in ReceiptTransaction
    PROVE  /\ EvaluateExpenseReceipt(t).decision = "approved" <=> Accepted(t)
           /\ Fitting(EvaluateExpenseReceipt(t))
<1>1. t.control_id = "RECEIPT"
    BY DEF ReceiptTransaction
<1>2. Accepted(t) <=>
          /\ t.amount >= ReceiptAmount => t.attached
          /\ ~(t.attached /\ t.has_total /\ Mismatch(t))
    BY <1>1 DEF Accepted
<1>3. QED
    BY <1>1, <1>2, LackingFits, BlockedFits, UndecidedFits, ApprovedFits
    DEF EvaluateExpenseReceipt

\* The order of the early returns of _evaluate_payment_change_verification.
LEMMA PaymentDecision ==
    ASSUME NEW t \in PaymentTransaction
    PROVE  /\ EvaluatePaymentChange(t).decision = "approved" <=> Accepted(t)
           /\ Fitting(EvaluatePaymentChange(t))
<1>1. t.control_id = "PAYMENT-CHANGE" /\ t.verification \in Determination
    BY DEF PaymentTransaction
<1>2. Accepted(t) <=>
          (t.details_changed => t.verification = "confirmed")
    BY <1>1 DEF Accepted
<1>3. QED
    BY <1>1, <1>2, LackingFits, BlockedFits, UndecidedFits, ApprovedFits
    DEF EvaluatePaymentChange, Determination

\* The order of the early returns of _evaluate_gifts_and_hospitality.
LEMMA GiftDecision ==
    ASSUME NEW t \in GiftTransaction
    PROVE  /\ EvaluateGifts(t).decision = "approved" <=> Accepted(t)
           /\ Fitting(EvaluateGifts(t))
<1>1. t.control_id = "GIFTS-HOSPITALITY" /\ t.approval \in Approval
    BY DEF GiftTransaction
<1>2. Accepted(t) <=>
          /\ t.approval # "denied"
          /\ GiftApprovalRequired(t) => t.approval = "granted"
    BY <1>1 DEF Accepted
<1>3. QED
    BY <1>1, <1>2, LackingFits, BlockedFits, UndecidedFits, ApprovedFits
    DEF EvaluateGifts, Approval

\* The order of the early returns of _evaluate_part_time_contract_classification.
LEMMA ContractDecision ==
    ASSUME NEW t \in ContractTransaction
    PROVE  /\ EvaluatePartTimeContract(t).decision = "approved" <=> Accepted(t)
           /\ Fitting(EvaluatePartTimeContract(t))
<1>1. t.control_id = "PART-TIME" /\ t.assessment \in Determination
    BY DEF ContractTransaction
<1>2. Accepted(t) <=>
          (t.part_time => t.assessment = "confirmed")
    BY <1>1 DEF Accepted
<1>3. QED
    BY <1>1, <1>2, LackingFits, BlockedFits, UndecidedFits, ApprovedFits
    DEF EvaluatePartTimeContract, Determination

-----------------------------------------------------------------------------
\* evaluate_vendor_case hands each control's transactions to its evaluator.
LEMMA EngineDecision ==
    ASSUME NEW t \in VendorTransaction
    PROVE  /\ EvaluateVendorCase(t).decision = "approved" <=> Accepted(t)
           /\ Fitting(EvaluateVendorCase(t))
<1>1. CASE t \in SpendTransaction
  <2>1. EvaluateVendorCase(t) = EvaluateSpendApproval(t)
    BY <1>1 DEF SpendTransaction, EvaluateVendorCase
  <2>2. QED BY <1>1, <2>1, SpendDecision
<1>2. CASE t \in ScreeningTransaction
  <2>1. EvaluateVendorCase(t) = EvaluateVendorDueDiligence(t)
    BY <1>2 DEF ScreeningTransaction, EvaluateVendorCase
  <2>2. QED BY <1>2, <2>1, ScreeningDecision
<1>3. CASE t \in JurisdictionTransaction
  <2>1. EvaluateVendorCase(t) = EvaluateJurisdiction(t)
    BY <1>3 DEF JurisdictionTransaction, EvaluateVendorCase
  <2>2. QED BY <1>3, <2>1, JurisdictionDecision
<1>4. CASE t \in ConflictTransaction
  <2>1. EvaluateVendorCase(t) = EvaluateConflictOfInterest(t)
    BY <1>4 DEF ConflictTransaction, EvaluateVendorCase
  <2>2. QED BY <1>4, <2>1, ConflictDecision
<1>5. CASE t \in ReceiptTransaction
  <2>1. EvaluateVendorCase(t) = EvaluateExpenseReceipt(t)
    BY <1>5 DEF ReceiptTransaction, EvaluateVendorCase
  <2>2. QED BY <1>5, <2>1, ReceiptDecision
<1>6. CASE t \in PaymentTransaction
  <2>1. EvaluateVendorCase(t) = EvaluatePaymentChange(t)
    BY <1>6 DEF PaymentTransaction, EvaluateVendorCase
  <2>2. QED BY <1>6, <2>1, PaymentDecision
<1>7. CASE t \in GiftTransaction
  <2>1. EvaluateVendorCase(t) = EvaluateGifts(t)
    BY <1>7 DEF GiftTransaction, EvaluateVendorCase
  <2>2. QED BY <1>7, <2>1, GiftDecision
<1>8. CASE t \in ContractTransaction
  <2>1. EvaluateVendorCase(t) = EvaluatePartTimeContract(t)
    BY <1>8 DEF ContractTransaction, EvaluateVendorCase
  <2>2. QED BY <1>8, <2>1, ContractDecision
<1>9. QED
    BY <1>1, <1>2, <1>3, <1>4, <1>5, <1>6, <1>7, <1>8 DEF VendorTransaction

\* The decision is always the engine's, of a transaction of its type.
Evaluated ==
    transaction \in VendorTransaction /\ decision = EvaluateVendorCase(transaction)

LEMMA AlwaysEvaluated == Spec => []Evaluated
<1>1. Init => Evaluated
    BY DEF Init, Evaluated
<1>2. Evaluated /\ [Next]_vars => Evaluated'
    BY DEF Evaluated, Next, Resubmit, vars
<1>3. QED BY <1>1, <1>2, PTL DEF Spec

-----------------------------------------------------------------------------
\* What the screening evaluator lets through, against the catalog's words.
LEMMA ScreeningAccepts ==
    ASSUME NEW t \in ScreeningTransaction
    PROVE  Accepted(t) <=> EvidenceMet(t) \/ ResultOpen(t)
<1>1. t.control_id = "DUEDILIGENCE"
    BY DEF ScreeningTransaction
<1>2. Accepted(t) <=>
          /\ t.screening # "failed"
          /\ ScreeningRequired(t) => t.screening \in {"passed", "no_result"}
    BY <1>1 DEF Accepted
<1>3. EvidenceMet(t) <=>
          /\ t.screening # "failed"
          /\ t.new_vendor \/ t.vendor_risk_level = "high" => t.screening = "passed"
          /\ t.amount >= ElevatedAmount => t.screening = "passed"
    BY <1>1 DEF EvidenceMet
<1>4. QED BY <1>1, <1>2, <1>3 DEF ScreeningRequired, ResultOpen

\* "Completed" is what the jurisdiction evaluator asks of a screening.
LEMMA JurisdictionAccepts ==
    ASSUME NEW t \in JurisdictionTransaction
    PROVE  Accepted(t) <=> EvidenceMet(t)
<1>1. t.control_id = "INTL" /\ t.screening \in Screening
    BY DEF JurisdictionTransaction
<1>2. Accepted(t) <=>
          /\ t.screening # "failed"
          /\ EnhancedRequired(t) =>
                 t.screening \in {"passed", "no_result"} /\ t.enhanced_due_diligence
    BY <1>1 DEF Accepted
<1>3. EvidenceMet(t) <=>
          /\ t.screening # "failed"
          /\ t.high_risk_country \/ t.amount >= ElevatedAmount =>
                 /\ t.screening \notin {"none", "incomplete"}
                 /\ t.enhanced_due_diligence
    BY <1>1 DEF EvidenceMet
<1>4. QED BY <1>1, <1>2, <1>3 DEF EnhancedRequired, Screening

\* The ratio of the receipt evaluator, against the interval of the allowance.
LEMMA ReceiptAccepts ==
    ASSUME NEW t \in ReceiptTransaction, ~AtTolerance(t)
    PROVE  Accepted(t) <=> EvidenceMet(t)
<1>1. /\ t.control_id = "RECEIPT"
      /\ t.amount \in Nat /\ t.receipt_total \in Nat /\ t.attached \in BOOLEAN
      /\ t.has_total \in BOOLEAN
    BY EngineAssumption DEF ReceiptTransaction
<1>2. Allowance(t) \in Nat
    BY <1>1, EngineAssumption DEF Allowance
<1>3. ASSUME t.attached, t.has_total
      PROVE  Mismatch(t) <=> 100 * t.receipt_total \notin 100 * t.amount - Allowance(t)
                                                         .. 100 * t.amount + Allowance(t)
  <2>1. 100 * t.receipt_total \notin {100 * t.amount - Allowance(t), 100 * t.amount + Allowance(t)}
      BY <1>1, <1>3 DEF AtTolerance
  <2>2. CASE t.receipt_total > t.amount
    <3>1. Mismatch(t) <=> \/ 100 * (t.receipt_total - t.amount) > Allowance(t)
                          \/ 100 * (t.receipt_total - t.amount) = Allowance(t) /\ t.float_above
        BY <2>2 DEF Mismatch, Allowance
    <3>2. QED BY <1>1, <1>2, <2>1, <2>2, <3>1
  <2>3. CASE ~(t.receipt_total > t.amount)
    <3>1. Mismatch(t) <=> \/ 100 * (t.amount - t.receipt_total) > Allowance(t)
                          \/ 100 * (t.amount - t.receipt_total) = Allowance(t) /\ t.float_above
        BY <2>3 DEF Mismatch, Allowance
    <3>2. QED BY <1>1, <1>2, <2>1, <2>3, <3>1
  <2>4. QED BY <2>2, <2>3
<1>4. Accepted(t) <=>
          /\ t.amount >= ReceiptAmount => t.attached
          /\ ~(t.attached /\ t.has_total /\ Mismatch(t))
    BY <1>1 DEF Accepted
<1>5. EvidenceMet(t) <=>
          /\ t.amount >= ReceiptAmount => t.attached
          /\ t.attached /\ t.has_total =>
                 100 * t.receipt_total \in 100 * t.amount - Allowance(t)
                                           .. 100 * t.amount + Allowance(t)
    BY <1>1 DEF EvidenceMet
<1>6. QED BY <1>3, <1>4, <1>5

\* Either amount of the gifts evaluator asks for the approval by itself.
LEMMA GiftAccepts ==
    ASSUME NEW t \in GiftTransaction
    PROVE  Accepted(t) <=> EvidenceMet(t)
<1>1. t.control_id = "GIFTS-HOSPITALITY"
    BY DEF GiftTransaction
<1>2. Accepted(t) <=>
          /\ t.approval # "denied"
          /\ GiftApprovalRequired(t) => t.approval = "granted"
    BY <1>1 DEF Accepted
<1>3. EvidenceMet(t) <=>
          /\ t.approval # "denied"
          /\ t.amount >= GiftAmount => t.approval = "granted"
          /\ t.government_official /\ t.amount >= OfficialGiftAmount => t.approval = "granted"
    BY <1>1 DEF EvidenceMet
<1>4. QED BY <1>2, <1>3 DEF GiftApprovalRequired

\* The other four ask for what their catalogs name.
LEMMA PlainlyAccepts ==
    ASSUME NEW t \in SpendTransaction \cup ConflictTransaction \cup PaymentTransaction
                     \cup ContractTransaction
    PROVE  Accepted(t) <=> EvidenceMet(t)
<1>1. t.control_id \in {"SPEND-APPROVAL", "COI", "PAYMENT-CHANGE", "PART-TIME"}
    BY DEF SpendTransaction, ConflictTransaction, PaymentTransaction, ContractTransaction
<1>2. QED BY <1>1 DEF Accepted, EvidenceMet

\* For all thresholds, a case is approved exactly when all that its catalog asks
\* for is on file, save the screening whose sanctions result is open, and a
\* receipt at the tolerance itself, which may fall either way.
THEOREM ApprovalNeedsEvidence == Spec => []ApprovedExactlyOnEvidence
<1>1. ASSUME NEW t \in VendorTransaction, ~AtTolerance(t)
      PROVE  EvaluateVendorCase(t).decision = "approved" <=> EvidenceMet(t) \/ ResultOpen(t)
  <2>1. Accepted(t) <=> EvidenceMet(t) \/ ResultOpen(t)
    <3>1. CASE t \in ScreeningTransaction
        BY <3>1, ScreeningAccepts
    <3>2. CASE t \notin ScreeningTransaction
      <4>1. ~ResultOpen(t)
          BY <3>2 DEF ResultOpen, VendorTransaction, SpendTransaction, JurisdictionTransaction,
             ConflictTransaction, ReceiptTransaction, PaymentTransaction, GiftTransaction,
             ContractTransaction
      <4>2. Accepted(t) <=> EvidenceMet(t)
          BY <1>1, <3>2, JurisdictionAccepts, ReceiptAccepts, GiftAccepts, PlainlyAccepts
          DEF VendorTransaction
      <4>3. QED BY <4>1, <4>2
    <3>3. QED BY <3>1, <3>2
  <2>2. QED BY <2>1, EngineDecision
<1>2. Evaluated => ApprovedExactlyOnEvidence
    BY <1>1 DEF Evaluated, ApprovedExactlyOnEvidence
<1>3. QED BY <1>2, AlwaysEvaluated, PTL

\* For all thresholds, nothing but an approval at low risk escapes review, and
\* nothing else closes by itself: what the review workflow assumes of verdicts.
THEOREM OnlyClearedEscapesReview == Spec => []ReviewUnlessCleared
<1>1. Evaluated => ReviewUnlessCleared
    BY EngineDecision DEF Evaluated, ReviewUnlessCleared, Fitting
<1>2. QED BY <1>1, AlwaysEvaluated, PTL

-----------------------------------------------------------------------------
(***************************************************************************)
(* More risk, with the same evidence.                                      *)
(***************************************************************************)

\* A decision is of its type if its band is.
DecisionType ==
    [decision : DecisionState, risk_band : RiskBand,
     escalation_decision : Queues \cup {"auto_close"}, review_required : BOOLEAN]

\* The low band is below every threshold.
LEMMA LowerStaysLow ==
    ASSUME NEW r \in Int, NEW s \in Int, s <= r, Band(r) = "low"
    PROVE  Band(s) = "low"
BY EngineAssumption DEF Band

\* Whether the riskier of two is approved or closed decides less than it does of
\* the other.
HelpsNot(old, new) ==
    /\ new.decision = "approved" => old.decision = "approved"
    /\ ~new.review_required => ~old.review_required

\* Where both evaluators' decisions fit, it is enough to compare the bands.
LEMMA BandsDecide ==
    ASSUME NEW old, NEW new, Fitting(old), Fitting(new),
           new.decision = "approved" => old.decision = "approved",
           new.decision = "approved" /\ new.risk_band = "low" => old.risk_band = "low"
    PROVE  HelpsNot(old, new)
BY DEF Fitting, HelpsNot

\* Approvals being equal, spend, the vendor's risk and prior flags only weigh against.
LEMMA SpendRisk ==
    ASSUME NEW t \in SpendTransaction, NEW u \in SpendTransaction, AtLeastAsRisky(t, u)
    PROVE  HelpsNot(EvaluateSpendApproval(t), EvaluateSpendApproval(u))
<1>1. DOMAIN t = {"control_id", "amount", "prior_flagged", "high_risk_vendor", "approval",
                  "second_approval"}
    BY DEF SpendTransaction
<1>2. /\ t.approval = u.approval /\ t.second_approval = u.second_approval
      /\ t.prior_flagged => u.prior_flagged
      /\ t.high_risk_vendor => u.high_risk_vendor
      /\ t.amount <= u.amount /\ t.amount \in Nat /\ u.amount \in Nat
      /\ t.control_id = "SPEND-APPROVAL" /\ u.control_id = "SPEND-APPROVAL"
    BY <1>1, EngineAssumption DEF AtLeastAsRisky, RiskFlags, SpendTransaction
<1>3. Accepted(u) => Accepted(t)
    BY <1>2, EngineAssumption DEF Accepted
<1>4. SpendScore(t) \in Int /\ SpendScore(u) \in Int /\ SpendScore(t) <= SpendScore(u)
    BY <1>2, EngineAssumption DEF SpendScore, Capped, Points
<1>5. ASSUME NEW v \in {t, u}, EvaluateSpendApproval(v).decision = "approved"
      PROVE  EvaluateSpendApproval(v).risk_band = Band(SpendScore(v))
    BY <1>5, LackingFits, BlockedFits, UndecidedFits DEF EvaluateSpendApproval, Approved, Decided
<1>6. QED BY <1>3, <1>4, <1>5, LowerStaysLow, BandsDecide, SpendDecision

\* The screening being equal, so do the vendor's level and its being new.
LEMMA ScreeningRisk ==
    ASSUME NEW t \in ScreeningTransaction, NEW u \in ScreeningTransaction, AtLeastAsRisky(t, u)
    PROVE  HelpsNot(EvaluateVendorDueDiligence(t), EvaluateVendorDueDiligence(u))
<1>1. DOMAIN t = {"control_id", "amount", "prior_flagged", "vendor_risk_level", "new_vendor", "screening"}
    BY DEF ScreeningTransaction
<1>2. /\ t.screening = u.screening
      /\ t.prior_flagged => u.prior_flagged
      /\ t.new_vendor => u.new_vendor
      /\ t.vendor_risk_level = "high" => u.vendor_risk_level = "high"
      /\ t.vendor_risk_level = "medium" => u.vendor_risk_level \in {"medium", "high"}
      /\ t.amount <= u.amount /\ t.amount \in Nat /\ u.amount \in Nat
      /\ t.control_id = "DUEDILIGENCE" /\ u.control_id = "DUEDILIGENCE"
    BY <1>1, EngineAssumption DEF AtLeastAsRisky, RiskFlags, ScreeningTransaction, Level
<1>3. Accepted(u) => Accepted(t)
    BY <1>2, EngineAssumption DEF Accepted, ScreeningRequired
<1>4. ScreeningScore(t) \in Int /\ ScreeningScore(u) \in Int /\ ScreeningScore(t) <= ScreeningScore(u)
    BY <1>2, EngineAssumption DEF ScreeningScore, Capped, Points
<1>5. ASSUME NEW v \in {t, u}, EvaluateVendorDueDiligence(v).decision = "approved"
      PROVE  EvaluateVendorDueDiligence(v).risk_band = Band(ScreeningScore(v))
    BY <1>5, LackingFits, BlockedFits, UndecidedFits DEF EvaluateVendorDueDiligence, Approved, Decided
<1>6. QED BY <1>3, <1>4, <1>5, LowerStaysLow, BandsDecide, ScreeningDecision

\* The diligence being equal, so do the country and the vendor's being new.
LEMMA JurisdictionRisk ==
    ASSUME NEW t \in JurisdictionTransaction, NEW u \in JurisdictionTransaction, AtLeastAsRisky(t, u)
    PROVE  HelpsNot(EvaluateJurisdiction(t), EvaluateJurisdiction(u))
<1>1. DOMAIN t = {"control_id", "amount", "prior_flagged", "high_risk_country", "new_vendor", "screening", "enhanced_due_diligence"}
    BY DEF JurisdictionTransaction
<1>2. /\ t.screening = u.screening
      /\ t.enhanced_due_diligence = u.enhanced_due_diligence
      /\ t.prior_flagged => u.prior_flagged
      /\ t.high_risk_country => u.high_risk_country
      /\ t.new_vendor => u.new_vendor
      /\ t.amount <= u.amount /\ t.amount \in Nat /\ u.amount \in Nat
      /\ t.control_id = "INTL" /\ u.control_id = "INTL"
    BY <1>1, EngineAssumption DEF AtLeastAsRisky, RiskFlags, JurisdictionTransaction
<1>3. Accepted(u) => Accepted(t)
    BY <1>2, EngineAssumption DEF Accepted, EnhancedRequired
<1>4. JurisdictionScore(t) \in Int /\ JurisdictionScore(u) \in Int /\ JurisdictionScore(t) <= JurisdictionScore(u)
    BY <1>2, EngineAssumption DEF JurisdictionScore, Capped, Points
<1>5. ASSUME NEW v \in {t, u}, EvaluateJurisdiction(v).decision = "approved"
      PROVE  EvaluateJurisdiction(v).risk_band = Band(JurisdictionScore(v))
    BY <1>5, LackingFits, BlockedFits, UndecidedFits DEF EvaluateJurisdiction, Approved, Decided
<1>6. QED BY <1>3, <1>4, <1>5, LowerStaysLow, BandsDecide, JurisdictionDecision

\* The disclosure being equal, so does a potential conflict.
LEMMA ConflictRisk ==
    ASSUME NEW t \in ConflictTransaction, NEW u \in ConflictTransaction, AtLeastAsRisky(t, u)
    PROVE  HelpsNot(EvaluateConflictOfInterest(t), EvaluateConflictOfInterest(u))
<1>1. DOMAIN t = {"control_id", "amount", "prior_flagged", "potential_conflict", "disclosure"}
    BY DEF ConflictTransaction
<1>2. /\ t.disclosure = u.disclosure
      /\ t.prior_flagged => u.prior_flagged
      /\ t.potential_conflict => u.potential_conflict
      /\ t.amount <= u.amount /\ t.amount \in Nat /\ u.amount \in Nat
      /\ t.control_id = "COI" /\ u.control_id = "COI"
    BY <1>1, EngineAssumption DEF AtLeastAsRisky, RiskFlags, ConflictTransaction
<1>3. Accepted(u) => Accepted(t)
    BY <1>2, EngineAssumption DEF Accepted
<1>4. ConflictScore(t) \in Int /\ ConflictScore(u) \in Int /\ ConflictScore(t) <= ConflictScore(u)
    BY <1>2, EngineAssumption DEF ConflictScore, Capped, Points
<1>5. ASSUME NEW v \in {t, u}, EvaluateConflictOfInterest(v).decision = "approved"
      PROVE  EvaluateConflictOfInterest(v).risk_band = Band(ConflictScore(v))
    BY <1>5, LackingFits, BlockedFits, UndecidedFits DEF EvaluateConflictOfInterest, Approved, Decided
<1>6. QED BY <1>3, <1>4, <1>5, LowerStaysLow, BandsDecide, ConflictDecision

\* The receipt and the amount being equal, so do prior flags.
LEMMA ReceiptRisk ==
    ASSUME NEW t \in ReceiptTransaction, NEW u \in ReceiptTransaction, AtLeastAsRisky(t, u)
    PROVE  HelpsNot(EvaluateExpenseReceipt(t), EvaluateExpenseReceipt(u))
<1>1. DOMAIN t = {"control_id", "amount", "prior_flagged", "attached", "has_total", "receipt_total", "float_above"}
    BY DEF ReceiptTransaction
<1>2. /\ t.attached = u.attached
      /\ t.has_total = u.has_total
      /\ t.receipt_total = u.receipt_total
      /\ t.float_above = u.float_above
      /\ t.prior_flagged => u.prior_flagged
      /\ t.amount <= u.amount /\ t.amount \in Nat /\ u.amount \in Nat
      /\ t.amount = u.amount
      /\ t.control_id = "RECEIPT" /\ u.control_id = "RECEIPT"
    BY <1>1, EngineAssumption DEF AtLeastAsRisky, RiskFlags, ReceiptTransaction
<1>3. Accepted(u) => Accepted(t)
    BY <1>2, EngineAssumption DEF Accepted, Mismatch
<1>4. ReceiptScore(t) \in Int /\ ReceiptScore(u) \in Int /\ ReceiptScore(t) <= ReceiptScore(u)
    BY <1>2, EngineAssumption DEF ReceiptScore, Capped, Points
<1>5. ASSUME NEW v \in {t, u}, EvaluateExpenseReceipt(v).decision = "approved"
      PROVE  EvaluateExpenseReceipt(v).risk_band = Band(ReceiptScore(v))
    BY <1>5, LackingFits, BlockedFits, UndecidedFits DEF EvaluateExpenseReceipt, Approved, Decided
<1>6. QED BY <1>3, <1>4, <1>5, LowerStaysLow, BandsDecide, ReceiptDecision

\* The verification being equal, so does a change of details.
LEMMA PaymentRisk ==
    ASSUME NEW t \in PaymentTransaction, NEW u \in PaymentTransaction, AtLeastAsRisky(t, u)
    PROVE  HelpsNot(EvaluatePaymentChange(t), EvaluatePaymentChange(u))
<1>1. DOMAIN t = {"control_id", "amount", "prior_flagged", "details_changed", "verification"}
    BY DEF PaymentTransaction
<1>2. /\ t.verification = u.verification
      /\ t.prior_flagged => u.prior_flagged
      /\ t.details_changed => u.details_changed
      /\ t.amount <= u.amount /\ t.amount \in Nat /\ u.amount \in Nat
      /\ t.control_id = "PAYMENT-CHANGE" /\ u.control_id = "PAYMENT-CHANGE"
    BY <1>1, EngineAssumption DEF AtLeastAsRisky, RiskFlags, PaymentTransaction
<1>3. Accepted(u) => Accepted(t)
    BY <1>2, EngineAssumption DEF Accepted
<1>4. PaymentScore(t) \in Int /\ PaymentScore(u) \in Int /\ PaymentScore(t) <= PaymentScore(u)
    BY <1>2, EngineAssumption DEF PaymentScore, Capped, Points
<1>5. ASSUME NEW v \in {t, u}, EvaluatePaymentChange(v).decision = "approved"
      PROVE  EvaluatePaymentChange(v).risk_band = IF v.details_changed THEN Band(PaymentScore(v)) ELSE "low"
    BY <1>5, LackingFits, BlockedFits, UndecidedFits DEF EvaluatePaymentChange, Approved, Decided
<1>6. QED BY <1>2, <1>3, <1>4, <1>5, LowerStaysLow, BandsDecide, PaymentDecision

\* The approval being equal, so does an official as the recipient.
LEMMA GiftRisk ==
    ASSUME NEW t \in GiftTransaction, NEW u \in GiftTransaction, AtLeastAsRisky(t, u)
    PROVE  HelpsNot(EvaluateGifts(t), EvaluateGifts(u))
<1>1. DOMAIN t = {"control_id", "amount", "prior_flagged", "government_official", "approval"}
    BY DEF GiftTransaction
<1>2. /\ t.approval = u.approval
      /\ t.prior_flagged => u.prior_flagged
      /\ t.government_official => u.government_official
      /\ t.amount <= u.amount /\ t.amount \in Nat /\ u.amount \in Nat
      /\ t.control_id = "GIFTS-HOSPITALITY" /\ u.control_id = "GIFTS-HOSPITALITY"
    BY <1>1, EngineAssumption DEF AtLeastAsRisky, RiskFlags, GiftTransaction
<1>3. Accepted(u) => Accepted(t)
    BY <1>2, EngineAssumption DEF Accepted, GiftApprovalRequired
<1>4. GiftScore(t) \in Int /\ GiftScore(u) \in Int /\ GiftScore(t) <= GiftScore(u)
    BY <1>2, EngineAssumption DEF GiftScore, Capped, Points
<1>5. ASSUME NEW v \in {t, u}, EvaluateGifts(v).decision = "approved"
      PROVE  EvaluateGifts(v).risk_band = Band(GiftScore(v))
    BY <1>5, LackingFits, BlockedFits, UndecidedFits DEF EvaluateGifts, Approved, Decided
<1>6. QED BY <1>3, <1>4, <1>5, LowerStaysLow, BandsDecide, GiftDecision

\* The assessment being equal, so do a part-time contract and long hours.
LEMMA ContractRisk ==
    ASSUME NEW t \in ContractTransaction, NEW u \in ContractTransaction, AtLeastAsRisky(t, u)
    PROVE  HelpsNot(EvaluatePartTimeContract(t), EvaluatePartTimeContract(u))
<1>1. DOMAIN t = {"control_id", "amount", "prior_flagged", "part_time", "long_hours", "assessment"}
    BY DEF ContractTransaction
<1>2. /\ t.assessment = u.assessment
      /\ t.prior_flagged => u.prior_flagged
      /\ t.part_time => u.part_time
      /\ t.long_hours => u.long_hours
      /\ t.amount <= u.amount /\ t.amount \in Nat /\ u.amount \in Nat
      /\ t.control_id = "PART-TIME" /\ u.control_id = "PART-TIME"
    BY <1>1, EngineAssumption DEF AtLeastAsRisky, RiskFlags, ContractTransaction
<1>3. Accepted(u) => Accepted(t)
    BY <1>2, EngineAssumption DEF Accepted
<1>4. ContractScore(t) \in Int /\ ContractScore(u) \in Int /\ ContractScore(t) <= ContractScore(u)
    BY <1>2, EngineAssumption DEF ContractScore, Capped, Points
<1>5. ASSUME NEW v \in {t, u}, EvaluatePartTimeContract(v).decision = "approved"
      PROVE  EvaluatePartTimeContract(v).risk_band = IF v.part_time THEN Band(ContractScore(v)) ELSE "low"
    BY <1>5, LackingFits, BlockedFits, UndecidedFits DEF EvaluatePartTimeContract, Approved, Decided
<1>6. QED BY <1>2, <1>3, <1>4, <1>5, LowerStaysLow, BandsDecide, ContractDecision

\* The control tells which fields a transaction has.
LEMMA SameControl ==
    ASSUME NEW t \in VendorTransaction, NEW u \in VendorTransaction, t.control_id = u.control_id
    PROVE  /\ t \in SpendTransaction => u \in SpendTransaction
           /\ t \in ScreeningTransaction => u \in ScreeningTransaction
           /\ t \in JurisdictionTransaction => u \in JurisdictionTransaction
           /\ t \in ConflictTransaction => u \in ConflictTransaction
           /\ t \in ReceiptTransaction => u \in ReceiptTransaction
           /\ t \in PaymentTransaction => u \in PaymentTransaction
           /\ t \in GiftTransaction => u \in GiftTransaction
           /\ t \in ContractTransaction => u \in ContractTransaction
<1>1. \A v \in VendorTransaction :
          /\ v \in SpendTransaction <=> v.control_id = "SPEND-APPROVAL"
          /\ v \in ScreeningTransaction <=> v.control_id = "DUEDILIGENCE"
          /\ v \in JurisdictionTransaction <=> v.control_id = "INTL"
          /\ v \in ConflictTransaction <=> v.control_id = "COI"
          /\ v \in ReceiptTransaction <=> v.control_id = "RECEIPT"
          /\ v \in PaymentTransaction <=> v.control_id = "PAYMENT-CHANGE"
          /\ v \in GiftTransaction <=> v.control_id = "GIFTS-HOSPITALITY"
          /\ v \in ContractTransaction <=> v.control_id = "PART-TIME"
  <2>1. /\ \A v \in SpendTransaction : v.control_id = "SPEND-APPROVAL"
        /\ \A v \in ScreeningTransaction : v.control_id = "DUEDILIGENCE"
        /\ \A v \in JurisdictionTransaction : v.control_id = "INTL"
        /\ \A v \in ConflictTransaction : v.control_id = "COI"
        /\ \A v \in ReceiptTransaction : v.control_id = "RECEIPT"
        /\ \A v \in PaymentTransaction : v.control_id = "PAYMENT-CHANGE"
        /\ \A v \in GiftTransaction : v.control_id = "GIFTS-HOSPITALITY"
        /\ \A v \in ContractTransaction : v.control_id = "PART-TIME"
      BY DEF SpendTransaction, ScreeningTransaction, JurisdictionTransaction, ConflictTransaction,
             ReceiptTransaction, PaymentTransaction, GiftTransaction, ContractTransaction
  <2>2. QED BY <2>1 DEF VendorTransaction
<1>2. QED BY <1>1

\* Transactions of one control are compared by its evaluator.
LEMMA EngineRisk ==
    ASSUME NEW t \in VendorTransaction, NEW u \in VendorTransaction, AtLeastAsRisky(t, u)
    PROVE  HelpsNot(EvaluateVendorCase(t), EvaluateVendorCase(u))
<1>0. t.control_id = u.control_id
    BY DEF AtLeastAsRisky
<1>1. CASE t \in SpendTransaction
  <2>1. u \in SpendTransaction
      BY <1>0, <1>1, SameControl
  <2>2. \A v \in SpendTransaction : EvaluateVendorCase(v) = EvaluateSpendApproval(v)
      BY DEF SpendTransaction, EvaluateVendorCase
  <2>3. QED BY <1>1, <2>1, <2>2, SpendRisk
<1>2. CASE t \in ScreeningTransaction
  <2>1. u \in ScreeningTransaction
      BY <1>0, <1>2, SameControl
  <2>2. \A v \in ScreeningTransaction : EvaluateVendorCase(v) = EvaluateVendorDueDiligence(v)
      BY DEF ScreeningTransaction, EvaluateVendorCase
  <2>3. QED BY <1>2, <2>1, <2>2, ScreeningRisk
<1>3. CASE t \in JurisdictionTransaction
  <2>1. u \in JurisdictionTransaction
      BY <1>0, <1>3, SameControl
  <2>2. \A v \in JurisdictionTransaction : EvaluateVendorCase(v) = EvaluateJurisdiction(v)
      BY DEF JurisdictionTransaction, EvaluateVendorCase
  <2>3. QED BY <1>3, <2>1, <2>2, JurisdictionRisk
<1>4. CASE t \in ConflictTransaction
  <2>1. u \in ConflictTransaction
      BY <1>0, <1>4, SameControl
  <2>2. \A v \in ConflictTransaction : EvaluateVendorCase(v) = EvaluateConflictOfInterest(v)
      BY DEF ConflictTransaction, EvaluateVendorCase
  <2>3. QED BY <1>4, <2>1, <2>2, ConflictRisk
<1>5. CASE t \in ReceiptTransaction
  <2>1. u \in ReceiptTransaction
      BY <1>0, <1>5, SameControl
  <2>2. \A v \in ReceiptTransaction : EvaluateVendorCase(v) = EvaluateExpenseReceipt(v)
      BY DEF ReceiptTransaction, EvaluateVendorCase
  <2>3. QED BY <1>5, <2>1, <2>2, ReceiptRisk
<1>6. CASE t \in PaymentTransaction
  <2>1. u \in PaymentTransaction
      BY <1>0, <1>6, SameControl
  <2>2. \A v \in PaymentTransaction : EvaluateVendorCase(v) = EvaluatePaymentChange(v)
      BY DEF PaymentTransaction, EvaluateVendorCase
  <2>3. QED BY <1>6, <2>1, <2>2, PaymentRisk
<1>7. CASE t \in GiftTransaction
  <2>1. u \in GiftTransaction
      BY <1>0, <1>7, SameControl
  <2>2. \A v \in GiftTransaction : EvaluateVendorCase(v) = EvaluateGifts(v)
      BY DEF GiftTransaction, EvaluateVendorCase
  <2>3. QED BY <1>7, <2>1, <2>2, GiftRisk
<1>8. CASE t \in ContractTransaction
  <2>1. u \in ContractTransaction
      BY <1>0, <1>8, SameControl
  <2>2. \A v \in ContractTransaction : EvaluateVendorCase(v) = EvaluatePartTimeContract(v)
      BY DEF ContractTransaction, EvaluateVendorCase
  <2>3. QED BY <1>8, <2>1, <2>2, ContractRisk
<1>9. QED
    BY <1>1, <1>2, <1>3, <1>4, <1>5, <1>6, <1>7, <1>8 DEF VendorTransaction

\* For all thresholds, with the same evidence a riskier transaction is approved,
\* or closed without a person, only if the less risky one is.
THEOREM RiskIsNoHelp == Spec => RiskNeverHelps
<1>1. Evaluated /\ [Next]_vars =>
          [AtLeastAsRisky(transaction, transaction') => HelpsNot(decision, decision')]_vars
  <2>1. SUFFICES ASSUME Evaluated, Next, AtLeastAsRisky(transaction, transaction')
                 PROVE  HelpsNot(decision, decision')
      OBVIOUS
  <2>2. /\ transaction \in VendorTransaction /\ decision = EvaluateVendorCase(transaction)
        /\ transaction' \in VendorTransaction /\ decision' = EvaluateVendorCase(transaction')
      BY <2>1 DEF Evaluated, Next, Resubmit
  <2>3. QED BY <2>1, <2>2, EngineRisk
<1>2. QED BY <1>1, AlwaysEvaluated, PTL DEF Spec, RiskNeverHelps, HelpsNot

\* Every decision is of its type, for all thresholds.
THEOREM GateTyped == Spec => []TypeOK
<1>1. ASSUME NEW t \in VendorTransaction
      PROVE  EvaluateVendorCase(t) \in DecisionType
  <2>1. \A score : Band(score) \in RiskBand
      BY DEF Band, RiskBand
  <2>2. \A band \in RiskBand :
            /\ \A queue \in Queues : Lacking(band, queue) \in DecisionType
                                  /\ Undecided(band, queue) \in DecisionType
            /\ Approved(band) \in DecisionType
      BY DEF Lacking, Undecided, Approved, Decided, DecisionType, DecisionState, Queues
  <2>3. Blocked \in DecisionType
      BY DEF Blocked, Decided, DecisionType, DecisionState, RiskBand, Queues
  <2>4. {"low", "medium", "high", "critical"} \subseteq RiskBand
      BY DEF RiskBand
  <2>5. /\ EvaluateSpendApproval(t) \in DecisionType
        /\ EvaluateVendorDueDiligence(t) \in DecisionType
      BY <2>1, <2>2, <2>3, <2>4 DEF EvaluateSpendApproval, EvaluateVendorDueDiligence, Queues
  <2>6. /\ EvaluateJurisdiction(t) \in DecisionType
        /\ EvaluateConflictOfInterest(t) \in DecisionType
      BY <2>1, <2>2, <2>3, <2>4 DEF EvaluateJurisdiction, EvaluateConflictOfInterest, Queues
  <2>7. /\ EvaluateExpenseReceipt(t) \in DecisionType
        /\ EvaluatePaymentChange(t) \in DecisionType
      BY <2>1, <2>2, <2>3, <2>4 DEF EvaluateExpenseReceipt, EvaluatePaymentChange, Queues
  <2>8. /\ EvaluateGifts(t) \in DecisionType
        /\ EvaluatePartTimeContract(t) \in DecisionType
      BY <2>1, <2>2, <2>3, <2>4 DEF EvaluateGifts, EvaluatePartTimeContract, Queues
  <2>9. t.control_id \in {"PAYMENT-CHANGE", "GIFTS-HOSPITALITY", "PART-TIME", "RECEIPT", "COI",
                          "INTL", "DUEDILIGENCE", "SPEND-APPROVAL"}
      BY DEF VendorTransaction, SpendTransaction, ScreeningTransaction, JurisdictionTransaction,
             ConflictTransaction, ReceiptTransaction, PaymentTransaction, GiftTransaction,
             ContractTransaction
  <2>10. QED BY <2>5, <2>6, <2>7, <2>8, <2>9 DEF EvaluateVendorCase
<1>2. Evaluated => TypeOK
    BY <1>1 DEF Evaluated, TypeOK, DecisionType
<1>3. QED BY <1>2, AlwaysEvaluated, PTL
=============================================================================
