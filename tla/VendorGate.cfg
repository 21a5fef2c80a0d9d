\* Thresholds scaled down so that five amounts lie at, between and beside them;
\* 20 and 21 differ by exactly the receipt tolerance.
SPECIFICATION Spec
CONSTANTS
    Amounts = {0, 19, 20, 21, 40}
    RiskMedium = 40
    RiskHigh = 60
    RiskCritical = 80
    SingleApprovalAmount = 20
    DualApprovalAmount = 40
    ElevatedAmount = 20
    ReceiptAmount = 20
    ReceiptTolerance = 5
    GiftAmount = 20
    OfficialGiftAmount = 0
INVARIANTS
    TypeOK
    ApprovedExactlyOnEvidence
    ReviewUnlessCleared
PROPERTIES
    RiskNeverHelps
