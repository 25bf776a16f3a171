CONSTANTS
    Transfer = {t1}
    Refund = {r1}
    Delivery = {d1, d2}
    None = None
    StartStatus = {"READY_FOR_PAYOUT"}
    Amount = 10
    Fee = 1
    Attempts = 1
    MayFail = TRUE
    Timely = TRUE
SPECIFICATION Spec
CHECK_DEADLOCK FALSE
SYMMETRY DeliveriesAlike
INVARIANTS LedgerMatchesRows BookedMeansSettled
