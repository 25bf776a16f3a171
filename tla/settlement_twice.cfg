CONSTANTS
    Transfer = {t1, t2}
    Refund = {}
    Delivery = {d1}
    None = None
    StartStatus = {"READY_FOR_PAYOUT"}
    Amount = 10
    Fee = 1
    Attempts = 1
    MayFail = TRUE
    Timely = TRUE
SPECIFICATION Spec
CHECK_DEADLOCK FALSE
INVARIANT OnePayout
