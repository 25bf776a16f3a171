SPECIFICATION SumFairSpec
CONSTANTS
    Caller = {c1, c2}
    LiveStatus = {"PENDING_PAYMENT", "FUNDED", "IN_PROGRESS", "CLIENT_CONFIRMED", "READY_FOR_PAYOUT", "DISPUTED"}
    MayCrash = FALSE
    Payment = {p1, p2}
    Verifier = {v1, v2}
    Amount = 10
    None = None
    MayFail = FALSE
    Transfer = {t1}
    Refund = {}
    Delivery = {d1, d2}
    PayableStatus = {"READY_FOR_PAYOUT", "DISPUTED"}
    Fee = 1
    Attempts = 2
    Timely = FALSE
 
PROPERTIES JobFollowsPayout PaidLeadsToFunded PayoutEnds PaidOutFollows
CHECK_DEADLOCK FALSE
