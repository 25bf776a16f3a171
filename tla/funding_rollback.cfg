SPECIFICATION Spec
CONSTANTS
    Payment = {p1}
    Verifier = {v1, v2}
    Amount = 3
    None = None
    MayFail = TRUE
INVARIANTS FundedIsVerified
CHECK_DEADLOCK FALSE
