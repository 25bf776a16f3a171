SPECIFICATION Spec
CONSTANTS
    Payment = {p1, p2}
    Verifier = {v1, v2}
    Amount = 3
    None = None
    MayFail = TRUE
INVARIANTS LedgerMatchesPayments CompletedKeyMeansFunded
PROPERTY ImplementsEscrow
CHECK_DEADLOCK FALSE
