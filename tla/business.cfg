SPECIFICATION SumSpec
CONSTANTS
    Actor = {a1, a2}
    Deposit = {d1}
    Payout = {p1}
    Hold = {h1}
    Charge = {f1}
    Credit = {k1}
    Payer = Payer
    Payee = Payee
    None = None
    Opening = 0
    Tries = 2
    MayFail = TRUE
    Artisan = {b1, b2}
    EvidenceBound = 1
    VersionBound = 3
    JobBound = 2
SYMMETRY Alike
INVARIANTS TypesCorrect  FrozenIsOwed    VersionsInOrder BlindUnlessRestored
PROPERTIES  UndoneOnlyByStaleRead 
CHECK_DEADLOCK FALSE
