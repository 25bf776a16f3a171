SPECIFICATION Spec
CONSTANTS
    Actor = {a1, a2}
    Deposit = {d1}
    Payout = {p1}
    Hold = {h1}
    Charge = {}
    Credit = {k1}
    Payer = Payer
    Payee = Payee
    None = None
    Opening = 0
    Tries = 2
    MayFail = TRUE
SYMMETRY ActorsAlike
INVARIANT DepositCreditedOnce
CHECK_DEADLOCK FALSE
