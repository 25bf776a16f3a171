SPECIFICATION Spec
CONSTANTS
    Caller = {c1}
    StartStatus = {"PENDING_PAYMENT"}
    MayCrash = FALSE
INVARIANTS ActivationAccepted
