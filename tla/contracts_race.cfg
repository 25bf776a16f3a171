SPECIFICATION Spec
CONSTANTS
    Caller = {c1, c2, c3}
    StartStatus <- LiveStatus
    MayCrash = TRUE
SYMMETRY CallersAlike
INVARIANTS OneRunPerOperation ReadyMeansBothConfirmed CompletedMeansDone
