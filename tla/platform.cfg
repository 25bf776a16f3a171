SPECIFICATION SumSpec
CONSTANTS
    Session = {y1, y2}
    Call = {x1, x2, x3}
    ResetBound = 1
    Login = {x1, x2, x3}
    MAX_ATTEMPTS = 3
    Request = {y1, y2}
    Code = {c1, c2}
    Process = {p1, p2}
    Hit = {x1, x2, x3}
    Limit = 2
    HitBound = 5
    Task = {t1, t2, t3}
    Home <- TaskHome
    Read = {y1, y2}
    VersionBound = 1
    Event = {y1, y2}
    Delivery = {x1, x2, x3}
    ExpiryBound = 1
    Channel = {y1, y2}
    Tries = 2
    StallBound = 1
    RefBound = 2
    User = {client, artisan, stranger}
    Party = {client, artisan}
    Message = {y1, y2}
SYMMETRY Alike
INVARIANTS RevokedForGood  AdmittedWithinLimit ExclusiveInStore StaleOnlyByRace HandledOnce   
 
CHECK_DEADLOCK FALSE
