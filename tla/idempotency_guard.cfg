SPECIFICATION FairSpec
CONSTANTS
    Caller = {c1, c2, c3, c4, c5}
    LeaseMayLapse = FALSE
INVARIANT MutualExclusion
PROPERTIES  OrphanRecovered ImplementsGuard
