SPECIFICATION FairSpec
CONSTANTS
    l1 = l1
    l2 = l2
    l3 = l3
    Leases <- MCLeases
    NoLease = NoLease
    MaxSignals = 3
    MaxLost = 2
CHECK_DEADLOCK FALSE
INVARIANTS
    TypeOK
    AtMostOneLateLease
    OneSignalLetsTaskFinish
    ForgottenLeasesCounted
PROPERTIES
    ImplementsPromise
    ForcedShutdownCompletes
    ShutdownCompletes
    KeepsClaiming
