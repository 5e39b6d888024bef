SPECIFICATION FairSpec
CONSTANTS
    l1 = l1
    l2 = l2
    l3 = l3
    Leases <- MCLeases
    NoLease = NoLease
    MaxSignals = 2
    MaxLost = 1
CHECK_DEADLOCK FALSE
PROPERTIES
    SecondSignalInterrupts
