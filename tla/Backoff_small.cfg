SPECIFICATION Spec
CONSTANTS
    SmallMax = 15
    MaxU = 15
    MaxSubsec = 4
    Settings <- AllSettings
INVARIANTS
    DelayInBounds
    PanicsOnWholeRangeOnly
    NarrowRangeCovered
CHECK_DEADLOCK FALSE
