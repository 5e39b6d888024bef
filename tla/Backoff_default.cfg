SPECIFICATION Spec
CONSTANTS
    SmallMax = 0
    MaxU = 65535
    MaxSubsec = 999
    Settings <- DefaultSettings
INVARIANTS
    DelayCoversRange
CHECK_DEADLOCK FALSE
