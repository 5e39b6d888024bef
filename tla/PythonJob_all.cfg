SPECIFICATION FairSpec
CONSTANTS
    run_py = run_py
    train = train
    colmap = colmap
    Leader = run_py
    Helpers <- MCHelpers
    PipeCapacity = 1
    ReadErrors = TRUE
CHECK_DEADLOCK FALSE
INVARIANTS
    TypeOK
    VerdictSeesAllOutput
PROPERTIES
    ImplementsPromise
    CancelStopsJob
    CancelFreesGpu
    BlockedOnLostOnly
    JobEnds
