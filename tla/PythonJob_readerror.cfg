SPECIFICATION FairSpec
CONSTANTS
    run_py = run_py
    train = train
    colmap = colmap
    Leader = run_py
    Helpers <- OneHelper
    PipeCapacity = 1
    ReadErrors = TRUE
CHECK_DEADLOCK FALSE
PROPERTIES
    WriterNeverStuck
