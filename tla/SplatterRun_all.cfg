SPECIFICATION FairSpec
CONSTANTS
    plain = plain
    mp4 = mp4
    notes = notes
    scan1 = scan1
    frames = frames
    points = points
    Items <- MCItems
    NameOf <- MCNameOf
    Scans <- MCScans
    Bins <- MCBins
    Manifests <- MCManifests
    ChunkSize = 2
    MaxAttempts = 2
CHECK_DEADLOCK FALSE
INVARIANTS
    TypeOK
    InputsMatchDisk
    NoPartialDataset
    DatasetAvailable
    ColmapOnlyAsASet
    UploadsOwnOutput
PROPERTY
    CancelEndsRun
