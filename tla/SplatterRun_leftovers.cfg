SPECIFICATION Spec
CONSTANTS
    plain = plain
    mp4 = mp4
    notes = notes
    scan1 = scan1
    frames = frames
    points = points
    Items <- MCItems
    NameOf <- MCNameOf
    Scans <- MCScans
    Bins <- MCBins
    Manifests <- SmallManifests
    ChunkSize = 2
    MaxAttempts = 2
CHECK_DEADLOCK FALSE
INVARIANT
    DatasetAlwaysAvailable
