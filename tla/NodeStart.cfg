SPECIFICATION Spec
CONSTANTS
    first = first
    second = second
    d1 = d1
    d2 = d2
    n1 = n1
    n2 = n2
    None = None
    Runs <- MCRuns
    Datasets <- MCDatasets
    Nodes <- MCNodes
    MaxStarts = 2
    Leftovers <- MCLeftovers
SYMMETRY Symmetry
CONSTRAINT Claimed
CHECK_DEADLOCK FALSE
INVARIANTS
    TypeOK
    AloneInWorkspace
    SplatIsOwn
    NoOldSplat
