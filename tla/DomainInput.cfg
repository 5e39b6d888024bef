SPECIFICATION Spec
CONSTANTS
    dotted = dotted
    plain = plain
    other = other
    own = own
    foreign = foreign
    junk = junk
    nDotted = nDotted
    nPlain = nPlain
    nOther = nOther
    manifestType = manifestType
    stamp = stamp
    None = None
    Own = own
    Items <- MCItems
    NameOf <- MCNameOf
    TypeOf <- MCTypeOf
    Stamp <- MCStamp
    Clean <- MCClean
    Uuids <- MCUuids
    Cids <- MCCids
CHECK_DEADLOCK FALSE
INVARIANTS
    TypeOK
    AsksWhatIsNamed
    NamedIsNotRefused
    ManifestIsPrimary
    RootIsRemoved
