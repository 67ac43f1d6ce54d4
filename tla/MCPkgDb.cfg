\* Status files of up to two paragraphs, set-selections inputs of up to
\* two lines, clear-selections, and one pkg_db_reset.
CONSTANTS
    NOARCH = NOARCH
    NativeName <- MCNative
    BINS = 2
    hash <- MCHash
    LoadNames <- MCLoadNames
    LoadArches <- MCLoadArches
    SelNames <- MCSelNames
    SelArches <- MCSelArches
    Sels <- MCSels
    GetNames <- MCGetNames
    GetArches <- MCGetArches
    MaxLoads = 2
    MaxLines = 2
    MaxArgs = 2
    MaxGen = 1
SPECIFICATION FairSpec
INVARIANTS
    TypeOK
    InstancesUnique
    SetTableConsistent
    FindPkgAssertHolds
    ClearSelectionsComplete
    ArchRegistryLive
    GetSelectionsRoundTrip
PROPERTIES
    SelectionStoreRefined
    ClearSelectionsTerminates
CHECK_DEADLOCK FALSE
