\* Unpack with the dpkg process dying at any point, up to twice, and the
\* archive unpacked again each time; on the archives without a hard link
\* a crash may also be a power loss.
CONSTANTS
    dir = dir
    bin = bin
    lnk = lnk
    sym = sym
    conf = conf
    todir = todir
    fresh = fresh
    Paths <- MCPaths
    ConfFiles <- MCConfFiles
    Archives <- MCArchivesCrashPower
    OldStates <- MCOldStates
    MaxCrashes = 2
    PowerLossArchives <- MCArchivesPower

SPECIFICATION Spec

INVARIANT TypeOK
INVARIANT NothingLost
INVARIANT UnpackResult

\* The process exits once the archive is unpacked or has failed.
CHECK_DEADLOCK FALSE
