\* A hard link to a conffile of the same archive, no crash.
CONSTANTS
    dir = dir
    bin = bin
    lnk = lnk
    sym = sym
    conf = conf
    todir = todir
    fresh = fresh
    Paths <- MCPaths
    ConfFiles <- MCConfFiles
    Archives <- MCArchivesConffileLink
    OldStates <- MCOldStates
    MaxCrashes = 0
    PowerLossArchives = {}

SPECIFICATION Spec

INVARIANT UnpackResult

\* The process exits once the archive is unpacked or has failed.
CHECK_DEADLOCK FALSE
