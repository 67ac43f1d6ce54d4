\* A hard link to a regular file of the same archive, with a power loss.
CONSTANTS
    dir = dir
    bin = bin
    lnk = lnk
    sym = sym
    conf = conf
    todir = todir
    fresh = fresh
    Paths <- MCPaths
    ConfFiles <- MCConfFiles
    Archives <- MCArchivesFileLink
    OldStates <- MCOldStates
    MaxCrashes = 1
    PowerLossArchives <- MCArchivesFileLink

SPECIFICATION Spec

INVARIANT NothingLost

\* The process exits once the archive is unpacked or has failed.
CHECK_DEADLOCK FALSE
