\* Upgrade with crashes at any point, every system call succeeding.
CONSTANTS
    a = a
    b = b
    c = c
    o = o
    list = list
    md5sums = md5sums
    Pkgs <- MCPkgs
    Installed <- MCInstalled
    MASame <- MCMASame
    Types <- MCTypes
    Failures = FALSE
    StatErrors = {}
    Crashes = TRUE

SPECIFICATION Spec

INVARIANT ReachableWhenIdle


\* Once format 2 is on disk and the writer is gone, nothing changes any more.
CHECK_DEADLOCK FALSE
