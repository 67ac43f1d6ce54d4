\* Upgrade with failing system calls, no crash: what the cleanup handler leaves.
CONSTANTS
    a = a
    b = b
    c = c
    o = o
    list = list
    md5sums = md5sums
    Pkgs <- MCPkgs
    Installed <- MCInstalled
    MASame <- MCMASame
    Types <- MCTypes
    Failures = TRUE
    StatErrors = {}
    Crashes = FALSE

SPECIFICATION Spec

INVARIANT ReachableWhenIdle


\* Once format 2 is on disk and the writer is gone, nothing changes any more.
CHECK_DEADLOCK FALSE
