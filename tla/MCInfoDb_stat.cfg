\* Upgrade where stat() of a new name that does not exist fails with an
\* errno other than ENOENT; no other failure, no crash.
CONSTANTS
    a = a
    b = b
    c = c
    o = o
    list = list
    md5sums = md5sums
    Pkgs <- MCPkgs
    Installed <- MCInstalled
    MASame <- MCMASame
    Types <- MCTypes
    Failures = FALSE
    StatErrors = {"missing"}
    Crashes = FALSE

SPECIFICATION Spec

INVARIANT NoContentLost


\* Once format 2 is on disk and the writer is gone, nothing changes any more.
CHECK_DEADLOCK FALSE
