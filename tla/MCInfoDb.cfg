\* Upgrade with failing system calls and crashes at any point; stat() of a
\* new name fails with an errno other than ENOENT only where the name exists
\* (the missing case is the infodb_stat run).
CONSTANTS
    a = a
    b = b
    c = c
    o = o
    list = list
    md5sums = md5sums
    Pkgs <- MCPkgs
    Installed <- MCInstalled
    MASame <- MCMASame
    Types <- MCTypes
    Failures = TRUE
    StatErrors = {"present"}
    Crashes = TRUE

SPECIFICATION FairSpec

INVARIANT TypeOK
INVARIANT UpgradeLayout
INVARIANT NoContentLost
PROPERTY UpgradeCompletes

\* Once format 2 is on disk and the writer is gone, nothing changes any more.
CHECK_DEADLOCK FALSE
