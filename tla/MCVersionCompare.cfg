\* verrevcmp against the reference ordering, and the compare-versions table.
CONSTANTS
    Strings <- MCStrings
    Versions <- MCVersions
    Relations <- MCRelations
    Arches <- MCArches
    Native = "amd64"
    PkgStatuses <- MCPkgStatuses
    PkgVersions <- MCPkgVersions
SPECIFICATION Spec
INVARIANTS
    TypeOK
    VerrevcmpIsKeyOrder
    CmpversionsExit
    DependsRelationAsCompareVersions
CHECK_DEADLOCK FALSE
