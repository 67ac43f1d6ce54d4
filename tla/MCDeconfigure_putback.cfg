\* A removal that is given up leaves its queued deconfigurations behind.
CONSTANTS
    A = A
    B = B
    C = C
    D = D
    E = E
    R = R
    X = X
    v = v
    P1 = P1
    P2 = P2
    P3 = P3
    P4 = P4
    P5 = P5
    PKG = PKG
    NULL = NULL
    Pkgs <- MCPkgs
    Virtuals = {v}
    Dbs <- MCDbs
SPECIFICATION DpkgSpec
INVARIANTS
    DeconfigureListConsistent
CHECK_DEADLOCK FALSE
