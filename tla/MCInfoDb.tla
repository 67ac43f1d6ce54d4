------------------------------ MODULE MCInfoDb ------------------------------
(* Model-checking instance of InfoDb: two Multi-Arch: same packages with   *)
(* two control files each, one single-arch installed package and one       *)
(* package whose files are left over from a removed package.               *)
EXTENDS InfoDb

CONSTANTS a, b, c, o, list, md5sums

MCPkgs == {a, b, c, o}
MCInstalled == {a, b, c}
MCMASame == {a, b}
MCTypes == {list, md5sums}

=============================================================================
