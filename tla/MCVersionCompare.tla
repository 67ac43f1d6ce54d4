--------------------------- MODULE MCVersionCompare ---------------------------
(* Model-checking instance of VersionCompare: every string of length at   *)
(* most 4 over a digit that is skipped as a leading zero, another digit,  *)
(* a letter, "~" and a symbol; versions with two epochs, upstream parts   *)
(* that differ by a tilde, a letter, a leading zero, a longer number or a *)
(* further part, and three revisions.                                      *)
EXTENDS VersionCompare

Alphabet == {"0", "1", "a", "~", "."}

MCStrings == UNION {[1..n -> Alphabet] : n \in 0..4}

MCVersions ==
    [epoch : {0, 1},
     version : {<<"1">>, <<"1","~">>, <<"1",".","0">>, <<"0","1">>, <<"1","a">>, <<"1","0">>},
     revision : {<<>>, <<"1">>, <<"~">>}]

MCRelations == DOMAIN relationinfos \cup {"bogus"}

\* wanttoinstall: each side of stat_unpacked, and three versions in order
\* (a tilde pre-release, the release, a later revision).
MCPkgStatuses == {"halfinstalled", "unpacked", "installed"}

MCPkgVersions ==
    {[epoch |-> 0, version |-> <<"1","~">>, revision |-> <<>>],
     [epoch |-> 0, version |-> <<"1">>, revision |-> <<>>],
     [epoch |-> 0, version |-> <<"1">>, revision |-> <<"1">>]}

MCArches == {"none", "all", "amd64", "i386"}

=============================================================================
