------------------------------- MODULE MCPkgDb -------------------------------
(***************************************************************************)
(* PkgDb with: sets "f" and "g" sharing bin 1 and bin 0 empty, so the     *)
(* iterator walks a chain and skips an empty bin; "F" for the case        *)
(* folding; "-f" an illegal name; the native arch "a6", "all", "any", a   *)
(* foreign "i3" and an illegal "i_".                                       *)
(***************************************************************************)
EXTENDS PkgDb, TLC

MCNative == <<"a", "6">>
Foreign == <<"i", "3">>
IllegalArch == <<"i", "_">>
MCHash(name) == IF name = <<"-", "f">> THEN 0 ELSE 1
MCLoadNames == {<<"f">>, <<"g">>}
MCLoadArches == {NOARCH, MCNative, <<"a", "l", "l">>, Foreign}
MCSelNames == {<<"f">>, <<"F">>, <<"-", "f">>}
MCSelArches == {NOARCH, <<"a", "n", "y">>, Foreign, IllegalArch}
MCSels == {"install", "purge", "bogus"}
MCGetNames == {<<"f">>, <<"F">>, <<"*">>}
MCGetArches == {NOARCH, Foreign, <<"*">>}

\* The lowercase form the store promises, by its own case table.
MCFold(name) == [k \in DOMAIN name |-> IF name[k] = "F" THEN "f"
                                       ELSE IF name[k] = "G" THEN "g" ELSE name[k]]

(***************************************************************************)
(* The refinement mapping: every instance of the database is the record    *)
(* of its key: the set name with the empty arch name for an instance    *)
(* whose arch is none, native or all, and the arch name otherwise.       *)
(***************************************************************************)
InstKey(d, id) ==
    LET a == d.pkgs[id[1]][id[2]].arch
    IN  <<id[1], IF ArchType(d.arches, a) \in {"none", "native", "all"}
                 THEN <<>> ELSE ArchName(d.arches, a)>>

StoreOf(d) ==
    [k \in {InstKey(d, id) : id \in Ids(d)} |->
        LET id == CHOOSE x \in Ids(d) : InstKey(d, x) = k
        IN  [want |-> d.pkgs[id[1]][id[2]].want,
             essential |-> d.pkgs[id[1]][id[2]].essential]]

Store == INSTANCE SelectionStore
           WITH Fold <- MCFold, Names <- MCLoadNames \cup MCSelNames,
                Archs <- MCLoadArches \cup MCSelArches,
                Sels <- MCSels \cup {"hold"},
                selections <- StoreOf(db), phase <- pc, request <- req

\* The database, the architecture registry and the two selection commands
\* together implement the selection store: status paragraphs and
\* set-selections lines reach the record of the lowercased name and the
\* architecture's key (none, native and all meaning the head instance),
\* clear-selections finishes only after deinstalling every record that is
\* not essential, and pkg_db_reset empties the store.
SelectionStoreRefined == Store!SSpec
====
