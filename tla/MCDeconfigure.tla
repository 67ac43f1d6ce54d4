----------------------------- MODULE MCDeconfigure -----------------------------
(* Model-checking instance of Deconfigure: five installed packages, one   *)
(* virtual package, and three databases, each run under every combination *)
(* of --auto-deconfigure and the force options, followed by the file     *)
(* conflict scan over a four-entry archive of PKG; or, in another dpkg    *)
(* process, --predep-package over two databases in every iterator order.  *)
EXTENDS ConflictScan, TLC

CONSTANTS A, B, C, D, E, R, X, v, P1, P2, P3, P4, P5

MCPkgs == {A, B, E, R, X}

Dep(up, alts) == [up |-> up, alts |-> alts]
Chk(t, up, target) == [type |-> t, up |-> up, target |-> target]

\* PKG conflicts with R, which the installed A and the essential E depend on
\* (in that order), and B through R's virtual package; X conflicts with PKG.
PartialRemoval ==
    [status |-> [p \in MCPkgs |-> "installed"],
     want |-> [p \in MCPkgs |-> "install"],
     essential |-> {E}, pkgessential |-> FALSE, reinstreq |-> {},
     replaces |-> {R, X},
     provides |-> [p \in MCPkgs |-> IF p = R THEN <<v>> ELSE <<>>],
     depends |-> <<Dep(A, {R}), Dep(E, {R}), Dep(B, {v})>>,
     checks |-> <<Chk("conflicts", PKG, R), Chk("conflicts", X, PKG)>>]

\* PKG breaks A and then conflicts with A, which is held and which B
\* depends on (or on R); X breaks PKG; R needs reinstallation.
BreaksThenConflicts ==
    [status |-> [p \in MCPkgs |-> CASE p = R -> "halfconfigured"
                                     [] p = E -> "configfiles"
                                     [] OTHER -> "installed"],
     want |-> [p \in MCPkgs |-> IF p = A THEN "hold" ELSE "install"],
     essential |-> {}, pkgessential |-> FALSE, reinstreq |-> {R},
     replaces |-> {A, R},
     provides |-> [p \in MCPkgs |-> <<>>],
     depends |-> <<Dep(B, {A, R}), Dep(X, {B})>>,
     checks |-> <<Chk("breaks", PKG, A), Chk("conflicts", PKG, A),
                  Chk("breaks", X, PKG), Chk("conflicts", PKG, R)>>]

\* An essential PKG conflicts with the essential E, which A depends on, and
\* with R, which needs reinstallation and is depended on by B.
EssentialSwap ==
    [status |-> [p \in MCPkgs |-> IF p = X THEN "notinstalled" ELSE "installed"],
     want |-> [p \in MCPkgs |-> IF p = R THEN "deinstall" ELSE "install"],
     essential |-> {E}, pkgessential |-> TRUE, reinstreq |-> {R},
     replaces |-> {},
     provides |-> [p \in MCPkgs |-> IF p = E THEN <<v>> ELSE <<>>],
     depends |-> <<Dep(A, {E}), Dep(B, {R, X}), Dep(X, {v})>>,
     checks |-> <<Chk("conflicts", PKG, E), Chk("conflicts", PKG, R),
                  Chk("conflicts", PKG, X)>>]

Ent(path, type, conff, filtered) ==
    [path |-> path, type |-> type, conff |-> conff, filtered |-> filtered]

Files(archive, owners, ondisk, replacedby, obsconff, mapeers, diverter, camefrom) ==
    [archive |-> archive, owners |-> owners, ondisk |-> ondisk,
     replacedby |-> replacedby, obsconff |-> obsconff,
     mapeers |-> mapeers, diverter |-> diverter, camefrom |-> camefrom]

NoDiversions == [p \in {P1, P2, P3, P4, P5} |-> NULL]

\* B Replaces PKG and yields P1, which it shares with A, first, so its
\* obsolete conffile P2 and its own P5 are kept as well; P3 is a new
\* directory; P4 belongs to X, which PKG replaces, and to A, which nothing
\* lets PKG overwrite.
PartialRemovalFiles ==
    Files(<<Ent(P1, "file", FALSE, FALSE), Ent(P2, "file", TRUE, FALSE),
            Ent(P3, "dir", FALSE, FALSE), Ent(P4, "file", FALSE, FALSE),
            Ent(P5, "file", FALSE, FALSE)>>,
          (P1 :> <<A, B>>) @@ (P2 :> <<R, B>>) @@ (P3 :> <<A>>) @@ (P4 :> <<X, A>>)
              @@ (P5 :> <<B>>),
          (P1 :> "file") @@ (P2 :> "file") @@ (P3 :> "none") @@ (P4 :> "file")
              @@ (P5 :> "file"),
          {B}, {<<B, P2>>}, {}, NoDiversions, {})

\* The obsolete conffile P2 of B comes before B's P1, so it is taken over;
\* P3 is a directory on disk owned by X and the config-files-only E, and
\* is excluded by --path-exclude; P4 is the diverted name of another file.
BreaksThenConflictsFiles ==
    Files(<<Ent(P2, "file", TRUE, FALSE), Ent(P1, "file", FALSE, FALSE),
            Ent(P3, "file", FALSE, TRUE), Ent(P4, "file", FALSE, FALSE)>>,
          (P1 :> <<B>>) @@ (P2 :> <<B>>) @@ (P3 :> <<X, E>>) @@ (P4 :> <<E, R>>),
          (P1 :> "file") @@ (P2 :> "file") @@ (P3 :> "dir") @@ (P4 :> "file"),
          {B}, {<<B, P2>>}, {}, NoDiversions, {P4})

\* P1 is an existing directory; P2 is new on disk but listed by R and by
\* E, which diverts it; P3 is shared with B, a Multi-Arch: same instance of
\* PKG's set, and listed by A.
EssentialSwapFiles ==
    Files(<<Ent(P1, "dir", FALSE, FALSE), Ent(P2, "file", FALSE, FALSE),
            Ent(P3, "file", FALSE, FALSE)>>,
          (P1 :> <<A, B>>) @@ (P2 :> <<R, E>>) @@ (P3 :> <<B, A>>),
          (P1 :> "dir") @@ (P2 :> "none") @@ (P3 :> "file"),
          {}, {}, {B}, [NoDiversions EXCEPT ![P2] = E], {})

MCDbs == {PartialRemoval @@ PartialRemovalFiles,
          BreaksThenConflicts @@ BreaksThenConflictsFiles,
          EssentialSwap @@ EssentialSwapFiles}

-----------------------------------------------------------------------------
(* --predep-package.  In Cycle, A needs B (D, first, has too old a         *)
(* version), B needs C and C needs B again, with nothing providing B; in  *)
(* Virt, A needs the virtual v, provided by B (no .deb) and C, whose own  *)
(* Pre-Depends is satisfied, and the held D would need A; Settled is Virt *)
(* with A's .deb gone, so nothing is needed.                              *)
VARIABLES cmd, pdb, pistobe, ppc, pk, ppkg, pdep, pstart

pvars == <<pdb, pistobe, ppc, pk, ppkg, pdep, pstart>>

Alt(t, vnone, instok, availok) ==
    [target |-> t, vnone |-> vnone, instok |-> instok, availok |-> availok]

PredepPkgs == {A, B, C, D}
NoProviders == [t \in PredepPkgs \cup {v} |-> <<>>]

Cycle ==
    [order |-> <<>>, want |-> [p \in PredepPkgs |-> "install"], files |-> PredepPkgs,
     predeps |-> (A :> <<<<Alt(D, FALSE, FALSE, FALSE), Alt(B, TRUE, FALSE, TRUE)>>>>)
                 @@ (B :> <<<<Alt(C, FALSE, FALSE, TRUE)>>>>)
                 @@ (C :> <<<<Alt(B, TRUE, FALSE, TRUE)>>>>) @@ (D :> <<>>),
     providers |-> NoProviders]

Virt ==
    [order |-> <<>>, want |-> [p \in PredepPkgs |-> IF p = D THEN "hold" ELSE "install"],
     files |-> {A, C, D},
     predeps |-> (A :> <<<<Alt(v, TRUE, FALSE, FALSE)>>>>) @@ (B :> <<>>)
                 @@ (C :> <<<<Alt(D, FALSE, FALSE, FALSE), Alt(B, TRUE, TRUE, TRUE)>>>>)
                 @@ (D :> <<<<Alt(A, TRUE, FALSE, TRUE)>>>>),
     providers |-> [NoProviders EXCEPT ![v] = <<B, C>>]]

Settled == [Virt EXCEPT !.files = {C, D}]

IterOrders == {o \in [1..4 -> PredepPkgs] : \A x, y \in 1..4 : x # y => o[x] # o[y]}
MCPredepDbs == {[x EXCEPT !.order = o] : x \in {Cycle, Virt, Settled}, o \in IterOrders}

Predep == INSTANCE PredepPackage
            WITH Pkgs <- PredepPkgs, Virtuals <- {v}, Dbs <- MCPredepDbs,
                 db <- pdb, istobe <- pistobe, pc <- ppc, k <- pk, pkg <- ppkg,
                 dep <- pdep, startpkg <- pstart

(* One dpkg process runs either the checks and the scan of an unpack, or  *)
(* --predep-package; the state of the other command stays at its start.  *)
DpkgInit ==
    \/ /\ cmd = "unpack" /\ ScanInit
       /\ Predep!Init /\ pdb = CHOOSE x \in MCPredepDbs : TRUE
    \/ /\ cmd = "predep" /\ Predep!Init
       /\ ScanInit /\ force = {}
       /\ db = CHOOSE x \in MCDbs : TRUE

PredepStep == cmd = "predep" /\ Predep!Next /\ UNCHANGED <<cmd, vars, scanvars>>

DpkgNext ==
    \/ cmd = "unpack" /\ ScanNext /\ UNCHANGED <<cmd, pvars>>
    \/ PredepStep

DpkgSpec == DpkgInit /\ [][DpkgNext]_<<cmd, vars, scanvars, pvars>>
            /\ WF_<<cmd, vars, scanvars, pvars>>(PredepStep)

\* What the comment above predeppackage (enquiry.c:349-360) promises: the
\* package written out satisfies an unsatisfied Pre-Depends of a package
\* visited before it and has none of its own, and exit status 1 means no
\* wanted, available package has an unsatisfied Pre-Depends.
PredepResult == Predep!PredepResult

\* The walk of predeppackage along Pre-Depends ends, even round a cycle:
\* the istobe marks keep it from taking a package twice.
PredepTerminates == cmd = "predep" => Predep!PredepTerminates

=============================================================================
