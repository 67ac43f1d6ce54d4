---------------------------- MODULE PredepPackage ----------------------------
(***************************************************************************)
(* dpkg --predep-package (predeppackage, src/enquiry.c): find a package   *)
(* that some wanted, available package needs through an unsatisfied      *)
(* Pre-Depends and that has no unsatisfied Pre-Depends of its own.        *)
(*                                                                         *)
(* The first loop walks the package iterator for a package selected for   *)
(* install, with an available .deb (files), and an unsatisfied            *)
(* Pre-Depends.  The second loop then follows that dependency: the first  *)
(* alternative with a usable package (the target itself, if available,    *)
(* of a satisfying available version and not yet visited, else, for an  *)
(* unversioned alternative, the first such provider) is taken, marked     *)
(* itb_preinstall, and its own first unsatisfied Pre-Depends followed in  *)
(* turn.  The istobe marks are what stops the walk from going round a    *)
(* cycle of Pre-Depends.                                                   *)
(*                                                                         *)
(* depisok() is in depcon.c, outside this repository; the contract is    *)
(* that a Pre-Depends is satisfied when one of its alternatives is        *)
(* (instok, which covers installed targets and installed providers).     *)
(* Under allowunconfigd the istobe marks of this command do not change   *)
(* that answer.  deppossi_get_pkg returns the one instance of the target *)
(* set, and versionsatisfied(&trypkg->available, possi) is availok.       *)
(***************************************************************************)
EXTENDS Naturals, Sequences, SequencesExt

CONSTANTS
    Pkgs,      \* the package sets with a real package
    Virtuals,  \* names only ever provided
    NULL,
    Dbs        \* the databases to start from

(***************************************************************************)
(* A database db has                                                       *)
(*   order        the packages in pkg_db_iter_next_pkg order;              *)
(*   want[p]      its selection;                                           *)
(*   files        the packages with an available .deb (pkg->files);       *)
(*   predeps[p]   the Pre-Depends of p's available version, in order,     *)
(*                each a sequence of alternatives [target, vnone, instok, *)
(*                availok];                                               *)
(*   providers[t] the packages whose available version Provides t, in    *)
(*                the order of t's depended.available list.               *)
(***************************************************************************)
VARIABLES
    db,        \* the database (fixed)
    istobe,    \* clientdata->istobe: "normal" or "preinstall"
    pc,        \* "scan", "search", "done", "notfound" (exit 1), "failed" (ohshit)
    k,         \* the iterator's position in db.order
    pkg,       \* the package last taken
    dep,       \* the unsatisfied Pre-Depends being followed, or NULL
    startpkg   \* the package whose Pre-Depends started the search

vars == <<db, istobe, pc, k, pkg, dep, startpkg>>

depisok(d) == \E j \in 1..Len(d) : d[j].instok

\* The "for (dep = pkg->available.depends; ...)" loop: the first
\* Pre-Depends that depisok rejects, or 0.
FirstUnsatisfied(p) == SelectInSeq(db.predeps[p], LAMBDA d : ~depisok(d))

\* Mutant: the instance is taken without its version being checked.
Usable_any_version(t, possi, ist) == t \in db.files /\ ist[t] = "normal"

\* The checks of the inner while: available, the version satisfies the
\* alternative, and not yet visited.
Usable(t, possi, ist) == t \in db.files /\ possi.availok /\ ist[t] = "normal"

\* The package the inner loops pick for one alternative, or NULL: the
\* target itself, else for an unversioned alternative the first provider
\* that is available and not yet visited (a provider's version is not
\* checked).
Candidate(possi, ist) ==
    LET t  == possi.target
        pv == db.providers[t]
        j  == SelectInSeq(pv, LAMBDA q : q \in db.files /\ ist[q] = "normal")
    IN  IF t \in Pkgs /\ Usable(t, possi, ist) THEN t
        ELSE IF ~possi.vnone \/ j = 0 THEN NULL
        ELSE pv[j]

\* for (possi = dep->list, pkg = NULL; !pkg && possi; ...)
Pick(d, ist) ==
    LET j == SelectInSeq(d, LAMBDA possi : Candidate(possi, ist) # NULL)
    IN  IF j = 0 THEN NULL ELSE Candidate(d[j], ist)

Init ==
    /\ db \in Dbs
    /\ istobe = [p \in Pkgs |-> "normal"]    \* clear_istobes()
    /\ pc = "scan"
    /\ k = 1
    /\ pkg = NULL
    /\ dep = NULL
    /\ startpkg = NULL

(* One turn of the first loop.  The mark set before the check is reset    *)
(* after it, so only the package found keeps one.                         *)
scan_next ==
    LET p == db.order[k]
        u == FirstUnsatisfied(p)
    IN  /\ pc = "scan"
        /\ k <= Len(db.order)
        /\ k' = k + 1
        /\ \/ /\ db.want[p] # "install" \/ p \notin db.files \/ u = 0
              /\ UNCHANGED <<istobe, pc, pkg, dep, startpkg>>
           \/ /\ db.want[p] = "install" /\ p \in db.files /\ u # 0
              /\ istobe' = [istobe EXCEPT ![p] = "preinstall"]
              /\ pkg' = p
              /\ startpkg' = p
              /\ dep' = db.predeps[p][u]
              /\ pc' = "search"
        /\ UNCHANGED db

\* The iterator is exhausted with no unsatisfied Pre-Depends: exit(1).
scan_end ==
    /\ pc = "scan"
    /\ k > Len(db.order)
    /\ pc' = "notfound"
    /\ UNCHANGED <<db, istobe, k, pkg, dep, startpkg>>

\* Mutant: the package taken is not marked, so it may be taken again.
search_step_unmarked ==
    LET p == Pick(dep, istobe)
    IN  /\ pc = "search"
        /\ \/ /\ p = NULL
              /\ pc' = "failed"
              /\ UNCHANGED <<istobe, pkg, dep>>
           \/ /\ p # NULL
              /\ pkg' = p
              /\ IF FirstUnsatisfied(p) = 0
                 THEN pc' = "done" /\ UNCHANGED dep
                 ELSE dep' = db.predeps[p][FirstUnsatisfied(p)] /\ UNCHANGED pc
              /\ UNCHANGED istobe
        /\ UNCHANGED <<db, k, startpkg>>

(* One turn of the do-while loop: pick a package for dep, or ohshit        *)
(* "cannot satisfy pre-dependencies"; mark it and look for its own first  *)
(* unsatisfied Pre-Depends; with none, it is written out.                  *)
search_step ==
    LET p == Pick(dep, istobe)
    IN  /\ pc = "search"
        /\ \/ /\ p = NULL
              /\ pc' = "failed"
              /\ UNCHANGED <<istobe, pkg, dep>>
           \/ /\ p # NULL
              /\ istobe' = [istobe EXCEPT ![p] = "preinstall"]
              /\ pkg' = p
              /\ IF FirstUnsatisfied(p) = 0
                 THEN pc' = "done" /\ UNCHANGED dep
                 ELSE dep' = db.predeps[p][FirstUnsatisfied(p)] /\ UNCHANGED pc
        /\ UNCHANGED <<db, k, startpkg>>

Next == scan_next \/ scan_end \/ search_step

Spec == Init /\ [][Next]_vars

\* The command is one process that waits on nothing.
FairSpec == Spec /\ WF_vars(Next)

-----------------------------------------------------------------------------
TypeOK ==
    /\ istobe \in [Pkgs -> {"normal", "preinstall"}]
    /\ pc \in {"scan", "search", "done", "notfound", "failed"}
    /\ k \in 1..Len(db.order) + 1
    /\ pkg \in Pkgs \cup {NULL}
    /\ startpkg \in Pkgs \cup {NULL}

\* p would satisfy one alternative of d: as its target with a satisfying
\* available version, or as a provider of an unversioned one.
WouldSatisfy(p, d) ==
    \E j \in 1..Len(d) :
        \/ d[j].target = p /\ d[j].availok
        \/ d[j].vnone /\ p \in ToSet(db.providers[d[j].target])

\* What the comment above predeppackage promises.  A package written out
\* (a) satisfies an unsatisfied Pre-Depends of a package visited before
\* it, and (b) has an available .deb and no unsatisfied Pre-Depends of its
\* own; exit status 1 means no wanted, available package has an
\* unsatisfied Pre-Depends.
PredepResult ==
    /\ pc = "done" =>
          /\ pkg \in db.files
          /\ FirstUnsatisfied(pkg) = 0
          /\ \E q \in {x \in Pkgs : istobe[x] = "preinstall"} \ {pkg} :
                \E u \in 1..Len(db.predeps[q]) :
                    ~depisok(db.predeps[q][u]) /\ WouldSatisfy(pkg, db.predeps[q][u])
    /\ pc = "notfound" =>
          \A p \in Pkgs : db.want[p] = "install" /\ p \in db.files => FirstUnsatisfied(p) = 0

\* The walk along Pre-Depends ends, cycles included: the command writes a
\* package out, exits 1, or fails.
PredepTerminates == <>(pc \in {"done", "notfound", "failed"})

=============================================================================
