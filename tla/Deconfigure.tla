----------------------------- MODULE Deconfigure -----------------------------
(***************************************************************************)
(* The conflict and breakage checks the unpack engine runs before it      *)
(* unpacks a package PKG (src/archives.c: try_deconfigure_can,             *)
(* try_remove_can, check_breaks, check_conflict).                          *)
(*                                                                         *)
(* The caller (process_archive, not in this repository) calls check_conflict *)
(* for every Conflicts and check_breaks for every Breaks between PKG and  *)
(* the installed packages, in the order given by Checks.  A check decides  *)
(* to remove a conflicting package, queues packages for deconfiguration   *)
(* on the global "deconfigure" list, lets a forced problem pass, or aborts *)
(* the unpack (ohshit).  Each check runs without interruption, so it is    *)
(* one action; the loop over the reverse dependencies inside it is a       *)
(* RECURSIVE fold that keeps the partial effects it leaves on a break.     *)
(***************************************************************************)
EXTENDS Naturals, Sequences, SequencesExt

CONSTANTS
    Pkgs,       \* the installed packages other than PKG
    PKG,        \* the package being unpacked (istobe = itb_installnew)
    Virtuals,   \* virtual package names that Provides may give
    NULL,
    Dbs         \* the package databases and check lists to start from

(***************************************************************************)
(* A database db has                                                       *)
(*   status[p]   the installed status of p;                                *)
(*   want[p]     its selection;                                            *)
(*   essential   the installed packages with Essential: yes;               *)
(*   pkgessential whether PKG's new version is essential;                  *)
(*   reinstreq   the packages with the reinstreq error flag;              *)
(*   replaces    the packages PKG's Replaces cover (does_replace);         *)
(*   provides[p] the virtual packages p provides, in field order;         *)
(*   depends     the Depends/Pre-Depends of installed packages, in the    *)
(*               order of the depended-on lists, each [up, alts];         *)
(*   checks      the Conflicts/Breaks to check, each [type, up, target].  *)
(***************************************************************************)
AllPkgs == Pkgs \cup {PKG}
Options == {"autodeconf", "depends", "breaks", "conflicts",
            "removeessential", "removereinstreq", "hold",
            "overwrite", "overwritedir", "overwritediverted"}
Istobe == {"normal", "remove", "deconfigure", "installnew"}
ProperlyInstalled == {"installed", "triggerspending", "triggersawaited"}

VARIABLES
    db,          \* the database and checks (fixed)
    force,       \* the options given: f_autodeconf and the fc_* force flags
    istobe,      \* clientdata->istobe of every package
    deconfigure, \* the pkg_deconf_list, newest first: [pkg, removal]
    conflictors, \* the packages push_conflictor recorded, in order
    i,           \* the next check
    outcome      \* "running", "ok" (every check passed), "aborted"

vars == <<db, force, istobe, deconfigure, conflictors, i, outcome>>

(***************************************************************************)
(* depisok() is in depcon.c, outside this repository.  The contract used   *)
(* here: a dependency is always OK when its depending package is to be     *)
(* removed or deconfigured, or is not properly installed; a Depends holds  *)
(* when some alternative is PKG, an installed package with istobe normal,  *)
(* or a virtual package such a package provides; a Conflicts is violated  *)
(* by a target that is present and not to be removed (PKG included), and  *)
(* names that target as the package whose removal fixes it; a Breaks is   *)
(* violated likewise, except by a target already to be deconfigured, and  *)
(* names the installed side of the pair as the package to deconfigure.     *)
(* Under this contract the package check_breaks deconfigures has istobe   *)
(* normal and the one check_conflict marks has istobe normal or           *)
(* deconfigure, so the assertions of lines 1188 and 1250 hold.            *)
(***************************************************************************)
UpExempt(up, ist) ==
    ist[up] \in {"remove", "deconfigure"}
    \/ (ist[up] = "normal" /\ db.status[up] \notin ProperlyInstalled)

Present(t, ist) ==
    \/ ist[t] = "installnew"
    \/ ist[t] = "normal" /\ db.status[t] \in ProperlyInstalled

DependsOk(d, ist) ==
    UpExempt(d.up, ist)
    \/ \E a \in d.alts :
          \/ a \in AllPkgs /\ Present(a, ist)
          \/ a \in Virtuals /\ \E p \in Pkgs : a \in ToSet(db.provides[p]) /\ Present(p, ist)

\* The package depisok() reports as the fix, or NULL when the dependency is OK.
Culprit(c, ist) ==
    IF UpExempt(c.up, ist) THEN NULL
    ELSE IF c.type = "conflicts"
         THEN IF ist[c.target] # "remove" /\ (ist[c.target] = "installnew"
                    \/ db.status[c.target] # "notinstalled") THEN c.target ELSE NULL
         ELSE IF Present(c.target, ist) THEN (IF c.target = PKG THEN c.up ELSE c.target)
              ELSE NULL

depisok(c, ist) == Culprit(c, ist) = NULL

-----------------------------------------------------------------------------
(* st is the state a check works on: istobe, the deconfigure list, and     *)
(* whether the last try failed (pdep left non-NULL).                       *)

\* try_deconfigure_can(): 2 when forced, 1 when queued, 0 when not possible.
try_deconfigure_can(forced, pkg, removal, st) ==
    CASE forced -> [ret |-> 2, st |-> st]
      [] "autodeconf" \in force /\ pkg \in db.essential /\ "removeessential" \notin force
             -> [ret |-> 0, st |-> st]
      [] "autodeconf" \in force ->
             [ret |-> 1,
              st |-> [st EXCEPT !.istobe[pkg] = "deconfigure",
                                !.deconfigure = <<[pkg |-> pkg, removal |-> removal]>> \o @]]
      [] OTHER -> [ret |-> 0, st |-> st]

\* try_remove_can(): the depending package of pdep, forced by --force-depends.
try_remove_can(pdep, fixbyrm, st) ==
    try_deconfigure_can("depends" \in force, pdep.up, fixbyrm, st)

\* The Depends/Pre-Depends in the depended-on list of name.
DependedInstalled(name) == SelectSeq(db.depends, LAMBDA d : name \in d.alts)

\* for (pdep = ...; pdep; pdep = pdep->rev_next): skip an OK dependency,
\* stop at the first that cannot be deconfigured.
RECURSIVE RemovalLoop(_, _, _)
RemovalLoop(pdeps, fixbyrm, st) ==
    IF pdeps = <<>> THEN st
    ELSE IF DependsOk(Head(pdeps), st.istobe) THEN RemovalLoop(Tail(pdeps), fixbyrm, st)
    ELSE LET r == try_remove_can(Head(pdeps), fixbyrm, st)
         IN  IF r.ret = 0 THEN [r.st EXCEPT !.failed = TRUE]
             ELSE RemovalLoop(Tail(pdeps), fixbyrm, r.st)

\* The same loop over the depended-on list of every virtual package fixbyrm
\* provides, left at once on a failure (break_from_both_loops_at_once).
RECURSIVE ProvidesLoop(_, _, _)
ProvidesLoop(vs, fixbyrm, st) ==
    IF vs = <<>> \/ st.failed THEN st
    ELSE ProvidesLoop(Tail(vs), fixbyrm,
                      RemovalLoop(DependedInstalled(Head(vs)), fixbyrm, st))

\* skip_due_to_hold() (not in this repository): a held package is not
\* touched unless --force-hold.
skip_due_to_hold(p) == db.want[p] = "hold" /\ "hold" \notin force

\* The condition under which check_conflict considers removing fixbyrm.
RemovalAllowed(fixbyrm) ==
    \/ db.pkgessential /\ fixbyrm \in db.essential
    \/ /\ db.want[fixbyrm] \notin {"install", "hold"} \/ fixbyrm \in db.replaces
       /\ fixbyrm \notin db.essential \/ "removeessential" \in force

\* Mutant: the reverse dependencies through Provides are not looked at.
TryRemoval_no_provides(fixbyrm) ==
    LET st0 == [istobe |-> [istobe EXCEPT ![fixbyrm] = "remove"],
                deconfigure |-> deconfigure, failed |-> FALSE]
        st1 == IF db.status[fixbyrm] \notin ProperlyInstalled THEN st0
               ELSE RemovalLoop(DependedInstalled(fixbyrm), fixbyrm, st0)
    IN  [st1 EXCEPT !.failed = @ \/ skip_due_to_hold(fixbyrm)
                               \/ (fixbyrm \in db.reinstreq /\ "removereinstreq" \notin force)]

\* Mark fixbyrm for removal and check every reverse dependency; the result
\* says whether pdep was left non-NULL by a failure, a hold or reinstreq.
TryRemoval(fixbyrm) ==
    LET st0 == [istobe |-> [istobe EXCEPT ![fixbyrm] = "remove"],
                deconfigure |-> deconfigure, failed |-> FALSE]
        st1 == IF db.status[fixbyrm] \notin ProperlyInstalled THEN st0
               ELSE LET a == RemovalLoop(DependedInstalled(fixbyrm), fixbyrm, st0)
                    IN  IF a.failed THEN a ELSE ProvidesLoop(db.provides[fixbyrm], fixbyrm, a)
    IN  [st1 EXCEPT !.failed = @ \/ skip_due_to_hold(fixbyrm)
                               \/ (fixbyrm \in db.reinstreq /\ "removereinstreq" \notin force)]

Proceed == i' = i + 1 /\ UNCHANGED outcome

\* Mutant: the problem is only warned about, whatever the force options.
Refuse_warn_only(flag) == Proceed

\* A problem not resolved: go on if forced, else ohshit.
Refuse(flag) ==
    IF flag \in force THEN Proceed ELSE outcome' = "aborted" /\ UNCHANGED i

\* check_conflict(dep, pkg): one Conflicts between PKG and an installed package.
check_conflict ==
    LET c   == db.checks[i]
        f0  == Culprit(c, istobe)
        fixbyrm == IF f0 # NULL /\ istobe[f0] = "installnew" THEN c.up ELSE f0
        st  == TryRemoval(fixbyrm)
    IN
    /\ outcome = "running" /\ i <= Len(db.checks) /\ c.type = "conflicts"
    /\ UNCHANGED <<db, force>>
    /\ \/ /\ f0 = NULL
          /\ Proceed /\ UNCHANGED <<istobe, deconfigure, conflictors>>
       \/ /\ f0 # NULL /\ RemovalAllowed(fixbyrm)
          /\ deconfigure' = st.deconfigure
          /\ IF ~st.failed
             THEN /\ istobe' = st.istobe
                  /\ conflictors' = Append(conflictors, fixbyrm)
                  /\ Proceed
             ELSE /\ istobe' = [st.istobe EXCEPT ![fixbyrm] = "normal"]
                  /\ UNCHANGED conflictors
                  /\ Refuse("conflicts")
       \/ /\ f0 # NULL /\ ~RemovalAllowed(fixbyrm)
          /\ UNCHANGED <<istobe, deconfigure, conflictors>>
          /\ Refuse("conflicts")

\* Mutant: the package being installed is passed for the one to deconfigure.
check_breaks_deconfigures_pkg ==
    LET c == db.checks[i]
        fixbydeconf == Culprit(c, istobe)
        r == try_deconfigure_can("breaks" \in force, PKG, NULL,
                                 [istobe |-> istobe, deconfigure |-> deconfigure, failed |-> FALSE])
    IN
    /\ outcome = "running" /\ i <= Len(db.checks) /\ c.type = "breaks"
    /\ UNCHANGED <<db, force, conflictors>>
    /\ \/ /\ fixbydeconf = NULL
          /\ Proceed /\ UNCHANGED <<istobe, deconfigure>>
       \/ /\ fixbydeconf # NULL /\ "autodeconf" \in force /\ r.ret > 0
          /\ istobe' = r.st.istobe /\ deconfigure' = r.st.deconfigure
          /\ Proceed
       \/ /\ fixbydeconf # NULL
          /\ ("autodeconf" \in force => r.ret = 0)
          /\ UNCHANGED <<istobe, deconfigure>>
          /\ Refuse("breaks")

\* check_breaks(dep, pkg): one Breaks between PKG and an installed package.
check_breaks ==
    LET c == db.checks[i]
        fixbydeconf == Culprit(c, istobe)
        r == try_deconfigure_can("breaks" \in force, fixbydeconf, NULL,
                                 [istobe |-> istobe, deconfigure |-> deconfigure, failed |-> FALSE])
    IN
    /\ outcome = "running" /\ i <= Len(db.checks) /\ c.type = "breaks"
    /\ UNCHANGED <<db, force, conflictors>>
    /\ \/ /\ fixbydeconf = NULL
          /\ Proceed /\ UNCHANGED <<istobe, deconfigure>>
       \/ /\ fixbydeconf # NULL /\ "autodeconf" \in force /\ r.ret > 0
          /\ istobe' = r.st.istobe /\ deconfigure' = r.st.deconfigure
          /\ Proceed
       \/ /\ fixbydeconf # NULL
          /\ ("autodeconf" \in force => r.ret = 0)
          /\ UNCHANGED <<istobe, deconfigure>>
          /\ Refuse("breaks")

\* Every check passed: the unpack goes ahead.
checks_done ==
    /\ outcome = "running" /\ i > Len(db.checks)
    /\ outcome' = "ok"
    /\ UNCHANGED <<db, force, istobe, deconfigure, conflictors, i>>

Init ==
    /\ db \in Dbs
    /\ force \in SUBSET Options
    /\ istobe = [p \in AllPkgs |-> IF p = PKG THEN "installnew" ELSE "normal"]
    /\ deconfigure = <<>>
    /\ conflictors = <<>>
    /\ i = 1
    /\ outcome = "running"

Next == check_conflict \/ check_breaks \/ checks_done

Spec == Init /\ [][Next]_vars

-----------------------------------------------------------------------------
InitialIstobe == [p \in AllPkgs |-> IF p = PKG THEN "installnew" ELSE "normal"]

\* What the caller carries out once every check passed: the conflictors are
\* removed and the packages on the deconfigure list deconfigured.
Planned(withDeconf) ==
    [p \in AllPkgs |->
        CASE p = PKG -> "installnew"
          [] p \in ToSet(conflictors) -> "remove"
          [] withDeconf /\ \E k \in 1..Len(deconfigure) : deconfigure[k].pkg = p -> "deconfigure"
          [] OTHER -> "normal"]

TypeOK ==
    /\ force \subseteq Options
    /\ istobe \in [AllPkgs -> Istobe]
    /\ istobe[PKG] = "installnew"
    /\ \A k \in 1..Len(deconfigure) :
          deconfigure[k].pkg \in Pkgs /\ deconfigure[k].removal \in Pkgs \cup {NULL}
    /\ \A k \in 1..Len(conflictors) : conflictors[k] \in Pkgs
    /\ i \in 1..Len(db.checks) + 1
    /\ outcome \in {"running", "ok", "aborted"}

\* When every check passed without --force-depends, no Depends of an
\* installed package that held before is broken by removing the packages
\* check_conflict recorded as conflictors, unless its depending package is
\* itself removed or deconfigured (the removal loop and the Provides loop).
NoDependsBrokenByRemoval ==
    outcome = "ok" /\ "depends" \notin force =>
        \A d \in ToSet(db.depends) :
            DependsOk(d, InitialIstobe) =>
                \/ Planned(TRUE)[d.up] \in {"remove", "deconfigure"}
                \/ DependsOk(d, Planned(FALSE))

\* When every check passed, each Conflicts and Breaks that was not forced is
\* resolved by removing the conflictors and deconfiguring the packages on
\* the deconfigure list.
ConflictsResolved ==
    outcome = "ok" =>
        \A k \in 1..Len(db.checks) :
            db.checks[k].type \notin force => depisok(db.checks[k], Planned(TRUE))

\* When every check passed, each queued deconfiguration stands: its package
\* is still to be deconfigured (or removed), and the removal it was queued
\* for is still going to happen.
DeconfigureListConsistent ==
    outcome = "ok" =>
        \A e \in ToSet(deconfigure) :
            /\ istobe[e.pkg] \in {"deconfigure", "remove"}
            /\ e.removal # NULL => istobe[e.removal] = "remove"

=============================================================================
