----------------------------- MODULE ConflictScan -----------------------------
(***************************************************************************)
(* The file-conflict scan of tarobject() (src/archives.c), composed with  *)
(* the conflict and breakage checks of Deconfigure that run before it.    *)
(*                                                                         *)
(* Once every check passed (outcome = "ok") the archive of PKG is read     *)
(* entry by entry.  For each entry tarobject() adds the path to the new   *)
(* file list, marks it fnnf_new_inarchive, and walks the other packages   *)
(* that own the path in the database.  What it decides for an owner is    *)
(* cached in that owner's replacingfilesandsaid (1: PKG replaces it, 2: it *)
(* replaces PKG) and reused for every later entry.  An entry ends kept    *)
(* (the installed file stays, the path leaves the list), filtered by      *)
(* --path-exclude, an existing directory, or extracted; an unforced file  *)
(* conflict aborts the unpack (forcibleerr without the force flag).        *)
(* Each tarobject() call runs without interruption, so it is one action;   *)
(* the loop over the owners is a RECURSIVE fold.                           *)
(*                                                                         *)
(* A database db here also has                                            *)
(*   archive     the entries of PKG's data.tar, each [path, type, conff,   *)
(*               filtered]: type "file" or "dir", conff whether the path  *)
(*               is a conffile of PKG (fnnf_new_conff), filtered whether   *)
(*               --path-exclude drops it;                                   *)
(*   owners[p]   the packages listing p, in filepackages_iter order;      *)
(*   ondisk[p]   what lstat() finds at p: "none", "file" or "dir";        *)
(*   replacedby  the installed packages whose Replaces cover PKG;          *)
(*   obsconff    the pairs <<o, p>> where p is on disk the same inode as   *)
(*               an obsolete conffile of o;                                 *)
(*   mapeers     the packages of PKG's set installed for another arch,     *)
(*               both Multi-Arch: same;                                     *)
(*   diverter[p] the package set of p's diversion (NULL if p has none);    *)
(*   camefrom    the paths that are the diverted name of another file.    *)
(* The content comparison a Multi-Arch: same peer asks for later          *)
(* (ensuresamefile) is not modelled.                                      *)
(***************************************************************************)
EXTENDS Deconfigure

VARIABLES
    ti,         \* the next archive entry
    said,       \* clientdata->replacingfilesandsaid of every package
    newfiles,   \* the new file list tc->newfilesp, as paths in order
    inarchive,  \* the paths whose namenode has fnnf_new_inarchive
    kept,       \* the paths left to their installed owner (keepexisting)
    placed,     \* the paths extracted from the archive
    unpack,     \* "waiting", "unpacking", "unpacked" or "aborted"
    checked,    \* the packages the disappearance pass has looked at
    gone        \* the packages it disappeared (fileslistvalid false)

scanvars == <<ti, said, newfiles, inarchive, kept, placed, unpack, checked, gone>>

Paths == DOMAIN db.owners

\* does_replace(new, old): a Replaces of new's version covers old.  Only
\* the two directions tarobject() asks about exist: PKG's available version
\* against an installed package, and an installed package against PKG.
does_replace(new, old) ==
    IF new = PKG THEN old \in db.replaces
    ELSE old = PKG /\ new \in db.replacedby

\* The path is an obsolete conffile of o: PKG ships it as a conffile, it
\* exists as a regular file, and one of o's obsolete conffiles is that file.
ObsoleteConffile(o, ent) ==
    /\ ent.conff
    /\ db.ondisk[ent.path] = "file"
    /\ <<o, ent.path>> \in db.obsconff

\* The path is diverted and one of the two packages is the diverting one.
DivertedFor(o, ent) ==
    db.diverter[ent.path] # NULL /\ db.diverter[ent.path] \in {o, PKG}

ExistingDir(ent) == ent.type = "dir" /\ db.ondisk[ent.path] = "dir"

\* The force flag forcibleerr() checks for an unreplaced owner.
OverwriteFlag(ent) ==
    IF db.ondisk[ent.path] = "dir" THEN "overwritedir" ELSE "overwrite"

\* No complaint when a new directory meets a path that does not exist.
Complains(ent) == ~(db.ondisk[ent.path] = "none" /\ ent.type = "dir")

\* Mutant: a package to be deconfigured is passed over like one to be
\* removed.
Consider_deconf_taken(o, ent, st) ==
    CASE o = PKG -> st
      [] o \in db.mapeers -> st
      [] DivertedFor(o, ent) -> st
      [] st.said[o] = 2 -> [st EXCEPT !.keep = TRUE]
      [] st.said[o] = 1 -> st
      [] db.status[o] = "configfiles" -> st
      [] istobe[o] \in {"remove", "deconfigure"} -> st
      [] ObsoleteConffile(o, ent) -> st
      [] does_replace(PKG, o) -> [st EXCEPT !.said[o] = 1]
      [] does_replace(o, PKG) ->
            [st EXCEPT !.said[o] = 2, !.inarch = FALSE, !.keep = TRUE]
      [] Complains(ent) /\ OverwriteFlag(ent) \notin force ->
            [st EXCEPT !.abort = TRUE]
      [] OTHER -> st

\* Mutant: the obsolete-conffile exemption is tested before the cached
\* Replaces decision.
Consider_conffile_first(o, ent, st) ==
    CASE o = PKG -> st
      [] o \in db.mapeers -> st
      [] DivertedFor(o, ent) -> st
      [] ObsoleteConffile(o, ent) -> st
      [] st.said[o] = 2 -> [st EXCEPT !.keep = TRUE]
      [] st.said[o] = 1 -> st
      [] db.status[o] = "configfiles" -> st
      [] istobe[o] = "remove" -> st
      [] does_replace(PKG, o) -> [st EXCEPT !.said[o] = 1]
      [] does_replace(o, PKG) ->
            [st EXCEPT !.said[o] = 2, !.inarch = FALSE, !.keep = TRUE]
      [] Complains(ent) /\ OverwriteFlag(ent) \notin force ->
            [st EXCEPT !.abort = TRUE]
      [] OTHER -> st

\* The path is where a diversion put another file, and --force-overwrite-
\* diverted is not given: forcibleerr before anything else is looked at.
OverwritesDiverted(ent) ==
    ent.path \in db.camefrom /\ "overwritediverted" \notin force

\* One iteration of the owner loop; st is [said, keep, inarch, abort].
Consider(o, ent, st) ==
    CASE o = PKG -> st
      [] o \in db.mapeers -> st
      [] DivertedFor(o, ent) -> st
      [] st.said[o] = 2 -> [st EXCEPT !.keep = TRUE]
      [] st.said[o] = 1 -> st
      [] db.status[o] = "configfiles" -> st
      [] istobe[o] = "remove" -> st
      [] ObsoleteConffile(o, ent) -> st
      [] does_replace(PKG, o) -> [st EXCEPT !.said[o] = 1]
      [] does_replace(o, PKG) ->
            [st EXCEPT !.said[o] = 2, !.inarch = FALSE, !.keep = TRUE]
      [] Complains(ent) /\ OverwriteFlag(ent) \notin force ->
            [st EXCEPT !.abort = TRUE]
      [] OTHER -> st

RECURSIVE ScanOwners(_, _, _)
ScanOwners(os, ent, st) ==
    IF os = <<>> \/ st.abort THEN st
    ELSE ScanOwners(Tail(os), ent, Consider(Head(os), ent, st))

\* Whether the path keeps fnnf_new_inarchive: a kept path keeps it unless
\* this entry made the "replaced by" decision, a filtered path loses it.
InArchiveAfter(st, ent) ==
    CASE st.keep -> st.inarch
      [] ent.filtered -> FALSE
      [] OTHER -> TRUE

\* tarobject(): the entry is appended to the new file list and marked as in
\* the archive, its owners are scanned unless it is an existing directory,
\* and it is then kept (removed from the list again), filtered, left as an
\* existing directory, or extracted.  An abort stops the unpack.
tarobject ==
    /\ outcome = "ok" /\ unpack \in {"waiting", "unpacking"}
    /\ ti <= Len(db.archive)
    /\ LET ent == db.archive[ti]
           p == ent.path
           st0 == [said |-> said, keep |-> FALSE, inarch |-> TRUE,
                   abort |-> OverwritesDiverted(ent)]
           st == IF ExistingDir(ent) \/ st0.abort THEN st0
                 ELSE ScanOwners(db.owners[p], ent, st0)
       IN /\ said' = st.said
          /\ IF st.abort
             THEN /\ unpack' = "aborted"
                  /\ newfiles' = Append(newfiles, p)
                  /\ inarchive' = inarchive \cup {p}
                  /\ UNCHANGED <<ti, kept, placed>>
             ELSE /\ unpack' = "unpacking"
                  /\ ti' = ti + 1
                  /\ inarchive' = IF InArchiveAfter(st, ent)
                                  THEN inarchive \cup {p} ELSE inarchive
                  /\ newfiles' = IF st.keep THEN newfiles ELSE Append(newfiles, p)
                  /\ kept' = IF st.keep THEN kept \cup {p} ELSE kept
                  /\ placed' = IF st.keep \/ ent.filtered \/ ExistingDir(ent)
                               THEN placed ELSE placed \cup {p}
    /\ UNCHANGED <<vars, checked, gone>>

\* The end of the archive: the unpack proper is complete.
tar_done ==
    /\ outcome = "ok" /\ unpack \in {"waiting", "unpacking"}
    /\ ti > Len(db.archive)
    /\ unpack' = "unpacked"
    /\ UNCHANGED <<vars, ti, said, newfiles, inarchive, kept, placed, checked, gone>>

(***************************************************************************)
(* After the unpack, every other installed package all of whose files the *)
(* new package took over disappears.  The pass is in process_archive (not  *)
(* in this repository); what it asks of each file is filesavespackage().   *)
(* It visits the packages in database order, which the model leaves free.  *)
(***************************************************************************)
FilesOf(o) == {p \in Paths : o \in ToSet(db.owners[p])}

\* Mutant: every third package listing the path takes it, the ones
\* already disappeared included.
filesavespackage_any_third(p, o) ==
    \/ db.diverter[p] # NULL /\ db.diverter[p] \in {o, PKG}
    \/ /\ p \notin inarchive
       /\ ToSet(db.owners[p]) \ {PKG, o} = {}

\* filesavespackage(p, o): p keeps o from disappearing when o or PKG
\* diverts it, or when it is not new in the archive and no third package
\* with a valid file list (one not yet disappeared) lists it.
filesavespackage(p, o) ==
    \/ db.diverter[p] # NULL /\ db.diverter[p] \in {o, PKG}
    \/ /\ p \notin inarchive
       /\ \A t \in ToSet(db.owners[p]) \ {PKG, o} : t \in gone

\* The packages the pass considers: installed, not being removed, not a
\* Multi-Arch: same instance of PKG's set, with files.
DisappearCandidates ==
    {o \in Pkgs : /\ db.status[o] \notin {"notinstalled", "configfiles"}
                  /\ istobe[o] # "remove"
                  /\ o \notin db.mapeers
                  /\ FilesOf(o) # {}}

\* One package of the pass: it disappears unless one of its files saves it.
disappear(o) ==
    /\ unpack = "unpacked"
    /\ o \in DisappearCandidates \ checked
    /\ checked' = checked \cup {o}
    /\ gone' = IF \E p \in FilesOf(o) : filesavespackage(p, o)
               THEN gone ELSE gone \cup {o}
    /\ UNCHANGED <<vars, ti, said, newfiles, inarchive, kept, placed, unpack>>

ScanInit ==
    /\ Init
    /\ ti = 1
    /\ said = [p \in AllPkgs |-> 0]
    /\ newfiles = <<>>
    /\ inarchive = {}
    /\ kept = {}
    /\ placed = {}
    /\ unpack = "waiting"
    /\ checked = {}
    /\ gone = {}

ScanNext ==
    \/ Next /\ UNCHANGED scanvars
    \/ tarobject
    \/ tar_done
    \/ \E o \in Pkgs : disappear(o)

ScanSpec == ScanInit /\ [][ScanNext]_<<vars, scanvars>>

-----------------------------------------------------------------------------
EntryOf(p) == db.archive[CHOOSE k \in 1..Len(db.archive) : db.archive[k].path = p]

\* An owner's file may be taken over when the checks before the unpack
\* decided to remove the owner, the owner only has config files left, PKG
\* Replaces it, the file is one of its obsolete conffiles, it shares the
\* file as a Multi-Arch: same instance of PKG's set, one of the two diverts
\* the path, a new directory meets nothing on disk, or the matching
\* --force-overwrite flag is given.
TakeoverAllowed(o, ent) ==
    \/ o \in db.mapeers
    \/ DivertedFor(o, ent)
    \/ Planned(TRUE)[o] = "remove"
    \/ db.status[o] = "configfiles"
    \/ o \in db.replaces
    \/ ObsoleteConffile(o, ent)
    \/ ~Complains(ent)
    \/ OverwriteFlag(ent) \in force

\* tarobject() never extracts over a file another installed package owns
\* unless that takeover is allowed, nor over the diverted name of another
\* file without --force-overwrite-diverted: the istobe decisions of check_conflict
\* and check_breaks, the Replaces cache and the force flags together must
\* stop every other overwrite.
NoUnauthorisedOverwrite ==
    \A p \in placed :
        /\ \A o \in ToSet(db.owners[p]) \ {PKG} : TakeoverAllowed(o, EntryOf(p))
        /\ p \in db.camefrom => "overwritediverted" \in force

\* A package disappears only when each of its files is new in the archive
\* or stays listed by a package that has not disappeared: the pass must not
\* hand a shared file to a package it already disappeared, whatever order
\* it visits the packages in.
DisappearOnlyWhenTaken ==
    \A o \in gone : \A p \in FilesOf(o) :
        \/ p \in inarchive
        \/ \E t \in ToSet(db.owners[p]) \ {PKG} : t \notin gone

\* What the comment of filesavespackage promises: a package is saved by a
\* file that is neither part of the new package nor of a third package, so
\* every path an installed package lists stays in the new package's file
\* list or is listed by a package that did not disappear.
NoOrphanedFiles ==
    \A p \in Paths :
        ToSet(db.owners[p]) \ {PKG} # {} /\ ToSet(db.owners[p]) \ {PKG} \subseteq gone
            => p \in ToSet(newfiles)

\* Owner o, met at entry k, is one whose file PKG must leave alone: it
\* Replaces PKG, PKG does not replace it, and no earlier exemption applies.
Yields(o, k) ==
    LET ent == db.archive[k] IN
    /\ o # PKG /\ o \in ToSet(db.owners[ent.path])
    /\ ~ExistingDir(ent)
    /\ db.status[o] # "configfiles" /\ istobe[o] # "remove"
    /\ ~ObsoleteConffile(o, ent)
    /\ does_replace(o, PKG) /\ ~does_replace(PKG, o)

\* An archive entry is kept, and not extracted, exactly when one of its
\* owners replaces PKG and that owner yielded at this entry or at an
\* earlier one: the decision cached in replacingfilesandsaid then also
\* keeps later paths of the owner, its obsolete conffiles included.
FilesKeptAsReplaced ==
    unpack # "aborted" =>
        \A k \in 1..ti - 1 :
            LET ent == db.archive[k] IN
            ent.path \in kept <=>
                /\ ~ExistingDir(ent)
                /\ \E o \in ToSet(db.owners[ent.path]) :
                      \E j \in 1..k : Yields(o, j)

=============================================================================
