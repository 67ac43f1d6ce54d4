------------------------------- MODULE InfoDb -------------------------------
(***************************************************************************)
(* The one-shot upgrade of the control-information directory from the     *)
(* single-name layout (format 0, "PKG.TYPE") to the multi-arch layout      *)
(* (format 2, "PKG:ARCH.TYPE" for Multi-Arch: same packages), as done by   *)
(* pkg_infodb_init and pkg_infodb_upgrade_to_multiarch in                 *)
(* src/src/infodb.c, together with its error cleanup cu_abort_db_upgrade.  *)
(*                                                                         *)
(* The directory is the set of names present in it; a name is a record    *)
(* [pkg, type, ma] where ma = TRUE is the "PKG:ARCH.TYPE" spelling.  All   *)
(* names of one (pkg, type) are hard links to the same content, so content *)
(* is lost exactly when no name of it is left.  The format file is         *)
(* "absent" or holds the text written into it: "" after open(O_TRUNC)     *)
(* and before write, else the decimal digits of the recorded version.     *)
(*                                                                         *)
(* Every system call of the upgrade may fail (ohshite); the error unwinds  *)
(* to the cleanup handler pushed at the start of the upgrade.  A failure   *)
(* inside the cleanup handler abandons it and the process exits.  The      *)
(* process may also die at any point (Crash), running no cleanup at all.   *)
(***************************************************************************)
EXTENDS Naturals, FiniteSets

CONSTANTS
    Pkgs,       \* package names that own files in the info directory
    Installed,  \* those whose first instance is not stat_notinstalled
    MASame,     \* those whose installed instance is Multi-Arch: same
    Types,      \* control file types (list, md5sums, postinst, ...)
    Failures,   \* TRUE: system calls of the upgrade may fail
    Crashes,    \* TRUE: the process may die at any point
    StatErrors  \* when stat(new) may fail with an errno other than ENOENT:
                \* "present" (the new name exists), "missing" (it does not)

ASSUME MASame \subseteq Installed /\ Installed \subseteq Pkgs
ASSUME Failures \in BOOLEAN /\ Crashes \in BOOLEAN
ASSUME StatErrors \subseteq {"present", "missing"}

VARIABLES
    files,   \* the names present in the info directory
    format,  \* the content of the "format" file
    pc,      \* where the dpkg process is in pkg_infodb_init
    seen,    \* directory entries readdir has already returned
    match    \* match_head: the (pkg, type) pairs recorded as (old, new)

vars == <<files, format, pc, seen, match>>

Name == [pkg : Pkgs, type : Types, ma : BOOLEAN]
OldName(p, t) == [pkg |-> p, type |-> t, ma |-> FALSE]
NewName(p, t) == [pkg |-> p, type |-> t, ma |-> TRUE]

\* The phases of the writer.  OpenPc(v) and WritePc(v) are the two halves
\* of pkg_infodb_record_format(v).
OpenPc(v) == CASE v = 0 -> "open0" [] v = 1 -> "open1" [] v = 2 -> "open2"
WritePc(v) == CASE v = 0 -> "write0" [] v = 1 -> "write1" [] v = 2 -> "write2"
Phase == {"idle", "setup", "unlink", "cleanup"}
            \cup {OpenPc(v) : v \in 0..2} \cup {WritePc(v) : v \in 0..2}

-----------------------------------------------------------------------------
(* Reading the format file (pkg_infodb_init): a missing file means format  *)
(* 0, and strtol of an empty file is 0 with endptr at the terminating NUL, *)
(* which is accepted.                                                      *)
db_format == CASE format = "1" -> 1 [] format = "2" -> 2 [] OTHER -> 0

\* snprintf(format, sizeof(format), "%d", version) in pkg_infodb_record_format
FormatText(v) == CASE v = 0 -> "0" [] v = 1 -> "1" [] v = 2 -> "2"

(* The name under which pkg_infodb_foreach looks for a file of pkg: with  *)
(* the arch qualifier only for Multi-Arch: same packages and format > 0.   *)
pkg_infodb_name(p, t) ==
    [pkg |-> p, type |-> t, ma |-> p \in MASame /\ db_format > 0]

\* Where an error raised in phase pc unwinds to: the cleanup handler while
\* the upgrade runs, the exit of the process once inside the handler.
OnError == IF pc \in {"cleanup", OpenPc(0), WritePc(0)} THEN "idle" ELSE "cleanup"

-----------------------------------------------------------------------------
Init ==
    /\ files = {OldName(p, t) : p \in Pkgs, t \in Types}
    /\ format \in {"absent", "0"}
    /\ pc = "idle"
    /\ seen = {}
    /\ match = {}

(* Mutant: the upgrade is started only for a directory still at format 0. *)
pkg_infodb_init_below_one ==
    /\ pc = "idle"
    /\ db_format < 1
    /\ pc' = "setup"
    /\ UNCHANGED <<files, format, seen, match>>

(* A dpkg run that opens the database for writing finds format < 2 and     *)
(* starts the upgrade, pushing cu_abort_db_upgrade for the bomb-out case.  *)
pkg_infodb_init ==
    /\ pc = "idle"
    /\ db_format < 2
    /\ pc' = "setup"
    /\ UNCHANGED <<files, format, seen, match>>

(* Mutant: the (old, new) pair is remembered only when the link was made   *)
(* by this run, not when the new name already existed.                     *)
setup_record_only_linked(e) ==
    /\ pc = "setup"
    /\ e \in files \ seen
    /\ seen' = seen \cup {e}
    /\ IF e.ma \/ e.pkg \notin MASame
         THEN UNCHANGED <<files, match>>
         ELSE /\ files' = files \cup {NewName(e.pkg, e.type)}
              /\ match' = IF NewName(e.pkg, e.type) \in files
                            THEN match ELSE match \cup {<<e.pkg, e.type>>}
    /\ UNCHANGED <<format, pc>>

(* Mutant: the Multi-Arch: same test is dropped, every installed package  *)
(* is converted.                                                           *)
setup_without_ma_check(e) ==
    /\ pc = "setup"
    /\ e \in files \ seen
    /\ seen' = seen \cup {e}
    /\ IF e.ma \/ e.pkg \notin Installed
         THEN UNCHANGED <<files, match>>
         ELSE /\ files' = files \cup {NewName(e.pkg, e.type)}
              /\ match' = match \cup {<<e.pkg, e.type>>}
    /\ UNCHANGED <<format, pc>>

(* One directory entry returned by readdir in pkg_infodb_foreach and      *)
(* handed to pkg_infodb_setup_multiarch_path.  Names already carrying an   *)
(* arch are skipped; a file of a Multi-Arch: same package gets its new     *)
(* name as a hard link when that name does not exist yet, and the pair is  *)
(* remembered in either case.  readdir may or may not return the names     *)
(* created during the walk, so any entry not yet returned may come next.   *)
pkg_infodb_setup_multiarch_path(e) ==
    /\ pc = "setup"
    /\ e \in files \ seen
    /\ seen' = seen \cup {e}
    /\ IF e.ma \/ e.pkg \notin MASame
         THEN UNCHANGED <<files, match>>
         ELSE /\ files' = files \cup {NewName(e.pkg, e.type)}
              /\ match' = match \cup {<<e.pkg, e.type>>}
    /\ UNCHANGED <<format, pc>>

(* stat(new) in pkg_infodb_setup_multiarch_path fails with an errno other *)
(* than ENOENT (EIO, ENOMEM, EACCES, ...): the test at infodb.c:163 is      *)
(* false, so link() is skipped, and the pair is remembered all the same.   *)
setup_stat_fails(e) ==
    /\ pc = "setup"
    /\ e \in files \ seen
    /\ ~e.ma /\ e.pkg \in MASame
    /\ (IF NewName(e.pkg, e.type) \in files THEN "present" ELSE "missing") \in StatErrors
    /\ seen' = seen \cup {e}
    /\ match' = match \cup {<<e.pkg, e.type>>}
    /\ UNCHANGED <<files, format, pc>>

(* Mutant: the result of link() is not checked, the pair is remembered     *)
(* and the walk goes on as if the new name had been made.                  *)
setup_link_ignored(e) ==
    /\ Failures
    /\ pc = "setup"
    /\ e \in files \ seen
    /\ ~e.ma /\ e.pkg \in MASame
    /\ NewName(e.pkg, e.type) \notin files
    /\ seen' = seen \cup {e}
    /\ match' = match \cup {<<e.pkg, e.type>>}
    /\ UNCHANGED <<files, format, pc>>

\* link(filename, new) fails: the pair is not remembered.
setup_link_fails(e) ==
    /\ Failures
    /\ pc = "setup"
    /\ e \in files \ seen
    /\ ~e.ma /\ e.pkg \in MASame
    /\ NewName(e.pkg, e.type) \notin files
    /\ pc' = "cleanup"
    /\ seen' = {}
    /\ UNCHANGED <<files, format, match>>

\* readdir returns NULL: the walk is over and format 1 is recorded.
foreach_done ==
    /\ pc = "setup"
    /\ files \subseteq seen
    /\ pc' = OpenPc(1)
    /\ seen' = {}
    /\ UNCHANGED <<files, format, match>>

(* pkg_infodb_record_format(v): open(O_CREAT|O_TRUNC) empties the file,    *)
(* then write, fsync and close.  After format 1 the old names are          *)
(* unlinked; after format 2 the cleanup is popped and the upgrade is over; *)
(* format 0 is the last act of the cleanup handler.                        *)
AfterRecord(v) == IF v = 1 THEN "unlink" ELSE "idle"

pkg_infodb_record_format(v) ==
    /\ \/ /\ pc = OpenPc(v)
          /\ \/ format' = "" /\ pc' = WritePc(v)
             \/ Failures /\ UNCHANGED format /\ pc' = OnError
             \* open() returned descriptor 0: the file was truncated, and
             \* the test fd < 1 takes it for a failure.
             \/ Failures /\ format' = "" /\ pc' = OnError
       \/ /\ pc = WritePc(v)
          /\ \/ format' = FormatText(v) /\ pc' = AfterRecord(v)
             \/ Failures /\ UNCHANGED format /\ pc' = OnError
             \/ Failures /\ format' = FormatText(v) /\ pc' = OnError
    /\ match' = IF pc' = "idle" THEN {} ELSE match
    /\ UNCHANGED <<files, seen>>

(* The loop of pkg_infodb_upgrade_to_multiarch that unlinks every old name *)
(* and frees its node as it goes.                                          *)
unlink_old ==
    /\ pc = "unlink"
    /\ \/ /\ match = {}
          /\ pc' = OpenPc(2)
          /\ UNCHANGED <<files, match>>
       \/ \E m \in match :
            \/ /\ files' = files \ {OldName(m[1], m[2])}
               /\ match' = match \ {m}
               /\ UNCHANGED pc
            \/ /\ Failures
               /\ pc' = "cleanup"
               /\ UNCHANGED <<files, match>>
    /\ UNCHANGED <<format, seen>>

(* cu_abort_db_upgrade: for every remembered pair, link the new name back  *)
(* to the old one if the old one is gone, unlink the new one; then record  *)
(* format 0.  A failing call abandons the handler and the process exits.   *)
(* A pair is forgotten in the same step that unlinks its old name, so the  *)
(* old name of every remembered pair still exists and link() is never      *)
(* needed: whether stat(old) succeeds or fails with another errno, the     *)
(* link is skipped, and only unlink(new) can fail here.                    *)
cu_abort_db_upgrade ==
    /\ pc = "cleanup"
    /\ \/ /\ match = {}
          /\ pc' = OpenPc(0)
          /\ UNCHANGED <<files, match>>
       \/ \E m \in match :
            LET old == OldName(m[1], m[2])
                new == NewName(m[1], m[2])
            IN  \/ /\ files' = (files \cup {old}) \ {new}
                   /\ match' = match \ {m}
                   /\ UNCHANGED pc
                \/ /\ Failures
                   /\ pc' = "idle" /\ match' = {}
                   /\ UNCHANGED files
    /\ UNCHANGED <<format, seen>>

\* The process dies: no cleanup runs, its memory is gone.
Crash ==
    /\ Crashes
    /\ pc # "idle"
    /\ pc' = "idle"
    /\ seen' = {}
    /\ match' = {}
    /\ UNCHANGED <<files, format>>

Next ==
    \/ pkg_infodb_init
    \/ \E e \in Name : \/ pkg_infodb_setup_multiarch_path(e)
                      \/ setup_stat_fails(e)
                      \/ setup_link_fails(e)
    \/ foreach_done
    \/ \E v \in 0..2 : pkg_infodb_record_format(v)
    \/ unlink_old
    \/ cu_abort_db_upgrade
    \/ Crash

Spec == Init /\ [][Next]_vars

(* A dpkg process runs the upgrade without waiting on anything, and a      *)
(* process that failed or died is followed by another dpkg run that opens  *)
(* the database for writing: a step that stays possible is taken.          *)
FairSpec == Spec /\ WF_vars(Next)

-----------------------------------------------------------------------------
TypeOK ==
    /\ files \subseteq Name
    /\ format \in {"absent", "", "0", "1", "2"}
    /\ pc \in Phase
    /\ seen \subseteq Name
    /\ match \subseteq MASame \X Types

(* Once no dpkg process is running and the format file says 2, every info  *)
(* file of an installed package exists under exactly one name, the one     *)
(* pkg_infodb_foreach computes for format 2: the upgrade, however often it *)
(* was interrupted by crashes and failed system calls and re-run, leaves   *)
(* no old name of a Multi-Arch: same package behind and loses none.        *)
UpgradeLayout ==
    (pc = "idle" /\ format = "2") =>
        \A p \in Installed, t \in Types :
            {n \in files : n.pkg = p /\ n.type = t} = {pkg_infodb_name(p, t)}

(* No info file is ever lost: at every moment, through failed system calls, *)
(* cleanup and crashes, every file of every package has at least one name  *)
(* in the directory, because the upgrade unlinks an old name only after    *)
(* its new hard link exists and the cleanup unlinks a new name only after  *)
(* the old one is back.                                                    *)
NoContentLost ==
    \A p \in Pkgs, t \in Types : \E n \in files : n.pkg = p /\ n.type = t

(* Whenever no dpkg process is inside the upgrade (it never started, it   *)
(* finished, its cleanup handler ran or it died), a process that opens the *)
(* database read-only now reads the format file and finds every info file *)
(* of every installed package under the name pkg_infodb_foreach computes   *)
(* for that format: an aborted upgrade leaves every file reachable under   *)
(* one of its legitimate names.                                            *)
ReachableWhenIdle ==
    pc = "idle" =>
        \A p \in Installed, t \in Types : pkg_infodb_name(p, t) \in files

(* A step that disrupts an upgrade: an error unwinding to the cleanup      *)
(* handler, or the process leaving the upgrade (crash, exit from a failed *)
(* handler, end of the handler) without format 2 recorded.                *)
Disrupted == pc' = "cleanup" \/ (pc # "idle" /\ pc' = "idle" /\ format' # "2")

(* The upgrade completes: unless failures and crashes go on for ever, the *)
(* re-runs of pkg_infodb_init eventually reach format 2 with no dpkg      *)
(* process inside the upgrade, from whatever state an interrupted run      *)
(* left the directory and the format file in.                              *)
UpgradeCompletes ==
    []<><<Disrupted>>_vars \/ <>(pc = "idle" /\ format = "2")

=============================================================================
