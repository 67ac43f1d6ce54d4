------------------------------- MODULE Unpack -------------------------------
(***************************************************************************)
(* The crash-safe placement protocol of the archive unpack engine,        *)
(* src/src/archives.c: tarobject, called once per tar entry, stages every *)
(* object as PATH.dpkg-new, keeps the previous object as PATH.dpkg-tmp,   *)
(* and either renames the new object into place at once (directories,    *)
(* hard links, devices) or defers the rename to tar_deferred_extract,     *)
(* which fsyncs regular files first.  Conffiles stay in .dpkg-new.        *)
(*                                                                         *)
(* The file system holds, for every path, the three names PATH,           *)
(* PATH.dpkg-new and PATH.dpkg-tmp, each empty (NoFile) or naming an      *)
(* inode.  Namespace operations (link, rename, unlink, mkdir, symlink)    *)
(* are durable in the order they are made; the data of a regular file is  *)
(* durable only after fsync.  The dpkg process may die at any point; it   *)
(* loses its memory (the file name flags and the new-files list) and the  *)
(* same archive is unpacked again from its first entry.  While one of the *)
(* PowerLossArchives is unpacked the machine may lose power instead, and  *)
(* every inode whose data was not yet synced is left empty ("torn").      *)
(***************************************************************************)
EXTENDS Naturals, Sequences, FiniteSets

CONSTANTS
    Paths,        \* the paths the archives name
    ConfFiles,    \* the paths listed in the new package's Conffiles
    Archives,     \* candidate tar streams: sequences of Entry
    OldStates,    \* candidate installed objects: functions Paths -> kind
    MaxCrashes,   \* bound on the number of crashes in a behaviour
    PowerLossArchives \* the archives whose crashes may also lose unsynced data

Types == {"file", "dir", "symlink", "hardlink"}
Entry == [name : Paths, type : Types, linkname : Paths]

ASSUME ConfFiles \subseteq Paths
ASSUME \A a \in Archives : \A i \in 1..Len(a) : a[i] \in Entry
ASSUME \A o \in OldStates : o \in [Paths -> {"none", "file", "dir", "symlink"}]
ASSUME MaxCrashes \in Nat /\ PowerLossArchives \subseteq Archives

VARIABLES
    archive,   \* the tar stream being unpacked (fixed for a behaviour)
    old,       \* the kind of object installed at each path before unpack
    disk,      \* disk[p][s]: the inode at PATH, PATH.dpkg-new, PATH.dpkg-tmp
    unsynced,  \* inodes whose data has not been fsynced yet
    torn,      \* inodes whose data a power loss has destroyed
    flags,     \* the filenamenode flags of each path (process memory)
    newfiles,  \* the per-package list of new files, tc->newfilesp
    pc,        \* where the process is
    k,         \* the tar entry tarobject is processing
    j,         \* the position of tar_deferred_extract in newfiles
    crashes    \* crashes so far

vars == <<archive, old, disk, unsynced, torn, flags, newfiles, pc, k, j, crashes>>

Slots == {"main", "new", "tmp"}

(* An inode is the kind of object and an identity for its content: the     *)
(* object installed before, the object of tar entry i, or a symlink        *)
(* recreated as a copy of another one (CopyInode); run tells apart the    *)
(* inodes that successive runs create for the same entry.                  *)
NoFile == [kind |-> "none", id |-> <<"none">>, run |-> 0]
OldInode(p) == [kind |-> old[p], id |-> <<"old", p>>, run |-> 0]
ArcInode(i) == [kind |-> archive[i].type, id |-> <<"arc", i>>, run |-> crashes]

\* The content a reader of the inode gets.
Content(ino) ==
    CASE ino \in torn       -> <<"torn">>
      [] ino.id[1] = "copy" -> ino.id[2]
      [] OTHER              -> ino.id

Flag == {"new_conff", "new_inarchive", "no_atomic_overwrite", "deferred_rename",
         "deferred_fsync", "placed_on_disk", "elide_other_lists"}

\* processarc sets fnnf_new_conff on the new package's conffiles before the
\* tar stream is read.
InitFlags == [p \in Paths |-> IF p \in ConfFiles THEN {"new_conff"} ELSE {}]

Entries == 1..Len(archive)
E == archive[k]

\* After tarobject returns, the tar extractor moves to the next entry, and
\* after the last one processarc calls tar_deferred_extract.
NextEntry ==
    /\ k' = k + 1
    /\ pc' = IF k + 1 > Len(archive) THEN "barrier" ELSE "prepare"

SetSlots(p, f) == disk' = [disk EXCEPT ![p] = f]
AddFlags(p, F) == flags' = [flags EXCEPT ![p] = @ \cup F]

-----------------------------------------------------------------------------
Init ==
    /\ archive \in Archives
    /\ old \in OldStates
    /\ disk = [p \in Paths |->
                 [main |-> IF old[p] = "none" THEN NoFile ELSE OldInode(p),
                  new |-> NoFile, tmp |-> NoFile]]
    /\ unsynced = {}
    /\ torn = {}
    /\ flags = InitFlags
    /\ newfiles = <<>>
    /\ pc = "prepare"
    /\ k = 1
    /\ j = 1
    /\ crashes = 0

(* Mutant: a missing PATH is not restored from .dpkg-tmp.                  *)
prepare_no_restore ==
    LET p == E.name
        d == disk[p]
        existingdir == d.main.kind = "dir" /\ E.type \in {"dir", "symlink"}
    IN  /\ pc = "prepare"
        /\ newfiles' = Append(newfiles, p)
        /\ AddFlags(p, {"new_inarchive"})
        /\ \/ /\ existingdir
              /\ NextEntry
              /\ UNCHANGED disk
           \/ /\ ~existingdir
              /\ SetSlots(p, [d EXCEPT !.new = NoFile, !.tmp = NoFile])
              /\ pc' = "extract"
              /\ UNCHANGED k
        /\ UNCHANGED <<archive, old, unsynced, torn, j, crashes>>

(* tarobject up to the extraction (lines 503-616, 739-766).  The entry is *)
(* appended to the new-files list and marked new-in-archive.  lstat finds  *)
(* PATH missing: a .dpkg-tmp left by an interrupted run is renamed back.   *)
(* A directory or symlink entry over an existing directory is a no-op      *)
(* (stat follows a symlink, and no symlink of the model points to a        *)
(* directory).  Otherwise stale .dpkg-tmp and .dpkg-new are removed.  The  *)
(* rename back and the removals are one step: a crash between them leaves *)
(* a state from which the next run does the same.                         *)
tarobject_prepare ==
    LET p == E.name
        d == IF disk[p].main = NoFile /\ disk[p].tmp # NoFile
               THEN [disk[p] EXCEPT !.main = disk[p].tmp, !.tmp = NoFile]
               ELSE disk[p]
        existingdir == d.main.kind = "dir" /\ E.type \in {"dir", "symlink"}
    IN  /\ pc = "prepare"
        /\ newfiles' = Append(newfiles, p)
        /\ AddFlags(p, {"new_inarchive"})
        /\ \/ /\ existingdir
              /\ SetSlots(p, d)
              /\ NextEntry
           \/ /\ ~existingdir
              /\ SetSlots(p, [d EXCEPT !.new = NoFile, !.tmp = NoFile])
              /\ pc' = "extract"
              /\ UNCHANGED k
        /\ UNCHANGED <<archive, old, unsynced, torn, j, crashes>>

\* The inode a hard link entry links to: PATH.dpkg-new of the link target
\* when its rename is deferred, else the target PATH itself.
HardlinkSource == LET l == E.linkname IN
    IF "deferred_rename" \in flags[l] THEN disk[l].new ELSE disk[l].main

(* Mutant: the hard link case of the switch is missing, a hard link entry *)
(* becomes an object of its own.                                           *)
extract_no_hardlink_case ==
    LET p == E.name
        conff == "new_conff" \in flags[p]
    IN  /\ pc = "extract"
        /\ SetSlots(p, [disk[p] EXCEPT !.new = ArcInode(k)])
        /\ unsynced' = IF E.type = "file" THEN unsynced \cup {ArcInode(k)} ELSE unsynced
        /\ AddFlags(p, (IF E.type = "file" THEN {"deferred_fsync"} ELSE {})
                       \cup (IF conff THEN {"elide_other_lists"} ELSE {}))
        /\ IF conff THEN NextEntry ELSE pc' = "backup" /\ UNCHANGED k
        /\ UNCHANGED <<archive, old, torn, newfiles, j, crashes>>

(* Mutant: the fsync of a regular file is never scheduled, as with        *)
(* --force-unsafe-io.                                                      *)
extract_unsafe_io ==
    LET p == E.name
        ino == IF E.type = "hardlink" THEN HardlinkSource ELSE ArcInode(k)
        conff == "new_conff" \in flags[p]
    IN  /\ pc = "extract"
        /\ ino # NoFile
        /\ SetSlots(p, [disk[p] EXCEPT !.new = ino])
        /\ unsynced' = IF E.type = "file" THEN unsynced \cup {ino} ELSE unsynced
        /\ AddFlags(p, IF conff THEN {"elide_other_lists"} ELSE {})
        /\ IF conff THEN NextEntry ELSE pc' = "backup" /\ UNCHANGED k
        /\ UNCHANGED <<archive, old, torn, newfiles, j, crashes>>

(* tarobject extracts the entry as PATH.dpkg-new (lines 786-886): a       *)
(* regular file gets its data written and, as --force-unsafe-io is not    *)
(* given, its fsync deferred; a hard link is a link to HardlinkSource.    *)
(* A conffile stays in .dpkg-new and tarobject returns (lines 904-946).   *)
tarobject_extract ==
    LET p == E.name
        ino == IF E.type = "hardlink" THEN HardlinkSource ELSE ArcInode(k)
        conff == "new_conff" \in flags[p]
    IN  /\ pc = "extract"
        /\ ino # NoFile
        /\ SetSlots(p, [disk[p] EXCEPT !.new = ino])
        /\ unsynced' = IF E.type = "file" THEN unsynced \cup {ino} ELSE unsynced
        /\ AddFlags(p, (IF E.type = "file" THEN {"deferred_fsync"} ELSE {})
                       \cup (IF conff THEN {"elide_other_lists"} ELSE {}))
        /\ IF conff THEN NextEntry ELSE pc' = "backup" /\ UNCHANGED k
        /\ UNCHANGED <<archive, old, torn, newfiles, j, crashes>>

\* link(hardlinkfn, fnamenewvb) fails because the target does not exist:
\* ohshite, the archive is abandoned.
tarobject_link_fails ==
    /\ pc = "extract"
    /\ E.type = "hardlink"
    /\ HardlinkSource = NoFile
    /\ pc' = "error"
    /\ UNCHANGED <<archive, old, disk, unsynced, torn, flags, newfiles, k, j, crashes>>

\* The copy of a symlink made as its backup has the same target.
CopyInode(ino) ==
    [kind |-> "symlink", id |-> <<"copy", IF ino.id[1] = "copy" THEN ino.id[2] ELSE ino.id>>,
     run |-> crashes]

(* The old object is moved out of the way (lines 948-982): a directory on *)
(* either side is renamed to .dpkg-tmp (no atomic overwrite), a symlink   *)
(* is recreated as .dpkg-tmp, anything else gets .dpkg-tmp as a hard link. *)
(* What lstat returned in tarobject_prepare is still what PATH holds.     *)
tarobject_backup ==
    LET p == E.name
        d == disk[p]
    IN  /\ pc = "backup"
        /\ CASE d.main = NoFile ->
                  UNCHANGED <<disk, flags>>
             [] E.type = "dir" \/ d.main.kind = "dir" ->
                  /\ SetSlots(p, [d EXCEPT !.tmp = d.main, !.main = NoFile])
                  /\ AddFlags(p, {"no_atomic_overwrite"})
             [] d.main.kind = "symlink" ->
                  SetSlots(p, [d EXCEPT !.tmp = CopyInode(d.main)]) /\ UNCHANGED flags
             [] OTHER ->
                  SetSlots(p, [d EXCEPT !.tmp = d.main]) /\ UNCHANGED flags
        /\ pc' = "install"
        /\ UNCHANGED <<archive, old, unsynced, torn, newfiles, k, j, crashes>>

\* rename(PATH.dpkg-new, PATH)
Install(p) == [disk[p] EXCEPT !.main = disk[p].new, !.new = NoFile]

(* Regular files and symlinks are marked for the deferred rename; every   *)
(* other object is renamed into place now (lines 989-1008).               *)
tarobject_install ==
    LET p == E.name IN
    /\ pc = "install"
    /\ \/ /\ E.type \in {"file", "symlink"}
          /\ AddFlags(p, {"deferred_rename"})
          /\ UNCHANGED disk
       \/ /\ E.type \in {"dir", "hardlink"}
          /\ SetSlots(p, Install(p))
          /\ AddFlags(p, {"placed_on_disk", "elide_other_lists"})
    /\ NextEntry
    /\ UNCHANGED <<archive, old, unsynced, torn, newfiles, j, crashes>>

(* tar_writeback_barrier asks the kernel to start writing back every     *)
(* file with a deferred fsync; the hint changes nothing that a crash or a  *)
(* reader can observe.                                                     *)
tar_writeback_barrier ==
    /\ pc = "barrier"
    /\ pc' = "commit"
    /\ UNCHANGED <<archive, old, disk, unsynced, torn, flags, newfiles, k, j, crashes>>

(* Mutant: the rename comes before the fsync, so a renamed file's data    *)
(* is not yet on disk when it becomes visible.                             *)
deferred_extract_rename_first ==
    /\ pc = "commit"
    /\ \/ /\ j > Len(newfiles)
          /\ pc' = "done"
          /\ UNCHANGED <<disk, unsynced, flags, j>>
       \/ /\ j <= Len(newfiles)
          /\ "deferred_rename" \notin flags[newfiles[j]]
          /\ j' = j + 1
          /\ UNCHANGED <<disk, unsynced, flags, pc>>
       \/ /\ j <= Len(newfiles)
          /\ "deferred_rename" \in flags[newfiles[j]]
          /\ disk[newfiles[j]].new = NoFile
          /\ pc' = "error"
          /\ UNCHANGED <<disk, unsynced, flags, j>>
       \/ LET p == newfiles[j] IN
          /\ j <= Len(newfiles)
          /\ "deferred_rename" \in flags[p]
          /\ disk[p].new # NoFile
          /\ SetSlots(p, Install(p))
          /\ flags' = [flags EXCEPT ![p] = @ \ {"deferred_rename"}]
          /\ UNCHANGED <<unsynced, j, pc>>
       \/ LET p == newfiles[j] IN
          /\ j <= Len(newfiles)
          /\ "deferred_rename" \notin flags[p]
          /\ "deferred_fsync" \in flags[p]
          /\ unsynced' = unsynced \ {disk[p].main}
          /\ flags' = [flags EXCEPT ![p] = (@ \ {"deferred_fsync"})
                                           \cup {"placed_on_disk", "elide_other_lists"}]
          /\ j' = j + 1
          /\ UNCHANGED <<disk, pc>>
    /\ UNCHANGED <<archive, old, torn, newfiles, k, crashes>>

(* One iteration of tar_deferred_extract over the new-files list, in list *)
(* order: an entry marked for the deferred rename is fsynced if its fsync  *)
(* was deferred, then renamed into place, and its flags are updated.  A    *)
(* missing .dpkg-new makes open or rename fail (ohshite), and so does a    *)
(* directory at PATH, which rename(2) does not replace by a non-directory. *)
RenameFails(p) ==
    \/ disk[p].new = NoFile
    \/ disk[p].main.kind = "dir" /\ disk[p].new.kind # "dir"

tar_deferred_extract ==
    /\ pc = "commit"
    /\ \/ /\ j > Len(newfiles)
          /\ pc' = "done"
          /\ UNCHANGED <<disk, unsynced, flags, j>>
       \/ /\ j <= Len(newfiles)
          /\ "deferred_rename" \notin flags[newfiles[j]]
          /\ j' = j + 1
          /\ UNCHANGED <<disk, unsynced, flags, pc>>
       \/ /\ j <= Len(newfiles)
          /\ "deferred_rename" \in flags[newfiles[j]]
          /\ RenameFails(newfiles[j])
          /\ pc' = "error"
          /\ UNCHANGED <<disk, unsynced, flags, j>>
       \/ LET p == newfiles[j] IN
          /\ j <= Len(newfiles)
          /\ "deferred_rename" \in flags[p]
          /\ ~RenameFails(p)
          /\ unsynced' = IF "deferred_fsync" \in flags[p]
                           THEN unsynced \ {disk[p].new} ELSE unsynced
          /\ SetSlots(p, Install(p))
          /\ flags' = [flags EXCEPT ![p] = (@ \ {"deferred_rename", "deferred_fsync"})
                                           \cup {"placed_on_disk", "elide_other_lists"}]
          /\ j' = j + 1
          /\ UNCHANGED pc
    /\ UNCHANGED <<archive, old, torn, newfiles, k, crashes>>

(* The dpkg process dies, or stops with an error, and the same archive is *)
(* unpacked again.  No cleanup handler runs on a crash; the process memory *)
(* is gone.  On a power loss the data of every unsynced inode is lost.    *)
Crash ==
    /\ crashes < MaxCrashes
    /\ pc # "done"
    /\ \E lose \in IF archive \in PowerLossArchives THEN BOOLEAN ELSE {FALSE} :
          /\ torn' = IF lose THEN torn \cup unsynced ELSE torn
          /\ unsynced' = IF lose THEN {} ELSE unsynced
    /\ crashes' = crashes + 1
    /\ flags' = InitFlags
    /\ newfiles' = <<>>
    /\ pc' = "prepare"
    /\ k' = 1
    /\ j' = 1
    /\ UNCHANGED <<archive, old, disk>>

Next ==
    \/ tarobject_prepare
    \/ tarobject_extract
    \/ tarobject_link_fails
    \/ tarobject_backup
    \/ tarobject_install
    \/ tar_writeback_barrier
    \/ tar_deferred_extract
    \/ Crash

Spec == Init /\ [][Next]_vars

-----------------------------------------------------------------------------
TypeOK ==
    /\ archive \in Archives
    /\ old \in OldStates
    /\ \A p \in Paths : \A s \in Slots : disk[p][s].kind \in {"none", "file", "dir", "symlink"}
    /\ unsynced \cap torn = {}
    /\ flags \in [Paths -> SUBSET Flag]
    /\ newfiles \in Seq(Paths) /\ Len(newfiles) <= Len(archive)
    /\ pc \in {"prepare", "extract", "backup", "install", "barrier", "commit", "done", "error"}
    /\ k \in 1..Len(archive) + 1
    /\ j \in 1..Len(newfiles) + 1
    /\ crashes \in 0..MaxCrashes

\* What a reader of the installed object at p gets, and what was there before.
Visible(p) == Content(disk[p].main)
OldContent(p) == IF old[p] = "none" THEN NoFile.id ELSE OldInode(p).id

\* The last entry for path l among the first n entries, 0 if none.
LastEntry(l, n) ==
    LET I == {i \in 1..n : archive[i].name = l}
    IN  IF I = {} THEN 0 ELSE CHOOSE i \in I : \A m \in I : m <= i

(* The content tar semantics give entry i: its own data, or for a hard    *)
(* link the content of the last earlier entry for the link target, or of  *)
(* the object installed there when the archive has none.                  *)
RECURSIVE EntryContent(_)
EntryContent(i) ==
    IF archive[i].type # "hardlink" THEN ArcInode(i).id
    ELSE LET m == LastEntry(archive[i].linkname, i - 1)
         IN  IF m = 0 THEN OldContent(archive[i].linkname) ELSE EntryContent(m)

\* The objects the package had or will have at p.
Legit(p) ==
    {OldContent(p)} \cup {EntryContent(i) : i \in {i \in Entries : archive[i].name = p}}

(* No crash loses an installed object and no reader ever finds anything   *)
(* but an object the package had or will have at a path: at every moment   *)
(* PATH holds the object installed before or the content of one of the     *)
(* archive's entries for it, or, while a directory is being replaced       *)
(* without an atomic overwrite, PATH is missing and .dpkg-tmp holds such   *)
(* an object for the next run to rename back (tarobject, lines 560-583).   *)
NothingLost ==
    \A p \in Paths :
        \/ Visible(p) \in Legit(p)
        \/ disk[p].main = NoFile /\ Content(disk[p].tmp) \in Legit(p)

(* When tar_deferred_extract has gone through the whole list, every path  *)
(* of the archive holds, durably, the content of the archive's last entry *)
(* for it (or keeps its directory, for a directory or symlink entry over  *)
(* an existing directory) and no .dpkg-new is left; a conffile is still   *)
(* the installed one, with the new version waiting in .dpkg-new.          *)
UnpackResult ==
    pc = "done" =>
        \A p \in {archive[i].name : i \in Entries} :
            LET i == LastEntry(p, Len(archive)) IN
            IF p \in ConfFiles
              THEN /\ Visible(p) = OldContent(p)
                   /\ Content(disk[p].new) = EntryContent(i)
              ELSE /\ disk[p].new = NoFile
                   /\ disk[p].main \notin unsynced
                   /\ \/ Visible(p) = EntryContent(i)
                      \/ /\ archive[i].type \in {"dir", "symlink"}
                         /\ old[p] = "dir"
                         /\ Visible(p) = OldContent(p)

====
