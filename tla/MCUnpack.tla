------------------------------- MODULE MCUnpack -------------------------------
(* Model-checking instances of Unpack.  The paths stand for: an existing    *)
(* directory (dir), a regular file (bin), a hard link to it (lnk), a        *)
(* symlink (sym), a conffile (conf), a regular file replaced by a           *)
(* directory (todir) and a path with nothing installed (fresh).            *)
EXTENDS Unpack

CONSTANTS dir, bin, lnk, sym, conf, todir, fresh

MCPaths == {dir, bin, lnk, sym, conf, todir, fresh}
MCConfFiles == {conf}

MCOld == [p \in MCPaths |->
            CASE p = dir -> "dir" [] p = sym -> "symlink" [] p = fresh -> "none"
              [] OTHER -> "file"]

Ent(n, t, l) == [name |-> n, type |-> t, linkname |-> l]

\* An upgrade touching every kind of entry.
Upgrade ==
    << Ent(dir, "dir", dir), Ent(bin, "file", bin), Ent(lnk, "hardlink", bin),
       Ent(sym, "symlink", sym), Ent(conf, "file", conf), Ent(todir, "dir", todir) >>
\* The same upgrade without the hard link.
UpgradeNoLink == SubSeq(Upgrade, 1, 2) \o SubSeq(Upgrade, 4, 6)
\* A path appearing twice: the second entry wins.
Duplicate == << Ent(bin, "file", bin), Ent(fresh, "file", fresh), Ent(bin, "file", bin) >>
\* A regular file followed by a directory at the same path.
FileThenDir == << Ent(todir, "file", todir), Ent(todir, "dir", todir) >>
\* A hard link to a path that exists nowhere.
DanglingLink == << Ent(lnk, "hardlink", fresh) >>
\* A hard link to a conffile of the same archive.
LinkToConffile == << Ent(conf, "file", conf), Ent(lnk, "hardlink", conf) >>
\* A hard link to a regular file of the same archive.
LinkToFile == << Ent(bin, "file", bin), Ent(lnk, "hardlink", bin) >>

MCArchivesCrash == {Upgrade, Duplicate, FileThenDir, DanglingLink}
MCArchivesPower == {UpgradeNoLink, Duplicate}
MCArchivesCrashPower == MCArchivesCrash \cup MCArchivesPower
MCArchivesConffileLink == {LinkToConffile}
MCArchivesFileLink == {LinkToFile}
MCOldStates == {MCOld}

===============================================================================
