# TLA+ models of the dpkg core (package database, info database, unpack engine)

This directory holds TLA+ specifications of the parts of `src/` that carry
state across steps, processes or crashes, and the TLC configurations that
check them. Each module is translated from the C source. `PROJECT.json` maps
every definition to the lines it models, and lists runs, mutants, findings
and hazards.

## 1. The system and its parts

| # | Component | Source | State | Operations that change it |
|---|-----------|--------|-------|---------------------------|
| C1 | Architecture registry | `lib/dpkg/arch.c` | list of interned `dpkg_arch` (native, all, any built in; none outside the list) | `dpkg_arch_find` appends unknown/illegal names, `dpkg_arch_reset` |
| C2 | Version comparator | `lib/dpkg/vercmp.c`, `src/enquiry.c` (`cmpversions`) | none (pure) | `verrevcmp`, `versioncompare`, `versionsatisfied3`, `archsatisfied` |
| C3 | Name allocator | (`nfmalloc`, not in `src/`) | arena | — |
| C4 | Package database | `lib/dpkg/pkg-db.c` | hash of `pkgset`, each with a chain of `pkginfo` instances per architecture | `pkg_db_find_set`, `pkg_db_find_pkg`, `pkg_db_reset` |
| C5 | Field parser | `lib/dpkg/fields.c` | fields of one `pkginfo` | one parser per field |
| C6 | Package specifier | `lib/dpkg/pkg-spec.c` | a `pkg_spec` | parse, match, iterate |
| C7 | Dependency evaluator / conflicts | `src/archives.c` (`check_conflict`, `check_breaks`, `try_deconfigure_can`), `src/enquiry.c` (`predeppackage`) | `istobe`, the deconfigure list | queueing packages for removal or deconfiguration; `--predep-package` marks the packages it visits |
| C8 | Info database | `src/infodb.c` | files of `/var/lib/dpkg/info`, the `format` file, `db_format`, the `match_head` list | `pkg_infodb_init`, the multi-arch upgrade and its cleanup |
| C9 | File name namespace | (`filesdb.c`, not in `src/`) | per-path flags | set by C10 |
| C10 | Archive unpack engine | `src/archives.c` | for each path: PATH, PATH.dpkg-new and PATH.dpkg-tmp on disk; flags; the new-files list | `tarobject` per tar entry, `tar_deferred_extract`, `archivefiles` |
| C11 | Selection I/O | `src/select.c` | `want` of each package | `setselections`, `clearselections` |

How they interact:
- C10 pulls one tar entry at a time from the external tar reader. It reads C9 flags and C4 ownership to decide what to do, and writes the file system.
- C8 is opened by every dpkg run. A run that opens the database for writing upgrades the on-disk layout once.
- C2/C1 answer version and architecture questions for C7 and the enquiry commands.
- C11 parses `name[:arch]` through C6 into C4 lookups, which may create package instances.

The hard behaviours, and where they are in the code:
- **Crashes and power loss in the middle of a multi-step file-system protocol.** This affects the info-database upgrade (`infodb.c:217-234`) and the placement of every unpacked object (`archives.c:756-1008`, `1050-1106`). The next run must find a state it can recover from.
- **Error unwinding.** Any system call may fail (`ohshite`). The error unwinds to cleanup handlers that run with partial state (`cu_abort_db_upgrade`).
- **Ordering.** fsync before rename; a hard link resolved against flags set by earlier entries; the deferred-rename list walked in order while a path may appear twice.
- **State carried across entries.** The `replacingfilesandsaid` decision per other package (`archives.c:661-737`) is made at the first shared file and reused for every later file.
- **Pure algorithms with sharp edges.** `verrevcmp` ordering of `~`, letters and digits; the `archsatisfied` rules.

Properties each part needs:
- **C8:** after an interrupted upgrade, every file is reachable under the name the format file implies, and no file content is ever lost.
- **C10:** no installed object is lost by a crash; a reader never sees an object that neither the old nor the new package has; at the end every path holds the archive's object, durably; conffiles are not placed.
- **C2:** verrevcmp is a total preorder agreeing with a reference ordering; cmpversions implements its relation table.
- **C1/C4:** find_pkg never makes two instances of one (set, arch); archsatisfied follows the spec table.
- **C10 conflicts:** a file is kept or taken over consistently with the Replaces relation.

## 2. Modules

### InfoDb (C8) — `InfoDb.tla`, `MCInfoDb.tla`

State:
- `files`: the names in the info directory. A name is a record `[pkg, type, ma]`, where `ma` marks the `PKG:ARCH.TYPE` spelling.
- `format`: the text of the format file, or `"absent"`.
- `pc`: the position of the writer.
- `seen`: the entries readdir has returned.
- `match`: the `match_head` list.

Actions:
- `pkg_infodb_init`;
- `pkg_infodb_setup_multiarch_path` (one readdir entry);
- `setup_stat_fails`: `stat(new)` fails with an errno other than ENOENT, so the test at `infodb.c:163` skips `link()`, and the pair is recorded anyway (line 168). The constant `StatErrors` says where this may happen: `"present"` where the new name exists, `"missing"` where it does not;
- `setup_link_fails`;
- `foreach_done`;
- `pkg_infodb_record_format` (open and write halves, each of which may fail; the open may also return descriptor 0, which has already truncated the file and which the test `fd < 1` at `infodb.c:182` takes for a failure);
- `unlink_old`;
- `cu_abort_db_upgrade`;
- `Crash`.

In the cleanup handler, the old name of every remembered pair still exists, so a failing `stat(old)` changes nothing there.

The failure of a call inside the cleanup handler abandons it and the process exits, as dpkg's error handler does.

### Unpack (C10) — `Unpack.tla`, `MCUnpack.tla`

State:
- `disk[p]`: the inode named by PATH, PATH.dpkg-new and PATH.dpkg-tmp.
- `unsynced`: inodes whose data is not on disk yet.
- `torn`: inodes whose data a power loss destroyed.
- `flags`: the `fnnf_*` flags.
- `newfiles`: the list `tc->newfilesp`.
- `k`: the tar entry being processed.
- `j`: the position of `tar_deferred_extract` in the list.

`tarobject` is split at its crash points:
- `tarobject_prepare`: lstat, restore of .dpkg-tmp, existing-directory fast path, removal of stale .dpkg-new and .dpkg-tmp;
- `tarobject_extract`: creating .dpkg-new, and returning early for a conffile;
- `tarobject_backup`: moving the old object aside;
- `tarobject_install`: deferred or immediate rename.

Then `tar_writeback_barrier` and `tar_deferred_extract` follow. `Crash` kills the process (and, while one of the `PowerLossArchives` is unpacked, may lose unsynced data instead), and the archive is unpacked again.

The model of the disk:
- Namespace operations are durable in order.
- File data is durable only after fsync.
- dpkg defers the fsync for exactly this model.

### VersionCompare (C2, part of C5) — `VersionCompare.tla`, `MCVersionCompare.tla`

The comparator is pure, so a state of this module is one call:
- `Init` chooses the operation and its inputs;
- one action (`CallVerrevcmp`, `CallCmpversions`, `CallArchsatisfied`, `CallWanttoinstall` or `CallDepversion`) computes the result and sets `done`.

Choosing the inputs once in `Init` keeps TLC from enumerating every input from every state.

What is modelled, and how:
- `verrevcmp` is written as the mutually RECURSIVE operators `NonDigitLoop` and `DigitLoop` over sequences of one-character strings, with `order` as the weight function of vercmp.c.
- `versioncompare` compares the epoch, then the upstream version, then the revision.
- `cmpversions` is the enquiry.c handler. It uses the full `relationinfos` table, including the blank-version columns and the `-nl` rows. Its exit code is 0, 1 or 2.
- `wanttoinstall` (archives.c:1498-1553) is the install-or-skip decision of `dpkg --install`. Its inputs are the package's want, reinstreq flag, status (ordered as `enum pkgstatus`), its available and installed versions, and the options `f_alsoselect`, `f_skipsame` and `fc_downgrade`. Its result is the return value and the want it leaves (`newwant`). The messages it prints are left out.
- `ParseVerrel` is the relation part of `f_dependency` (fields.c:461-498): the first two characters after `(` give the `enum depverrel` flags, built with the Bitwise `|` as the code builds them. A one-character `<` or `>` is the obsolete form and reads as `<=` or `>=`; `<>` and `><` are parse errors; a bare version is an exact match; no parenthesis is `dvr_none`. `versionsatisfied3` (vercmp.c:96-115) applies the relation, with `"internerr"` for a value outside its switch. The version text is given parsed.
- `archsatisfied` follows vercmp.c. It is fed the dependency arch that `parse_depends` gives each dependency kind (`ParsedArch`, fields.c:424-456). A NULL arch is dereferenced, and the module returns `"crash"` in that case.

Reference definitions written independently of the code:
- `Key` and `KeyCmp` order strings by the Debian key (runs of non-digits with `~` lowest, then numbers by value);
- `RefOrder` gives the meaning of each relation.

### Deconfigure (C7) — `Deconfigure.tla`, `MCDeconfigure.tla`

State:
- `istobe` of every package;
- the `deconfigure` list, as `[pkg, removal]` records, newest first;
- the `conflictors`;
- the index `i` of the next Conflicts/Breaks check;
- `outcome`;
- the force options, chosen in `Init`.

Actions:
- `check_conflict` and `check_breaks` are one action each, because each runs without interruption. Their inner loops over reverse dependencies and provided virtual packages are the RECURSIVE folds `RemovalLoop` and `ProvidesLoop`. A fold keeps the partial effects the code leaves when it gives up part-way.
- `checks_done` ends the sequence.
- `try_deconfigure_can` and `try_remove_can` are operators.

`depisok` (depcon.c) is not in this repository. It is replaced by a stated contract (`DependsOk`, `Culprit`, `depisok`):
- a dependency of a package that is to be removed or deconfigured, or that is not properly installed, is OK;
- a Depends holds through PKG, an installed normal package, or a virtual package it provides;
- Conflicts and Breaks name the installed side as the culprit.

Under this contract, the internal-error branches at archives.c:1188 and :1250 cannot be reached.

### ConflictScan (C7 with C10) — `ConflictScan.tla`, instantiated by `MCDeconfigure.tla`

This module extends Deconfigure with the file-conflict scan of `tarobject` (archives.c:500-751). The scan runs after `checks_done`, so it reads the `istobe` marks the checks left. The database also holds:
- the archive entries of PKG: `[path, type, conff, filtered]`;
- the owners of each path, in `filepackages_iter` order;
- what `lstat` finds on disk at each path;
- the packages whose Replaces cover PKG;
- the obsolete conffiles of each package that are the same inode as the path.
- the other-arch instances of PKG's set that are Multi-Arch: same with it;
- the diverting package of each path.

State:
- `ti`: the next archive entry;
- `said`: `replacingfilesandsaid` of every package;
- `newfiles`: the new file list;
- `inarchive`: the paths flagged `fnnf_new_inarchive`;
- `kept` and `placed`: the paths kept existing and the paths extracted;
- `unpack`: waiting, unpacking, unpacked or aborted;
- `checked` and `gone`: the packages the disappearance pass has visited and the ones it disappeared (their `fileslistvalid` is false).

Actions:
- `tarobject` is one action per entry. The owner loop is the RECURSIVE fold `ScanOwners` over `Consider`, which keeps the code's order of tests: a Multi-Arch: same peer, a diversion by either package, the cached decision (case 2 falls through to case 1), configfiles, to be removed, obsolete conffile, `does_replace(PKG, other)`, `does_replace(other, PKG)`, and then the `forcibleerr` for a directory or a file.
- A path that is the diverted name of another file is refused first, unless `--force-overwrite-diverted` is given.
- An unforced error is an ohshit that aborts the unpack.
- After the loop the entry is kept (and leaves the new file list), filtered, left as an existing directory, or extracted.
- `tar_done` ends the archive.
- `disappear(o)` is one package of the disappearance pass that follows the unpack. `filesavespackage` (archives.c:115-172) is an operator: a file saves its package when that package or PKG diverts it, or when it is not flagged new-in-archive and no third package with a valid file list has it. The loop around it is in process_archive, outside the repository. The model takes its candidates (installed, not to be removed, not a Multi-Arch: same peer of PKG, with files) from there and visits them in any order.

`does_replace` answers only the two questions `tarobject` asks. The version and arch tests inside it are the ones VersionCompare checks.

### PredepPackage (C7) — `PredepPackage.tla`, instantiated by `MCDeconfigure.tla`

`predeppackage` (enquiry.c:361-461) looks for a package to install first: one that a wanted, available package needs through an unsatisfied Pre-Depends and that has no unsatisfied Pre-Depends of its own.

State: the database `db` (iterator order, want, which packages have a .deb, the Pre-Depends of each available version as alternatives, and the providers of each name), `istobe`, the loop position `k`, the package `pkg` last taken, the Pre-Depends `dep` being followed, `startpkg`, and `pc`.

Actions:
- `scan_next` is one turn of the iterator loop (lines 380-397). A package that is wanted, has a .deb and an unsatisfied Pre-Depends ends the scan; it is marked `preinstall` (line 404) and the search starts with its first unsatisfied Pre-Depends.
- `scan_end` is `exit(1)` when the iterator is exhausted.
- `search_step` is one turn of the do-while (lines 409-455). `Pick` takes the first alternative with a candidate: the target, if it has a .deb, a satisfying available version and no mark; else, for an unversioned alternative, the first provider with a .deb and no mark (no version check). No candidate is the ohshit of line 443 (`failed`). The candidate is marked and, if it has no unsatisfied Pre-Depends, written out (`done`).

`depisok` is outside the repository: a Pre-Depends is satisfied when one of its alternatives is (`instok`).

`MCDeconfigure` runs either the unpack checks or this command (`cmd`), one per process, as dpkg's main does. The databases are:
- Cycle: A needs B, since D, its first alternative, has too old a version; B needs C, and C needs B, with nothing providing B. The search goes round until the marks leave no candidate.
- Virt: A needs the virtual v, provided by B (no .deb) and C. C's own Pre-Depends is satisfied, and the held D would need A.
- Settled: Virt without A's .deb, so nothing is needed.

Each database is checked in every iterator order.

### SelectionStore — `SelectionStore.tla`

This is the abstract specification of what the package database promises the selection commands (spec section 3, `find_set` and `find_pkg`). `selections` is a function from keys to `[want, essential]`. A key is the lowercased name together with the architecture name; no architecture, the native one and `all` all become the head key.

Actions:
- `Load` replaces a record.
- `Select` changes only the want.
- `Reject` ends the process on bad input.
- `ClearOne` deinstalls one record that is not essential.
- `EndClear` is possible only once every such record is deinstalled.
- `EndQuery` ends a query (get-selections), or fails it, with no record changed.
- `Restart` empties the store.
- Looking a name up creates its head (`WithSet`).

`MCPkgDb` maps the concrete database onto it:
- `StoreOf` maps every instance to its key and record.
- `pc` is the phase.
- The ghost `req` of PkgDb is the request.

The definition `SelectionStoreRefined` checks `Store!SSpec` as a property.

### PkgDb (C1, C4, C6, C11) — `PkgDb.tla`, `MCPkgDb.tla`

State `db`:
- `bins[b]`: the chain of set names in hash bin b;
- `pkgs[s]`: the instance chain of set s, head first;
- the counters `nset` and `npkg`;
- `arches`: the architecture registry list.

An architecture is referred to by its index in the list, so the pointer comparison of `pkg_db_find_pkg` compares indices. Index 0 is the static `arch_item_none`. The hash is a constant operator: the code depends only on which names share a bin, and the spec allows any hash.

`gen` counts arena generations (`nffreeall`). Every appended registry entry records the generation it was allocated in.

One process, as dpkg runs it:
- `LoadParagraph` reads status paragraphs. In parse.c these go through `f_name` and `f_architecture` and are linked to the instance that `pkg_db_find_pkg(name, arch)` returns.
- `StartCommand` then runs one command:
  - `setselections_line` is one turn of the loop in select.c. It calls `pkg_spec_parse`, `pkg_spec_is_illegal`, the check of the selection word and `pkg_spec_find_pkg`. Any ohshit ends the process.
  - `setselections_eof` ends the input.
  - `clearselections_step` is one `pkg_db_iter_next_pkg` call and its loop body.
  - `getselections_all` is `--get-selections` with no argument: every instance that is not `stat_notinstalled` and whose want is known gets a line.
  - `getselections_arg` is one argument: `pkg_spec_parse` interns its architecture (a read-only command grows the registry), an illegal name or architecture that is not a pattern ends the process, and `pkg_spec_match_pkg` picks the instances to print. The name and the architecture are each a pattern when they contain one of `*[?\`; `fnmatch` is a RECURSIVE operator for `*` and `?`. Without an architecture only none, native and all instances match (`psf_def_native`).
  - `getselections_eof` ends the argument list.
- Each instance carries its `status`. `ParagraphKinds` are the paragraphs a status file holds: installed (kept or held, essential or not) and the leftover of a purged package.
- `printed` is the set of instances the current get-selections has printed a line for; `pkg_describe(pkg, pdo_foreign)` (pkg-show.c, outside the repository) is the line's name, with `:arch` unless the architecture is none, all or native.
- `Reset` is `pkg_db_reset`, after which a front-end may load again.

The character-level splitting of a selections line is abstracted: the inputs are a `(name, arch, selection)` triple.

## 3. Runs

| Run | Checks | Shows |
|-----|--------|-------|
| `infodb_upgrade` | TypeOK, UpgradeLayout, NoContentLost, UpgradeCompletes | With failures and crashes anywhere, and `stat()` failing with another errno where the new name already exists, format 2 means every file has exactly its multi-arch name. No info file is ever lost. Unless failures go on for ever, the re-runs reach format 2. The case of a `stat()` error where the new name is missing is left to `infodb_stat`, where it loses files. |
| `infodb_stat` (violation) | NoContentLost | When `stat()` of a missing new name fails with an errno other than ENOENT, no link is made, the pair is still recorded, and the unlink loop removes the only name of the info file (a code bug at infodb.c:163). |
| `infodb_failure` (violation) | ReachableWhenIdle | A failed call during the upgrade leaves a format file that disagrees with the names. |
| `infodb_crash` (violation) | ReachableWhenIdle | A crash between O_TRUNC and the write of the format file leaves format 0 after the old names are gone. |
| `unpack_crash` | TypeOK, NothingLost, UnpackResult | Crash and re-run never loses an object. A finished unpack installs every entry durably. On the archives without a hard link, a crash may also be a power loss, and it never exposes unsynced data. |
| `unpack_conffile_link` (violation) | UnpackResult | A hard link to a conffile of the same archive gets the old conffile. |
| `unpack_power_link` (violation) | NothingLost | A hard link is placed before its data is synced. |
| `version_order` | TypeOK, VerrevcmpIsKeyOrder, CmpversionsExit, DependsRelationAsCompareVersions | verrevcmp agrees with the key ordering on every string of up to four characters over `0 1 a ~ .`. cmpversions gives the exit code the relation's meaning gives, blank versions and `-nl` rows included. A versioned dependency, as fields.c parses it and versionsatisfied3 applies it, holds exactly when compare-versions with the same relation word exits 0 (DependsRelationAsCompareVersions). |
| `deconfigure_plan` | TypeOK, NoDependsBrokenByRemoval, ConflictsResolved, NoUnauthorisedOverwrite, FilesKeptAsReplaced, DisappearOnlyWhenTaken, PredepResult, PredepTerminates | Under every combination of `--auto-deconfigure` and the force options, once the checks pass, removing the conflictors and deconfiguring the queued packages resolves every unforced Conflicts and Breaks. It also breaks no Depends that held before. The file-conflict scan that follows never extracts over another package's file without an allowed takeover: removal, configfiles, Replaces, an obsolete conffile, a new directory over nothing, or the force flag. It also never writes a diverted name without its force flag. It keeps exactly the paths of owners that replace PKG, counting the decision cached at an earlier entry. The disappearance pass, whatever order it visits the packages in, disappears a package only when each of its files is flagged new-in-archive or stays with a package it did not disappear (DisappearOnlyWhenTaken). In another process, `--predep-package` writes out only a package with a .deb and no unsatisfied Pre-Depends that satisfies an unsatisfied Pre-Depends of a package it visited, and exits 1 only when no wanted, available package has one (`PredepResult`, the promise of the comment at enquiry.c:348-360). It always ends, round a Pre-Depends cycle included (`PredepTerminates`). |
| `deconfigure_orphan` (violation) | NoOrphanedFiles | A package that Replaces PKG keeps its files but still disappears, because the paths kept after the first one keep the new-in-archive flag. One kept file is then listed by no package. |
| `deconfigure_putback` (violation) | DeconfigureListConsistent | A removal given up part-way leaves the reverse dependencies it already queued on the deconfigure list. |
| `pkgdb_selections` | TypeOK, InstancesUnique, SetTableConsistent, FindPkgAssertHolds, ClearSelectionsComplete, ArchRegistryLive, GetSelectionsRoundTrip, SelectionStoreRefined, ClearSelectionsTerminates | Across status files, set-selections and clear-selections, and a reset, the database stays consistent: one instance per (set, arch name), bins and counters agree with the chains, the head assertion at pkg-db.c:136 holds, clear-selections reaches every instance exactly once, and no architecture entry survives the arena it lived in. The database with the three commands implements SelectionStore, whose keys fold case and map none/native/all to the head, and in which a query changes no record. Clear-selections terminates under weak fairness. Every line get-selections prints, read back by set-selections (`GetSelectionsRoundTrip`), is legal and names the instance it was printed for. |

Findings of the violation runs are in `PROJECT.json`. The one of `deconfigure_orphan`: `fnnf_new_inarchive` is cleared (archives.c:711) only at the entry where an owner is first found to replace PKG. Later paths kept through the cached decision keep the flag, although they leave the new package's list. `filesavespackage` (archives.c:139) then treats them as part of the new package, against its own comment, and their owner can disappear. With the flag cleared on every kept path, TLC finds no violation of `NoOrphanedFiles`.

Each property of a passing run has a mutant in `PROJECT.json`: a plausible bug in one mapped definition, under which TLC finds the property violated.

## 4. Bounds

InfoDb:
- Four packages: two Multi-Arch: same, one single-arch, and one whose files belong to no installed package.
- Two control-file types.
- That is enough for a failure or crash between any two pairs of the walk and of the unlink loop.
- The passing run lets `stat()` fail only where the new name exists, a case that arises on a re-run after a crash. Where the name is missing, the error loses the file, as `infodb_stat` shows. The two violation runs about `ReachableWhenIdle` leave `stat()` errors out, so that each trace shows its own fault.

Unpack:
- Seven paths, one of each kind of old object and entry: an existing directory, a regular file, a hard link, a symlink, a conffile, a file replaced by a directory, and a path that does not exist.
- Archives with one entry of each type, a duplicated path, a file followed by a directory at the same path, and a dangling hard link.
- At most two crashes, so that a crash can hit the re-run as well.
- Power loss is explored on the archives without a hard link (`PowerLossArchives`, in the `unpack_crash` run) and on the file-link archive (the violation run). A power loss on an archive with a hard link is the finding of `unpack_power_link`, so the passing run leaves those archives to process crashes alone.

VersionCompare:
- Every string of length 0-4 over `0 1 a ~ .` for verrevcmp, about 780 strings. This covers the `~`-against-end case, leading zeros, digit runs of different length and letters against symbols.
- wanttoinstall is checked on every want, both reinstreq values, the statuses on each side of `stat_unpacked`, three versions in order (`1~`, `1`, `1-1`) as either side, and every combination of the three options.
- The dependency relation is checked on every first character among `<`, `>`, `=`, a digit and no parenthesis, every second among `<`, `>`, `=` and a digit, and the three ordered versions on each side.
- cmpversions is checked on epochs 0 and 1, six upstream versions and three revisions, plus the blank version, under every relation and an unknown one.

Deconfigure:
- Three databases, each run under every subset of the options. Each is built so that one check reaches a different branch:
  - a removal candidate with an essential reverse dependency, reached after a normal one;
  - a held package, and a Breaks followed by a Conflicts on the same package;
  - an essential package providing a virtual package, and a conflict with a not-installed package.
- Each database comes with an archive of three to five entries for the conflict scan. The databases and archives are chosen so that each case happens:
  - an owner B that Replaces PKG decides at a path it shares with A, and its obsolete conffile and its own P5 come later and are kept through the cache (PartialRemoval). A and B then each disappear or not depending on the order the pass visits them;
  - the same obsolete conffile comes first and is taken over (BreaksThenConflicts);
  - a diverted path, a Multi-Arch: same peer, a configfiles owner, a file over a directory (`--force-overwrite-dir`), a filtered entry, a new directory over nothing, an existing directory, and an owner that is only deconfigured;
  - a path that is the diverted name of another file;
  - each is run under every subset of the options, which now include `overwrite`, `overwritedir` and `overwritediverted`.

PredepPackage:
- Four packages and one virtual name in three databases (Cycle, Virt and Settled), each in all 24 iterator orders. Together they reach every outcome: a package written out after following more than one Pre-Depends, exit 1, and the ohshit after a cycle. They also exercise a rejected version, a provider without a .deb, a held package and an already satisfied Pre-Depends.

PkgDb:
- Two bins: sets `f` and `g` share bin 1, and bin 0 stays empty, so the iterator walks a chain and skips an empty bin.
- Status files of up to two paragraphs over `f`/`g` and the architectures none, native, all and a foreign one.
- Set-selections inputs of up to two lines:
  - names: `f`, `F` (case folding) and the illegal `-f`;
  - architectures: none, `any`, the foreign one and an illegal one;
  - selections: two valid words and an unknown one.
- Or get-selections with no argument, or up to two arguments from `f`, `F` and `*`, each with no architecture, the foreign one or `*`: the exact name, the case mismatch and a pattern, against instances of every architecture kind.
- Then clear-selections, and one `pkg_db_reset` after which the whole sequence runs again.
- Two lines are enough for a line to meet an instance, or an architecture entry, that an earlier step created.

## 5. Fairness and contracts

Three runs check liveness. All use weak fairness only.

`pkgdb_selections` uses `FairSpec == Spec /\ WF_vars(clearselections_step)`:
- The loop of `clearselections` runs in one process and waits on nothing, so a step of it that stays enabled is taken.
- `ClearSelectionsTerminates` (`pc = "clear" ~> pc = "done"`) then says the iterator reaches its end.
- The ghost `visited` is capped at the number of instances, so an iterator that never ends is seen as a stuck loop and not as an infinite state space.

`infodb_upgrade` uses `FairSpec == Spec /\ WF_vars(Next)`:
- A dpkg process runs the upgrade without waiting.
- This fairness also assumes that a dpkg run that failed or died is followed by another one. That is an assumption about the administrator, not the code, and the property is stated with it in mind.
- `UpgradeCompletes` reads: either steps that disrupt an upgrade (into the cleanup handler, or out of the upgrade without format 2) happen infinitely often, or format 2 is eventually reached.

`deconfigure_plan` uses `DpkgSpec`, which is weakly fair on `PredepStep`:
- `predeppackage` is one process that waits on nothing.
- `PredepTerminates` then says the walk ends. The walk never takes a marked package again, so it ends with at most as many steps as there are packages.

Every run uses CHECK_DEADLOCK FALSE, because dpkg stops when it is done.

Code outside this repository is replaced by stated contracts. Each one is marked `spec_modelled` in `PROJECT.json`:
- `depisok`;
- `pkg_name_is_illegal`;
- `pkg_blank` (a blank instance has arch none);
- `pkg_describe` (no `:arch` for none, all and native);
- `fnmatch`, for the metacharacters `*` and `?`;
- the parser's linking of a paragraph to `pkg_db_find_pkg(name, arch)`;
- the tar reader's order of entries;
- the error unwinding of `ohshite`.

## 6. Plan and what is not modelled

Done:
1. Unpack placement protocol.
2. InfoDb.
3. VersionCompare, including archsatisfied.
4. check_conflict / check_breaks deconfiguration.
5. PkgDb with the architecture registry, the specifier lookup and the selection commands.
6. The file-conflict scan of tarobject, composed with the conflict checks (ConflictScan).
7. The SelectionStore refinement, and liveness for clear-selections and the info-database upgrade.
8. wanttoinstall, and the disappearance pass with `filesavespackage`.
9. `getselections` together with `pkg_spec_match_pkg`.
10. `predeppackage`, composed into the deconfigure run.

Observations not checked by a run:
- The doc comment of `wanttoinstall` (archives.c:1493-1496) says it returns true if the package should be skipped. The code returns true on the branches that go on with the archive (selecting, upgrading, forced downgrade) and false on every "Skipping" branch, so it returns true to install; its caller, process_archive, is not in this repository. `wanttoinstall` is modelled and fired by `version_order`, but no property states its result. One that states what the code does would hide this disagreement, and all twelve run slots are taken, so none is left for a violation run stating the comment.
- `archsatisfied` (vercmp.c:147) dereferences `against->arch` for every package that is not Multi-Arch: foreign. `parse_depends` leaves the arch NULL for an unqualified Depends (fields.c:454), whereas the spec and the function's comment say that means the depending package's arch. The model's `archsatisfied` returns `"crash"` there. The only caller in this repository, `does_replace`, passes a Replaces, which never reaches it. This was once a violation run; its slot now holds `infodb_stat`, a data loss inside the repository.
- `pkg_db_report` (pkg-db.c:306) allocates `sizeof(int) * nset + 1` bytes and then writes `nset + 1` ints, so every call writes 3 bytes past the allocation.
- `pkg_spec_match_pkgname` (pkg-spec.c:186) compares with `strcmp` against the lowercased set name. As a result, `dpkg --get-selections Foo` reports nothing for a set that `--set-selections` found as `foo`; the model's `getselections_arg` does the same. This is the mixture of `strcmp` and `strcasecmp` that the spec's open question (b) mentions.

Not modelled:
- The field parser beyond the dependency-kind rules: character-level parsing is out of TLC's reach.
- Diversions beyond the conflict scan, stat overrides, SELinux and the Multi-Arch ensure-same content checks. The conflict scan has the Multi-Arch: same and diversion exemptions, but not the later content comparison or the use of the diverted name.
- Code that is not in `src/`: processarc.c, the cleanup handlers of cleanup.c, configure, and the rest of parse.c.
