-------------------------------- MODULE PkgDb --------------------------------
(***************************************************************************)
(* The in-memory package database (lib/dpkg/pkg-db.c), the architecture   *)
(* registry it points into (lib/dpkg/arch.c), the package specifier that  *)
(* resolves "name[:arch]" (lib/dpkg/pkg-spec.c), and the two commands of  *)
(* src/select.c: --set-selections and --clear-selections, which change  *)
(* it, and --get-selections, which reads it and interns architectures.  *)
(*                                                                         *)
(* One dpkg process loads the status file (each paragraph is linked to    *)
(* the instance pkg_db_find_pkg returns for its name and architecture),   *)
(* then runs one command, then exits; a front-end may call pkg_db_reset   *)
(* and load again.  The hash function is a constant: only which names     *)
(* share a bin matters to the code, and the spec allows any hash.         *)
(*                                                                         *)
(* An architecture is referred to by its index in the registry list, so   *)
(* the pointer comparison of pkg_db_find_pkg is a comparison of indices;  *)
(* 0 is the static arch_item_none, which is not on the list.              *)
(***************************************************************************)
EXTENDS Naturals, Sequences, SequencesExt, FiniteSetsExt

CONSTANTS
    NativeName,  \* the name of the native architecture (ARCHITECTURE)
    NOARCH,      \* "no ':' in the specifier / no Architecture field"
    BINS,        \* number of hash bins
    hash(_),     \* the string hash of a lowercase name
    LoadNames, LoadArches,   \* paragraphs the status file may hold
    SelNames, SelArches, Sels, \* lines set-selections may read
    GetNames, GetArches,       \* arguments get-selections may be given
    MaxLoads,    \* paragraphs per status file
    MaxLines,    \* lines per set-selections input
    MaxArgs,     \* arguments per get-selections command
    MaxGen       \* pkg_db_reset calls

(***************************************************************************)
(* Characters.  Names are sequences of one-character strings.             *)
(***************************************************************************)
CaseMap == ("F" :> "f") @@ ("G" :> "g")
tolower(c) == IF c \in DOMAIN CaseMap THEN CaseMap[c] ELSE c
\* Mutant: the name is used as given, without lowercasing.
Lower_as_given(name) == name

Lower(name) == [k \in DOMAIN name |-> tolower(name[k])]
isalnum(c) == c \in {"a", "f", "g", "i", "l", "n", "y", "F", "G", "3", "6"}

\* pkg_name_is_illegal (parsehelp.c, outside this repository): a name is
\* non-empty, starts with an alphanumeric and has only alphanumerics and
\* "-+._" after it.
pkg_name_is_illegal(name) ==
    \/ name = <<>>
    \/ ~isalnum(name[1])
    \/ \E k \in 2..Len(name) : ~isalnum(name[k]) /\ name[k] \notin {"-", "+", ".", "_"}

\* arch.c:154-173: non-empty, alphanumeric first, then alphanumerics or "-".
dpkg_arch_name_is_illegal(name) ==
    \/ name = <<>>
    \/ ~isalnum(name[1])
    \/ \E k \in 2..Len(name) : ~isalnum(name[k]) /\ name[k] # "-"

(***************************************************************************)
(* Architecture registry.  The static list is native -> all -> any; an    *)
(* entry appended by dpkg_arch_find lives in the arena of generation gen. *)
(***************************************************************************)
Builtins == << [name |-> NativeName, type |-> "native", gen |-> 0],
               [name |-> <<"a", "l", "l">>, type |-> "all", gen |-> 0],
               [name |-> <<"a", "n", "y">>, type |-> "wildcard", gen |-> 0] >>

\* The arena allocation of a new entry (dpkg_arch_new).
dpkg_arch_new(name, type, g) == [name |-> name, type |-> type, gen |-> g]

\* Mutant: the lookup loop is skipped, so every call appends a new entry.
dpkg_arch_find_no_lookup(name, list, g) ==
    IF name = NOARCH \/ name = <<>> THEN [ref |-> 0, list |-> list]
    ELSE [ref |-> Len(list) + 1,
          list |-> Append(list, dpkg_arch_new(name,
                     IF dpkg_arch_name_is_illegal(name) THEN "illegal"
                                                       ELSE "unknown", g))]

\* dpkg_arch_find: returns the index of the entry and the (grown) list.
dpkg_arch_find(name, list, g) ==
    LET k == SelectInSeq(list, LAMBDA e : e.name = name)
    IN  IF name = NOARCH \/ name = <<>> THEN [ref |-> 0, list |-> list]
        ELSE IF k # 0 THEN [ref |-> k, list |-> list]
        ELSE [ref |-> Len(list) + 1,
              list |-> Append(list, dpkg_arch_new(name,
                         IF dpkg_arch_name_is_illegal(name) THEN "illegal"
                                                           ELSE "unknown", g))]

\* dpkg_arch_reset: arch_item_any.next = NULL cuts the list after the
\* built-ins.
dpkg_arch_reset(list) == SubSeq(list, 1, 3)

ArchType(list, ref) == IF ref = 0 THEN "none" ELSE list[ref].type
ArchName(list, ref) == IF ref = 0 THEN <<>> ELSE list[ref].name

(***************************************************************************)
(* The package database.  d.bins[b] is the chain of set names in bin b,  *)
(* d.pkgs[s] the instances of set s, head first (<<>> while s does not    *)
(* exist), each [arch, want, essential, status]; d.arches the registry.  *)
(***************************************************************************)
SetNames == {Lower(n) : n \in LoadNames \cup SelNames}
Wants == {"unknown", "install", "hold", "deinstall", "purge"}
\* pkg_blank: a blank instance has arch none and want unknown.
BlankPkg == [arch |-> 0, want |-> "unknown", essential |-> FALSE,
             status |-> "notinstalled"]
EmptyDb == [bins |-> [b \in 0..BINS-1 |-> <<>>],
            pkgs |-> [s \in SetNames |-> <<>>],
            nset |-> 0, npkg |-> 0, arches |-> Builtins]

\* pkg_db_find_set: lowercases the name, walks its bin chain, and appends
\* a new set (with its head instance) at the end when the name is absent.
pkg_db_find_set(d, inname) ==
    LET name == Lower(inname)
        b    == hash(name) % BINS
    IN  IF \E k \in 1..Len(d.bins[b]) : d.bins[b][k] = name THEN d
        ELSE [d EXCEPT !.bins[b] = Append(@, name),
                       !.pkgs[name] = <<BlankPkg>>,
                       !.nset = @ + 1,
                       !.npkg = @ + 1]

\* Mutant: a new instance is linked in but npkg is not incremented.
pkg_db_find_pkg_no_count(d, name, a) ==
    LET d1 == pkg_db_find_set(d, name)
        s  == Lower(name)
        ch == d1.pkgs[s]
        k  == SelectInSubSeq(ch, 2, Len(ch), LAMBDA p : p.arch = a)
    IN  IF a = 0 \/ ArchType(d.arches, a) \in {"native", "all"}
        THEN [d |-> d1, id |-> <<s, 1>>,
              ok |-> ArchType(d.arches, ch[1].arch) \in {"native", "all", "none"}]
        ELSE IF k # 0 THEN [d |-> d1, id |-> <<s, k>>, ok |-> TRUE]
        ELSE [d |-> [d1 EXCEPT !.pkgs[s] = Append(@, [BlankPkg EXCEPT !.arch = a])],
              id |-> <<s, Len(ch) + 1>>, ok |-> TRUE]

(***************************************************************************)
(* pkg_db_find_pkg(name, arch): returns the instance id <<set, index>>.   *)
(* ok is FALSE when the assertion at pkg-db.c:136 fails (the head must     *)
(* have arch native, all or none).  An instance whose arch is unset is    *)
(* claimed (pkg-db.c:145); pkg_blank gives every instance arch none, so   *)
(* no chain entry is ever unset and that branch is not reachable.         *)
(***************************************************************************)
pkg_db_find_pkg(d, name, a) ==
    LET d1 == pkg_db_find_set(d, name)
        s  == Lower(name)
        ch == d1.pkgs[s]
        k  == SelectInSubSeq(ch, 2, Len(ch), LAMBDA p : p.arch = a)
    IN  IF a = 0 \/ ArchType(d.arches, a) \in {"native", "all"}
        THEN [d |-> d1, id |-> <<s, 1>>,
              ok |-> ArchType(d.arches, ch[1].arch) \in {"native", "all", "none"}]
        ELSE IF k # 0 THEN [d |-> d1, id |-> <<s, k>>, ok |-> TRUE]
        ELSE [d |-> [d1 EXCEPT !.pkgs[s] = Append(@, [BlankPkg EXCEPT !.arch = a]),
                               !.npkg = @ + 1],
              id |-> <<s, Len(ch) + 1>>, ok |-> TRUE]

(***************************************************************************)
(* The iterator of pkg_db_iter_next_pkg: pigp is an instance id or <<>>   *)
(* (NULL), nbinn the next bin to look at.                                  *)
(***************************************************************************)
\* Mutant: at the end of a chain the iterator goes back to its first set.
NextInBin_wraps(d, s) ==
    LET chain == d.bins[hash(s) % BINS]
        k     == SelectInSeq(chain, LAMBDA x : x = s)
    IN  IF k < Len(chain) THEN <<chain[k + 1], 1>> ELSE <<chain[1], 1>>

NextInBin(d, s) ==
    LET chain == d.bins[hash(s) % BINS]
        k     == SelectInSeq(chain, LAMBDA x : x = s)
    IN  IF k < Len(chain) THEN <<chain[k + 1], 1>> ELSE <<>>

\* The "while (!i->pigp)" loop: skip empty bins.
RECURSIVE SeekBin(_, _)
SeekBin(d, it) ==
    IF it.pigp # <<>> \/ it.nbinn >= BINS THEN it
    ELSE SeekBin(d, [pigp  |-> IF d.bins[it.nbinn] # <<>>
                               THEN <<d.bins[it.nbinn][1], 1>> ELSE <<>>,
                     nbinn |-> it.nbinn + 1])

\* Mutant: the step goes to the next set without following arch_next.
pkg_db_iter_next_pkg_sets_only(d, it) ==
    LET i == SeekBin(d, it)
        r == i.pigp
    IN  IF r = <<>> THEN [r |-> <<>>, it |-> i]
        ELSE [r |-> r, it |-> [i EXCEPT !.pigp = NextInBin(d, r[1])]]

\* pkg_db_iter_next_pkg: returns [r, it]; r = <<>> at the end.
pkg_db_iter_next_pkg(d, it) ==
    LET i == SeekBin(d, it)
        r == i.pigp
    IN  IF r = <<>> THEN [r |-> <<>>, it |-> i]
        ELSE [r |-> r,
              it |-> [i EXCEPT !.pigp =
                        IF r[2] < Len(d.pkgs[r[1]]) THEN <<r[1], r[2] + 1>>
                        ELSE NextInBin(d, r[1])]]

IterNew == [pigp |-> <<>>, nbinn |-> 0]

VARIABLES
    db,       \* the database record described above
    gen,      \* arena generation: the number of nffreeall calls so far
    pc,       \* "load", a command, "done", "failed" (ohshit), "assert"
    cmd,      \* the command this process runs: "none", "set", "clear", "get"
    loads,    \* paragraphs read from the status file
    lines,    \* set-selections lines read, or get-selections arguments
    it,       \* the clear-selections iterator
    visited,  \* the instances the iterator has returned, in order
    req,      \* ghost: the last paragraph or line applied, [name, arch, want]
    printed   \* the instances get-selections has printed a line for

vars == <<db, gen, pc, cmd, loads, lines, it, visited, req, printed>>

\* The ids <<set, index>> of every instance in the database.
Ids(d) == UNION {{<<s, k>> : k \in 1..Len(d.pkgs[s])} : s \in SetNames}
SetInstance(d, id, p) == [d EXCEPT !.pkgs[id[1]][id[2]] = p]

Init ==
    /\ db = EmptyDb
    /\ gen = 0
    /\ pc = "load"
    /\ cmd = "none"
    /\ loads = 0
    /\ lines = 0
    /\ it = IterNew
    /\ visited = <<>>
    /\ req = <<>>
    /\ printed = {}

(***************************************************************************)
(* Reading one status paragraph (parse.c, outside this repository):       *)
(* f_name looks the set up, f_architecture interns a non-empty            *)
(* Architecture value, and the parsed record is linked to the instance    *)
(* pkg_db_find_pkg returns for (name, arch) and copied into it.           *)
(***************************************************************************)
\* Mutant: the paragraph is linked to the set's head whatever its arch.
parse_link_by_name(d, name, a) == pkg_db_find_pkg(d, name, 0)

parse_link(d, name, a) == pkg_db_find_pkg(d, name, a)

\* fields.c f_name: the name's set is looked up (and created).
f_name(d, name) == pkg_db_find_set(d, name)

\* fields.c f_architecture: an empty value leaves the blank arch (none).
f_architecture(d, arch) ==
    IF arch = NOARCH \/ arch = <<>> THEN [ref |-> 0, list |-> d.arches]
    ELSE dpkg_arch_find(arch, d.arches, gen)

LoadParagraph(name, arch, ess, want, st) ==
    LET d1 == f_name(db, name)
        fa == f_architecture(d1, arch)
        f  == parse_link([d1 EXCEPT !.arches = fa.list], name, fa.ref)
    IN  /\ pc = "load"
        /\ loads < MaxLoads
        /\ db' = SetInstance(f.d, f.id, [arch |-> fa.ref, want |-> want,
                                         essential |-> ess, status |-> st])
        /\ pc' = IF f.ok THEN "load" ELSE "assert"
        /\ loads' = loads + 1
        /\ req' = [name |-> name, arch |-> arch, want |-> want]
        /\ UNCHANGED <<gen, cmd, lines, it, visited, printed>>

\* The status file is read; the process runs one of the commands.
StartCommand(c) ==
    /\ pc = "load"
    /\ pc' = c
    /\ cmd' = c
    /\ it' = IterNew
    /\ visited' = <<>>
    /\ printed' = {}
    /\ UNCHANGED <<db, gen, loads, lines, req>>

(***************************************************************************)
(* One line of set-selections (select.c:124-161): pkg_spec_parse interns  *)
(* the arch, an illegal name or arch or an unknown selection is an ohshit *)
(* that ends the process, and otherwise pkg_spec_find_pkg (parse again,   *)
(* check again, pkg_db_find_pkg, pkg_spec_match_flags with no skip flags) *)
(* gives the instance whose want is set.                                  *)
(***************************************************************************)
\* pkg_spec_parse: the part after the first ':' is interned as the arch
\* (dpkg_arch_find(NULL) is none); the name is kept as given.
pkg_spec_parse(d, arch) ==
    LET pa == dpkg_arch_find(arch, d.arches, gen)
    IN  [d |-> [d EXCEPT !.arches = pa.list], arch |-> pa.ref]

\* pkg_spec_is_illegal without psf_patterns: an illegal package name, or
\* an arch of type illegal.
pkg_spec_is_illegal(d, name, a) ==
    pkg_name_is_illegal(name) \/ ArchType(d.arches, a) = "illegal"

\* pkg_spec_find_pkg(ps, string) with set-selections' flags: parsing the
\* same string again and checking it again change nothing, no skip flag is
\* set so pkg_spec_match_flags passes, and the result is pkg_db_find_pkg's.
pkg_spec_find_pkg(d, name, a) == pkg_db_find_pkg(d, name, a)

\* Mutant: the result of namevalue_find_by_name is not checked.
selection_unknown_unchecked(sel) == FALSE

\* namevalue_find_by_name(wantinfos, sel) == NULL (select.c:155-157).
selection_unknown(sel) == sel \notin Wants

setselections_line(name, arch, sel) ==
    LET ps == pkg_spec_parse(db, arch)
        d1 == ps.d
        f  == pkg_spec_find_pkg(d1, name, ps.arch)
        bad == pkg_spec_is_illegal(d1, name, ps.arch) \/ selection_unknown(sel)
    IN  /\ pc = "set"
        /\ lines < MaxLines
        /\ lines' = lines + 1
        /\ req' = [name |-> name, arch |-> arch, want |-> sel]
        /\ \/ /\ bad
              /\ db' = d1
              /\ pc' = "failed"
           \/ /\ ~bad
              /\ db' = IF f.ok THEN SetInstance(f.d, f.id,
                                      [f.d.pkgs[f.id[1]][f.id[2]] EXCEPT !.want = sel])
                       ELSE f.d
              /\ pc' = IF f.ok THEN "set" ELSE "assert"
        /\ UNCHANGED <<gen, cmd, loads, it, visited, printed>>

\* End of input: modstatdb_shutdown writes the database and dpkg exits.
setselections_eof ==
    /\ pc = "set"
    /\ pc' = "done"
    /\ UNCHANGED <<db, gen, cmd, loads, lines, it, visited, req, printed>>

\* One turn of the clearselections loop (select.c:182-188).  The ghost
\* visited cannot outgrow the instances of the database while the iterator
\* returns each once; the cap keeps the state space finite should it not.
clearselections_step ==
    LET n == pkg_db_iter_next_pkg(db, it)
    IN  /\ pc = "clear"
        /\ it' = n.it
        /\ IF n.r = <<>>
           THEN /\ pc' = "done"
                /\ UNCHANGED <<db, visited>>
           ELSE /\ Len(visited) < Cardinality(Ids(db))   \* the ghost cap
                /\ db' = IF db.pkgs[n.r[1]][n.r[2]].essential THEN db
                         ELSE SetInstance(db, n.r, [db.pkgs[n.r[1]][n.r[2]]
                                                      EXCEPT !.want = "deinstall"])
                /\ visited' = Append(visited, n.r)
                /\ UNCHANGED pc
        /\ UNCHANGED <<gen, cmd, loads, lines, req, printed>>

(***************************************************************************)
(* --get-selections (select.c:57-95).  The database is read-only: the     *)
(* instances are those of the status file, taken into a sorted array      *)
(* first (the order only lays out the output).  With no argument every    *)
(* instance that is not stat_notinstalled is shown; otherwise each        *)
(* argument is parsed with psf_def_native | psf_patterns and matched      *)
(* against every instance with pkg_spec_match_pkg.  getsel1package skips  *)
(* want_unknown and prints pkg_describe(pkg, pdo_foreign) and the want.   *)
(***************************************************************************)
\* fnmatch(pattern, string, 0) for the metacharacters "*" and "?".
RECURSIVE fnmatch(_, _)
fnmatch(p, str) ==
    IF p = <<>> THEN str = <<>>
    ELSE IF Head(p) = "*"
         THEN fnmatch(Tail(p), str) \/ (str # <<>> /\ fnmatch(p, Tail(str)))
         ELSE /\ str # <<>>
              /\ Head(p) \in {"?", Head(str)}
              /\ fnmatch(Tail(p), Tail(str))

\* strpbrk(s, "*[?\\") in pkg_spec_do_checks, under psf_patterns.
is_pattern(str) == \E k \in DOMAIN str : str[k] \in {"*", "[", "?", "\\"}

\* pkg_spec_match_pkgname: fnmatch for a pattern, strcmp otherwise; the
\* set name it is compared with is the lowercased one.
pkg_spec_match_pkgname(name, setname) ==
    IF is_pattern(name) THEN fnmatch(name, setname) ELSE name = setname

\* pkg_spec_match_arch: fnmatch for a pattern, the same interned entry for
\* a given arch, and under psf_def_native, with no arch, native, all or
\* none.
pkg_spec_match_arch(d, psarch, a) ==
    IF is_pattern(ArchName(d.arches, psarch))
    THEN fnmatch(ArchName(d.arches, psarch), ArchName(d.arches, a))
    ELSE IF ArchType(d.arches, psarch) # "none" THEN psarch = a
    ELSE ArchType(d.arches, a) \in {"native", "all", "none"}

\* pkg_spec_match_pkg with get-selections' flags: no skip flag is set, so
\* pkg_spec_match_flags passes.
pkg_spec_match_pkg(d, name, psarch, id) ==
    /\ pkg_spec_match_arch(d, psarch, d.pkgs[id[1]][id[2]].arch)
    /\ pkg_spec_match_pkgname(name, id[1])

\* getsel1package: the instances that get a line.
getsel1package(d, ids) == {x \in ids : d.pkgs[x[1]][x[2]].want # "unknown"}

\* Mutant: the arch is shown only for an arch of type foreign (one added
\* with --add-architecture), not for the unknown ones dpkg_arch_find adds.
pkg_describe_foreign_only(d, id) ==
    LET a == d.pkgs[id[1]][id[2]].arch
    IN  [name |-> id[1],
         arch |-> IF ArchType(d.arches, a) # "foreign" THEN NOARCH
                  ELSE ArchName(d.arches, a)]

\* pkg_describe(pkg, pdo_foreign) (pkg-show.c, outside this repository):
\* the set name, with ":arch" unless the arch is none, all or native.
pkg_describe(d, id) ==
    LET a == d.pkgs[id[1]][id[2]].arch
    IN  [name |-> id[1],
         arch |-> IF ArchType(d.arches, a) \in {"none", "all", "native"}
                  THEN NOARCH ELSE ArchName(d.arches, a)]

\* No argument: every instance that is not stat_notinstalled.
getselections_all ==
    /\ pc = "get"
    /\ lines = 0
    /\ printed' = getsel1package(db, {x \in Ids(db) :
                                        db.pkgs[x[1]][x[2]].status # "notinstalled"})
    /\ pc' = "done"
    /\ UNCHANGED <<db, gen, cmd, loads, lines, it, visited, req>>

\* One argument: pkg_spec_parse interns its arch and pkg_spec_do_checks
\* ohshits on an illegal name or arch that is not a pattern.
getselections_arg(name, arch) ==
    LET ps  == pkg_spec_parse(db, arch)
        d1  == ps.d
        bad == \/ ~is_pattern(name) /\ pkg_name_is_illegal(name)
               \/ ~is_pattern(ArchName(d1.arches, ps.arch))
                  /\ ArchType(d1.arches, ps.arch) = "illegal"
    IN  /\ pc = "get"
        /\ lines < MaxArgs
        /\ lines' = lines + 1
        /\ db' = d1
        /\ \/ /\ bad
              /\ pc' = "failed"
              /\ UNCHANGED printed
           \/ /\ ~bad
              /\ printed' = printed \cup getsel1package(d1,
                               {x \in Ids(d1) : pkg_spec_match_pkg(d1, name, ps.arch, x)})
              /\ UNCHANGED pc
        /\ UNCHANGED <<gen, cmd, loads, it, visited, req>>

\* The last argument is done; the output is flushed and dpkg exits.
getselections_eof ==
    /\ pc = "get"
    /\ lines > 0
    /\ pc' = "done"
    /\ UNCHANGED <<db, gen, cmd, loads, lines, it, visited, req, printed>>

\* Mutant: nffreeall and the tables are cleared but the arch list is kept.
pkg_db_reset_keep_arches(d) == [EmptyDb EXCEPT !.arches = d.arches]

\* pkg_db_reset: frees the arena, zeroes the counters and bins, and cuts
\* the architecture list back to the built-ins.
pkg_db_reset(d) == [EmptyDb EXCEPT !.arches = dpkg_arch_reset(d.arches)]

Reset ==
    /\ pc = "done"
    /\ gen < MaxGen
    /\ db' = pkg_db_reset(db)
    /\ gen' = gen + 1
    /\ pc' = "load"
    /\ cmd' = "none"
    /\ loads' = 0
    /\ lines' = 0
    /\ it' = IterNew
    /\ visited' = <<>>
    /\ printed' = {}
    /\ UNCHANGED req

\* The Want, Status and Essential fields a status paragraph holds: an
\* installed package, kept or held, and the field-less leftover entry of a
\* purged package.
ParagraphKinds ==
    [want : {"install", "hold"}, status : {"installed"}, essential : BOOLEAN]
    \cup {[want |-> "purge", status |-> "notinstalled", essential |-> FALSE]}

Next ==
    \/ \E n \in LoadNames, a \in LoadArches, k \in ParagraphKinds :
           LoadParagraph(n, a, k.essential, k.want, k.status)
    \/ \E c \in {"set", "clear", "get"} : StartCommand(c)
    \/ \E n \in SelNames, a \in SelArches, s \in Sels : setselections_line(n, a, s)
    \/ setselections_eof
    \/ clearselections_step
    \/ getselections_all
    \/ \E n \in GetNames, a \in GetArches : getselections_arg(n, a)
    \/ getselections_eof
    \/ Reset

Spec == Init /\ [][Next]_vars

\* clearselections runs its loop in one process without waiting on
\* anything, so a step of it that is enabled is eventually taken.
FairSpec == Spec /\ WF_vars(clearselections_step)

-----------------------------------------------------------------------------
(***************************************************************************)
(* Properties                                                              *)
(***************************************************************************)
TypeOK ==
    /\ db.bins \in [0..BINS-1 -> Seq(SetNames)]
    /\ \A s \in SetNames : \A k \in 1..Len(db.pkgs[s]) :
           db.pkgs[s][k] \in [arch : 0..Len(db.arches), want : Wants,
                              essential : BOOLEAN,
                              status : {"installed", "notinstalled"}]
    /\ db.nset \in Nat /\ db.npkg \in Nat
    /\ gen \in 0..MaxGen
    /\ pc \in {"load", "set", "clear", "get", "done", "failed", "assert"}
    /\ cmd \in {"none", "set", "clear", "get"}
    /\ printed \subseteq Ids(db)
    /\ visited \in Seq(Ids(db))

\* pkg_db_find_pkg tells instances apart by comparing arch pointers, which
\* is sound only because dpkg_arch_find interns every name once: no set
\* ever holds two instances whose architectures have the same name, over
\* any sequence of status paragraphs and set-selections lines.
InstancesUnique ==
    \A s \in SetNames : \A j, k \in 1..Len(db.pkgs[s]) :
        j # k => ArchName(db.arches, db.pkgs[s][j].arch)
                 # ArchName(db.arches, db.pkgs[s][k].arch)

\* The bins and the counters pkg_db_count_set/pkg_db_count_pkg report
\* (and pkg_db_report sizes its table by) agree with the chains: every set
\* exists exactly once, in the bin of its hash, and nset and npkg count
\* the sets and the instances.
SetTableConsistent ==
    /\ \A s \in SetNames :
           /\ (db.pkgs[s] # <<>>) <=> s \in ToSet(db.bins[hash(s) % BINS])
           /\ \A b \in 0..BINS-1 : b # hash(s) % BINS => s \notin ToSet(db.bins[b])
    /\ \A b \in 0..BINS-1 : IsInjective(db.bins[b])
    /\ db.nset = Cardinality({s \in SetNames : db.pkgs[s] # <<>>})
    /\ db.npkg = Cardinality(Ids(db))

\* The head instance is what pkg_db_find_pkg returns for no arch, native,
\* all and none; the assertion at pkg-db.c:136 that its arch is native,
\* all or none holds whatever the status file and set-selections input.
FindPkgAssertHolds == pc # "assert"

\* When clear-selections has run to the end, the iterator has returned
\* every instance of every set exactly once, and every instance that is
\* not essential is selected for deinstallation.
ClearSelectionsComplete ==
    (pc = "done" /\ cmd = "clear") =>
        /\ IsInjective(visited)
        /\ ToSet(visited) = Ids(db)
        /\ \A x \in Ids(db) :
               ~db.pkgs[x[1]][x[2]].essential => db.pkgs[x[1]][x[2]].want = "deinstall"

\* clear-selections terminates: once the command starts, the iterator
\* reaches the end of the last bin and the process finishes.
ClearSelectionsTerminates == pc = "clear" ~> pc = "done"

\* get-selections output is meant to be fed back to set-selections: every
\* line printed, "pkg_describe(pkg, pdo_foreign) want", read as a
\* set-selections line by pkg_spec_parse, pkg_spec_is_illegal and
\* pkg_spec_find_pkg, is legal and names the very instance it was printed
\* for, whichever instances the status file and earlier set-selections
\* lines created and whichever architectures earlier arguments interned.
GetSelectionsRoundTrip ==
    \A x \in printed :
        LET ln == pkg_describe(db, x)
            ps == pkg_spec_parse(db, ln.arch)
            f  == pkg_spec_find_pkg(ps.d, ln.name, ps.arch)
        IN  /\ ~pkg_spec_is_illegal(ps.d, ln.name, ps.arch)
            /\ f.ok
            /\ f.id = x

\* The architecture list starts with the built-ins, holds each name once,
\* and after a pkg_db_reset holds nothing allocated in a freed arena.
ArchRegistryLive ==
    /\ SubSeq(db.arches, 1, 3) = Builtins
    /\ \A j, k \in 1..Len(db.arches) : j # k => db.arches[j].name # db.arches[k].name
    /\ \A k \in 4..Len(db.arches) : db.arches[k].gen = gen
====
