--------------------------- MODULE VersionCompare ---------------------------
(***************************************************************************)
(* The version comparator of lib/dpkg/vercmp.c, the compare-versions      *)
(* command of src/enquiry.c, and archsatisfied of vercmp.c applied to the *)
(* architecture qualifier the dependency parser of fields.c produces.     *)
(*                                                                         *)
(* It also has the relation of a versioned dependency as f_dependency     *)
(* (fields.c) parses it and versionsatisfied3 (vercmp.c) applies it.       *)
(*                                                                         *)
(* A version string is a sequence of one-character strings; NUL is "".    *)
(* The state is the last call made and its result, so that TLC checks     *)
(* every call over the bounded inputs.                                     *)
(***************************************************************************)
EXTENDS Integers, Sequences, TLC, Bitwise

CONSTANTS
    Strings,        \* version/revision strings given to verrevcmp
    Versions,       \* parsed versionrevision records given to cmpversions
    Relations,      \* relation words given to compare-versions
    Arches,         \* architectures of packages: "all", Native, a foreign one
    Native,
    PkgStatuses,    \* statuses of a package given to wanttoinstall
    PkgVersions     \* its available and installed versions

NUL == ""

\* The ASCII codes of the characters a version may contain.
AsciiCode ==
    "0" :> 48 @@ "1" :> 49 @@ "2" :> 50 @@ "3" :> 51 @@ "4" :> 52
 @@ "5" :> 53 @@ "6" :> 54 @@ "7" :> 55 @@ "8" :> 56 @@ "9" :> 57
 @@ "a" :> 97 @@ "b" :> 98 @@ "z" :> 122 @@ "A" :> 65 @@ "~" :> 126
 @@ "." :> 46 @@ "+" :> 43 @@ "-" :> 45 @@ ":" :> 58 @@ NUL :> 0

cisdigit(c) == c \in {"0","1","2","3","4","5","6","7","8","9"}
cisalpha(c) == c \in {"a","b","z","A"}

Ch(s) == IF s = <<>> THEN NUL ELSE Head(s)

\* Mutant: the branch for other characters tested before the one for letters.
order_symbols_first(c) ==
    CASE cisdigit(c) -> 0
      [] c = "~"     -> -1
      [] c # NUL     -> AsciiCode[c] + 256
      [] OTHER       -> 0

\* order(): the weight of a character.
order(c) ==
    CASE cisdigit(c) -> 0
      [] cisalpha(c) -> AsciiCode[c]
      [] c = "~"     -> -1
      [] c # NUL     -> AsciiCode[c] + 256
      [] OTHER       -> 0

RECURSIVE SkipZeros(_)
SkipZeros(s) == IF Ch(s) = "0" THEN SkipZeros(Tail(s)) ELSE s

RECURSIVE verrevcmp(_, _), NonDigitLoop(_, _), DigitLoop(_, _, _)

\* The outer loop "while (*val || *ref)".
verrevcmp(val, ref) ==
    IF val = <<>> /\ ref = <<>> THEN 0 ELSE NonDigitLoop(val, ref)

\* Compare the non-digit prefixes by weight; then skip leading zeros.
NonDigitLoop(val, ref) ==
    IF (Ch(val) # NUL /\ ~cisdigit(Ch(val))) \/ (Ch(ref) # NUL /\ ~cisdigit(Ch(ref)))
    THEN LET vc == order(Ch(val))
             rc == order(Ch(ref))
         IN  IF vc # rc THEN vc - rc ELSE NonDigitLoop(Tail(val), Tail(ref))
    ELSE DigitLoop(SkipZeros(val), SkipZeros(ref), 0)

\* Walk both digit runs; the longer run wins, else the first difference.
DigitLoop(val, ref, first_diff) ==
    IF cisdigit(Ch(val)) /\ cisdigit(Ch(ref))
    THEN DigitLoop(Tail(val), Tail(ref),
                   IF first_diff = 0 THEN AsciiCode[Head(val)] - AsciiCode[Head(ref)]
                                     ELSE first_diff)
    ELSE CASE cisdigit(Ch(val)) -> 1
           [] cisdigit(Ch(ref)) -> -1
           [] first_diff # 0    -> first_diff
           [] OTHER             -> verrevcmp(val, ref)

versioncompare(v, r) ==
    CASE v.epoch > r.epoch -> 1
      [] v.epoch < r.epoch -> -1
      [] verrevcmp(v.version, r.version) # 0 -> verrevcmp(v.version, r.version)
      [] OTHER -> verrevcmp(v.revision, r.revision)

\* enum depverrel (dpkg-db.h): bit flags, and the five values they build.
dvrf_earlier == 1
dvrf_later   == 2
dvrf_strict  == 8
dvrf_orequal == 16
dvrf_builtup == 64
dvr_none     == 128
dvr_exact    == 256
dvr_earlierequal  == dvrf_builtup | (dvrf_earlier | dvrf_orequal)
dvr_earlierstrict == dvrf_builtup | (dvrf_earlier | dvrf_strict)
dvr_laterequal    == dvrf_builtup | (dvrf_later | dvrf_orequal)
dvr_laterstrict   == dvrf_builtup | (dvrf_later | dvrf_strict)

\* versionsatisfied3(): "internerr" for a verrel outside the switch.
versionsatisfied3(it, ref, verrel) ==
    LET r == versioncompare(it, ref)
        yes(b) == IF b THEN "yes" ELSE "no"
    IN  CASE verrel = dvr_none          -> "yes"
          [] verrel = dvr_earlierequal  -> yes(r <= 0)
          [] verrel = dvr_laterequal    -> yes(r >= 0)
          [] verrel = dvr_earlierstrict -> yes(r < 0)
          [] verrel = dvr_laterstrict   -> yes(r > 0)
          [] verrel = dvr_exact         -> yes(r = 0)
          [] OTHER                      -> "internerr"

(***************************************************************************)
(* f_dependency reads the relation of "name (c1 c2 ... version)": c1 is   *)
(* the first character after "(" and the blanks, c2 the one after it, and *)
(* c1 = "none" stands for an alternative without "(".  The version itself *)
(* is given parsed; err is parse_error, which abandons the field.          *)
(***************************************************************************)
\* Mutant: the obsolete one-character "<" and ">" read as strict.
ParseVerrel_obsolete_strict(c1, c2) ==
    LET base == IF c1 = "<" THEN dvrf_earlier ELSE dvrf_later
    IN  CASE c1 = "none" -> [err |-> FALSE, verrel |-> dvr_none]
          [] c1 \notin {"<", ">"} -> [err |-> FALSE, verrel |-> dvr_exact]
          [] c2 = "=" -> [err |-> FALSE, verrel |-> base | (dvrf_orequal | dvrf_builtup)]
          [] c2 = c1 -> [err |-> FALSE, verrel |-> base | (dvrf_strict | dvrf_builtup)]
          [] c2 \in {"<", ">"} -> [err |-> TRUE, verrel |-> dvr_none]
          [] OTHER -> [err |-> FALSE, verrel |-> base | (dvrf_strict | dvrf_builtup)]

ParseVerrel(c1, c2) ==
    LET base == IF c1 = "<" THEN dvrf_earlier ELSE dvrf_later
    IN  CASE c1 = "none" -> [err |-> FALSE, verrel |-> dvr_none]
          [] c1 \notin {"<", ">"} -> [err |-> FALSE, verrel |-> dvr_exact]
          [] c2 = "=" -> [err |-> FALSE, verrel |-> base | (dvrf_orequal | dvrf_builtup)]
          [] c2 = c1 -> [err |-> FALSE, verrel |-> base | (dvrf_strict | dvrf_builtup)]
          [] c2 \in {"<", ">"} -> [err |-> TRUE, verrel |-> dvr_none]
          [] OTHER -> [err |-> FALSE, verrel |-> base | (dvrf_orequal | dvrf_builtup)]

\* blankversion(): what "" and "<unknown>" stand for.
Blank == [epoch |-> 0, version |-> <<>>, revision |-> <<>>]

informativeversion(v) == v # Blank

\* relationinfos[]: exit codes if a<b, a=b, a>b, only b, none, only a.
Row(l, e, g, na, nb2, nb) ==
    [if_lesser |-> l, if_equal |-> e, if_greater |-> g,
     if_none_a |-> na, if_none_both |-> nb2, if_none_b |-> nb]

\* Mutant: the row of "lt-nl" copied from "lt".
relationinfos_nl_copied ==
    "le" :> Row(0,0,1,0,0,1) @@ "lt" :> Row(0,1,1,0,1,1)
 @@ "eq" :> Row(1,0,1,1,0,1) @@ "ne" :> Row(0,1,0,0,1,0)
 @@ "ge" :> Row(1,0,0,1,0,0) @@ "gt" :> Row(1,1,0,1,1,0)
 @@ "le-nl" :> Row(0,0,1,1,0,0) @@ "lt-nl" :> Row(0,1,1,0,1,1)
 @@ "ge-nl" :> Row(1,0,0,0,0,1) @@ "gt-nl" :> Row(1,1,0,0,1,1)
 @@ "<" :> Row(0,0,1,0,0,1) @@ "<=" :> Row(0,0,1,0,0,1)
 @@ "<<" :> Row(0,1,1,0,1,1) @@ "=" :> Row(1,0,1,1,0,1)
 @@ ">" :> Row(1,0,0,1,0,0) @@ ">=" :> Row(1,0,0,1,0,0)
 @@ ">>" :> Row(1,1,0,1,1,0)

relationinfos ==
    "le" :> Row(0,0,1,0,0,1) @@ "lt" :> Row(0,1,1,0,1,1)
 @@ "eq" :> Row(1,0,1,1,0,1) @@ "ne" :> Row(0,1,0,0,1,0)
 @@ "ge" :> Row(1,0,0,1,0,0) @@ "gt" :> Row(1,1,0,1,1,0)
 @@ "le-nl" :> Row(0,0,1,1,0,0) @@ "lt-nl" :> Row(0,1,1,1,1,0)
 @@ "ge-nl" :> Row(1,0,0,0,0,1) @@ "gt-nl" :> Row(1,1,0,0,1,1)
 @@ "<" :> Row(0,0,1,0,0,1) @@ "<=" :> Row(0,0,1,0,0,1)
 @@ "<<" :> Row(0,1,1,0,1,1) @@ "=" :> Row(1,0,1,1,0,1)
 @@ ">" :> Row(1,0,0,1,0,0) @@ ">=" :> Row(1,0,0,1,0,0)
 @@ ">>" :> Row(1,1,0,1,1,0)

\* Mutant: the comparison result is passed to exit() without the table.
cmpversions_raw(a, rel, b) ==
    IF rel \notin DOMAIN relationinfos THEN 2 ELSE versioncompare(a, b)

\* cmpversions(): the exit status of "dpkg --compare-versions a rel b";
\* badusage() exits with 2.
cmpversions(a, rel, b) ==
    IF rel \notin DOMAIN relationinfos THEN 2
    ELSE LET rip == relationinfos[rel]
         IN  CASE ~informativeversion(a) ->
                      IF informativeversion(b) THEN rip.if_none_a ELSE rip.if_none_both
               [] ~informativeversion(b) -> rip.if_none_b
               [] versioncompare(a, b) > 0 -> rip.if_greater
               [] versioncompare(a, b) < 0 -> rip.if_lesser
               [] OTHER -> rip.if_equal

(***************************************************************************)
(* The architecture qualifier of a dependency alternative as parsed by    *)
(* parse_depends (fields.c): ":any" gives the wildcard; no qualifier gives *)
(* an implicit "any" for Conflicts, Breaks and Replaces, and a NULL arch   *)
(* for every other kind.  Any other explicit qualifier is a parse error.   *)
(***************************************************************************)
DepKinds == {"depends", "pre-depends", "recommends", "conflicts", "breaks", "replaces"}
MultiArch == {"no", "same", "allowed", "foreign"}

ParsedArch(kind, qual) ==
    CASE qual = "any" -> "any"
      [] kind \in {"conflicts", "breaks", "replaces"} -> "any"
      [] OTHER -> "NULL"

Normalise(arch) == IF arch \in {"none", "all"} THEN Native ELSE arch

\* archsatisfied(): "crash" when it dereferences a NULL dep_arch.
archsatisfied(it, kind, dep_arch) ==
    CASE it.multiarch = "foreign" -> "yes"
      [] dep_arch = "NULL" -> "crash"
      [] dep_arch = "any" /\ (it.multiarch = "allowed"
                               \/ kind \in {"conflicts", "replaces", "breaks"}) -> "yes"
      [] Normalise(dep_arch) = Normalise(it.arch) -> "yes"
      [] OTHER -> "no"

(***************************************************************************)
(* wanttoinstall (src/archives.c): whether "dpkg --install" or "--unpack" *)
(* goes on with an archive, from the package's want, eflag and status,    *)
(* its available and installed versions, and the options --selected-only *)
(* (f_alsoselect false), --skip-same-version (f_skipsame) and             *)
(* --force-downgrade (fc_downgrade).  The result is the return value and  *)
(* the want the package is left with (newwant in the state).             *)
(***************************************************************************)
Wants == {"unknown", "install", "hold", "deinstall", "purge"}

\* enum pkgstatus (dpkg-db.h) in its order.
Statuses == <<"notinstalled", "configfiles", "halfinstalled", "unpacked",
              "halfconfigured", "triggersawaited", "triggerspending", "installed">>

StatusRank(st) == CHOOSE i \in 1..Len(Statuses) : Statuses[i] = st

wanttoinstall(w) ==
    LET r == versioncompare(w.available, w.installed)
    IN  CASE w.want \notin {"install", "hold"} ->
                 [ret |-> w.alsoselect, want |-> IF w.alsoselect THEN "install" ELSE w.want]
          [] w.reinstreq \/ StatusRank(w.status) < StatusRank("unpacked") ->
                 [ret |-> TRUE, want |-> w.want]
          [] OTHER -> [ret |-> r > 0 \/ (r = 0 /\ ~w.skipsame) \/ (r < 0 /\ w.downgrade),
                       want |-> w.want]

-----------------------------------------------------------------------------
VARIABLES op, vcall, ccall, acall, wcall, dcall, done
vars == <<op, vcall, ccall, acall, wcall, dcall, done>>

Pkgbins == [multiarch : MultiArch, arch : Arches]

VIdle == [val |-> <<>>, ref |-> <<>>, r |-> 0]
CIdle == [a |-> Blank, rel |-> "eq", b |-> Blank, exit |-> 0]
AIdle == [it |-> [multiarch |-> "foreign", arch |-> Native],
          kind |-> "depends", qual |-> "", r |-> "yes"]
DIdle == [c1 |-> "none", c2 |-> "=", it |-> Blank, ref |-> Blank,
          err |-> FALSE, sat |-> "yes"]
WIdle == [want |-> "install", reinstreq |-> FALSE, status |-> "installed",
          available |-> Blank, installed |-> Blank, alsoselect |-> TRUE,
          skipsame |-> FALSE, downgrade |-> FALSE, ret |-> FALSE, newwant |-> "install"]

\* The inputs of one call: two strings for verrevcmp, the command line of
\* compare-versions (a blank version for "" or "<unknown>"), or a package
\* and a dependency alternative as it is written in a control field, or
\* the state of a package and the options wanttoinstall reads.
Init ==
    /\ done = FALSE
    /\ \/ /\ op = "verrevcmp"
          /\ \E val, ref \in Strings : vcall = [VIdle EXCEPT !.val = val, !.ref = ref]
          /\ ccall = CIdle /\ acall = AIdle /\ wcall = WIdle /\ dcall = DIdle
       \/ /\ op = "cmpversions"
          /\ \E a, b \in Versions \cup {Blank}, rel \in Relations :
                ccall = [CIdle EXCEPT !.a = a, !.rel = rel, !.b = b]
          /\ vcall = VIdle /\ acall = AIdle /\ wcall = WIdle /\ dcall = DIdle
       \/ /\ op = "archsatisfied"
          /\ \E it \in Pkgbins, kind \in DepKinds, qual \in {"", "any", "i386"} :
                acall = [AIdle EXCEPT !.it = it, !.kind = kind, !.qual = qual]
          /\ vcall = VIdle /\ ccall = CIdle /\ wcall = WIdle /\ dcall = DIdle
       \/ /\ op = "wanttoinstall"
          /\ \E want \in Wants, reinstreq \in BOOLEAN, st \in PkgStatuses,
                av, inst \in PkgVersions, alsoselect, skipsame, downgrade \in BOOLEAN :
                wcall = [WIdle EXCEPT !.want = want, !.reinstreq = reinstreq,
                         !.status = st, !.available = av, !.installed = inst,
                         !.alsoselect = alsoselect, !.skipsame = skipsame,
                         !.downgrade = downgrade]
          /\ vcall = VIdle /\ ccall = CIdle /\ acall = AIdle /\ dcall = DIdle
       \/ /\ op = "depversion"
          /\ \E c1 \in {"none", "<", ">", "=", "1"}, c2 \in {"<", ">", "=", "1"},
                it, ref \in PkgVersions :
                dcall = [DIdle EXCEPT !.c1 = c1, !.c2 = c2, !.it = it, !.ref = ref]
          /\ vcall = VIdle /\ ccall = CIdle /\ acall = AIdle /\ wcall = WIdle

\* One call of verrevcmp().
CallVerrevcmp ==
    /\ ~done /\ op = "verrevcmp"
    /\ vcall' = [vcall EXCEPT !.r = verrevcmp(vcall.val, vcall.ref)]
    /\ done' = TRUE
    /\ UNCHANGED <<op, ccall, acall, wcall, dcall>>

\* One run of "dpkg --compare-versions a rel b".
CallCmpversions ==
    /\ ~done /\ op = "cmpversions"
    /\ ccall' = [ccall EXCEPT !.exit = cmpversions(ccall.a, ccall.rel, ccall.b)]
    /\ done' = TRUE
    /\ UNCHANGED <<op, vcall, acall, wcall, dcall>>

\* The alternative is parsed (an explicit qualifier other than "any" is a
\* parse error, and no alternative exists), then archsatisfied() is asked.
CallArchsatisfied ==
    /\ ~done /\ op = "archsatisfied"
    /\ acall.qual \in {"", "any"}
    /\ acall' = [acall EXCEPT !.r = archsatisfied(acall.it, acall.kind,
                                                  ParsedArch(acall.kind, acall.qual))]
    /\ done' = TRUE
    /\ UNCHANGED <<op, vcall, ccall, wcall, dcall>>

\* One call of wanttoinstall(), which may also select the package.
CallWanttoinstall ==
    /\ ~done /\ op = "wanttoinstall"
    /\ LET res == wanttoinstall(wcall)
       IN  wcall' = [wcall EXCEPT !.ret = res.ret, !.newwant = res.want]
    /\ done' = TRUE
    /\ UNCHANGED <<op, vcall, ccall, acall, dcall>>

\* An alternative's relation is parsed; unless that is a parse error, the
\* installed version "it" is tested against the dependency's version.
CallDepversion ==
    /\ ~done /\ op = "depversion"
    /\ LET pr == ParseVerrel(dcall.c1, dcall.c2)
       IN  dcall' = [dcall EXCEPT !.err = pr.err,
                       !.sat = IF pr.err THEN "no"
                               ELSE versionsatisfied3(dcall.it, dcall.ref, pr.verrel)]
    /\ done' = TRUE
    /\ UNCHANGED <<op, vcall, ccall, acall, wcall>>

Next == CallVerrevcmp \/ CallCmpversions \/ CallArchsatisfied \/ CallWanttoinstall
        \/ CallDepversion

Spec == Init /\ [][Next]_vars

-----------------------------------------------------------------------------
(***************************************************************************)
(* Reference ordering, written from the Debian version rules and not from *)
(* the loop of verrevcmp: a string is cut into (non-digit run, number)    *)
(* parts; its key lists, for each part, the rank of every character of    *)
(* the run, a 0 that ends the run, and the number.  Keys are compared     *)
(* lexicographically, a missing position counting as 0 (the end of the    *)
(* string).  "~" ranks below the end, letters above it, every other       *)
(* character above all letters.                                            *)
(***************************************************************************)
Rank(c) ==
    IF c = "~" THEN -1
    ELSE IF c \in {"A","a","b","z"} THEN AsciiCode[c]
    ELSE 1000 + AsciiCode[c]

RECURSIVE RunLen(_, _)
RunLen(s, digits) ==
    IF s # <<>> /\ (Head(s) \in {"0","1","2","3","4","5","6","7","8","9"}) = digits
    THEN 1 + RunLen(Tail(s), digits) ELSE 0

RECURSIVE Number(_)
Number(ds) == IF ds = <<>> THEN 0
              ELSE 10 * Number(SubSeq(ds, 1, Len(ds) - 1)) + (AsciiCode[ds[Len(ds)]] - 48)

RECURSIVE Key(_)
Key(s) ==
    IF s = <<>> THEN <<>>
    ELSE LET n    == RunLen(s, FALSE)
             rest == SubSeq(s, n + 1, Len(s))
             m    == RunLen(rest, TRUE)
         IN  [i \in 1..n |-> Rank(s[i])] \o <<0, Number(SubSeq(rest, 1, m))>>
               \o Key(SubSeq(rest, m + 1, Len(rest)))

RECURSIVE KeyCmp(_, _)
KeyCmp(x, y) ==
    IF x = <<>> /\ y = <<>> THEN 0
    ELSE LET hx == IF x = <<>> THEN 0 ELSE Head(x)
             hy == IF y = <<>> THEN 0 ELSE Head(y)
         IN  CASE hx < hy -> -1
               [] hx > hy -> 1
               [] OTHER   -> KeyCmp(IF x = <<>> THEN x ELSE Tail(x),
                                    IF y = <<>> THEN y ELSE Tail(y))

Sgn(n) == IF n > 0 THEN 1 ELSE IF n < 0 THEN -1 ELSE 0

RefVersionCmp(a, b) ==
    CASE a.epoch # b.epoch -> Sgn(a.epoch - b.epoch)
      [] KeyCmp(Key(a.version), Key(b.version)) # 0 -> KeyCmp(Key(a.version), Key(b.version))
      [] OTHER -> KeyCmp(Key(a.revision), Key(b.revision))

\* What each relation word means, and where the blank version sorts: below
\* every version, or above it for the "-nl" words.
Meaning(rel) ==
    CASE rel \in {"lt", "<<", "lt-nl"}         -> {-1}
      [] rel \in {"le", "<=", "<", "le-nl"}    -> {-1, 0}
      [] rel \in {"eq", "="}                   -> {0}
      [] rel = "ne"                             -> {-1, 1}
      [] rel \in {"ge", ">=", ">", "ge-nl"}    -> {0, 1}
      [] OTHER                                  -> {1}

RefOrder(a, rel, b) ==
    LET top == IF rel \in {"le-nl", "lt-nl", "ge-nl", "gt-nl"} THEN 1 ELSE -1
    IN  CASE a = Blank /\ b = Blank -> 0
          [] a = Blank -> top
          [] b = Blank -> -top
          [] OTHER     -> RefVersionCmp(a, b)

-----------------------------------------------------------------------------
TypeOK ==
    /\ op \in {"verrevcmp", "cmpversions", "archsatisfied", "wanttoinstall", "depversion"}
    /\ dcall.sat \in {"yes", "no", "internerr"}
    /\ wcall.newwant \in Wants /\ wcall.ret \in BOOLEAN
    /\ done \in BOOLEAN
    /\ ccall.exit \in {0, 1, 2}
    /\ acall.r \in {"yes", "no", "crash"}

\* verrevcmp() orders every pair of strings as the reference ordering does;
\* since that is a lexicographic order on keys, verrevcmp is then a total
\* preorder, "~" sorts below the end of the string and leading zeros of a
\* number are ignored.
VerrevcmpIsKeyOrder ==
    done /\ op = "verrevcmp" => Sgn(vcall.r) = KeyCmp(Key(vcall.val), Key(vcall.ref))

\* compare-versions (cmpversions and its relationinfos table) exits 0 exactly
\* when the relation holds between the two versions, the blank version
\* sorting lowest, or highest for the "-nl" words, and 2 for an unknown word.
CmpversionsExit ==
    done /\ op = "cmpversions" =>
        ccall.exit = IF ccall.rel \notin DOMAIN relationinfos THEN 2
                     ELSE IF RefOrder(ccall.a, ccall.rel, ccall.b) \in Meaning(ccall.rel)
                          THEN 0 ELSE 1

\* The word a dependency relation is written with, as compare-versions
\* takes it: a bare version in parentheses is "=".
RelWord(c1, c2) ==
    CASE c1 = "=" \/ c1 \notin {"<", ">"} -> "="
      [] c2 \in {c1, "="} -> c1 \o c2
      [] OTHER -> c1

\* A versioned dependency, as f_dependency parses it and versionsatisfied3
\* applies it, holds exactly when "dpkg --compare-versions it REL ref"
\* exits 0 for the same relation word, the obsolete "<" and ">" included;
\* "<>" and "><" are parse errors, and an alternative without a version
\* always holds.  Every relation the parser builds is one the switch of
\* versionsatisfied3 knows.
DependsRelationAsCompareVersions ==
    done /\ op = "depversion" =>
        IF dcall.c1 \in {"<", ">"} /\ dcall.c2 \in {"<", ">"} /\ dcall.c2 # dcall.c1
        THEN dcall.err
        ELSE /\ ~dcall.err
             /\ dcall.sat = IF dcall.c1 = "none" \/
                               cmpversions(dcall.it, RelWord(dcall.c1, dcall.c2), dcall.ref) = 0
                            THEN "yes" ELSE "no"

=============================================================================
