---------------------------- MODULE SelectionStore ----------------------------
(***************************************************************************)
(* What the package database promises the selection commands: a store    *)
(* of [want, essential] records keyed by a package name, compared          *)
(* case-insensitively through its lowercase form, and an architecture,    *)
(* where no architecture, the native one and "all" all name the set's     *)
(* head instance.  Looking a name up creates its set, and with it the     *)
(* blank head.  A status paragraph replaces a record, a set-selections    *)
(* line changes only the want, clear-selections deinstalls every record   *)
(* that is not essential before it finishes, a query (get-selections)   *)
(* changes no record, and a reset empties the store.  request is the last *)
(* input line or paragraph applied.                                       *)
(***************************************************************************)
EXTENDS Naturals, Sequences

CONSTANTS
    Fold(_),     \* the lowercase form of a name
    NativeName,  \* the native architecture's name
    NOARCH,      \* no architecture given
    Names,       \* the names input may hold
    Archs,       \* the architecture names input may hold
    Sels         \* the selections input may hold

VARIABLES
    selections, \* the store: a function from keys to [want, essential]
    phase,      \* "load", "set", "clear", "get", "done", "failed"
    request     \* the last request applied, [name, arch, want]

svars == <<selections, phase, request>>

HeadKey == <<>>   \* the empty architecture name stands for the head
ArchKey(a) ==
    IF a \in {NOARCH, <<>>, NativeName, <<"a", "l", "l">>} THEN HeadKey ELSE a
Key(n, a) == <<Fold(n), ArchKey(a)>>

Blank == [want |-> "unknown", essential |-> FALSE]
NoSelections == [k \in {} |-> Blank]
Lookup(s, k) == IF k \in DOMAIN s THEN s[k] ELSE Blank
Store(s, k, v) == [x \in DOMAIN s \cup {k} |-> IF x = k THEN v ELSE s[x]]
\* Looking a name up creates its set with the blank head.
WithSet(s, n) == IF Key(n, NOARCH) \in DOMAIN s THEN s ELSE Store(s, Key(n, NOARCH), Blank)

Req(n, a, w) == [name |-> n, arch |-> a, want |-> w]

Load(n, a, e, w) ==
    /\ phase = "load"
    /\ selections' = Store(WithSet(selections, n), Key(n, a), [want |-> w, essential |-> e])
    /\ request' = Req(n, a, w)
    /\ UNCHANGED phase

Begin(c) ==
    /\ phase = "load"
    /\ phase' = c
    /\ UNCHANGED <<selections, request>>

Select(n, a, w) ==
    LET s == WithSet(selections, n)
    IN  /\ phase = "set"
        /\ selections' = Store(s, Key(n, a), [Lookup(s, Key(n, a)) EXCEPT !.want = w])
        /\ request' = Req(n, a, w)
        /\ UNCHANGED phase

Reject(n, a, w) ==
    /\ phase = "set"
    /\ phase' = "failed"
    /\ request' = Req(n, a, w)
    /\ UNCHANGED selections

EndSet ==
    /\ phase = "set"
    /\ phase' = "done"
    /\ UNCHANGED <<selections, request>>

\* A query reads the store; it ends, or fails on an illegal argument.
EndQuery(p) ==
    /\ phase = "get"
    /\ phase' = p
    /\ UNCHANGED <<selections, request>>

ClearOne(k) ==
    /\ phase = "clear"
    /\ k \in DOMAIN selections
    /\ ~selections[k].essential
    /\ selections' = [selections EXCEPT ![k].want = "deinstall"]
    /\ UNCHANGED <<phase, request>>

EndClear ==
    /\ phase = "clear"
    /\ \A k \in DOMAIN selections : selections[k].essential \/ selections[k].want = "deinstall"
    /\ phase' = "done"
    /\ UNCHANGED <<selections, request>>

Restart ==
    /\ phase = "done"
    /\ phase' = "load"
    /\ selections' = NoSelections
    /\ UNCHANGED request

SInit ==
    /\ selections = NoSelections
    /\ phase = "load"
    /\ request = <<>>

\* A request is a line or paragraph of the input; the step that applies it
\* records it, so the parameters of Load, Select and Reject are those of
\* the new request.
Requests == [name : Names, arch : Archs, want : Sels]

SNext ==
    \/ /\ request' \in Requests
       /\ LET n == request'.name
              a == request'.arch
              w == request'.want
          IN  \/ \E e \in BOOLEAN : Load(n, a, e, w)
              \/ Select(n, a, w)
              \/ Reject(n, a, w)
    \/ \E c \in {"set", "clear", "get"} : Begin(c)
    \/ EndSet
    \/ \E p \in {"done", "failed"} : EndQuery(p)
    \/ \E k \in DOMAIN selections : ClearOne(k)
    \/ EndClear
    \/ Restart

SSpec == SInit /\ [][SNext]_svars

====
