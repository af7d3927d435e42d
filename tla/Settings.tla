------------------------------ MODULE Settings -------------------------------
(***************************************************************************)
(* What settings are read as: configuration, database stores, the CLI's    *)
(* files.  Operators only: none of it keeps state.                         *)
(***************************************************************************)
EXTENDS Integers, Sequences, FiniteSets, SequencesExt

-------------------------------------------------------------------------------
(***************************************************************************)
(* Layered configuration (ulo-config): what each source reads into a tree  *)
(* whose nodes carry their origin, the overlay that merges the sources,    *)
(* the .env subset, and the scan that bounds a YAML file's aliases. A tree *)
(* is a function from its paths, sequences of keys, to nodes; the empty    *)
(* path is the root. Values are abstracted to their origins.               *)
(***************************************************************************)

NoTree == [p \in {} |-> p]

Table(from) == [table |-> TRUE, from |-> from]
Leaf(from) == [table |-> FALSE, from |-> from]

Above(path) == {SubSeq(path, 1, n) : n \in 0..(Len(path) - 1)}

\* Tree::set: the tables on the way are made, a leaf among them becomes one; what stood at the path
\* is gone. An empty path writes nothing.
SetAt(tree, path, node) ==
    IF path = <<>> THEN tree
    ELSE LET kept == {p \in DOMAIN tree : ~IsPrefix(path, p)} IN
         [p \in kept \cup Above(path) \cup {path} |->
             IF p = path THEN node
             ELSE IF p \in kept /\ (p \in Above(path) => tree[p].table) THEN tree[p]
             ELSE Table(node.from)]

\* Tree::overlay and merge: two tables merge and the lower keeps its origin, anything else of the
\* upper layer replaces what stands at its path.
Overlay(base, upper) ==
    LET kept == {p \in DOMAIN base : \A q \in DOMAIN upper : IsPrefix(q, p) => upper[q].table} IN
    [p \in kept \cup DOMAIN upper |->
        IF p \in kept /\ (p \in DOMAIN upper => base[p].table) THEN base[p] ELSE upper[p]]

\* segments: a name without the prefix is not read; a name of separators alone has no path.
Segments(name, prefix, separator) ==
    IF prefix /\ ~name.prefixed THEN <<>>
    ELSE IF ~separator THEN <<name.whole>>
    ELSE SelectSeq(name.pieces, LAMBDA s : s # "")

\* The tree the entries of a source make, each set in turn over the ones before it.
Entered(entries, prefix, separator) ==
    FoldLeft(LAMBDA tree, e : SetAt(tree, Segments(e.name, prefix, separator), Leaf(e.from)), NoTree, entries)

\* read_text: why a file gave no text. An optional file that is missing gives an empty layer.
TextFailure(file) ==
    IF file.state = "missing" /\ file.optional THEN "none"
    ELSE IF file.state \in {"missing", "unreadable", "encoding"} THEN file.state
    ELSE "read"

\* dotenv::parse: the entries, or one problem for each malformed line and each key written again.
DotEnvProblems(lines) ==
    SelectSeq([i \in DOMAIN lines |-> [line |-> i, first |-> SelectInSeq(lines, LAMBDA l : l.ok /\ lines[i].ok /\ l.key = lines[i].key)]],
              LAMBDA r : ~lines[r.line].ok \/ r.first < r.line)

\* Source::read of the five sources: the layer's tree, and its failures.
ReadSource(s) ==
    CASE s.kind = "defaults" -> IF s.state = "failed" THEN [tree |-> NoTree, failures |-> <<"default">>]
                                ELSE [tree |-> s.tree, failures |-> <<>>]
      [] s.kind = "file" -> LET why == TextFailure(s) IN
                            IF why \in {"missing", "unreadable", "encoding"} THEN [tree |-> NoTree, failures |-> <<why>>]
                            ELSE IF why = "none" THEN [tree |-> NoTree, failures |-> <<>>]
                            ELSE IF s.state = "malformed" THEN [tree |-> NoTree, failures |-> <<"malformed">>]
                            ELSE [tree |-> s.tree, failures |-> <<>>]
      [] s.kind = "named" -> [tree |-> Entered(s.entries, s.prefix, s.separator), failures |-> <<>>]

\* ConfigBuilder::load: every source over the ones before it, no failure dropped.
Load(sources) ==
    FoldLeft(LAMBDA r, s : LET layer == ReadSource(s) IN
                 [tree |-> Overlay(r.tree, layer.tree), failures |-> r.failures \o layer.failures],
             [tree |-> NoTree, failures |-> <<>>], sources)

\* Tree::leaves and Config::unread.
Leaves(tree) == {p \in DOMAIN tree : ~tree[p].table}
Unread(tree, consumed) == Leaves(tree) \ consumed

\* check_unread, ConfigModule's init hook.
CheckUnread(tree, consumed, deny) ==
    IF Unread(tree, consumed) = {} THEN "ok" ELSE IF deny THEN "refused" ELSE "warned"

-----------------------------------------------------------------------------
\* The .env value after `=`, a sequence of character classes: sp, sq ('), dq ("), bs (\), hash, n, x.

TrimStart(t) == LET at == SelectInSeq(t, LAMBDA c : c # "sp") IN IF at = 0 THEN <<>> ELSE SubSeq(t, at, Len(t))
Trim(t) == Reverse(TrimStart(Reverse(TrimStart(t))))

BadValue == [ok |-> FALSE, text |-> <<>>]
GoodValue(text) == [ok |-> TRUE, text |-> text]

\* after_quote: nothing, or a comment after whitespace.
AfterQuote(tail) ==
    LET t == TrimStart(tail) IN t = <<>> \/ (t[1] = "hash" /\ Len(t) # Len(tail))

\* The text of a double-quoted value up to the quote that closes it, escapes read.
Unescaped(body) ==
    LET step(r, c) ==
            IF r.done THEN [r EXCEPT !.at = @]
            ELSE IF r.escape THEN IF c \in {"n", "dq", "bs"} THEN [r EXCEPT !.at = @ + 1, !.escape = FALSE, !.text = Append(@, IF c = "n" THEN "newline" ELSE c)]
                                  ELSE [r EXCEPT !.done = TRUE, !.bad = TRUE]
            ELSE IF c = "dq" THEN [r EXCEPT !.at = @ + 1, !.done = TRUE]
            ELSE IF c = "bs" THEN [r EXCEPT !.at = @ + 1, !.escape = TRUE]
            ELSE [r EXCEPT !.at = @ + 1, !.text = Append(@, c)] IN
    FoldLeft(step, [at |-> 0, text |-> <<>>, escape |-> FALSE, done |-> FALSE, bad |-> FALSE], body)

\* Where the comment of a bare value begins: a # after whitespace.
CommentAt(rest) ==
    SelectInSeq([i \in DOMAIN rest |-> rest[i] = "hash" /\ i > 1 /\ rest[i - 1] = "sp"], LAMBDA b : b)

\* parse_value.
ParseValue(rest) ==
    LET t == TrimStart(rest)
        body == Tail(t)
        close == SelectInSeq(body, LAMBDA c : c = "sq")
        double == Unescaped(body)
        comment == CommentAt(rest) IN
    IF t # <<>> /\ t[1] = "sq"
    THEN IF close # 0 /\ AfterQuote(SubSeq(body, close + 1, Len(body))) THEN GoodValue(SubSeq(body, 1, close - 1)) ELSE BadValue
    ELSE IF t # <<>> /\ t[1] = "dq"
    THEN IF double.done /\ ~double.bad /\ AfterQuote(SubSeq(body, double.at + 1, Len(body))) THEN GoodValue(double.text) ELSE BadValue
    ELSE GoodValue(Trim(IF comment = 0 THEN rest ELSE SubSeq(rest, 1, comment - 1)))

-----------------------------------------------------------------------------
\* The YAML scan (format/yaml.rs). An event is a scalar, a start, an end or an alias of an anchor;
\* anchor 0 is none.

ScanStart == [frames |-> <<>>, sizes |-> [a \in {} |-> 0], built |-> 0, refused |-> FALSE, merges |-> 0]

InKey(s) == s.frames # <<>> /\ Last(s.frames).mapping /\ Last(s.frames).key

\* Scan::finish: a completed node counts in its parent, and turns the parent's key to its value.
FinishNode(s, size, anchor) ==
    LET sized == IF anchor = 0 THEN s.sizes ELSE [a \in DOMAIN s.sizes \cup {anchor} |-> IF a = anchor THEN size ELSE s.sizes[a]]
        n == Len(s.frames) IN
    [s EXCEPT !.sizes = sized,
              !.frames = IF n = 0 THEN @ ELSE [@ EXCEPT ![n].size = @ + size, ![n].key = IF s.frames[n].mapping THEN ~@ ELSE @]]

\* Scan::on_event.
OnEvent(s, e, limit) ==
    IF s.refused THEN s
    ELSE CASE e.kind = "scalar" ->
                FinishNode([s EXCEPT !.built = @ + 1, !.merges = @ + (IF InKey(s) /\ e.merge THEN 1 ELSE 0)], 1, e.anchor)
           [] e.kind = "alias" ->
                LET size == IF e.anchor \in DOMAIN s.sizes THEN s.sizes[e.anchor] ELSE 1
                    grown == [s EXCEPT !.built = @ + size] IN
                IF grown.built > limit THEN [grown EXCEPT !.refused = TRUE] ELSE FinishNode(grown, size, 0)
           [] e.kind \in {"sequence", "mapping"} ->
                [s EXCEPT !.built = @ + 1,
                          !.frames = Append(@, [anchor |-> e.anchor, size |-> 1, mapping |-> e.kind = "mapping", key |-> e.kind = "mapping"])]
           [] e.kind = "end" ->
                FinishNode([s EXCEPT !.frames = Front(@)], Last(s.frames).size, Last(s.frames).anchor)

Scan(events, limit) == FoldLeft(LAMBDA s, e : OnEvent(s, e, limit), ScanStart, events)

-----------------------------------------------------------------------------
\* The typed reads of the deserializer (de.rs). A scalar is [kind, of]; a text is a variable's or a .env
\* value, whose type the source does not know: it holds the spelling of the scalar in `of`.

Good(value) == [ok |-> TRUE, value |-> value]
Ill == [ok |-> FALSE, value |-> "none"]

IsInt(s) == s.kind = "int" \/ (s.kind = "text" /\ s.of.kind = "int")
IntOf(s) == IF s.kind = "int" THEN s.of ELSE s.of.of

\* deserialize_bool.
ReadBool(s) ==
    IF s.kind = "bool" THEN Good(s.of)
    ELSE IF s.kind = "text" /\ s.of.kind = "bool" THEN Good(s.of.of) ELSE Ill

\* int_method: a number the type cannot hold is a problem, never wrapped.
ReadInt(s, low, high) == IF IsInt(s) /\ IntOf(s) \in low..high THEN Good(IntOf(s)) ELSE Ill

\* float: an integer is read as one.
ReadFloat(s) ==
    IF IsInt(s) THEN Good(IntOf(s))
    ELSE IF s.kind = "float" THEN Good(s.of)
    ELSE IF s.kind = "text" /\ s.of.kind = "float" THEN Good(s.of.of) ELSE Ill

\* string, deserialize_bytes and deserialize_enum over a scalar: text as it stands.
ReadString(s) == IF s.kind = "str" THEN Good(s) ELSE IF s.kind = "text" THEN Good(s.of) ELSE Ill

\* deserialize_option: null is none, anything else is read as the type inside.
ReadOption(s, inner) == IF s.kind = "null" THEN Good("none") ELSE inner

\* A value set in the environment is read as the same value in a file is: where a field accepts a scalar,
\* it accepts the text that spells it, as the same value.
TextReadsAlike(s, low, high) ==
    LET text == [kind |-> "text", of |-> s]
        alike(typed, spelled) == typed.ok => spelled = typed IN
    s.kind # "null" =>
        /\ alike(ReadBool(s), ReadBool(text))
        /\ alike(ReadInt(s, low, high), ReadInt(text, low, high))
        /\ alike(ReadFloat(s), ReadFloat(text))
        /\ alike(ReadString(s), ReadString(text))
        /\ alike(ReadOption(s, ReadInt(s, low, high)), ReadOption(text, ReadInt(text, low, high)))

-----------------------------------------------------------------------------
\* The load keeps what the last source to speak of a path says of it: a leaf of the merged tree is the
\* leaf of the last source that has one there, with that source's origin, unless a later source has a
\* table at its path or a leaf on the way; no other path is a leaf, and every failure is kept in order.
LastSourceWins(sources) ==
    LET layers == [i \in DOMAIN sources |-> ReadSource(sources[i])]
        trees == [i \in DOMAIN sources |-> layers[i].tree]
        loaded == Load(sources)
        speaks(i, p) == \E q \in DOMAIN trees[i] : IsPrefix(q, p) /\ (~trees[i][q].table \/ q = p)
        winner(p) == {i \in DOMAIN sources : speaks(i, p) /\ \A j \in (i + 1)..Len(sources) : ~speaks(j, p)}
        all == UNION {DOMAIN trees[i] : i \in DOMAIN sources} IN
    /\ \A p \in all : p \in Leaves(loaded.tree) <=> \E i \in winner(p) : p \in Leaves(trees[i])
    /\ \A p \in Leaves(loaded.tree) : \E i \in winner(p) : loaded.tree[p] = trees[i][p]
    /\ \A p \in DOMAIN loaded.tree : \A q \in Above(p) : q \in DOMAIN loaded.tree /\ loaded.tree[q].table
    /\ loaded.failures = FlattenSeq([i \in DOMAIN layers |-> layers[i].failures])

\* The escapes the .env format's own doc names, written back in double quotes.
Escaped(text) == FlattenSeq([i \in DOMAIN text |-> IF text[i] \in {"dq", "bs"} THEN <<"bs", text[i]>> ELSE <<text[i]>>])

\* A .env value is read as it was written: in single quotes when it holds none, in double quotes with its
\* quotes and backslashes escaped, and bare when it has no space at its ends, opens with no quote and has
\* no # after a space; a comment after whitespace changes none of the three.
DotEnvReadsBack(text) ==
    LET comments == {<<>>, <<"sp", "hash", "x">>} IN
    \A c \in comments :
        /\ (\A i \in DOMAIN text : text[i] # "sq") => ParseValue(<<"sq">> \o text \o <<"sq">> \o c) = GoodValue(text)
        /\ ParseValue(<<"dq">> \o Escaped(text) \o <<"dq">> \o c) = GoodValue(text)
        /\ (Trim(text) = text /\ (text = <<>> \/ text[1] \notin {"sq", "dq"}) /\ (\A i \in 2..Len(text) : text[i] = "hash" => text[i - 1] # "sp"))
             => ParseValue(text \o c) = GoodValue(text)

\* The nodes the loader builds for the subtree of events i..j: an alias is built again whole.
BuiltBy(events) ==
    LET depth[i \in 0..Len(events)] ==
            IF i = 0 THEN 0
            ELSE depth[i - 1] + (IF events[i].kind \in {"sequence", "mapping"} THEN 1 ELSE IF events[i].kind = "end" THEN -1 ELSE 0)
        lastOf(i) == IF events[i].kind \in {"sequence", "mapping"} THEN CHOOSE j \in i..Len(events) : depth[j] = depth[i - 1] /\ \A k \in i..(j - 1) : depth[k] > depth[i - 1]
                     ELSE i
        anchored(a, i) == {k \in 1..(i - 1) : events[k].kind # "alias" /\ events[k].kind # "end" /\ events[k].anchor = a /\ lastOf(k) < i}
        nodes[i \in DOMAIN events] ==
            CASE events[i].kind = "end" -> 0
              [] events[i].kind = "alias" ->
                   LET named == anchored(events[i].anchor, i) IN
                   IF named = {} THEN 1
                   ELSE LET k == CHOOSE k \in named : \A l \in named : l <= k IN
                        FoldLeft(LAMBDA n, m : n + nodes[m], 0, [m \in 1..(lastOf(k) - k + 1) |-> k + m - 1])
              [] OTHER -> 1 IN
    FoldLeft(LAMBDA n, m : n + nodes[m], 0, [m \in 1..Len(events) |-> m])

\* The scan counts what the loader would build: a file it lets through expands to as many nodes as it
\* counted, and a file it refuses expands past the limit, however its aliases nest.
AliasesBounded(events, limit) ==
    LET s == Scan(events, limit) IN IF s.refused THEN BuiltBy(events) > limit ELSE s.built = BuiltBy(events)

-------------------------------------------------------------------------------
(***************************************************************************)
(* What the database stores decide from their inputs alone: which errors a *)
(* retry cannot mend (classify.rs of each store), what a lock step answers *)
(* (the stores' take_lock), what a URL is accepted as and which texts of   *)
(* its password are kept out of reports (options.rs), and what a store     *)
(* module registers (ulo-db/src/module.rs, health.rs).                     *)
(*                                                                         *)
(* A URL is a sequence of pieces: delimiters and words.  A percent escape  *)
(* is the piece "%" and two digits.                                        *)
(***************************************************************************)

Engines == {"postgres", "mysql", "sqlite"}

-----------------------------------------------------------------------------
(* Errors.  An SQLx error is [kind, code, inner].                          *)

PermanentCode(engine, code) ==
  CASE engine = "postgres" -> code \in {"28P01", "28000", "3D000"}
    [] engine = "mysql"    -> code \in {"28000", "42000"}
    [] OTHER               -> code \in {"14", "14x"}

\* A certificate refused for anything but its validity period.
CertificateRefused(e) == e.inner \in {"UnknownIssuer", "BadSignature"}

FileUnreadable(e) == e.inner = "none" /\ e.code \in {"NotFound", "PermissionDenied"}

SqlxPermanent(engine, e, tcp) ==
  \/ e.kind \in {"Configuration", "Tls"}
  \/ e.kind = "Database" /\ PermanentCode(engine, e.code)
  \/ e.kind = "Io" /\ (CertificateRefused(e) \/ (tcp /\ FileUnreadable(e)))

\* SeaORM carries the SQLx error inside three of its variants.
SeaOrmPermanent(engine, wrap, e, tcp) ==
  wrap \in {"Conn", "Exec", "Query"} /\ SqlxPermanent(engine, e, tcp)

\* Only a pool reached by host and port reads a missing file as a certificate.
ReachesByTcp(engine, socket) == engine # "sqlite" /\ ~socket

\* Diesel keeps the message alone; [layers, cause] is what wraps it.
MessagePermanent(message) == message \in {"refused", "noDatabase"}

QueryPermanent(q) == q.kind = "InvalidCString" \/ (q.kind = "DatabaseError" /\ MessagePermanent(q.message))

ConnectionPermanent(c) ==
  \/ c.kind \in {"InvalidCString", "InvalidConnectionUrl"}
  \/ c.kind = "BadConnection" /\ MessagePermanent(c.message)
  \/ c.kind = "CouldntSetup" /\ QueryPermanent([kind |-> "DatabaseError", message |-> c.message])

DieselPermanent(layers, c) ==
  CASE layers = <<"Pool", "NoRuntime">>       -> TRUE
    [] layers = <<"Pool", "Timeout">>         -> FALSE
    [] layers \in {<<"Pool", "Setup", "Connection">>, <<"Setup", "Connection">>, <<"Connection">>} -> ConnectionPermanent(c)
    [] layers \in {<<"Pool", "Setup", "Query">>, <<"Setup", "Query">>, <<"Query">>}                -> QueryPermanent(c)
    [] OTHER                                  -> FALSE

RedisPermanent(kind) == kind \in {"AuthenticationFailed", "InvalidClientConfig"}

MongoPermanent(kind, code) ==
  \/ kind \in {"Authentication", "InvalidArgument", "InvalidTlsConfig", "IncompatibleServer"}
  \/ kind = "Command" /\ code = 18

-----------------------------------------------------------------------------
(* The lock step.  Each wait's outcome is "ok" or an error's class: "bare",*)
(* "permanent"; "ranout" is the server's or the file's own wait ending.    *)

\* The first step that failed decides.
FirstOf(steps) == LET bad == SelectInSeq(steps, LAMBDA o : o # "ok") IN IF bad = 0 THEN "held" ELSE steps[bad]

\* A pooled connection is pinned while the migrator takes another.
SpareConnection(size) == IF size >= 2 THEN "ok" ELSE "permanent"

PgTakeLock(size, o) ==
  FirstOf(<<SpareConnection(size), o.acquire, o.set, IF o.wait = "ranout" THEN "timedout" ELSE o.wait>>)

MySqlTakeLock(size, o) ==
  FirstOf(<<SpareConnection(size), o.acquire, IF o.set = "ok" /\ ~o.database THEN "permanent" ELSE o.set,
            IF o.wait = "ranout" THEN "timedout" ELSE o.wait>>)

\* The sidecar: a database without a file takes no lock.
SqliteTakeLock(o) ==
  IF o.acquire = "ok" /\ ~o.database THEN "held"
  ELSE FirstOf(<<o.acquire, IF o.set = "ok" THEN "ok" ELSE "permanent",
                 IF o.wait = "ranout" THEN "timedout" ELSE IF o.wait = "ok" THEN "ok" ELSE "permanent">>)

\* Diesel opens a connection outside the pool and reads the server's
\* lock_timeout as any other error.
DieselPgTakeLock(o) == FirstOf(<<o.acquire, o.set, IF o.wait = "ranout" THEN "bare" ELSE o.wait>>)

DieselMySqlTakeLock(o) == MySqlTakeLock(2, o)

DieselSqliteTakeLock(o) == SqliteTakeLock(o)

\* run_locked's reading of a lock step's error.
RetryOf(answer) == CASE answer = "timedout" -> "LockWait" [] answer = "permanent" -> "No" [] OTHER -> "LockStep"

\* The waits the stores set, in milliseconds (seconds saturate at SecondsMax).
LockMillis(bound, max) == IF bound < 1 THEN 1 ELSE IF bound > max THEN max ELSE bound

LockSeconds(bound, perSecond) == (bound \div perSecond) + (IF bound % perSecond > 0 THEN 1 ELSE 0)

LastAttempt(bound, margin) == IF bound >= margin THEN bound - margin ELSE 0

\* The sidecar's wait: how long the thread sleeps before it tries again.
PauseOf(now, last, poll) == IF last > now THEN (IF last - now < poll THEN last - now ELSE poll) ELSE 0

\* The instants, from `started`, at which the lock thread tries the file.
AttemptsOf(bound, margin, poll) ==
  LET last == LastAttempt(bound, margin)
      at[n \in Nat] == IF n = 0 THEN 0 ELSE LET before == at[n - 1] IN before + PauseOf(before, last, poll)
  IN  {at[n] : n \in 0..bound}

-----------------------------------------------------------------------------
(* URLs.                                                                   *)

SplitOnce(s, d) ==
  LET i == SelectInSeq(s, LAMBDA x : x = d)
  IN  IF i = 0 THEN [found |-> FALSE, before |-> s, after |-> <<>>]
      ELSE [found |-> TRUE, before |-> SubSeq(s, 1, i - 1), after |-> SubSeq(s, i + 1, Len(s))]

SplitLast(s, d) ==
  LET i == SelectLastInSeq(s, LAMBDA x : x = d)
  IN  IF i = 0 THEN [found |-> FALSE, before |-> s, after |-> <<>>]
      ELSE [found |-> TRUE, before |-> SubSeq(s, 1, i - 1), after |-> SubSeq(s, i + 1, Len(s))]

\* Everything up to the first piece in ds.
UpTo(s, ds) == LET i == SelectInSeq(s, LAMBDA x : x \in ds) IN IF i = 0 THEN s ELSE SubSeq(s, 1, i - 1)

\* The pieces between the delimiters d.
SplitAll(s, d) ==
  LET cuts == {0, Len(s) + 1} \cup {i \in 1..Len(s) : s[i] = d}
  IN  {SubSeq(s, a + 1, (CHOOSE b \in cuts : b > a /\ \A c \in cuts : c > a => b <= c) - 1) : a \in cuts \ {Len(s) + 1}}

SchemesOf(engine) ==
  CASE engine = "postgres" -> {"postgres", "postgresql"} [] engine = "mysql" -> {"mysql", "mariadb"} [] OTHER -> {"sqlite"}

\* The scheme SQLx's parsers would take whatever it is, so it is read first.
CheckScheme(engine, url) ==
  LET at == SplitOnce(url, ":")
  IN  /\ at.found /\ Len(at.before) = 1
      /\ engine = "sqlite" \/ (at.after # <<>> /\ Head(at.after) = "//")
      /\ at.before[1] \in SchemesOf(engine)

\* The schemes SeaORM routes on.
EngineOf(url) ==
  LET at == SplitOnce(url, ":")
  IN  IF ~at.found \/ Len(at.before) # 1 THEN "none"
      ELSE CASE at.before[1] \in {"postgres", "postgresql"} -> "postgres"
             [] at.before[1] = "mysql"                      -> "mysql"
             [] at.before[1] = "sqlite"                     -> "sqlite"
             [] OTHER                                       -> "none"

\* The options SeaORM's store accepts, as to the URL and the pool's numbers;
\* 0 stands for a number not given, so a given zero is "zero".
SeaOrmValid(url) == EngineOf(url) # "none" /\ CheckScheme(EngineOf(url), url)

\* Diesel's Postgres and MySQL take the scheme with `://` only.
DieselScheme(engine, url) ==
  LET at == SplitOnce(url, ":")
  IN  /\ at.found /\ at.after # <<>> /\ Head(at.after) = "//" /\ Len(at.before) = 1
      /\ at.before[1] \in (IF engine = "postgres" THEN {"postgres", "postgresql"} ELSE {"mysql"})

\* Diesel's SQLite opens any text: the spellings that would open another
\* file are refused.
DieselSqlite(url) ==
  LET at == SplitOnce(url, ":")
      scheme == at.found /\ at.after # <<>> /\ Head(at.after) = "//"
  IN  /\ url # <<>>
      /\ scheme => Len(at.before) = 1 /\ at.before[1] \in {"sqlite", "file"}
      /\ at.found /\ at.before = <<"sqlite">> => scheme

\* The pool numbers every SQLx store checks: given or 10 connections.
PoolValid(max, min, acquire, default) == max # 0 /\ min <= (IF max > 0 THEN max ELSE default) /\ acquire # 0

Digits == {"4", "1"}

\* One escape: `%` and two digits, decoded; anything else is kept.
Decoded(h, l) == IF h = "4" /\ l = "1" THEN "A" ELSE "other"

PercentDecode(text) ==
  LET esc(i) == text[i] = "%" /\ i + 2 <= Len(text) /\ text[i + 1] \in Digits /\ text[i + 2] \in Digits
      rest[i \in 1..(Len(text) + 1)] ==
        IF i > Len(text) THEN <<>>
        ELSE IF esc(i) THEN <<Decoded(text[i + 1], text[i + 2])>> \o rest[i + 3]
        ELSE <<text[i]>> \o rest[i + 1]
  IN  rest[1]

PlusAsSpace(text) == [i \in DOMAIN text |-> IF text[i] = "+" THEN " " ELSE text[i]]

\* Everything before the last `@` of the authority.
Userinfo(url) ==
  LET at == SplitOnce(url, "//") IN SplitLast(UpTo(at.after, {"/", "?", "#"}), "@")

PasswordOf(url) ==
  LET u == Userinfo(url) p == SplitOnce(u.before, ":")
  IN  IF u.found /\ p.found THEN {p.after} ELSE {}

QueryOf(url) == LET q == SplitOnce(url, "?") IN IF q.found THEN UpTo(q.after, {"#"}) ELSE <<>>

QueryPasswords(url) ==
  {SplitOnce(pair, "=").after : pair \in {p \in SplitAll(QueryOf(url), "&") : SplitOnce(p, "=").found /\ SplitOnce(p, "=").before = <<"password">>}}

\* The texts SQLx's and Diesel's stores keep out of reports.
PasswordForms(url) ==
  (UNION {{p, PercentDecode(p)} : p \in PasswordOf(url)}
     \cup UNION {{v, PercentDecode(PlusAsSpace(v))} : v \in QueryPasswords(url)}) \ {<<>>}

\* The texts SeaORM's store scrubs: the fragment is cut first.
PasswordTexts(url) ==
  LET cut == UpTo(SplitOnce(url, "//").after, {"#"})
      whole == <<"x", ":", "//">> \o cut
  IN  (UNION {{p, PercentDecode(p)} : p \in PasswordOf(whole)}
        \cup UNION {{v, PercentDecode(v), PercentDecode(PlusAsSpace(v))} : v \in QueryPasswords(whole)}) \ {<<>>}

\* The parser's message is kept only while it holds no sensitive piece.
Leaks(url, text) ==
  LET holds(p) == p # <<>> /\ \E i \in 1..(Len(text) - Len(p) + 1) : SubSeq(text, i, i + Len(p) - 1) = p
  IN  holds(url) \/ (Userinfo(url).found /\ holds(Userinfo(url).before)) \/ \E p \in PasswordForms(url) : holds(p)

Describe(url, detail) == IF Leaks(url, detail) THEN <<>> ELSE detail

-----------------------------------------------------------------------------
(* Registration.  A module is [valid, connects, lazy, migrate, connect,    *)
(* limit]: connect and limit are bounds, limit 0 when none is set and      *)
(* "zero" tells an explicit zero.                                          *)

Refusals(m) ==
  (IF m.valid /\ m.connects /\ m.lazy THEN {"LazyRefused"} ELSE {})
    \cup (IF m.lazy /\ m.migrate THEN {"LazyWithMigrations"} ELSE {})
    \cup (IF ~m.valid THEN {"Options"} ELSE {})
    \cup (IF m.connect = 0 THEN {"ZeroConnectBound"} ELSE {})
    \cup (IF m.migrate /\ m.zero THEN {"ZeroMigrateBound"} ELSE {})

\* What is put on the client's binding: the retries of the readiness check
\* (-1 for none written) and the bound on one construction.
ReadyOf(m) ==
  IF m.connects THEN [checked |-> TRUE, retries |-> 0, createLoops |-> TRUE]
  ELSE IF m.lazy THEN [checked |-> FALSE, retries |-> 0, createLoops |-> FALSE]
  ELSE [checked |-> TRUE, retries |-> m.retries, createLoops |-> FALSE]

\* The init hook's bound: unbounded, or both waits and a margin.
HookBound(m, margin) == IF m.limit = 0 THEN "unbounded" ELSE m.connect + m.limit + margin

\* A check's name: short, or in full when another store's qualifier prints
\* alike.
CheckName(path, q, tags) ==
  <<path, IF \E t \in tags : t.short = q.short /\ t # q THEN q.full ELSE q.short>>

-----------------------------------------------------------------------------

\* One server error is classified alike whatever carries it: SeaORM's
\* wrapper, Diesel's pool, setup or connection, and a socket that is not
\* there yet is never the operator's to mend (classify.rs's rule for a bare
\* `NotFound`).
ClassifiedAlike(engine, e, socket, message) ==
  LET tcp == ReachesByTcp(engine, socket)
      query == [kind |-> "DatabaseError", message |-> message]
      connection == [kind |-> "BadConnection", message |-> message]
  IN  /\ \A wrap \in {"Conn", "Exec", "Query"} : SeaOrmPermanent(engine, wrap, e, tcp) <=> SqlxPermanent(engine, e, tcp)
      /\ SqlxPermanent(engine, e, tcp) /\ FileUnreadable(e) /\ e.kind = "Io" => ~socket
      /\ \A l \in {<<"Pool", "Setup", "Query">>, <<"Setup", "Query">>, <<"Query">>} : DieselPermanent(l, query) <=> DieselPermanent(<<"Connection">>, connection)

\* A retry of the start is promised exactly when one can help: a lock step
\* that ends on the wait or on a bare error, never one that held the lock;
\* the server waits no shorter than the bound, and the lock thread's last
\* attempt is made at its margin before the bound and never after it.
LockWaitsTrue(size, o, bound, margin, poll) ==
  /\ \A answer \in {PgTakeLock(size, o), MySqlTakeLock(size, o), SqliteTakeLock(o), DieselPgTakeLock(o)} :
       answer # "held" /\ RetryOf(answer) = "LockWait" => o.wait = "ranout"
  /\ PgTakeLock(size, o) = "held" => size >= 2
  /\ LockSeconds(bound, 4) * 4 >= bound /\ LockMillis(bound, 100) >= 1
  /\ LastAttempt(bound, margin) \in AttemptsOf(bound, margin, poll)
  /\ \A t \in AttemptsOf(bound, margin, poll) : t <= LastAttempt(bound, margin)

\* A URL's password, as written and as the driver decodes it, is among the
\* texts kept out of reports, and SeaORM's accepted URLs are ones SQLx's
\* parser of that engine is asked for.
PasswordsKnown(user, password, query, url) ==
  /\ \A forms \in {PasswordForms(url), PasswordTexts(url)} : {password, PercentDecode(password)} \ {<<>>} \subseteq forms
  /\ \A forms \in {PasswordForms(url), PasswordTexts(url)} : {query, PercentDecode(PlusAsSpace(query))} \ {<<>>} \subseteq forms
  /\ Describe(url, user \o <<":">> \o password) = <<>> \/ password = <<>>
  /\ SeaOrmValid(url) => \E e \in Engines : CheckScheme(e, url)

\* A module that registers without a refusal has one retry loop or, lazy,
\* none: `create` loops and one ping confirms, or one `create` and a ping
\* that is retried; it migrates only after it connected, in a hook bound
\* that cuts neither wait.
OneRetryLoop(m, margin) ==
  Refusals(m) = {} =>
    /\ ReadyOf(m).checked <=> ~m.lazy
    /\ ReadyOf(m).createLoops => ReadyOf(m).retries = 0
    /\ m.migrate => ReadyOf(m).checked
    /\ m.migrate /\ m.limit # 0 => HookBound(m, margin) >= m.connect + m.limit

\* Two keyed stores of one kind never share a check's name.
ChecksToldApart(qualifiers) ==
  \A p, q \in qualifiers : p # q => CheckName("db", p, qualifiers) # CheckName("db", q, qualifiers)

-------------------------------------------------------------------------------
(***************************************************************************)
(* What the command line decides before it writes or runs anything         *)
(* (ulo-cli/src/commands): the project `ulo new` lays out, the names       *)
(* `ulo generate` spells, the binary `ulo dev` picks and the name it gives *)
(* the socket it holds.                                                    *)
(***************************************************************************)

-----------------------------------------------------------------------------
(* new.rs: a project's layout.  A use is <<crate, item>>; a crate is       *)
(* written as Cargo.toml writes it.                                        *)

Links == {"tcp", "udp", "nats", "redis", "rabbitmq", "mqtt", "kafka"}
Transports == {"http", "ws", "grpc"} \cup Links

LinkKey(t) ==
    CASE t \in {"tcp", "udp"} -> "address"
      [] t = "kafka" -> "brokers"
      [] OTHER -> "url"

LinkCrate(t) == "ulo-rpc-" \o t

Layout(t) ==
    CASE t = "http" ->
           [module |-> "controller", key |-> "address",
            mainUses |-> {<<"ulo-http-hyper", "Server">>},
            appUses |-> {<<"ulo-health", "HealthModule">>, <<"ulo-health-http", "HealthHttp">>},
            register |-> {"HealthModule", "HealthHttp"},
            handlerUses |-> {"ulo", "ulo-http"},
            dependencies |-> <<"ulo-health", "ulo-health-http", "ulo-http", "ulo-http-hyper">>,
            files |-> {}]
      [] t = "ws" ->
           [module |-> "gateway", key |-> "address",
            mainUses |-> {<<"ulo-http-hyper", "Server">>},
            appUses |-> {<<"ulo-health", "HealthModule">>, <<"ulo-health-http", "HealthHttp">>, <<"ulo-ws", "WsModule">>},
            register |-> {"HealthModule", "HealthHttp", "WsModule"},
            handlerUses |-> {"ulo", "ulo-ws"},
            dependencies |-> <<"ulo-health", "ulo-health-http", "ulo-http-hyper", "ulo-ws">>,
            files |-> {}]
      [] t = "grpc" ->
           [module |-> "controller", key |-> "address",
            mainUses |-> {<<"ulo-grpc", "Server">>},
            appUses |-> {<<"ulo-grpc", "GrpcHealth">>, <<"ulo-health", "HealthModule">>, <<"ulo-health-grpc", "HealthGrpc">>},
            register |-> {"HealthModule", "GrpcHealth", "HealthGrpc"},
            handlerUses |-> {"ulo", "ulo-grpc", "prost", "tonic", "tonic-prost"},
            dependencies |-> <<"prost", "tonic", "tonic-prost", "ulo-grpc", "ulo-health", "ulo-health-grpc">>,
            files |-> {"build.rs", "proto/greeter.proto"}]
      [] OTHER ->
           [module |-> "controller", key |-> LinkKey(t),
            mainUses |-> {<<"ulo-rpc", "Server">>, <<LinkCrate(t), "Link">>},
            appUses |-> {}, register |-> {},
            handlerUses |-> {"ulo", "ulo-rpc"},
            dependencies |-> <<"ulo-rpc", LinkCrate(t)>>,
            files |-> {}]

Libraries == {"sqlx", "seaorm", "diesel"}
DbEngines == {"postgres", "mysql", "sqlite"}
Databases == (Libraries \X DbEngines) \cup {<<"mongodb", "">>, <<"redis", "">>}

\* The store crate, with the client crate the service template names beside it where it has one.
StoreOf(db) ==
    [crate |-> "ulo-db-" \o db[1],
     register |-> db[1],
     key |-> IF db[1] = "mongodb" THEN "uri" ELSE "url",
     dependencies |-> CASE db[1] = "seaorm" -> <<"sea-orm", "ulo-db-seaorm">>
                        [] db[1] = "mongodb" -> <<"mongodb", "ulo-db-mongodb">>
                        [] db[1] = "redis" -> <<"redis", "ulo-db-redis">>
                        [] OTHER -> <<"ulo-db-" \o db[1]>>,
     serviceUses |-> {"ulo"} \cup (CASE db[1] = "seaorm" -> {"sea-orm"}
                                     [] db[1] \in {"mongodb", "redis"} -> {db[1]}
                                     [] OTHER -> {"ulo-db-" \o db[1]}),
     toolchain |-> CASE db[1] \in {"sqlx", "seaorm"} -> 94 [] db[1] = "diesel" -> 89 [] OTHER -> 88]

None == <<"", "">>

Common == <<"serde", "tokio", "tracing", "tracing-subscriber", "ulo", "ulo-config", "ulo-runtime-tokio">>

\* Plan::build
Project(transport, db) ==
    LET layout == Layout(transport)
        store == StoreOf(db)
        has == db # None IN
    [dependencies |-> Common \o layout.dependencies \o (IF has THEN store.dependencies ELSE <<>>),
     modules |-> {"app", "greeter", layout.module} \cup (IF has THEN {"database"} ELSE {}),
     files |-> {"app", "greeter", "main", layout.module} \cup (IF has THEN {"database"} ELSE {}),
     uses |-> layout.mainUses \cup layout.appUses \cup {<<"ulo", "App">>, <<"ulo-config", "ConfigModule">>, <<"serde", "Deserialize">>, <<"ulo-runtime-tokio", "Tokio">>}
              \cup (IF has THEN {<<store.crate, store.register>>} ELSE {}),
     named |-> layout.handlerUses \cup (IF has THEN store.serviceUses ELSE {}),
     register |-> {"ConfigModule"} \cup layout.register \cup (IF has THEN {store.register} ELSE {}),
     config |-> {<<"server", layout.key>>} \cup (IF has THEN {<<"database", store.key>>} ELSE {}),
     toolchain |-> IF has THEN store.toolchain ELSE 88]

\* new.rs Plan::build, Transport::layout, Db::store: whichever transport and database are chosen,
\* the project names each crate it uses in its manifest and none twice, imports what it registers
\* from one crate alone, and has a file behind every module it declares.
ProjectsBuild(transport, db) ==
    LET p == Project(transport, db)
        declared == ToSet(p.dependencies) IN
    /\ Cardinality(declared) = Len(p.dependencies)
    /\ {u[1] : u \in p.uses} \cup p.named \subseteq declared
    /\ \A item \in p.register : Cardinality({u \in p.uses : u[2] = item}) = 1
    /\ p.modules \subseteq p.files
    /\ \A k \in p.config : Cardinality({j \in p.config : j[1] = k[1]}) = 1

-----------------------------------------------------------------------------
(* new.rs validate_project_name and execute; mod.rs is_keyword.  Names are *)
(* sequences of characters, over letters of both cases, a digit, - and _.  *)

Lower == {"a", "b"}
Upper == {"A", "B"}
Digit == {"1"}
Letter == Lower \cup Upper
Lowered(c) == CASE c = "A" -> "a" [] c = "B" -> "b" [] OTHER -> c
Raised(c) == CASE c = "a" -> "A" [] c = "b" -> "B" [] OTHER -> c

IsKeyword(word, keywords) == word \in keywords

CrateName(name) == [i \in DOMAIN name |-> IF name[i] = "-" THEN "_" ELSE name[i]]

ValidProjectName(name, taken, keywords, exists) ==
    /\ name # <<>>
    /\ \A i \in DOMAIN name : name[i] \in Letter \cup Digit \cup {"-", "_"}
    /\ name[1] \in Letter
    /\ ~IsKeyword(name, keywords) /\ ~IsKeyword(CrateName(name), keywords)
    /\ ~\E d \in taken : CrateName(d) = CrateName(name)
    /\ ~exists

-----------------------------------------------------------------------------
(* generate.rs: the spellings of a name.                                   *)

IsIdentifier(name, keywords) ==
    /\ name # <<>>
    /\ name[1] \in Letter \cup {"_"}
    /\ \A i \in DOMAIN name : name[i] \in Letter \cup Digit \cup {"_"}
    /\ \E i \in DOMAIN name : name[i] \in Letter \cup Digit
    /\ ~IsKeyword(name, keywords)

WordStarts(name, i) ==
    /\ i > 1
    /\ name[i] \in Upper
    /\ \/ name[i - 1] \in Lower \cup Digit
       \/ name[i - 1] \in Upper /\ i < Len(name) /\ name[i + 1] \in Lower

SnakeCase(name) ==
    FlattenSeq([i \in DOMAIN name |->
                  IF WordStarts(name, i) THEN <<"_", Lowered(name[i])>> ELSE <<Lowered(name[i])>>])

\* The non-empty parts between underscores.
Words(name) ==
    LET starts == {i \in DOMAIN name : name[i] # "_" /\ (i = 1 \/ name[i - 1] = "_")}
        ends(i) == CHOOSE j \in i..Len(name) :
                      /\ \A k \in i..j : name[k] # "_"
                      /\ j = Len(name) \/ name[j + 1] = "_" IN
    [n \in 1..Cardinality(starts) |->
        LET i == CHOOSE s \in starts : Cardinality({t \in starts : t <= s}) = n IN
        SubSeq(name, i, ends(i))]

PascalCase(name) ==
    FlattenSeq([n \in DOMAIN Words(name) |-> [Words(name)[n] EXCEPT ![1] = Raised(Words(name)[n][1])]])

Joined(words) ==
    FlattenSeq([n \in DOMAIN words |-> IF n = 1 THEN words[n] ELSE <<"-">> \o words[n]])

Names(name, keywords) ==
    [ok |-> IsIdentifier(name, keywords) /\ PascalCase(name)[1] \in Letter,
     snake |-> SnakeCase(name),
     pascal |-> PascalCase(name),
     route |-> Joined(Words(SnakeCase(name)))]

Suffixed == {"module", "controller", "gateway", "resolver"}

\* The stem of the file; only a provider's is the name itself, so only it can be a keyword.
FileStem(kind, names) == <<names.snake, IF kind \in Suffixed THEN kind ELSE "">>

Generates(kind, transport, names, keywords, exists) ==
    /\ transport # "" => kind = "controller"
    /\ names.ok
    /\ ~(FileStem(kind, names)[2] = "" /\ IsKeyword(names.snake, keywords))
    /\ ~exists

\* generate.rs names, snake_case, pascal_case: an accepted name's module name is spelled in lower
\* case and is its own snake case, the type's name starts with a letter and has no underscore, and
\* the route holds the module name's words with one dash between two of them; a file generated and
\* a project created for a name can be declared as a module and named as a crate.
NamesSpelled(name, keywords) ==
    LET names == Names(name, keywords) IN
    /\ \A kind \in Suffixed \cup {"provider"} :
          Generates(kind, "", names, keywords, FALSE) /\ FileStem(kind, names)[2] = "" =>
              IsIdentifier(names.snake, keywords)
    /\ ValidProjectName(name, {}, keywords, FALSE) => IsIdentifier(CrateName(name), keywords)
    /\ names.ok =>
        /\ \A i \in DOMAIN names.snake : names.snake[i] \notin Upper
        /\ SnakeCase(names.snake) = names.snake
        /\ names.pascal[1] \in Upper
        /\ \A i \in DOMAIN names.pascal : names.pascal[i] # "_"
        /\ PascalCase(names.pascal) = names.pascal
        /\ SelectSeq(names.route, LAMBDA c : c # "-") = SelectSeq(names.snake, LAMBDA c : c # "_")
        /\ \A i \in DOMAIN names.route :
               names.route[i] = "-" => i > 1 /\ i < Len(names.route) /\ names.route[i + 1] # "-"

-----------------------------------------------------------------------------
(* dev.rs: the binary of a build.  An artifact is [package, bin, name].    *)

NamedArtifact(artifacts, isBin, name) ==
    SelectInSeq(artifacts, LAMBDA a : a.bin = isBin /\ a.name = name)

\* pick: the artifact's index, 0 for a refusal.
Pick(artifacts, example, bin, defaults) ==
    LET bins == {i \in DOMAIN artifacts : artifacts[i].bin}
        chosen == {i \in bins : <<artifacts[i].package, artifacts[i].name>> \in defaults} IN
    CASE example # "" -> NamedArtifact(artifacts, FALSE, example)
      [] example = "" /\ bin # "" -> NamedArtifact(artifacts, TRUE, bin)
      [] OTHER -> IF Cardinality(bins) = 1 THEN CHOOSE i \in bins : TRUE
                  ELSE IF Cardinality(chosen) = 1 THEN CHOOSE i \in chosen : TRUE ELSE 0

\* dev.rs pick: without a name the binary does not depend on the order cargo reports artifacts in,
\* and a named one is the kind and the name asked for.
PickedAlike(artifacts, example, bin, defaults) ==
    LET at == Pick(artifacts, example, bin, defaults)
        back == Reverse(artifacts)
        other == Pick(back, example, bin, defaults) IN
    /\ (example = "" /\ bin = "") =>
          /\ (at = 0) = (other = 0)
          /\ at # 0 => artifacts[at] = back[other] /\ artifacts[at].bin
    /\ at # 0 /\ example # "" => artifacts[at].name = example /\ ~artifacts[at].bin
    /\ at # 0 /\ example = "" /\ bin # "" => artifacts[at].name = bin /\ artifacts[at].bin

\* socket_name: the name LISTEN_FDNAMES carries for an address.
SocketName(text) ==
    FlattenSeq([i \in DOMAIN text |->
                  CASE text[i] = "%" -> <<"%", "2", "5">>
                    [] text[i] = ":" -> <<"%", "3", "A">>
                    [] OTHER -> <<text[i]>>])

\* dev.rs socket_name: two addresses have two names, and no name splits where LISTEN_FDNAMES does.
SocketNamesApart(a, b) ==
    /\ SocketName(a) = SocketName(b) => a = b
    /\ \A i \in DOMAIN SocketName(a) : SocketName(a)[i] # ":"
===============================================================================
