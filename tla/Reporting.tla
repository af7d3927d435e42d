------------------------------ MODULE Reporting ------------------------------
(***************************************************************************)
(* What is reported: errors, redaction, trace context and endpoints.       *)
(* Operators only: none of it keeps state.                                 *)
(***************************************************************************)
EXTENDS Integers, Sequences, FiniteSets, SequencesExt

-------------------------------------------------------------------------------
(***************************************************************************)
(* The one error model: how an error of any shape becomes a kind, a public *)
(* message and a challenge (ulo-transport/src/error.rs and extract.rs), is *)
(* recognised as a panic or as permanent (ulo/src/error/mod.rs), and is    *)
(* rendered by HTTP (ulo-http/src/render.rs) and gRPC (status.rs).         *)
(*                                                                         *)
(* An error is the sequence of types met walking into it, the wrappers     *)
(* first: <<"redacted", "construct", "callAuth">> is a Redacted holding a  *)
(* LookupError::Construct whose constructor failed with a CallError.       *)
(***************************************************************************)

CONSTANT SecondsWidth   \* the width of Duration's seconds, u64 in the code

Calls == {"callBad", "callAuth", "callOwn"}   \* CallErrors: BadRequest, Unauthorized with a challenge, Internal in its own words
Extracts == {"invalid", "tooLarge", "mediaType", "hostMissing", "overflowed"}
Leaves == Calls \cup Extracts \cup {"guard", "panic", "panicked", "closed", "lookupClosed", "lookupFailed", "other"}
Wrappers == {"redacted", "construct", "extractDep", "connect", "failed", "source", "permanent"} \cup Calls

\* What a wrapper can hold: an ExtractError::Dependency holds a LookupError.
Lookups == {"construct", "panicked", "lookupClosed", "lookupFailed"}
Holds(outer, inner) == outer = "extractDep" => inner \in Lookups
Chains(n) ==
    {c \in [1..n -> Wrappers \cup Leaves] :
        /\ c[n] \in Leaves
        /\ \A i \in 1..(n - 1) : c[i] \in Wrappers /\ Holds(c[i], c[i + 1])}

-----------------------------------------------------------------------------
\* The recogniser's answers: a kind, where its message comes from, and whose challenge it carries.
Call(kind, message, challenge) == [kind |-> kind, message |-> message, challenge |-> challenge]
None == Call("none", "none", "none")
Internal == Call("Internal", "withheld", "none")
Unavailable == Call("Unavailable", "shutdown", "none")

\* A CallError's own fields, and ExtractError's Classify, a Dependency aside.
Own(tag) ==
    CASE tag = "callBad" -> Call("BadRequest", "own", "none")
      [] tag = "callAuth" -> Call("Unauthorized", "own", "own")
      [] tag = "callOwn" -> Call("Internal", "own", "none")
      [] tag = "invalid" -> Call("Unprocessable", "own", "none")
      [] tag \in {"tooLarge", "mediaType"} -> Call("BadRequest", "own", "none")
      [] tag = "hostMissing" -> Internal
      [] tag = "overflowed" -> Call("Unavailable", "own", "none")

OrInternal(answer) == IF answer = None THEN Internal ELSE answer

\* recognise and from_lookup, which read each other down the chain; a constructor's error is held
\* redacted.
Recognise(chain) ==
    LET At[i \in DOMAIN chain] ==
            CASE chain[i] \in Calls \cup Extracts -> Own(chain[i])
              [] chain[i] = "guard" -> Call("Forbidden", "forbidden", "none")
              [] chain[i] \in {"closed", "lookupClosed"} -> Unavailable
              [] chain[i] \in {"panic", "panicked", "lookupFailed"} -> Internal
              [] chain[i] \in {"construct", "extractDep"} -> OrInternal(At[i + 1])
              [] chain[i] = "redacted" -> At[i + 1]
              [] OTHER -> None
    IN At[1]

\* The core's types is_panic reads by their structure, and those that hold their cause redacted.
Core == {"panic", "panicked", "lookupClosed", "lookupFailed", "construct", "connect", "failed", "redacted"}
Redacting == {"redacted", "construct", "connect"}

\* is_panic: the core's types by their structure, any other down its source(), and inside a Redacted
\* the core's types alone.
IsPanic(chain) ==
    LET In[i \in DOMAIN chain] ==
            CASE chain[i] \in {"panic", "panicked"} -> TRUE
              [] i = Len(chain) -> FALSE
              [] chain[i] \in Redacting -> chain[i + 1] \in Core /\ In[i + 1]
              [] OTHER -> In[i + 1]
    IN In[1]

\* permanent_in: a Permanent anywhere down the chain, inside a Redacted too.
IsPermanent(chain) ==
    LET In[i \in DOMAIN chain] == chain[i] = "permanent" \/ (i < Len(chain) /\ In[i + 1])
    IN In[1]

\* CallError::from_boxed: a CallError as it is, an ExtractError with its challenge, a panic withheld.
FromBoxed(chain) ==
    IF chain[1] \in Calls THEN Own(chain[1])
    ELSE IF chain[1] \in Extracts \cup {"extractDep"} THEN Recognise(chain)
    ELSE IF IsPanic(chain) THEN Internal
    ELSE OrInternal(Recognise(chain))

-----------------------------------------------------------------------------
\* status_of and code_for.
StatusOf(kind) ==
    CASE kind = "BadRequest" -> 400 [] kind = "Unauthorized" -> 401 [] kind = "Forbidden" -> 403
      [] kind = "Unprocessable" -> 422 [] kind = "Timeout" -> 504 [] kind = "Unavailable" -> 503 [] OTHER -> 500
CodeFor(kind) ==
    CASE kind \in {"BadRequest", "Unprocessable"} -> "INVALID_ARGUMENT" [] kind = "Unauthorized" -> "UNAUTHENTICATED"
      [] kind = "Forbidden" -> "PERMISSION_DENIED" [] kind = "Timeout" -> "DEADLINE_EXCEEDED"
      [] kind = "Unavailable" -> "UNAVAILABLE" [] OTHER -> "INTERNAL"

\* The error an error handler left, as its own type and the source it was built from.
SourceOf(chain) ==
    IF chain[1] \in Extracts THEN chain[1] ELSE IF chain[1] \in Calls /\ Len(chain) > 1 THEN chain[2] ELSE "none"

\* render_error: the passed deadline first, then the statuses no kind has while it is a BadRequest.
HttpAnswer(chain, deadline) ==
    LET error == IF deadline THEN Call("Timeout", "timeout", "none") ELSE FromBoxed(chain)
        source == SourceOf(chain)
        status == IF error.kind # "BadRequest" \/ deadline THEN StatusOf(error.kind)
                  ELSE IF source = "tooLarge" THEN 413 ELSE IF source = "mediaType" THEN 415 ELSE 400
    IN [status |-> status, message |-> error.message,
        authenticate |-> IF status # 401 THEN "none" ELSE IF error.challenge = "own" THEN "own" ELSE "server"]

\* render, for an error that is no tonic::Status.
GrpcAnswer(chain, deadline) ==
    LET error == IF deadline THEN Call("Timeout", "timeout", "none") ELSE FromBoxed(chain)
    IN [code |-> CodeFor(error.kind), message |-> error.message]

-----------------------------------------------------------------------------
\* whole_seconds, the JSON detail's, saturating; retry_after, the header's, adding plainly.
MaxSeconds == 2 ^ SecondsWidth - 1
WholeSeconds(after) == IF after.nanos /\ after.seconds < MaxSeconds THEN after.seconds + 1 ELSE after.seconds


RetryAfter(after) == (after.seconds + (IF after.nanos THEN 1 ELSE 0)) % (2 ^ SecondsWidth)

-----------------------------------------------------------------------------
\* CallError::from_boxed says that redaction changes the text and not the kind: what is answered for
\* an error is answered for it redacted, its message and its challenge too, wherever in a chain of
\* wrappers the redaction is.
RedactionKeepsAnswer(chain) ==
    \A i \in 0..(Len(chain) - 1) :
        (i > 0 => Holds(chain[i], "redacted")) =>
            LET redacted == SubSeq(chain, 1, i) \o <<"redacted">> \o SubSeq(chain, i + 1, Len(chain))
            IN (i = 0 \/ chain[i] \in {"construct", "redacted"}) => FromBoxed(redacted) = FromBoxed(chain)

\* is_panic and is_permanent against their documentation: a Permanent counts wherever it is, and a
\* panic unless an error type of somebody else's stands between it and a redaction around it.
WalksFindTheirMark(chain) ==
    /\ IsPermanent(chain) = \E i \in DOMAIN chain : chain[i] = "permanent"
    /\ IsPanic(chain) =
        /\ chain[Len(chain)] \in {"panic", "panicked"}
        /\ \A i \in 1..(Len(chain) - 1) : chain[i] \in Redacting => chain[i + 1] \in Core

\* The transports render one model: a client's fault on HTTP is one on gRPC, with the same message;
\* text reaches the caller only from a CallError or from an extractor's own refusal; a 401 carries
\* the challenge of the error that a constructor returned behind a dependency.
RenderedAlike(chain) ==
    /\ \A deadline \in BOOLEAN :
        LET http == HttpAnswer(chain, deadline)
            grpc == GrpcAnswer(chain, deadline)
        IN /\ http.message = grpc.message
           /\ (http.status \in 400..499) =
                (grpc.code \in {"INVALID_ARGUMENT", "UNAUTHENTICATED", "PERMISSION_DENIED"})
           /\ http.message = "own" => \E i \in DOMAIN chain : chain[i] \in Calls \cup Extracts
    /\ FromBoxed(chain).kind = "Unauthorized" => HttpAnswer(chain, FALSE).authenticate = "own"

\* retry_after says that a client never retries early, and Details that its seconds do: neither is
\* shorter than the delay, and they agree.
RetryNotEarly(after) ==
    /\ WholeSeconds(after) = RetryAfter(after)
    /\ RetryAfter(after) > after.seconds \/ (RetryAfter(after) = after.seconds /\ ~after.nanos)

-------------------------------------------------------------------------------
(***************************************************************************)
(* The redaction function (ulo/src/redact.rs): the registered secrets      *)
(* replaced longest first in one pass, the userinfo stripped from anything *)
(* shaped like a URL, the text of an error's source chain, a setting's URL *)
(* as it is reported, and the thread's collection of deserialised secrets. *)
(*                                                                         *)
(* A text is a sequence of marks: letters, "://", "//", the delimiters "@",*)
(* "/", "?", ":" and " ", and Marker, which stands for "[redacted]".       *)
(***************************************************************************)

CONSTANT MinMatched   \* the shortest secret a text is matched against

Marker == "[redacted]"
Minimum(S) == CHOOSE i \in S : \A j \in S : i <= j
Maximum(S) == CHOOSE i \in S : \A j \in S : j <= i

\* SecretRegistry::register: an empty text is ignored.
Registered(texts) == {t \in texts : t # <<>>}

\* The secrets sorted by length, so the first that matches at a place is the longest.
Longest(matches) == CHOOSE s \in matches : \A t \in matches : Len(t) <= Len(s)

\* SecretRegistry::replace: at each place the longest secret that starts there, and the scan goes on
\* after it.
Replace(texts, text) ==
    LET secrets == {s \in Registered(texts) : Len(s) >= MinMatched}
        From[i \in 1..(Len(text) + 1)] ==
            IF i > Len(text) THEN <<>>
            ELSE LET matches == {s \in secrets : i + Len(s) - 1 <= Len(text) /\ SubSeq(text, i, i + Len(s) - 1) = s}
                 IN IF matches = {} THEN <<text[i]>> \o From[i + 1]
                    ELSE <<Marker>> \o From[i + Len(Longest(matches))]
    IN From[1]

AuthorityEnds == {"/", "?", " "}

UserinfoEnd(ats) == Maximum(ats)

\* strip_userinfo: after each "://" up to where the authority ends, what precedes its last `@`.
StripUserinfo(text) ==
    LET From[i \in 1..(Len(text) + 1)] ==
            IF i > Len(text) THEN <<>>
            ELSE IF text[i] # "://" THEN <<text[i]>> \o From[i + 1]
            ELSE LET ends == {j \in (i + 1)..Len(text) : text[j] \in AuthorityEnds}
                     end == IF ends = {} THEN Len(text) + 1 ELSE Minimum(ends)
                     ats == {j \in (i + 1)..(end - 1) : text[j] = "@"}
                 IN <<"://">> \o (IF ats = {} THEN SubSeq(text, i + 1, end - 1)
                                  ELSE <<Marker>> \o SubSeq(text, UserinfoEnd(ats), end - 1)) \o From[end]
    IN From[1]

Scrub(texts, text) == StripUserinfo(Replace(texts, text))

\* chain_text: a link whose message the text already holds is not repeated.
Within(part, text) == \E i \in 1..Len(text) : i + Len(part) - 1 <= Len(text) /\ SubSeq(text, i, i + Len(part) - 1) = part
ChainText(messages) ==
    FoldLeft(LAMBDA text, m : IF m = <<>> \/ Within(m, text) THEN text ELSE text \o <<": ">> \o m, Head(messages), Tail(messages))

\* port_of: the digits after the one colon; brackets are left out, "d" is a digit.
PortReadable(host) ==
    LET colons == {i \in DOMAIN host : host[i] = ":"}
    IN colons = {} \/ (colons = {Minimum(colons)} /\ \A i \in DOMAIN host : i > Minimum(colons) => host[i] = "d")

\* setting_url: the query dropped, the authority after "://" or a leading "//", its userinfo dropped.
SettingUrl(url) ==
    LET cuts == {i \in DOMAIN url : url[i] = "?"}
        cut == IF cuts = {} THEN url ELSE SubSeq(url, 1, Minimum(cuts) - 1)
        opens == {i \in DOMAIN cut : cut[i] = "://" /\ i > 1 /\ \A j \in 1..(i - 1) : cut[j] = "x"}
        at == IF opens # {} THEN Minimum(opens) ELSE IF cut # <<>> /\ cut[1] = "//" THEN 1 ELSE 0
        rest == SubSeq(cut, at + 1, Len(cut))
        slashes == {i \in DOMAIN rest : rest[i] \in {"/", "//"}}
        end == IF slashes = {} THEN Len(rest) + 1 ELSE Minimum(slashes)
        authority == SubSeq(rest, 1, end - 1)
        path == SubSeq(rest, end, Len(rest))
        ats == {i \in DOMAIN authority : authority[i] = "@"}
        host == IF ats = {} THEN authority ELSE SubSeq(authority, Maximum(ats) + 1, Len(authority))
    IN SubSeq(cut, 1, at) \o (IF PortReadable(host) /\ \A i \in DOMAIN path : path[i] # "@" THEN host \o path ELSE <<"[unreadable]">>)

-----------------------------------------------------------------------------
\* redact: no registered secret of MinMatched characters or more is left in a text, a secret inside a
\* longer one is replaced with it and not apart, and a text scrubbed again is unchanged.
SecretsReplaced(texts, text) ==
    LET out == Replace(texts, text)
        secrets == {s \in Registered(texts) : Len(s) >= MinMatched}
    IN /\ \A s \in secrets : ~Within(s, out)
       /\ \A s \in secrets : text = s => out = <<Marker>>
       /\ Replace(texts, out) = out

\* strip_userinfo: after it, the authority of every URL in a text holds no `@` but the one after the
\* marker, and a text with none is left as it was.
UserinfoStripped(text) ==
    LET out == StripUserinfo(text)
    IN /\ \A i \in DOMAIN out : out[i] = "://" =>
            \A j \in (i + 1)..Len(out) :
                (out[j] = "@" /\ \A k \in (i + 1)..j : out[k] \notin AuthorityEnds) =>
                    \E k \in (i + 1)..(j - 1) : out[k] = Marker
       /\ (\A i \in DOMAIN text : text[i] # "@") => out = text

\* setting_url: a URL written by the standard, whatever its userinfo and query, is reported as its
\* scheme, host, port and path.
UrlReported(scheme, userinfo, host, path, query) ==
    SettingUrl(scheme \o userinfo \o host \o path \o query) = scheme \o host \o path

-------------------------------------------------------------------------------
(***************************************************************************)
(* W3C Trace Context through one hop: the fields a transport received      *)
(* (trace.rs of ulo-http, ulo-grpc, ulo-rpc and ulo-ws), the context the   *)
(* execution carries (ulo/src/execution/trace.rs), the span a TraceSource  *)
(* starts on it (ulo-transport/src/span.rs, ulo-otel/src/source.rs), and   *)
(* the fields a gRPC or an RPC client writes, read again by the next hop.  *)
(* A traceparent is its version, IDs, flags and what follows; a tracestate *)
(* member its key and length, or one off the grammar.                      *)
(***************************************************************************)

CONSTANTS MaxMembers, Propagated, LongEntry   \* 32, 512 and 128 in the code
NoTrace == [trace |-> 0]
Sampled(flags) == flags % 2
Member(key, size) == [key |-> key, size |-> size]
OffGrammar == Member("off", 0)
Unread == Member("unread", 0)   \* not visible ASCII
Blank == Member("blank", 0)

-----------------------------------------------------------------------------
\* hex, nibble and parse_traceparent: the offsets of version 00; a higher version may go on after a dash.
ParseTraceparent(t) ==
    /\ t.version \notin {"ff", "off"} /\ t.trace # 0 /\ t.span # 0 /\ t.flags # 16
    /\ IF t.version = "00" THEN t.tail = "none" ELSE t.tail \in {"none", "dash"}

\* key_valid, value_valid and the split at '='.
MemberValid(m) == m \notin {OffGrammar, Unread}

\* TraceState::parse: one bad member, or one too many, discards the list; a key keeps its leftmost.
ParseState(fields) ==
    LET members == SelectSeq(FlattenSeq(fields), LAMBDA m : m # Blank) IN
    IF Len(members) > MaxMembers \/ \E i \in DOMAIN members : ~MemberValid(members[i]) THEN <<>>
    ELSE LET first == {i \in DOMAIN members : \A j \in 1..(i - 1) : members[j].key # members[i].key} IN
         FoldLeft(LAMBDA kept, i : IF i \in first THEN Append(kept, members[i]) ELSE kept, <<>>, [i \in DOMAIN members |-> i])

\* trim_ows and the fields that carried anything, joined with ','.
Joined(fields) == FlattenSeq(fields)

\* TraceContext::extract: one traceparent field, valid; a bad tracestate leaves it standing.
Extract(parents, states) ==
    IF Len(parents) # 1 THEN NoTrace
    ELSE IF ~ParseTraceparent(parents[1]) THEN NoTrace
    ELSE [trace |-> parents[1].trace, span |-> parents[1].span, flags |-> parents[1].flags, state |-> ParseState(states),
          origin |-> "Received", text |-> [parent |-> parents[1], state |-> Joined(states)]]

\* The transports' extract: over HTTP's headers (texts) a field that is not visible ASCII takes the
\* whole list with it; an RPC frame's headers are text.
ExtractFrom(kind, parents, states) ==
    Extract(parents, IF kind = "headers" /\ \E i \in DOMAIN states : Unread \in Range(states[i]) THEN <<>> ELSE states)

-----------------------------------------------------------------------------
HeaderLen(entries) == FoldLeft(LAMBDA n, m : n + m.size, 0, entries) + (IF entries = <<>> THEN 0 ELSE Len(entries) - 1)
\* entry_len: the member's key, '=' and value.
LongFrom(entries, from) == {i \in from..Len(entries) : entries[i].size > LongEntry}

\* What the loop of `truncated` removes next, by position.
Removes(entries, keep) ==
    LET long == LongFrom(entries, keep + 1)
        kept == LongFrom(entries, 2)
        least(S) == CHOOSE i \in S : \A j \in S : i <= j IN
    IF long # {} THEN least(long)
    ELSE IF Len(entries) > keep THEN Len(entries)
    ELSE IF kept # {} THEN least(kept) ELSE Len(entries)

\* truncated: to MAX_MEMBERS, then by whole entries, the first `keep` of them last.
Truncated(entries, keep) ==
    LET cut[i \in 0..Len(entries)] ==
            IF i = 0 THEN SubSeq(entries, 1, IF Len(entries) > MaxMembers THEN MaxMembers ELSE Len(entries))
            ELSE LET es == cut[i - 1] IN
                 IF HeaderLen(es) <= Propagated \/ Len(es) <= 1 THEN es
                 ELSE RemoveAt(es, Removes(es, IF keep = 0 THEN 1 ELSE IF keep > Len(cut[0]) THEN Len(cut[0]) ELSE keep)) IN
    cut[Len(entries)]

\* TraceState::prepend; with_entry is prepend of a list of one.
Prepend(state, front) ==
    Truncated(front \o SelectSeq(state, LAMBDA m : \A i \in DOMAIN front : front[i].key # m.key), Len(front))

-----------------------------------------------------------------------------
\* TraceContext::originated, as Execution::set_trace writes a source's answer.
Originated(context) == [context EXCEPT !.origin = "Originated", !.text = NoTrace]
NewContext(trace, span, flags, state) ==
    [trace |-> trace, span |-> span, flags |-> flags, state |-> state, origin |-> "Originated", text |-> NoTrace]

\* OtelSource::start: the span made a child of the inbound context, or the root of trace 9; with no
\* layer the inbound context itself, or a new trace that is not sampled. span::call and its start.
Started(source, context) ==
    CASE source = "none" -> context
      [] source = "span" -> IF context = NoTrace THEN NewContext(9, 8, 1, <<>>) ELSE NewContext(context.trace, 8, context.flags, context.state)
      [] OTHER -> IF context = NoTrace THEN NewContext(9, 8, 0, <<>>) ELSE Originated(context)

Traceparent(context) ==
    IF context.origin = "Received" THEN context.text.parent
    ELSE [version |-> "00", trace |-> context.trace, span |-> context.span, flags |-> Sampled(context.flags), tail |-> "none"]

\* reserved (Spec::reserved on RPC): a caller's traceparent, or its tracestate beside a received context.
ReservedHeader(context, caller) ==
    context # NoTrace /\ (caller.parents # <<>> \/ (context.origin = "Received" /\ caller.states # <<>>))

\* inject: a received context as it arrived; into an originated one the caller's entries at the left.
Inject(context, caller) ==
    LET state == IF context.origin = "Received" THEN context.text.state ELSE Prepend(context.state, ParseState(caller.states)) IN
    [parents |-> <<Traceparent(context)>>, states |-> IF state = <<>> THEN <<>> ELSE <<state>>]

Sent(context, caller) == IF context = NoTrace THEN caller ELSE Inject(context, caller)

-----------------------------------------------------------------------------
\* TraceState::with_entry and prepend: the list stays within its bounds by whole entries in their
\* order, the leftmost always kept, an entry just added dropped only once nothing else is left, and
\* of the others a short one only once no long one is.
TruncationKeeps(state, front) ==
    LET merged == front \o SelectSeq(state, LAMBDA m : \A i \in DOMAIN front : front[i].key # m.key)
        all == IF Len(merged) > MaxMembers THEN SubSeq(merged, 1, MaxMembers) ELSE merged
        kept == Prepend(state, front)
        held == {i \in DOMAIN all : all[i] \in Range(kept)}
        dropped == DOMAIN all \ held
        added == DOMAIN front \cup {1} IN
    /\ HeaderLen(kept) <= Propagated \/ Len(kept) = 1
    /\ kept = SelectSeq(all, LAMBDA m : m \in Range(kept))
    /\ all # <<>> => 1 \in held
    /\ dropped \cap added # {} => held \subseteq added
    /\ \A i \in dropped \ added, j \in held \ added : all[j].size > LongEntry => all[i].size > LongEntry

\* TraceMode::On across one hop: a service with no tracer forwards the context it received, the next
\* hop reading the same IDs, flags and list from the same text; a traced one is a parent in the same
\* trace, its list its own with the caller's entries at the left, cut to the bounds; and a call made
\* outside any context carries what its caller wrote.
TraceUnbroken(kind, parents, states, source, caller) ==
    LET inbound == ExtractFrom(kind, parents, states)
        context == Started(source, inbound)
        sent == Sent(context, caller)
        next == ExtractFrom(kind, sent.parents, sent.states) IN
    ~ReservedHeader(context, caller) =>
        /\ context = NoTrace => sent = caller
        /\ source = "none" /\ context # NoTrace => next = context /\ sent.parents = parents
        /\ source # "none" =>
            /\ next # NoTrace /\ next.trace = context.trace /\ next.span = context.span
            /\ inbound # NoTrace => next.trace = inbound.trace /\ Sampled(next.flags) = Sampled(inbound.flags)
            /\ next.state = Prepend(context.state, ParseState(caller.states))

-------------------------------------------------------------------------------
(***************************************************************************)
(* Where servers listen (ulo-net/src/, and the checks of the HTTP, gRPC,   *)
(* WebSocket and TCP servers over it): the sockets a supervisor handed to  *)
(* the process, read once from LISTEN_PID, LISTEN_FDS and LISTEN_FDNAMES,  *)
(* an endpoint resolved as written or to the socket `ulo dev` holds for    *)
(* it, every endpoint checked in `prepare` against the sockets inherited,  *)
(* and each taken in `bind`; and the ALPN protocols of a TLS configuration *)
(* the caller built.                                                       *)
(***************************************************************************)

\* An endpoint: an address, or an inherited socket by name or by position; "bad" is text off the grammar.
Addr(text, port) == [kind |-> "addr", text |-> text, index |-> 0, port |-> port]
Named(name) == [kind |-> "named", text |-> name, index |-> 0, port |-> 0]
Index(i) == [kind |-> "index", text |-> "", index |-> i, port |-> 0]
BadText == [kind |-> "bad", text |-> "", index |-> 0, port |-> 0]

\* The environment: LISTEN_PID, the count (or "absent"/"malformed" by -1/-2), the names (<<>> when
\* absent), which descriptors are listening sockets, and ULO_DEV.
NoneHeld == [error |-> "none", sockets |-> <<>>]
Unadopted(error) == [error |-> error, sockets |-> <<>>]

\* inherited and vet: every descriptor is vetted before any is adopted.
FromEnv(env) ==
    IF env.pid = "absent" THEN NoneHeld
    ELSE IF env.pid = "malformed" THEN Unadopted("Malformed")
    ELSE IF env.pid = "other" THEN Unadopted("PidMismatch")
    ELSE IF env.fds = -1 THEN NoneHeld
    ELSE IF env.fds = -2 THEN Unadopted("Malformed")
    ELSE IF env.fds = 0 THEN NoneHeld
    ELSE IF env.names # <<>> /\ Len(env.names) # env.fds THEN Unadopted("Malformed")
    ELSE IF \E i \in 1..env.fds : i \notin env.listening THEN Unadopted("NotListening")
    ELSE [error |-> "none",
          sockets |-> [i \in 1..env.fds |-> [index |-> i - 1, name |-> IF env.names = <<>> THEN "unnamed" ELSE env.names[i], held |-> TRUE]]]

AnswersTo(socket, name) == IF name.kind = "named" THEN socket.name = name.text ELSE socket.index = name.index

\* contains, count and take: a socket is taken once.
Untaken(sockets, name) == {i \in DOMAIN sockets : sockets[i].held /\ AnswersTo(sockets[i], name)}
Take(sockets, name) ==
    LET i == CHOOSE i \in Untaken(sockets, name) : \A j \in Untaken(sockets, name) : i <= j IN
    [sockets EXCEPT ![i].held = FALSE]

\* dev_socket_name, and held_by_dev: the socket named after the address, when this process holds it.
DevSocketName(text) == CASE text = "x:1" -> "x%3A1" [] text = "y:0" -> "y%3A0"
Resolve(spec, env) ==
    LET activation == FromEnv(env) IN
    IF spec.kind = "addr" /\ env.dev /\ Untaken(activation.sockets, Named(DevSocketName(spec.text))) # {}
    THEN Named(DevSocketName(spec.text)) ELSE spec

\* check_inherited's refusal of a name listed more often than descriptors answer to it.
MissingOf(name, listed, sockets) == Cardinality(Untaken(sockets, name)) < listed

CheckInherited(endpoints, activation) ==
    LET names == {e \in Range(endpoints) : e.kind \in {"named", "index"}}
        Listed(name) == Len(SelectSeq(endpoints, LAMBDA e : e = name)) IN
    IF names = {} THEN {}
    ELSE IF activation.error # "none" THEN {<<activation.error, BadText>>}
    ELSE {<<"Missing", name>> : name \in {n \in names : MissingOf(n, Listed(n), activation.sockets)}}

\* resolve_endpoints: `limits` the HTTP backend's; the other servers have both.
ResolveEndpoints(specs, env, limits) ==
    LET endpoints == [i \in DOMAIN specs |-> Resolve(specs[i], env)]
        resolved == SelectSeq(endpoints, LAMBDA e : e.kind # "bad")
        failures ==
            {<<"NotAnAddress", specs[i]>> : i \in {i \in DOMAIN specs : specs[i].kind = "bad"}}
            \cup {<<"ListedTwice", e>> : e \in {e \in Range(resolved) : e.kind = "addr" /\ e.port # 0 /\ \E i, j \in DOMAIN resolved : i < j /\ resolved[i] = e /\ resolved[j] = e}}
            \cup {<<"NoPortZero", e>> : e \in {e \in Range(resolved) : e.kind = "addr" /\ e.port = 0 /\ ~limits.portZero}}
            \cup {<<"NoInherited", e>> : e \in {e \in Range(resolved) : e.kind \in {"named", "index"} /\ ~limits.inherited}}
            \cup (IF limits.inherited THEN CheckInherited(resolved, FromEnv(env)) ELSE {}) IN
    [endpoints |-> resolved, failures |-> failures]

\* BoundListener::bind and bind_all, the OS answering addresses as `free` says: all of them, or none
\* held, though a socket taken is closed with the listener that held it.
BindAll(endpoints, activation, free) ==
    LET after[i \in 0..Len(endpoints)] ==
            IF i = 0 THEN [error |-> "none", sockets |-> activation.sockets, bound |-> <<>>]
            ELSE LET b == after[i - 1]
                     e == endpoints[i] IN
                 IF b.error # "none" THEN b
                 ELSE IF e.kind = "addr" THEN IF e.text \in free \/ e.port = 0 THEN [b EXCEPT !.bound = Append(@, e)] ELSE [b EXCEPT !.error = "Io", !.bound = <<>>]
                 ELSE IF activation.error # "none" THEN [b EXCEPT !.error = activation.error, !.bound = <<>>]
                 ELSE IF Untaken(b.sockets, e) = {} THEN [b EXCEPT !.error = "Missing", !.bound = <<>>]
                 ELSE [b EXCEPT !.sockets = Take(@, e), !.bound = Append(@, e)] IN
    after[Len(endpoints)]

-----------------------------------------------------------------------------

\* reconcile_alpn. `required` is the transport's, in its order.
Chose(named) == \E p \in Range(named) : p # "acme"
ReconcileAlpn(named, required) ==
    IF required = <<>> THEN named
    ELSE IF Chose(named) /\ ~(Range(required) \subseteq Range(named)) THEN <<"refused">>
    ELSE required \o (IF "acme" \in Range(named) THEN <<"acme">> ELSE <<>>)

-----------------------------------------------------------------------------
OneSpelling(specs) == ~\E a, b \in Range(specs) : a.kind = "index" /\ b.kind \in {"named", "addr"}

\* What prepare accepts bind finds: the endpoints one server lists, each inherited socket spelled
\* the same way, are every one bound or adopted unless the OS refuses an address, no address twice
\* and no descriptor twice, and one `ulo dev` holds is never bound beside it.
PreparedIsTaken(specs, env, limits, free) ==
    LET prepared == ResolveEndpoints(specs, env, limits)
        bound == BindAll(prepared.endpoints, FromEnv(env), free) IN
    (prepared.failures = {} /\ OneSpelling(specs)) =>
        /\ bound.error \in {"none", "Io"}
        /\ bound.error = "none" =>
            /\ bound.bound = prepared.endpoints /\ Len(bound.bound) = Len(specs)
            /\ Cardinality({i \in DOMAIN bound.sockets : ~bound.sockets[i].held}) = Len(SelectSeq(bound.bound, LAMBDA e : e.kind # "addr"))
        /\ \A e \in Range(bound.bound) : e.kind = "addr" /\ env.dev => Untaken(FromEnv(env).sockets, Named(DevSocketName(e.text))) = {}

\* A configuration that chose no application protocol is given the transport's; one that chose is
\* taken only if it names them all, and nothing but those and acme-tls/1 is offered.
AlpnServed(named, required) ==
    LET offered == ReconcileAlpn(named, required) IN
    /\ offered = <<"refused">> => required # <<>> /\ \E p \in Range(named) : p # "acme"
    /\ offered # <<"refused">> /\ required # <<>> =>
        /\ IsPrefix(required, offered)
        /\ Range(offered) \ Range(required) = Range(named) \cap {"acme"}
===============================================================================
