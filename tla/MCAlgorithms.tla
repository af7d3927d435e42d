---------------------------- MODULE MCAlgorithms ----------------------------
(***************************************************************************)
(* The pure algorithms of the crates, each over every input of a bounded   *)
(* set: `algo` names one, a step gives it an input, and the properties say *)
(* what its outcome must be for that input. The sets are the smallest in   *)
(* which each algorithm's cases meet: a table of two routes, three         *)
(* configuration sources, texts of a few characters, a pair of names that  *)
(* print alike.                                                            *)
(***************************************************************************)
EXTENDS Integers, Sequences, FiniteSets, SequencesExt

VARIABLES algo, given, input

Http == INSTANCE HttpRules
Told == INSTANCE Reporting WITH
    SecondsWidth <- 3, MinMatched <- 2, MaxMembers <- 4, Propagated <- 10, LongEntry <- 3
Ws == INSTANCE WsRules WITH ReasonLimit <- 5, KindsLogged <- 2, KindShown <- 1
Rpc == INSTANCE RpcRules WITH UnitsOf <- <<1, 10, 40, 200>>, MaxAmount <- 9, PerMilli <- 10, MaxMillis <- 150, RestoredLogged <- 2
Nm == INSTANCE Names WITH WalkBound <- 2
Set == INSTANCE Settings

---------------------------------------------------------------------------
\* Routes: patterns of up to two segments and a rest, paths of up to three.
RouteSegs == {[kind |-> "static", text |-> "a"], [kind |-> "static", text |-> "b"], [kind |-> "param", text |-> "x"]}
Patterns == SeqOf(RouteSegs, 2) \cup {Append(f, [kind |-> "rest", text |-> "r"]) : f \in SeqOf(RouteSegs, 2)}
RouteShapes == {Http!Shape(p) : p \in Patterns}
Paths == {Http!Normalize(p) : p \in SeqOf({"", "a", "b", "c"}, 3) \ {<<>>}}
FullPaths == {p \in Paths : \A i \in DOMAIN p : p[i] # ""}
RouteTokens ==
    [form : {"empty", "unclosed", "brace"}, name : {""}] \cup {[form |-> "static", name |-> "a"], [form |-> "star", name |-> "*"]}
      \cup [form : {"param", "rest"}, name : {"", "9", "a-b", "x", "y"}]
Route(p, methods) == [segments |-> p, methods |-> methods]
RouteTables ==
    {<<Route(p, {"GET"}), Route(q, ms)>> : p \in Patterns, q \in Patterns, ms \in {{"POST"}, {"GET", "HEAD"}}}
Everywhere(shape) ==
    [scope |-> {[fixed |-> <<>>, open |-> TRUE]}, exclude |-> {shape}, supplies |-> TRUE, scoped |-> TRUE]

\* The gRPC server's table: up to three handlers, up to two scopes.
GrpcScopes == {{"/a"}, {"/b"}, {Rpc!HealthPath}, {Rpc!ReflectionPath}, {"/a", "/b"}, {}}
GrpcServers ==
    [handlers : SeqOf([path : {"/a", "/b"}, ours : BOOLEAN, agrees : BOOLEAN], 2),
     scopes : {s \in SUBSET GrpcScopes : Cardinality(s) <= 2},
     reflection : BOOLEAN, zeros : {<<>>, <<1>>}, endpoints : {0}, badTls : BOOLEAN]

\* WebSocket gateways: two controllers, and their limits unset, none, zero and set.
Setting(set, n, none) == [set |-> set, n |-> n, none |-> none]
Given == {Setting(FALSE, 0, FALSE), Setting(TRUE, 0, TRUE), Setting(TRUE, 0, FALSE), Setting(TRUE, 7, FALSE)}
GatewayLimits ==
    {[Ws!SettingsAt EXCEPT !["max_inflight"] = x, !["message_limit"] = y] : x \in Given, y \in Given \ {Setting(TRUE, 0, TRUE)}}
GatewayOf(c, events, limits, raw) ==
    [controller : {c}, port : {"http", "own"}, prefix : {<<"none">>, <<"/">>, <<"/", "a">>},
     path : {<<"/">>, <<"/", "a">>, <<"/", "a", "/">>, <<"a">>, <<"/", "{">>}, event : events, limits : limits, raw : raw]
OneGateway ==
    GatewayOf("A", {"event", "id"}, {Ws!SettingsAt, [Ws!SettingsAt EXCEPT !["max_inflight"] = Setting(TRUE, 0, FALSE)]}, BOOLEAN)
OtherGateway(c) == {x \in GatewayOf(c, {"event"}, {Ws!SettingsAt}, {FALSE}) : x.prefix # <<"/">>}
GatewayMessages == [controller : {"A", "B"}, event : {"e", "f", "cancel"}, kind : {"ws", "other"}]

\* Cross-origin requests.
CorsCases ==
    [cors : Http!CorsSettings({"a"}),
     request : [method : {"OPTIONS", "GET"}, origin : {Http!Absent, "a", "b"}, asksMethod : BOOLEAN, asked : {Http!Absent, "h"}],
     response : [status : {200}, routed : {TRUE}, origin : {Http!Absent}, credentials : {FALSE}, headers : {Http!Absent},
                 expose : {FALSE}, vary : {<<>>, <<"origin">>, <<"*">>, <<"accept">>}]]

---------------------------------------------------------------------------
\* Errors: chains of up to four; durations of up to six seconds in a width of three bits.
ErrorChains == UNION {Told!Chains(n) : n \in 1..4}

\* gRPC's headers as the handler built them and an interceptor and an error handler left them.
HeaderEdits == [{"grpc-status", "grpc-x", "x-own"} -> {"kept", "absent", "v"}]
Edited(e) == [n \in Rpc!HeaderNames |-> IF n = "content-type" THEN "kept" ELSE e[n]]
BuiltHeaders == {Rpc!StatusHeaders("NOT_FOUND")} \cup {Rpc!WithMetadata([n \in Rpc!HeaderNames |-> v]) : v \in {"absent", "w"}}

\* GraphQL over HTTP: documents of two definitions, Accept headers of two ranges.
Definitions ==
    [kind : {"shorthand"}, name : {""}, vars : {FALSE}, directive : {FALSE}]
      \cup [kind : {"fragment"}, name : {""}, vars : {FALSE}, directive : BOOLEAN]
      \cup [kind : {"query", "mutation", "subscription"}, name : {"", "A", "B"}, vars : BOOLEAN, directive : BOOLEAN]
MediaRanges ==
    {[kind |-> t[1], subtype |-> t[2], q |-> [whole |-> q[1], digits |-> q[2]]] :
        t \in {<<"application", "json">>, <<"application", "graphql-response+json">>, <<"application", "*">>, <<"*", "*">>, <<"text", "html">>},
        q \in {<<1, <<>>>>, <<0, <<>>>>, <<0, <<5>>>>, <<0, <<0, 5>>>>, <<1, <<5>>>>, <<0, <<0, 0, 0, 5>>>>}}
GraphqlRequests ==
    [context : BOOLEAN, parses : BOOLEAN, validates : BOOLEAN, selects : BOOLEAN, kind : {"query", "mutation", "subscription"},
     variables : {"ok", "missing", "wrong"}, extensions : BOOLEAN]

---------------------------------------------------------------------------
\* URLs and the secrets in them.
SecretUrls ==
    [scheme : {<<"x", "://">>, <<"//">>, <<>>}, userinfo : {<<>>, <<"u", "@">>, <<"u", ":", "p", "@">>, <<"u", "@", "p", "@">>},
     host : {<<>>, <<"h">>, <<"h", ":", "d">>}, path : {<<>>, <<"/">>, <<"/", "q", "/">>}, query : {<<>>, <<"?">>, <<"?", "k", "@", "/">>}]
DbUrls ==
    [scheme : {"postgres", "mariadb", "sqlite", "http"}, pw : SeqOf({"%", "4", "1", "@", ":"}, 3),
     q : {<<>>, <<"%">>, <<"+">>, <<"4", "1">>, <<"%", "4">>, <<"%", "4", "1">>, <<"+", "%", "4", "1">>}, frag : {<<>>, <<"#", "f">>}]
DbUrl(i) ==
    <<i.scheme, ":", "//", "u", ":">> \o i.pw \o <<"@", "h", "/", "d">>
      \o (IF i.q = <<>> THEN <<>> ELSE <<"?", "a", "=", "b", "&", "password", "=">> \o i.q) \o i.frag
BrokerUrls ==
    {i \in [user : {<<>>, <<"u">>, <<"u", "p">>}, pw : {<<>>, <<"p">>, <<"p", "@">>, <<"@", ":">>, <<":", "p">>},
            host : {<<"h">>, <<"1", ":", "2">>, <<"h", "h">>}, port : {<<>>, <<"1">>, <<"2", "1">>},
            tail : {<<>>, <<"/">>, <<"/", "@", "h">>}] :
        i.user = <<>> => i.pw = <<>>}
RedisUrls ==
    [scheme : {"redis", "rediss", "unix"}, host : {"a", "b"}, port : {"", "6379", "7000"}, user : {"k"},
     database : {"", "0", "1", "word"}, protocol : {"", "resp2", "resp3", "resp9"}, insecure : BOOLEAN]
FewRedisUrls == {u \in RedisUrls : u.host = "a" /\ u.port = "" /\ u.protocol \in {"", "resp9"} /\ u.database \in {"", "1"}}

---------------------------------------------------------------------------
\* Bodies, forms and paths a handler reads.
BodyFrames == [kind : {"data"}, size : 0..2] \cup [kind : {"trailers", "error"}, size : {0}]
PathFields == [name : {"a", "b"}, optional : BOOLEAN]
PathTypes ==
    [shape : {"struct"}, fields : {s \in SUBSET PathFields : Cardinality({f.name : f \in s}) = Cardinality(s)}, len : {0}]
      \cup [shape : {"tuple"}, fields : {{}}, len : 0..3] \cup [shape : {"single", "unchecked"}, fields : {{}}, len : {0}]
FormPairs == {<<n, v>> : n \in {<<>>, <<"=">>, <<"x", "&">>}, v \in SeqOf({"x", "&", "=", "+", " "}, 2)}

\* RPC frames of every kind, and what a server and a client make of a link.
FrameOf(kind, headers, data) ==
    LET members == ToSet(Rpc!Members(kind)) \cup (IF Rpc!FrameData(kind) THEN {"d"} ELSE {})
    IN  [m \in {"t"} \cup members |-> CASE m = "t" -> kind [] m = "h" -> headers [] m = "d" -> data [] OTHER -> "v"]
Details ==
    [type : {"field_violations", "error_info", "help", "json"}, value : {"x"}, halves : {0}]
      \cup [type : {"retry_after"}, value : {""}, halves : 0..5]
RpcHandlers ==
    {h \in [value : BOOLEAN, pattern : {"none", "", "has space", "a", "b"}, kind : {"Message", "Event"},
            params : {{}, {"Payload<T>"}, {"Bytes"}, {"Inbound"}}, output : {"unit", "Value", "Result<Stream>"}] :
        /\ ~h.value \/ h.pattern \in {"none", "", "has space"} => h.kind = "Message" /\ h.params = {} /\ h.output = "unit"
        /\ h.kind = "Event" => h.output = "unit"}
RpcSettings == [max_inflight : {"set", "zero"}, timeout_grace : {"set"}]

\* A WebSocket message of up to three fields.
EnvelopeFields == [key : {"event", "id", "data", "x"}, kind : {"string", "number", "null", "list"}, value : {1}]

\* Trace contexts a call arrives with, and what its caller passes on.
Members ==  {Told!Member(k, n) : k \in {"a", "b", "c", "d"}, n \in {1, 3, 5}}
MemberLists(n) == {l \in SeqOf(Members, n) : \A i, j \in DOMAIN l : l[i].key = l[j].key => i = j}
Parents ==
    [version : {"00", "01", "ff"}, trace : {0, 1}, span : {2}, flags : {0, 1, 3, 16}, tail : {"none", "dash", "x"}]
StateFields ==
    {<<Told!Member("a", 1)>>, <<Told!Member("b", 5), Told!Member("a", 3)>>, <<Told!Blank, Told!Member("c", 3)>>, <<Told!OffGrammar>>,
     <<Told!Unread>>, <<Told!Member("a", 5), Told!Member("b", 5), Told!Member("c", 5)>>}
Callers ==
    [parents : {<<>>, <<[version |-> "00", trace |-> 4, span |-> 4, flags |-> 1, tail |-> "none"]>>},
     states : {<<>>, <<<<Told!Member("a", 3)>>>>, <<<<Told!Member("d", 1), Told!Member("c", 5)>>>>, <<<<Told!OffGrammar>>>>}]
Hops(parents, callers) ==
    [kind : {"headers", "frame"}, parents : {<<>>} \cup {<<p>> : p \in parents}, states : SeqOf(StateFields, 2),
     source : {"none", "span", "unrecorded"}, caller : callers]

---------------------------------------------------------------------------
\* Configuration: trees of two keys and two levels, entries of two pieces, YAML with aliases.
TreeOf(x, y, i) ==
    LET below(k, s) == {<<k, "a">> : e \in {e \in {1} : s \in {"ta", "tab"}}} \cup {<<k, "b">> : e \in {e \in {1} : s \in {"tb", "tab"}}}
        top(k, s) == {<<k>> : e \in {e \in {1} : s # "none"}} \cup below(k, s)
        leaf(p) == Len(p) = 2 \/ (Len(p) = 1 /\ (IF p[1] = "a" THEN x ELSE y) = "leaf")
    IN  [p \in {<<>>} \cup top("a", x) \cup top("b", y) |-> IF leaf(p) THEN Set!Leaf(i) ELSE Set!Table(i)]
EntryNames == [prefixed : {TRUE}, whole : {"w"}, pieces : {<<"a">>, <<"a", "", "a">>, <<"a", "b">>, <<"">>}]
FileSource(state, optional, tree) == [kind |-> "file", state |-> state, optional |-> optional, tree |-> tree]
Files(i) ==
    {FileSource(s, o, Set!NoTree) : s \in {"missing", "unreadable", "malformed"}, o \in BOOLEAN}
      \cup {FileSource("ok", FALSE, TreeOf(x, y, i)) : x \in {"none", "leaf", "table", "ta", "tab"}, y \in {"none", "leaf"}}
Sources(i) ==
    Files(i) \cup {[kind |-> "named", prefix |-> TRUE, separator |-> s,
                    entries |-> [n \in DOMAIN ns |-> [name |-> ns[n], from |-> <<i, n>>]]] : s \in BOOLEAN, ns \in SeqOf(EntryNames, 2)}
LastFiles == {f \in Files(3) : f.state = "missing" \/ (f.state = "ok" /\ <<"b">> \notin DOMAIN f.tree)}
Scalar(n) == [kind |-> "scalar", anchor |-> n, merge |-> FALSE]
Alias(n) == [kind |-> "alias", anchor |-> n]
Opens(kind, n) == [kind |-> kind, anchor |-> n]
Closes == [kind |-> "end"]
YamlChunks(i) ==
    {<<Scalar(i)>>, <<Opens("sequence", i), Scalar(0), Scalar(0), Closes>>} \cup {<<Alias(j)>> : j \in 1..i-1}
      \cup {<<Opens("mapping", i), Scalar(0), Alias(j), Closes>> : j \in 1..i}
      \cup {<<Opens("sequence", i), Alias(j), Alias(l), Closes>> : j, l \in 1..i-1}
Scalars ==
    [kind : {"int"}, of : 0..5] \cup [kind : {"bool"}, of : BOOLEAN] \cup [kind : {"str"}, of : {"x"}]
      \cup [kind : {"float"}, of : {"f"}] \cup [kind : {"null"}, of : {"n"}]

\* Databases: a driver's errors, a migration lock's outcomes, a module's settings.
DbErrors ==
    [kind : {"Configuration", "Tls", "Database", "Io", "PoolTimedOut"},
     code : {"28P01", "3D000", "42000", "14", "NotFound", "PermissionDenied", "Reset"}, inner : {"none", "UnknownIssuer", "Expired"}]
LockOutcomes ==
    [acquire : {"ok", "bare", "permanent"}, set : {"ok", "bare", "permanent"}, wait : {"ok", "bare", "permanent", "ranout"}, database : BOOLEAN]
DbModules ==
    [valid : BOOLEAN, connects : BOOLEAN, lazy : BOOLEAN, migrate : BOOLEAN, connect : 0..1, limit : 0..1, zero : BOOLEAN, retries : 0..2]
Qualifiers == [short : {"P", "Q"}, full : {"a::P", "b::P", "c::Q"}]

\* Endpoints: addresses and inherited sockets by name and index, and what the environment says of them.
EndpointSpecs ==
    {Told!Addr("x:1", 1), Told!Addr("y:0", 0), Told!Named("n"), Told!Named("x%3A1"), Told!Index(0), Told!Index(1), Told!BadText}
Environments ==
    [pid : {"own"}, fds : {2}, names : {<<>>, <<"n", "n">>, <<"n", "x%3A1">>}, listening : {{1, 2}, {1}}, dev : BOOLEAN]
      \cup [pid : {"own", "other", "absent", "malformed"}, fds : -2..1, names : {<<>>, <<"n">>}, listening : {{1}}, dev : BOOLEAN]

---------------------------------------------------------------------------
\* Declarations: inputs and mounts as they come, bindings of two keys, and a load over a base.
InputKeys == [key : {"k"}, also : SUBSET {"t", "u"}]
InputsOf ==
    {f \in [{"t", "u", "v"} -> SeqOf(InputKeys, 1)] :
        f["v"] = <<>> /\ \A t \in {"t", "u"} : \A i \in ToSet(f[t]) : t \notin i.also}
InputEvents == [e : {"mount"}, t : {"t", "u"}, key : {"k"}] \cup [e : {"input"}, t : {"t", "u", "v"}, key : {"k"}]
Bindings ==
    {b \in SeqOf([keys : {<<"k">>, <<"j">>, <<"k", "j">>}, kind : {"single", "collection"}, module : {"m", "n"}], 3) :
        \A i \in DOMAIN b : b[i].kind = "collection" => Len(b[i].keys) = 1}
LoadNodes ==
    [controllers : BOOLEAN, meta : BOOLEAN, inputs : {{}, {"k"}}, global : BOOLEAN, exports : {{}, {"k"}}, contributes : {{}, {"k"}}]
LoadBases ==
    [collections : {{}, {"k"}},
     reads : {f \in [Nm!ReadSites -> {{}, {"k"}}] : Cardinality({s \in Nm!ReadSites : f[s] # {}}) <= 1}]

\* What servers' checks found, alone and nested.
Findings ==
    [id : {1, 2}, names : {{}, {"A"}, {"A", "B"}}, subject : {Nm!NoSubject, "entry"}, scopes : {<<>>, <<"/x">>}, reason : {Nm!NoSubject}]
      \cup [id : {3}, permanentAt : 0..3]
FewFindings == {f \in Findings : f.id = 3 \/ (f.id = 1 /\ Cardinality(f.names) = 1 /\ f.scopes = <<>>)}
Components(findings, n) == [findings : SeqOf(findings, n) \ {<<>>}, link : {Nm!NoSubject, "nats"}]

\* Names that print alike: types of one last segment, in a wrapper, as a trait object, as closures.
aCfg == << <<"a", "Config">> >>
bCfg == << <<"b", "Config">> >>
Wrapped(t) == << <<"x", "Arc">>, <<"<">> >> \o t \o << <<">">> >>
ClosureIn(f) == << <<"a", f, Nm!Closure>> >>
TypeNames ==
    {aCfg, bCfg, Wrapped(aCfg), Wrapped(bCfg), << <<"dyn ">>, <<"ulo", "ErasedGuard">>, <<"<">>, <<"h", "Http">>, <<">">> >>,
     ClosureIn("f"), ClosureIn("g")}
KeyNames ==
    [ty : TypeNames, qualifier : {Nm!Unqualified, aCfg, << <<"a", "Replica">> >>}, kind : {"single", "collection"}]
PlainKeys == [ty : TypeNames, qualifier : {Nm!Unqualified}, kind : {"single"}]
ModuleNames(qualifiers, configs) ==
    [ty : {aCfg, bCfg}, qualifier : qualifiers, config : configs, label : {Nm!NoLabel, "db"}]
aReplica == << <<"a", "R">> >>
bReplica == << <<"b", "R">> >>
SettingCalls(i) == [name : {"x", "y"}, value : {1, 2}, at : {i}]
SettingLists ==
    {<<>>} \cup {<<c>> : c \in SettingCalls(1)} \cup {<<c, d>> : c \in SettingCalls(1), d \in SettingCalls(2)}
      \cup {<<c, d, e>> : c \in SettingCalls(1), d \in SettingCalls(2), e \in SettingCalls(3)}

\* A report's entries: each field holds one name, except one field that holds another.
KeyFields == {"key", "near", "alias", "target", "missing", "path", "binding", "input", "controller"}
TypeFields ==
    {"transport", "seeder", "transports", "first transport", "first seeders", "second transport", "second seeders",
     "outer", "inner", "provided", "names"}
ModuleFields ==
    {"modules", "module", "controller module", "first importer", "second importer", "sources", "keyed", "matches",
     "candidates", "original", "replacement", "exporter", "first module", "second module"}
Fields == KeyFields \cup TypeFields \cup ModuleFields
Holds(f, t) ==
    IF f \in KeyFields THEN {[ty |-> t, qualifier |-> << <<"c", "Solo">> >>, kind |-> "single"]}
    ELSE IF f \in TypeFields THEN {t}
    ELSE {Nm!ModuleNameOf([ty |-> t, qualifier |-> Nm!Unqualified, config |-> 0, label |-> Nm!NoLabel], 0)}
EntryOf(v, t, odd) == [variant |-> v, of |-> [f \in Fields |-> Holds(f, IF f = odd THEN aCfg ELSE t)]]
TwoEntries(r) ==
    IF r.v = r.w THEN {EntryOf(r.v, bCfg, r.odd), EntryOf(r.v, bCfg, "none")}
    ELSE {EntryOf(r.v, bCfg, "none"), EntryOf(r.w, aCfg, "none")}
Reports(variants) ==
    {[v |-> v, w |-> v, odd |-> f] : v \in variants, f \in Fields} \cup [v : variants, w : variants, odd : {"none"}]
ReportEntries == UNION {Reports(vs) : vs \in {Nm!WiringVariants, Nm!ConfigureVariants, Nm!ShutdownVariants}}

\* The command line's artifacts.
Artifacts == [package : {"p", "q"}, bin : BOOLEAN, name : {"x", "y"}]

---------------------------------------------------------------------------
InputFor(a) ==
    CASE a = "parse" -> SeqOf(RouteTokens, 3) \ {<<>>}
      [] a = "shapes" -> [scope : RouteShapes, route : Patterns]
      [] a = "table" -> RouteTables
      [] a = "stage" -> [entry : [scope : {{s} : s \in RouteShapes}, exclude : {{}} \cup {{s} : s \in RouteShapes}], route : Patterns]
      [] a = "supplied" -> {[entry |-> Everywhere(s), table |-> <<Route(p, {"GET"}), Route(q, {"GET"})>>] :
                               s \in RouteShapes, p \in Patterns, q \in Patterns}
      [] a = "grpc table" -> GrpcServers
      [] a = "gateway" -> [gateways : {<<x>> : x \in OneGateway}, messages : SeqOf(GatewayMessages, 1)]
      [] a = "gateways" -> [gateways : {<<x, y>> : x \in OtherGateway("A"), y \in OtherGateway("B")}, messages : SeqOf(GatewayMessages, 1)]
      [] a = "cors" -> CorsCases
      [] a = "error" -> ErrorChains
      [] a = "retry" -> [seconds : 0..6, nanos : BOOLEAN]
      [] a = "screen" -> [built : BuiltHeaders, i : HeaderEdits, e : HeaderEdits, status : {"200", "403", "429", "500"}]
      [] a = "timeout" -> 0..2500
      [] a = "restored" -> SeqOf(1..4, 5)
      [] a = "close reason" -> [reason : SeqOf(1..3, 5), kind : {"Unauthorized", "TooManyRequests", "Internal"}]
      [] a = "document" -> [document : SeqOf(Definitions, 2) \ {<<>>}, wanted : {"", "A", "B"}]
      [] a = "accept" -> [ranges : SeqOf(MediaRanges, 2), outcome : {Http!Executed, Http!Failed}]
      [] a = "engine" -> [request : GraphqlRequests, n : 0..2]
      [] a = "string" -> [body : SeqOf({"x", "line", "back", "esc"}, 3), block : BOOLEAN, tail : {<<>>, <<"quote">>, <<"x", "quote">>}]
      [] a = "sse" -> SeqOf({"CR", "LF", "x"}, 5)
      [] a = "secrets" -> [texts : {{s, t} : s \in SeqOf({"a", "b"}, 3), t \in SeqOf({"a", "b"}, 4)}, text : SeqOf({"a", "b"}, 5)]
      [] a = "userinfo" -> SeqOf({"a", "@", "://", "/", " "}, 6)
      [] a = "url" -> SecretUrls
      [] a = "db url" -> DbUrls
      [] a = "broker url" -> BrokerUrls
      [] a = "redis url" -> [one : FewRedisUrls, other : RedisUrls]
      [] a = "body" -> [body : [declared : {-1, 0, 1, 3, 4}, frames : SeqOf(BodyFrames, 3)], limit : 0..3]
      [] a = "path" -> [type : PathTypes, params : {<<>>, <<"a">>, <<"b">>, <<"a", "b">>, <<"b", "a">>, <<"c">>},
                        pairs : SeqOf([name : {"a", "b", "c"}, value : {"ok", "bad"}], 2)]
      [] a = "form" -> SeqOf(FormPairs, 2)
      [] a = "frame" -> [codec : {"Json", "Cbor"}, kind : Rpc!Kinds, headers : {<<>>, <<<<"a", "1">>, <<"a", "2">>>>},
                         data : {Rpc!Empty} \cup {Rpc!Payload(c, i) : c \in {"Json", "Cbor"}, i \in {"null", "text", "object"}},
                         error : Rpc!ErrorKinds, detail : Details]
      [] a = "prepare" -> [link : Rpc!LinkCapabilities("Json") \cup Rpc!LinkCapabilities("Cbor"), settings : RpcSettings, handlers : SeqOf(RpcHandlers, 2)]
      [] a = "envelope" -> [codec : Ws!Codecs, fields : SeqOf(EnvelopeFields, 3)]
      [] a = "tracestate" -> [state : MemberLists(3), front : MemberLists(2)]
      [] a = "hop" -> Hops(Parents, [parents : {<<>>}, states : {<<>>}])
                        \cup Hops({p \in Parents : p.trace = 1 /\ p.flags \in {0, 3} /\ p.tail = "none"}, Callers)
      [] a = "load" -> {<<x, y, z>> : x \in Sources(1), y \in Sources(2), z \in LastFiles}
      [] a = "dotenv" -> SeqOf({"sp", "sq", "dq", "bs", "hash", "x"}, 5)
      [] a = "yaml" -> {FlattenSeq(<<w, x, y, z>>) : w \in YamlChunks(1), x \in YamlChunks(2), y \in YamlChunks(3), z \in YamlChunks(4)}
      [] a = "text" -> Scalars
      [] a = "limits" -> [settings : GatewayLimits, defaults : GatewayLimits]
      [] a = "class" -> [engine : Set!Engines, error : DbErrors, socket : BOOLEAN, message : {"refused", "noDatabase", "noTable"}]
      [] a = "lock" -> [size : {1, 2}, outcome : LockOutcomes, bound : {0, 1, 9, 10, 11, 25}]
      [] a = "db module" -> DbModules
      [] a = "db names" -> {qs \in SUBSET Qualifiers : \A p, q \in qs : p.full = q.full => p = q}
      [] a = "warnings" -> SeqOf([malformed : {FALSE}, of : {"version", "audience"}, kind : {<<>>, <<"x">>, <<"y">>, <<"x", "x">>, <<"x", "y">>}]
                                  \cup [malformed : {TRUE}, of : {"version"}, kind : {<<>>}], 4)
      [] a = "bind" -> [specs : SeqOf(EndpointSpecs, 3) \ {<<>>}, env : Environments, limits : [portZero : {TRUE}, inherited : BOOLEAN], free : {{}, {"x:1"}}]
      [] a = "alpn" -> [named : SeqOf({"h2", "http/1.1", "acme", "h3"}, 3), required : {<<>>, <<"h2">>, <<"h2", "http/1.1">>}]
      [] a = "inputs" -> [events : SeqOf(InputEvents, 3), of : InputsOf, bound : {{}, {"k"}}]
      [] a = "kinds" -> UNION {[bindings : {bs}, old : 0..Len(bs), roles : {{}, {"j"}}] : bs \in Bindings}
      [] a = "loaded" -> [base : LoadBases, nodes : {<<n>> : n \in LoadNodes} \cup {<<n, m>> : n, m \in {x \in LoadNodes : ~x.meta /\ x.inputs = {}}}]
      [] a = "link" -> Rpc!Links
      [] a = "group" -> SeqOf({"g", " ", "*", ">", "/", "+", "#"}, 3) \ {<<>>}
      [] a = "findings" -> SeqOf(Components(FewFindings, 2), 2) \cup {<<c>> : c \in Components(Findings, 2)}
      [] a = "keys" -> {{x, y, z} : x, y \in KeyNames, z \in PlainKeys}
      [] a = "modules" -> [names : {<<x, y, z>> : x, y \in ModuleNames({Nm!Unqualified, aReplica, bReplica}, {0, 1}),
                                                  z \in ModuleNames({Nm!Unqualified, aReplica}, {2})}, split : 0..2]
      [] a = "settings" -> [one : SettingLists, other : SettingLists]
      [] a = "report" -> ReportEntries
      [] a = "project" -> [transports : Set!Transports, database : Set!Databases \cup {Set!None}]
      [] a = "project name" -> SeqOf({"a", "b", "A", "B", "1", "_", "-"}, 4)
      [] a = "pick" -> [artifacts : SeqOf(Artifacts, 2), example : {"", "x"}, bin : {"", "x"}, defaults : SUBSET ({"p", "q"} \X {"x"})]
      [] a = "socket" -> [one : SeqOf({":", "%", "3", "A"}, 3), other : SeqOf({":", "%", "3", "A"}, 4)]

Algorithms ==
    {"parse", "shapes", "table", "stage", "supplied", "grpc table", "gateway", "gateways", "cors", "error", "retry", "screen",
     "timeout", "restored", "close reason", "document", "accept", "engine", "string", "sse", "secrets", "userinfo", "url",
     "db url", "broker url", "redis url", "body", "path", "form", "frame", "prepare", "envelope", "tracestate", "hop", "load",
     "dotenv", "yaml", "text", "limits", "class", "lock", "db module", "db names", "warnings", "bind", "alpn", "inputs",
     "kinds", "loaded", "link", "group", "findings", "keys", "modules", "settings", "report", "project", "project name",
     "pick", "socket"}

Init == algo \in Algorithms /\ given = FALSE /\ input = <<>>
Next == ~given /\ given' = TRUE /\ input' \in InputFor(algo) /\ UNCHANGED algo
Spec == Init /\ [][Next]_<<algo, given, input>>

Asked(a) == given /\ algo = a

---------------------------------------------------------------------------
\* A request reaches the route, gateway or method declared for it and no other.
\* Routes: the server's and the startup check's parsers read a pattern alike,
\* coverage of one shape by another is what their paths say, the matcher finds
\* what a scan of the declarations finds, and a stage runs for a route on every
\* path or on none; a host's extension accepted at startup is supplied on each
\* request. gRPC: a table that prepares serves each path once, with each scope
\* read. Gateways: a path is served by the gateway declared for it, its limits
\* layered over the defaults. CORS: what a policy allows is what it answers.
RequestsRouted ==
    /\ Asked("parse") => Http!ParsersAgree(input)
    /\ Asked("shapes") => Http!ShapesExact(input.scope, input.route, Paths)
    /\ Asked("table") => Http!TableAnswersAlike(input, Paths, {"GET", "HEAD", "POST", "OPTIONS"})
    /\ Asked("stage") => Http!StagesAgree(input.entry, input.route, Paths)
    /\ Asked("supplied") /\ Http!TableAccepted(input.table) =>
         \A i \in 1..2 : Http!HostReadSupplied({input.entry}, FALSE, input.table, i, FullPaths)
    /\ Asked("grpc table") => Rpc!GrpcTableSound(input)
    /\ Asked("gateway") \/ Asked("gateways") => Ws!GatewaysServed(input.gateways, input.messages, Ws!SettingsAt)
    /\ Asked("limits") => Ws!LimitsLayered(input.settings, input.defaults)
    /\ Asked("cors") => Http!CorsKept(input.cors, input.request, input.response)


\* No secret is printed, and a URL's parts are the ones it was written with:
\* known secrets are replaced wherever they overlap, what stands before the
\* last @ of an authority is stripped, a password is known as the driver reads
\* it and as it is spelled, a broker's address is read back, and two settings
\* of Redis name one connection only if they connect alike.
SecretsKept ==
    /\ Asked("secrets") => Told!SecretsReplaced(input.texts, input.text)
    /\ Asked("userinfo") => Told!UserinfoStripped(input)
    /\ Asked("url") => Told!UrlReported(input.scheme, input.userinfo, input.host, input.path, input.query)
    /\ Asked("db url") => Set!PasswordsKnown(<<"u">>, input.pw, input.q, DbUrl(input))
    /\ Asked("broker url") => Rpc!TargetReadBack(input.user, input.pw, input.host, input.port, input.tail)
    /\ Asked("redis url") => Ws!SettingsTellConnections(input.one, input.other, 1)

\* What one side writes the other reads, whole and within its limits. Bodies:
\* a limit holds alike for a declared and a chunked body, a path type checked
\* at startup parses every match, a form reads back. RPC: a frame reads back
\* through its codec, and client and server agree on what a link carries.
\* Envelopes: the codecs agree, an answer names its message. Traces: truncation
\* drops long entries first, and a hop keeps the trace unbroken.
MessagesReadBack ==
    /\ Asked("body") => Http!LimitHeldAlike(input.body, input.limit)
    /\ Asked("path") => Http!PathCheckedAtStartup(input.type, input.params, input.pairs)
    /\ Asked("form") => Http!FormReadBack(input)
    /\ Asked("frame") => Rpc!FramesReadBack(input.codec, FrameOf(input.kind, input.headers, input.data), input.error, input.detail)
    /\ Asked("prepare") => Rpc!SidesAgree(input.link, TRUE, input.settings, input.handlers)
    /\ Asked("envelope") =>
         /\ Ws!CodecsAgree(input.fields) /\ Ws!AnswersNamed(input.codec, input.fields)
         /\ \A f \in {"event", "kind"}, e \in {1, 2} : Ws!BroadcastRead(input.codec, f, e, [kind |-> "list", value |-> 3])
    /\ Asked("tracestate") => Told!TruncationKeeps(input.state, input.front)
    /\ Asked("hop") => Told!TraceUnbroken(input.kind, input.parents, input.states, input.source, input.caller)

\* Settings come from the source that should give them. Configuration: the last
\* source that sets a key wins, a .env value reads back, aliases expand within
\* their cap, a text reads as the scalar it spells. Databases: an error is
\* classified alike by both libraries, a lock's wait ends as its bound says,
\* one loop retries, two checks are told apart. Endpoints: what prepare accepts
\* bind takes, with the protocol the peer chose. Redis's warnings are bounded.
SettingsRead ==
    /\ Asked("load") => Set!LastSourceWins(input)
    /\ Asked("dotenv") => Set!DotEnvReadsBack(input)
    /\ Asked("yaml") => \A l \in {9, 14} : Set!AliasesBounded(<<Opens("sequence", 0)>> \o input \o <<Closes>>, l)
    /\ Asked("text") => Set!TextReadsAlike(input, 1, 3)
    /\ Asked("class") => Set!ClassifiedAlike(input.engine, input.error, input.socket, input.message)
    /\ Asked("lock") => Set!LockWaitsTrue(input.size, input.outcome, input.bound, 10, 5)
    /\ Asked("db module") => Set!OneRetryLoop(input, 1)
    /\ Asked("db names") => Set!ChecksToldApart(input)
    /\ Asked("warnings") => Ws!WarnsBounded(input)
    /\ Asked("bind") => Told!PreparedIsTaken(input.specs, input.env, input.limits, input.free)
    /\ Asked("alpn") => Told!AlpnServed(input.named, input.required)

\* Startup refuses what could not work, with every finding kept: an input has
\* one source whatever order it was declared in, a key is not single and
\* collected, a load leaves its base as it was; a link refuses exactly the
\* settings it cannot serve, and a default group is one its broker takes; a
\* failure that nests others keeps each finding and its permanence.
RefusalsFounded ==
    /\ Asked("inputs") => Nm!InputsOneSource(input.events, input.of, input.bound)
    /\ Asked("kinds") => Nm!KindsApart(input.bindings, input.old, input.roles)
    /\ Asked("loaded") => Nm!LoadLeavesBase(input.base, input.nodes)
    /\ Asked("link") => Rpc!RefusalsTrue(input)
    /\ Asked("group") => Rpc!DefaultGroupPasses(input)
    /\ Asked("findings") => Nm!FindingsKept(input)

\* Two things a report, a project or a socket names are never printed alike:
\* keys, modules and types whose short names clash are printed longer, in
\* whichever field of an entry they stand; settings that differ are told; the
\* projects `ulo new` writes hold what their features need, and the binary
\* `ulo dev` picks and the socket name it hands over read back.
NamesToldApart ==
    /\ Asked("keys") => Nm!KeysPrintApart(input)
    /\ Asked("modules") => Nm!ModulesPrintApart(SubSeq(input.names, 1, input.split), SubSeq(input.names, input.split + 1, 3))
    /\ Asked("settings") => Nm!SettingsTold(input.one, <<input.other, input.other>>)
    /\ Asked("report") => Nm!ReportPrintsApart(TwoEntries(input))
    /\ Asked("project") => Set!ProjectsBuild(input.transports, input.database)
    /\ Asked("project name") => Set!NamesSpelled(input, {<<"a", "b">>, <<"A", "b">>})
    /\ Asked("pick") => Set!PickedAlike(input.artifacts, input.example, input.bin, input.defaults)
    /\ Asked("socket") => Set!SocketNamesApart(input.one, input.other)


\* A report is true and names what it means: refusals are founded, and two
\* things it names are never printed alike.
ReportsTellApart == RefusalsFounded /\ NamesToldApart
=============================================================================
