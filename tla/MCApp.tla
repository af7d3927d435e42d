---------------------------- MODULE MCApp ----------------------------
(***************************************************************************)
(* An application's graph, its startup, its calls and what serves them,    *)
(* each part on its own: `part` picks one of the modules below, whose      *)
(* variables v1, v2, ... stand for, and every step is a step of that       *)
(* module. The definitions before the instances are the configurations     *)
(* each part ranges over.                                                  *)
(***************************************************************************)
EXTENDS Integers, Sequences, FiniteSets

CONSTANTS
    k1, k2, k3, p1, p2, c1, c2, c3, c4, d, r1, r2, r3, m1, m2, br, l1, l2, t1

VARIABLES
    part, v1, v2, v3, v4, v5, v6, v7, v8, v9, v10, v11, v12, v13, v14, v15, v16, v17, v18, v19, v20,
    v21

vars ==
    <<part, v1, v2, v3, v4, v5, v6, v7, v8, v9, v10, v11, v12, v13, v14, v15, v16, v17, v18, v19, v20,
    v21>>

\* Imports: four modules, two of them imported with settings, one frozen.
ImportLists(ms) ==
    {<<>>} \cup {<<[to |-> x, setting |-> 1]>> : x \in ms}
      \cup {<<[to |-> x, setting |-> 1], [to |-> y, setting |-> 0]>> : x \in ms, y \in ms}
ImportApps ==
    {p \in [root : {"a"}, imports : [{"a", "b", "c", "d"} -> ImportLists({"a", "b", "c", "d"})],
            keyed : {{"b", "c"}}, frozen : {{}, {"d"}}] :
        /\ p.imports["d"] \in {<<>>, <<[to |-> "b", setting |-> 1]>>}
        /\ Len(p.imports["a"]) = 2 /\ p.imports["a"][1].to = "b"}

\* Visibility: one key, plain and qualified, through four modules.
K == [type |-> "t", qualified |-> FALSE]
KQ == [type |-> "t", qualified |-> TRUE]
VisibilityGraphs ==
    {g \in [modules : {1..4}, root : {4},
            imports : {<<m1s, m2s, m3s, m4s>> : m1s \in {{}, {2}}, m2s \in {{1}, {1, 3}, {3}},
                                                m3s \in {{}, {1}, {2}}, m4s \in {{2}, {2, 3}}},
            own : [1..3 -> {{}, {K}}], exports : [1..3 -> {{}, {K}}], reexports : [1..3 -> {{}, {K}, {KQ}}],
            reads : {<<{}, {}, {K}, {}>>}, global : {{}, {1}}, keyed : {{}, {2}}, inputs : {{}, {K}}] :
        /\ g.exports[1] = {K} /\ KQ \notin g.reexports[1] \cup g.reexports[2]
        /\ g.inputs # {} => g.global = {}
        /\ g.keyed = {} => g.reexports[3] # {KQ}
        /\ \A m \in 1..3 : g.exports[m] = {} \/ g.reexports[m] = {}}
ExportGraphs ==
    {[g EXCEPT !.own = Append(@, {}), !.exports = Append(@, {}), !.reexports = Append(@, {})] : g \in VisibilityGraphs}

\* BuildOrder: four bindings reading up to two others.
ReadLists == {<<>>, <<1, 2>>, <<3, 1>>, <<2, 4>>} \cup {<<x>> : x \in 1..4}
BuildWirings ==
    {w \in [count : {4}, base : {2, 4}, reads : [1..4 -> ReadLists], transient : {{}, {2}, {1, 3}}] :
        IF w.base = 4 THEN w.transient = {2}
        ELSE \A x \in 1..2 : \A i \in DOMAIN w.reads[x] : w.reads[x][i] <= 2}

\* Scopes: a controller, two providers, and a handler with its closure.
Scoped == {"auto", "singleton", "execution", "transient"}
ScopeCases ==
    {g \in [count : {3}, scope : {<<x, y, z>> : x \in Scoped \ {"execution"}, y \in Scoped, z \in Scoped},
            role : {<<"controller", "provider", "provider">>},
            direct : {<<"none", x, y>> : x \in {"none", "execution"}, y \in {"none", "execution", "input", "optional"}},
            deps : {<<x, y, {}>> : x \in {{}, {2}, {3}, {2, 3}}, y \in {{}, {3}}},
            hook : {[x \in {2} |-> {3}], [x \in {} |-> {}]},
            handler : [controller : {1}, enhancers : {{}, {2}}, seeds : BOOLEAN,
                       closure : [scope : {"auto", "singleton"}, reads : {{}, {2}}, direct : {"none"}]]] :
        /\ g.handler.seeds => g.direct[3] = "input"
        /\ g.handler.closure.reads = {} => g.handler.closure.scope = "auto"}

\* Freeze: records of one node, overridden and collected.
Rec(is, key, also, kind, failed, mark) ==
    [is |-> is, key |-> key, also |-> also, kind |-> kind, failed |-> failed, mark |-> mark]
Recs(is) ==
    {Rec(is, "s", {}, "single", FALSE, "none"), Rec(is, "s", {}, "single", TRUE, "none"),
     Rec(is, "t", {"s"}, "single", FALSE, "controller"), Rec(is, "c", {}, "collection", TRUE, "none"),
     Rec(is, "c", {}, "collection", FALSE, "enhancer"), Rec(is, "d", {}, "collection", FALSE, "enhancer")}
Marked(is) == {r \in Recs(is) : r.mark # "none"}
Overriding ==
    [key : {"s", "t"}, to : {"x"}, target : {"one", "all"}, among : {{}}]
      \cup [key : {"s"}, to : {"y"}, target : {"module"}, among : {{}, {1}, {1, 2}}]
FreezePlans ==
    {p \in [nodes : {<<x, y>> : x \in {<<>>} \cup {<<r>> : r \in Recs("r1")}
                                         \cup {<<r, q>> : r \in Recs("r1"), q \in Recs("r2")}
                                         \cup {<<r, q, z>> : r \in Recs("r1"), q \in Marked("r2"), z \in Marked("r3")},
                                y \in {<<>>} \cup {<<r>> : r \in Recs("q1")}},
            overrides : {<<>>} \cup {<<o>> : o \in Overriding}
                          \cup {<<o, [key |-> "s", to |-> "z", target |-> "all", among |-> {}]>> : o \in Overriding},
            collections : {<<>>, <<[key |-> "c", items |-> <<"i1", "i2">>]>>, <<[key |-> "s", items |-> <<"i1">>]>>}] :
        /\ \A i, j \in DOMAIN p.nodes[1] :
             LET x == p.nodes[1][i]  y == p.nodes[1][j]
             IN  i # j /\ x.kind = "single" /\ y.kind = "single" =>
                   ({x.key} \cup x.also) \cap ({y.key} \cup y.also) = {}
        /\ Len(p.nodes[1]) = 3 => p.collections # <<>>}

\* Connect: up to three singletons of three modules, the first with a retry.
ConnectCases ==
    {g \in [singletons : UNION {[1..n -> [origin : {"a", "b", "c"}, retries : {-1, 1}]] : n \in 0..3},
            modules : {<<"a", "b", "c">>, <<"c", "a", "b">>, <<"b", "c", "a">>}] :
        \A i \in 2..Len(g.singletons) : g.singletons[i].retries = -1}

\* Startup: up to three servers, each failing or panicking where it may.
Starting == [prepare : {"ok", "err", "panic"}, bind : {"ok", "err"}]
StartupPlans == UNION {[1..n -> Starting] : n \in 0..3}

\* PreDispatch: the declarations of the stage, and the calls that make them.
Declaring(step, scoped, patterns) == [step |-> step, scoped |-> scoped, patterns |-> patterns, fault |-> FALSE]
StageCalls ==
    {Declaring("cors", FALSE, {}), Declaring("layer", TRUE, {"p"}), Declaring("layer", TRUE, {}),
     Declaring("type", TRUE, {"*"}), Declaring("adopt", FALSE, {}), Declaring("exclude", FALSE, {"p"}),
     Declaring("exclude", FALSE, {"bad"}), Declaring("supplies", FALSE, {})}

\* Embedding: hosts, apps, prefixes and paths.
EmbedHosts == {{}, {"strips_prefix"}, {"upgrades", "peer_addr"}, {"host_extensions", "forward_miss", "strips_prefix"}}
EmbedApps == [upgrading : BOOLEAN, readsPeer : BOOLEAN, readsHost : BOOLEAN]
EmbedPrefixes == {<<"/">>, <<"a">>, <<"/", "a", "/">>, <<"/", "{">>}
EmbedPaths == {<<"/">>, <<"/", "a">>, <<"/", "a", "/">>, <<"/", "a", "a">>, <<"/", "a", "/", "a">>}

\* ConfigRead: three sections, one of them a struct of two fields.
Leaves ==
    {l \in [needed : BOOLEAN, refuses : BOOLEAN, is : {"absent", "good", "ill", "refused"}] : l.is = "refused" => l.refuses}
PlainSections ==
    [needed : {FALSE}, struct : {FALSE}, leaf : {l \in Leaves : l.needed}, fields : {<<>>}, here : {FALSE}]
StructSections ==
    {s \in [needed : BOOLEAN, struct : {TRUE}, leaf : {[needed |-> FALSE, refuses |-> FALSE, is |-> "absent"]},
            fields : [1..2 -> {l \in Leaves : l.is # "good" /\ (l.needed \/ l.is # "absent")}], here : BOOLEAN] :
        s.here \/ \A f \in 1..2 : s.fields[f].is = "absent"}
ConfigShapes ==
    [sections : {<<x, y, z>> : x \in PlainSections, y \in StructSections, z \in PlainSections},
     stray : {TRUE}, deny : {TRUE}, forward : BOOLEAN]

\* Calls of HTTP and gRPC, the client's RPC calls, and a hub's deliveries.
HttpRequests ==
    {r \in [head : BOOLEAN, route : {"found", "get", "notFound", "405", "options", "upgrade"}, timed : BOOLEAN,
            forward : BOOLEAN, outside : BOOLEAN, malformed : BOOLEAN, unscoped : 0..1, scoped : 0..1] :
        /\ r.outside => r.forward
        /\ r.timed => r.route \in {"found", "get"}
        /\ r.malformed => r.unscoped = 0 /\ r.scoped = 0 /\ ~r.timed
        /\ r.forward => ~r.timed /\ ~r.head}
GrpcRequests ==
    {r \in [timeout : {"none", "malformed", "zero", "set"}, encoded : BOOLEAN,
            to : {"method", "health", "reflection", "unknown"}, unscoped : 0..1, scoped : 0..1] :
        /\ r.encoded => r.to = "method"
        /\ r.timeout \in {"malformed", "zero"} => ~r.encoded /\ r.unscoped = 0 /\ r.scoped = 0}
HubTarget(g, audience, except) ==
    [gateway |-> g, audience |-> audience, room |-> "lobby", client |-> "c1", except |-> except]
HubTargets == {HubTarget("any", "room", {}), HubTarget("b", "all", {}), HubTarget("n", "client", {}), HubTarget("n", "all", {"c1"})}
Admitting == {[refuse |-> "close", max |-> 1, raw |-> FALSE], [refuse |-> "handshake", max |-> 1, raw |-> TRUE]}
Needs == [s \in {"a", "b", "c"} |-> CASE s = "a" -> <<"b", "c">> [] s = "b" -> <<"c">> [] OTHER -> <<>>]

Wiring == INSTANCE Graph WITH
    Apps <- ImportApps, Graphs <- ExportGraphs, Keys <- {K, KQ}, Wirings <- BuildWirings,
    ScopeGraphs <- ScopeCases, Plans <- FreezePlans, MaxCalls <- 3, MaxBindings <- 2, app <- v1,
    stage <- v2, nodes <- v3, path <- v4, selfImports <- v5, differing <- v6, placed <- v7,
    graph <- v1, wiringStage <- v2, pending <- v3, exported <- v4, visible <- v5, wiringErrors <- v6,
    wiring <- v1, buildStage <- v2, index <- v3, low <- v4, stack <- v5, frames <- v6,
    components <- v7, waiting <- v8, order <- v9, scoped <- v1, scopeStage <- v2, effective <- v3,
    needs <- v4, toSpread <- v5, closureScope <- v6, scopeErrors <- v7, plan <- v1, freezeStage <- v2,
    records <- v3, controllers <- v4, enhancers <- v5, paired <- v6, applied <- v7,
    frozenBindings <- v8, freezeErrors <- v9, node <- v1, handle <- v2, calls <- v3, written <- v4,
    marked <- v5

Start == INSTANCE Startup WITH
    Loads <- {"l1", "l2", "l3"},
    Loading <- [l \in {"l1", "l2", "l3"} |-> IF l = "l2" THEN "B" ELSE "A"], Abandons <- TRUE,
    ConnectGraphs <- ConnectCases, ServerPlans <- StartupPlans, MaxSettings <- 3, MaxClock <- 3,
    MaxPolls <- 4, Shapes <- ConfigShapes, MaxPasses <- 9, appPhase <- v1, published <- v2,
    store <- v3, loadLock <- v4, loadAt <- v5, extends <- v6, handle <- v7, hooked <- v8,
    stepPlan <- v9, destroyed <- v10, wired <- v1, step <- v2, at <- v3, attempts <- v4,
    wholePassed <- v5, answers <- v6, readied <- v7, ran <- v8, reason <- v9, settings <- v1,
    clockSet <- v2, spawnerSet <- v3, runtimeSet <- v4, traced <- v5, opening <- v6, queued <- v7,
    prepared <- v8, unfit <- v9, bound <- v10, shutBy <- v11, refusal <- v12, timed <- v1, clock <- v2,
    refuses <- v3, polls <- v4, refused <- v5, ended <- v6, lastPolled <- v7, shape <- v1, pass <- v2,
    patches <- v3, skipped <- v4, missing <- v5, held <- v6, found <- v7, consumed <- v8,
    settled <- v9, ok <- v10

Call == INSTANCE Calls WITH
    Stacks <- [guards : 0..2, interceptors : 0..2, handlers : 0..2, builds : BOOLEAN], TaskIds <- {t1},
    MaxAborts <- 2, Readers <- {r1, r2}, Slots <- {"a", "b", "c"}, NeedsOf <- Needs, MaxReads <- 1,
    enhancers <- v1, pstage <- v2, pat <- v3, raised <- v4, admitted <- v5, entered <- v6,
    handled <- v7, controllerBuilt <- v8, offered <- v9, reply <- v10, adapter <- v1, owner <- v2,
    future <- v3, outcome <- v4, record <- v5, over <- v6, aborted <- v7, aborts <- v8, task <- v9,
    end <- v10, down <- v11, path <- v1, got <- v2, looked <- v3, began <- v4, cells <- v5, held <- v6,
    released <- v7, execEnded <- v8, instances <- v9, lateBuilds <- v10, readsMade <- v11,
    answers <- v12

Exec == INSTANCE ExecHandle WITH
    Cancellers <- {k1, k2, k3}, Reporters <- {p1, p2}, Callbacks <- {c1, c2, c3}, Nesting <- c1,
    Nested <- d, RefReaders <- {r1, r2, r3}, traced <- v1, module <- v2, trace <- v3, dispatched <- v4,
    ended <- v5, released <- v6, cells <- v7, reason <- v8, fired <- v9, cancels <- v10, heard <- v11,
    outcome <- v12, waiting <- v13, reports <- v14, reported <- v15, taken <- v16, registered <- v17,
    ran <- v18, reads <- v19

Stage == INSTANCE HttpStages WITH
    SseConfigs <- [keepAlive : BOOLEAN, endEvent : BOOLEAN, handler : BOOLEAN], Every <- 2,
    MaxTicks <- 5, MaxWritten <- 3, Declares <- StageCalls, MaxCalls <- 3, Paths <- {"p", "q"},
    Routed <- {"p"}, Hosts <- EmbedHosts, Apps <- EmbedApps, NestedPrefixes <- EmbedPrefixes,
    RequestPaths <- EmbedPaths, MaxRequests <- 1, MaxSettings <- 1, sse <- v1, state <- v2, now <- v3,
    sleep <- v4, refused <- v5, frames <- v6, told <- v7, entries <- v1, stray <- v2, built <- v3,
    req <- v4, sub <- v5, steps <- v6, from <- v7, stack <- v8, adopted <- v9, wrote <- v10,
    ran <- v11, offered <- v12, passed <- v13, lacks <- v1, app <- v2, config <- v3, nestedAt <- v4,
    peerAddr <- v5, onMiss <- v6, forwards <- v7, shared <- v8, copies <- v9, prefix <- v10,
    prepared <- v11, answers <- v12

Rpc == INSTANCE Grpc WITH
    AdmitCalls <- {"a", "b", "c", "d"},
    AdmitOn <- [c \in {"a", "b", "c", "d"} |-> IF c = "d" THEN "k2" ELSE "k1"], ServerLimits <- 0..2,
    ConnectionLimits <- 0..2, GrpcRequests <- GrpcRequests, MaxGrpcItems <- 2, serverLimit <- v1,
    connLimit <- v2, tries <- v3, serverUsed <- v4, connUsed <- v5, grpcReq <- v1, grpcAt <- v2,
    grpcLeft <- v3, raced <- v4, grpcCancel <- v5, grpcTimer <- v6, grpcReply <- v7, callBody <- v8,
    grpcReport <- v9, trailers <- v10, overdue <- v11

Db == INSTANCE Databases WITH
    Policies <- [name : {"tokio", "smol"}, connects : BOOLEAN, within : {2}, retries : {0, 2}, backoff : {0, 1}],
    MaxNow <- 3, PoolCallers <- {k1, k2, k3}, Slots <- {c1, c2, c3, c4}, MaxSize <- 2,
    Replicas <- {r1, r2}, MaxStarts <- 2, Stores <- [engine : {"postgres", "sqlite"}, lib : {"sqlx"}],
    policy <- v1, now <- v2, shut <- v3, at <- v4, made <- v5, wakes <- v6, task <- v7, last <- v8,
    told <- v9, toldAt <- v10, conns <- v1, work <- v2, caller <- v3, uses <- v4, closing <- v5,
    window <- v6, store <- v1, step <- v2, outcome <- v3, session <- v4, lock <- v5, closureWork <- v6,
    version <- v7, applied <- v8, starts <- v9

Ws == INSTANCE WsServing WITH
    Msgs <- {m1, m2}, MaxInflight <- 1, MaxItems <- 1, HttpServers <- {"h1", "h2"},
    OwnServers <- {"o"}, Members <- {"c1"},
    GatewayOf <- [c \in {"c1"} |-> [path |-> "a", namespace |-> "n"]], Targets <- HubTargets,
    Adapters <- {"memory", "redis"}, Cap <- 1, MaxPublished <- 1, Conns <- {c1, c2},
    Admits <- Admitting, OpIds <- {"x"}, MaxOps <- 2, MaxNext <- 1, MaxInbox <- 1, gateway <- v1,
    arrived <- v2, inbox <- v3, task <- v4, reason <- v5, calls <- v6, handling <- v7, busy <- v8,
    items <- v9, out <- v10, conn <- v11, drain <- v12, asked <- v13, adapter <- v1, server <- v2,
    slot <- v3, inits <- v4, stream <- v5, delivery <- v6, rooms <- v7, published <- v8, owed <- v9,
    got <- v10, gate <- v1, app <- v2, drained <- v3, closing <- v4, stage <- v5, decided <- v6,
    waiting <- v7, tasks <- v8, doomed <- v9, slots <- v10, members <- v11, connected <- v12,
    left <- v13, cut <- v14, opsConn <- v1, shut <- v2, draining <- v3, acked <- v4, running <- v5,
    opened <- v6, ops <- v7, opsInbox <- v8, handler <- v9, watch <- v10, clash <- v11

Http == INSTANCE HttpServing WITH
    HttpRequests <- HttpRequests, MaxBodyFrames <- 1, UpgradeHandlers <- 2, MaxInstalls <- 2,
    MaxListeners <- 2, Loops <- {l1, l2}, Conns <- {c1, c2}, request <- v1, at <- v2, around <- v3,
    left <- v4, path <- v5, polled <- v6, routing <- v7, cancel <- v8, timer <- v9, reply <- v10,
    report <- v11, body <- v12, served <- v1, life <- v2, begun <- v3, joined <- v4, released <- v5,
    listening <- v6, answering <- v7, slot <- v8, installs <- v9, serving <- v10, stop <- v11,
    stopped <- v12, finished <- v13, listeners <- v14, closed <- v15, unserved <- v1, draining <- v2,
    closing <- v3, serveFinished <- v4, running <- v5, loop <- v6, conn <- v7, servedBy <- v8,
    drainCall <- v9, closeCall <- v10

Hlth == INSTANCE Health WITH
    Probers <- {p1}, Bridge <- br, MaxRuns <- 2, Intervals <- {"every", "none"}, CapSpent <- TRUE,
    stopping <- v1, runs <- v2, slot <- v3, waiters <- v4, nextRun <- v5, prober <- v6, joined <- v7,
    report <- v8, lateJoin <- v9, answeredUp <- v10, generation <- v11, wakerHeld <- v12,
    notice <- v13, stopStep <- v14, interval <- v15, task <- v16, sawStopping <- v17, verdict <- v18,
    bridgeHook <- v19, status <- v20, drained <- v21

Dev == INSTANCE DevSupervisor WITH
    MaxEdits <- 3, MaxFaults <- 2, Binaries <- {"a", "b"}, held <- v1, source <- v2, unseen <- v3,
    watching <- v4, triggers <- v5, pc <- v6, stale <- v7, reading <- v8, path <- v9, tried <- v10,
    spare <- v11, running <- v12, job <- v13, handoff <- v14, up <- v15, failed <- v16, faults <- v17

\* The variables a part does not use keep one value.
Idle6 == v6 = "-" /\ v7 = "-" /\ v8 = "-" /\ v9 = "-" /\ v10 = "-" /\ v11 = "-" /\ v12 = "-" /\ v13 = "-" /\ v14 = "-" /\ v15 = "-" /\ v16 = "-" /\ v17 = "-" /\ v18 = "-" /\ v19 = "-" /\ v20 = "-" /\ v21 = "-"
Kept6 == UNCHANGED <<v6, v7, v8, v9, v10, v11, v12, v13, v14, v15, v16, v17, v18, v19, v20, v21>>
Idle7 == v7 = "-" /\ v8 = "-" /\ v9 = "-" /\ v10 = "-" /\ v11 = "-" /\ v12 = "-" /\ v13 = "-" /\ v14 = "-" /\ v15 = "-" /\ v16 = "-" /\ v17 = "-" /\ v18 = "-" /\ v19 = "-" /\ v20 = "-" /\ v21 = "-"
Kept7 == UNCHANGED <<v7, v8, v9, v10, v11, v12, v13, v14, v15, v16, v17, v18, v19, v20, v21>>
Idle8 == v8 = "-" /\ v9 = "-" /\ v10 = "-" /\ v11 = "-" /\ v12 = "-" /\ v13 = "-" /\ v14 = "-" /\ v15 = "-" /\ v16 = "-" /\ v17 = "-" /\ v18 = "-" /\ v19 = "-" /\ v20 = "-" /\ v21 = "-"
Kept8 == UNCHANGED <<v8, v9, v10, v11, v12, v13, v14, v15, v16, v17, v18, v19, v20, v21>>
Idle10 == v10 = "-" /\ v11 = "-" /\ v12 = "-" /\ v13 = "-" /\ v14 = "-" /\ v15 = "-" /\ v16 = "-" /\ v17 = "-" /\ v18 = "-" /\ v19 = "-" /\ v20 = "-" /\ v21 = "-"
Kept10 == UNCHANGED <<v10, v11, v12, v13, v14, v15, v16, v17, v18, v19, v20, v21>>
Idle11 == v11 = "-" /\ v12 = "-" /\ v13 = "-" /\ v14 = "-" /\ v15 = "-" /\ v16 = "-" /\ v17 = "-" /\ v18 = "-" /\ v19 = "-" /\ v20 = "-" /\ v21 = "-"
Kept11 == UNCHANGED <<v11, v12, v13, v14, v15, v16, v17, v18, v19, v20, v21>>
Idle12 == v12 = "-" /\ v13 = "-" /\ v14 = "-" /\ v15 = "-" /\ v16 = "-" /\ v17 = "-" /\ v18 = "-" /\ v19 = "-" /\ v20 = "-" /\ v21 = "-"
Kept12 == UNCHANGED <<v12, v13, v14, v15, v16, v17, v18, v19, v20, v21>>
Idle13 == v13 = "-" /\ v14 = "-" /\ v15 = "-" /\ v16 = "-" /\ v17 = "-" /\ v18 = "-" /\ v19 = "-" /\ v20 = "-" /\ v21 = "-"
Kept13 == UNCHANGED <<v13, v14, v15, v16, v17, v18, v19, v20, v21>>
Idle14 == v14 = "-" /\ v15 = "-" /\ v16 = "-" /\ v17 = "-" /\ v18 = "-" /\ v19 = "-" /\ v20 = "-" /\ v21 = "-"
Kept14 == UNCHANGED <<v14, v15, v16, v17, v18, v19, v20, v21>>
Idle15 == v15 = "-" /\ v16 = "-" /\ v17 = "-" /\ v18 = "-" /\ v19 = "-" /\ v20 = "-" /\ v21 = "-"
Kept15 == UNCHANGED <<v15, v16, v17, v18, v19, v20, v21>>
Idle16 == v16 = "-" /\ v17 = "-" /\ v18 = "-" /\ v19 = "-" /\ v20 = "-" /\ v21 = "-"
Kept16 == UNCHANGED <<v16, v17, v18, v19, v20, v21>>
Idle18 == v18 = "-" /\ v19 = "-" /\ v20 = "-" /\ v21 = "-"
Kept18 == UNCHANGED <<v18, v19, v20, v21>>
Idle20 == v20 = "-" /\ v21 = "-"
Kept20 == UNCHANGED <<v20, v21>>

Init ==
    \/ part = "imports" /\ Wiring!ImportsIdle /\ Idle8
    \/ part = "visibility" /\ Wiring!VisibilityIdle /\ Idle7
    \/ part = "build order" /\ Wiring!BuildOrderIdle /\ Idle10
    \/ part = "scopes" /\ Wiring!ScopesIdle /\ Idle8
    \/ part = "freeze" /\ Wiring!FreezeIdle /\ Idle10
    \/ part = "loads" /\ Start!LoadsInit /\ Idle11
    \/ part = "registration" /\ Wiring!RegInit /\ Idle6
    \/ part = "connect" /\ Start!ConnectInit /\ Idle10
    \/ part = "startup" /\ Start!StartupInit /\ Idle13
    \/ part = "bounds" /\ Start!BoundsInit /\ Idle8
    \/ part = "pipeline" /\ Call!PipelineInit /\ Idle11
    \/ part = "execution" /\ Exec!OpenExecution /\ Idle20
    \/ part = "cancel" /\ Exec!OpenExecution /\ Idle20
    \/ part = "stream end" /\ Exec!OpenExecution /\ Idle20
    \/ part = "sse" /\ Stage!SseInit /\ Idle8
    \/ part = "pre-dispatch" /\ Stage!PreInit /\ Idle14
    \/ part = "embedding" /\ Stage!EmbedInit /\ Idle13
    \/ part = "admission" /\ Rpc!AdmitInit /\ Idle6
    \/ part = "config" /\ Start!ReadInit /\ Idle11
    \/ part = "create" /\ Db!CreateInit /\ Idle11
    \/ part = "ws message" /\ Ws!MsgInit /\ Idle14
    \/ part = "hub" /\ Ws!HubInit /\ Idle11
    \/ part = "ws" /\ Ws!AcceptInit /\ Idle15
    \/ part = "graphql" /\ Ws!GqlInit /\ Idle12
    \/ part = "http call" /\ Http!HttpInit /\ Idle13
    \/ part = "http servers" /\ Http!ServersInit /\ Idle16
    \/ part = "hyper" /\ Http!HyperInit /\ Idle11
    \/ part = "grpc call" /\ Rpc!GrpcInit /\ Idle12
    \/ part = "health" /\ Hlth!HealthInit
    \/ part = "diesel" /\ Db!PoolInit /\ Idle7
    \/ part = "migrations" /\ Db!MigrationsInit /\ Idle10
    \/ part = "tasks" /\ Call!TasksInit /\ Idle12
    \/ part = "resolution" /\ Call!ResolutionInit /\ Idle13
    \/ part = "dev" /\ Dev!DevInit /\ Idle18

Next ==
    /\ UNCHANGED part
    /\ \/ part = "imports" /\ Wiring!ImportsNext /\ Kept8
       \/ part = "visibility" /\ Wiring!VisibilityNext /\ Kept7
       \/ part = "build order" /\ Wiring!BuildOrderNext /\ Kept10
       \/ part = "scopes" /\ Wiring!ScopesNext /\ Kept8
       \/ part = "freeze" /\ Wiring!FreezeNext /\ Kept10
       \/ part = "loads" /\ Start!LoadsNext /\ Kept11
       \/ part = "registration" /\ Wiring!RegNext /\ Kept6
       \/ part = "connect" /\ Start!ConnectNext /\ Kept10
       \/ part = "startup" /\ Start!StartupNext /\ Kept13
       \/ part = "bounds" /\ Start!BoundsNext /\ Kept8
       \/ part = "pipeline" /\ Call!PipelineNext /\ Kept11
       \/ part = "execution" /\ (Exec!HolderNext \/ Exec!ReadNext) /\ Kept20
       \/ part = "cancel" /\ Exec!CancelNext /\ Kept20
       \/ part = "stream end" /\ Exec!StreamNext /\ Kept20
       \/ part = "sse" /\ Stage!SseNext /\ Kept8
       \/ part = "pre-dispatch" /\ Stage!PreNext /\ Kept14
       \/ part = "embedding" /\ Stage!EmbedNext /\ Kept13
       \/ part = "admission" /\ Rpc!AdmitNext /\ Kept6
       \/ part = "config" /\ Start!Pass /\ Kept11
       \/ part = "create" /\ Db!CreateNext /\ Kept11
       \/ part = "ws message" /\ Ws!MsgNext /\ Kept14
       \/ part = "hub" /\ Ws!HubNext /\ Kept11
       \/ part = "ws" /\ (Ws!AcceptNext /\ Ws!GateKept) /\ Kept15
       \/ part = "graphql" /\ Ws!GqlNext /\ Kept12
       \/ part = "http call" /\ Http!HttpNext /\ Kept13
       \/ part = "http servers" /\ Http!ServersNext /\ Kept16
       \/ part = "hyper" /\ Http!HyperNext /\ Kept11
       \/ part = "grpc call" /\ Rpc!GrpcNext /\ Kept12
       \/ part = "health" /\ Hlth!HealthNext
       \/ part = "diesel" /\ Db!DieselPoolNext /\ Kept7
       \/ part = "migrations" /\ Db!MigrationsNext /\ Kept10
       \/ part = "tasks" /\ Call!TasksNext /\ Kept12
       \/ part = "resolution" /\ Call!ResolutionNext /\ Kept13
       \/ part = "dev" /\ Dev!DevNext /\ Kept18

Spec == Init /\ [][Next]_vars

\* What the graph's phases report and keep is what was declared.  Imports: each
\* module is placed once after what it imports, its settings compared with what
\* another import set, and it inherits from the nearest module.  Visibility: a
\* read is refused exactly when no module gives it, and the two walks of the
\* re-exports agree.  BuildOrder: tangles are found and the connect order
\* follows the reads.  Scopes: nothing of an execution is built at connect, an
\* input is read only where it is seeded, and each misuse is reported once.
\* Freeze: marks follow their records and overrides replace what they name.
\* Registration: each builder still waited for is reported, and each mark names
\* its record.
GraphWired ==
    /\ part = "imports" => Wiring!PlacedOnce /\ Wiring!SettingsCompared /\ Wiring!InheritedNearest
    /\ part = "visibility" => Wiring!VisibleExact /\ Wiring!ReexportsAgree
    /\ part = "build order" => Wiring!TanglesFound /\ Wiring!ConnectOrderSound
    /\ part = "scopes" => Wiring!NoExecutionAtConnect /\ Wiring!InputsSeeded /\ Wiring!ReportedOnce
    /\ part = "freeze" => Wiring!MarksFollow /\ Wiring!OverridesServe /\ Wiring!FailuresReported
    /\ part = "registration" => Wiring!WaitsReported /\ Wiring!MarksNameTheirRecords

\* Starting up fails whole or not at all, and says so.  Loads: an instance is
\* the store's own until its load commits, is connected unless its load was
\* dropped, and is destroyed in reverse.  Connect, DbCreate, Bounds: a refusal
\* is told as one, a bound passed as a bound.  Startup: one clock bounds every
\* hook, and a refused app holds no server.  ConfigRead: each fault of the
\* configuration is reported once and none is made up.
StartupTold ==
    /\ part = "loads" => Start!StoreOwnInstances /\ Start!DestroyedInReverse /\ Start!ConnectedUnlessDropped /\ Start!LoadsSerial
    /\ part = "connect" => Start!ReadinessTold /\ Start!HooksInOrder
    /\ part = "startup" => Start!OneClock /\ Start!RefusedHoldsNothing
    /\ part = "bounds" => Start!CutTrue
    /\ part = "config" => Start!ReportExact
    /\ part = "create" => Db!CreateTold




================================================================================
