---------------------------- MODULE MCWaits ----------------------------
(***************************************************************************)
(* The parts of the system in which something waits: `part` picks one of   *)
(* the modules below, whose variables v1, v2, ... stand for, and every     *)
(* step is a step of that module. What waits must come to its end.         *)
(***************************************************************************)
EXTENDS Integers, Sequences, FiniteSets

CONSTANTS
    k, a, r1, r2, k1, k2, k3, c1, c2, c3, c4, t1, l1, l2, p1, br, owner, none

VARIABLES
    part, watch, v1, v2, v3, v4, v5, v6, v7, v8, v9, v10, v11, v12, v13, v14, v15, v16, v17, v18, v19,
    v20, v21, v22, v23, v24, v25, v26, v27, v28, v29, v30, v31, v32, v33, v34, v35, v36, v37, v38

vars ==
    <<part, watch, v1, v2, v3, v4, v5, v6, v7, v8, v9, v10, v11, v12, v13, v14, v15, v16, v17, v18, v19,
    v20, v21, v22, v23, v24, v25, v26, v27, v28, v29, v30, v31, v32, v33, v34, v35, v36, v37, v38>>

\* What the modules' sets of configurations range over.
Admitting == {[refuse |-> "close", max |-> 1, raw |-> FALSE], [refuse |-> "handshake", max |-> 1, raw |-> TRUE]}
Requests ==
    {r \in [head : BOOLEAN, route : {"found", "notFound", "upgrade"}, timed : BOOLEAN,
            forward : {FALSE}, outside : {FALSE}, malformed : {FALSE}, unscoped : 0..1, scoped : 0..1] :
        /\ r.outside => r.forward
        /\ r.unscoped + r.scoped <= 1
        /\ r.timed => r.route \in {"found", "get"}
        /\ r.malformed => r.unscoped = 0 /\ r.scoped = 0 /\ ~r.timed
        /\ r.forward => ~r.timed /\ ~r.head}
GrpcRequests ==
    {r \in [timeout : {"none", "malformed", "zero", "set"}, encoded : BOOLEAN,
            to : {"method", "health", "reflection", "unknown"}, unscoped : 0..1, scoped : 0..1] :
        /\ r.encoded => r.to = "method"
        /\ r.unscoped + r.scoped <= 1 /\ (r.to \in {"health", "reflection", "unknown"} => r.timeout # "set")
        /\ r.timeout \in {"malformed", "zero"} => ~r.encoded /\ r.unscoped = 0 /\ r.scoped = 0}
\* A server that stops with a call under way, and one whose calls end by themselves.
Serving == {[calls |-> IF stops THEN {r1} ELSE {r1, r2}, inflight |-> 2, backpressure |-> FALSE, stops |-> stops, items |-> 0] :
              stops \in BOOLEAN}
Needs == [s \in {"a", "b", "c"} |-> CASE s = "a" -> <<"b", "c">> [] s = "b" -> <<"c">> [] OTHER -> <<>>]

Sockets == INSTANCE SocketLinks WITH
    Clients <- {k}, Accepted <- {a}, MaxCloses <- 1, MaxFrames <- 0, RelayConns <- {c1, c2},
    MaxCuts <- 1, Senders <- {}, MaxSends <- 0, Peers <- {}, MaxReqs <- 0, epoch <- v1, ended <- v2,
    closing <- v3, link <- v4, half <- v5, peer <- v6, acceptor <- v1, stage <- v2, listed <- v3,
    slot <- v4, shut <- v5, eof <- v6, dirs <- v7, window <- v8, cutter <- v9, dropping <- v10,
    air <- v1, sends <- v2, buffer <- v3, byCaller <- v4, byServer <- v5, nextId <- v6, udp <- v7,
    queued <- v8, replied <- v9, answers <- v10, ledger <- v11, tcp <- v1, conn <- v2,
    registered <- v3, goaway <- v4, calls <- v5, lastId <- v6, held <- v7, received <- v8, server <- v9

Brokers == INSTANCE BrokerLinks WITH
    Requests <- {r1, r2}, MaxLosses <- 2, Askers <- {k1, k2}, MaxAttempts <- 3,
    UploadLinks <- {"rabbitmq", "mqtt"}, MaxItems <- 2, Unary <- {}, Streamed <- {}, phase <- v1,
    sub <- v2, lane <- v3, resub <- v4, inbox <- v5, holds <- v6, inbound <- v7, drainStep <- v8,
    call <- v9, outcome <- v10, losses <- v11, current <- v1, started <- v2, attempt <- v3,
    asker <- v4, socket <- v5, closes <- v6, uploadLink <- v1, sent <- v2, jobs <- v3, entry <- v4,
    request <- v5, control <- v6, replies <- v7, opening <- v8, serverHolds <- v9, routed <- v10,
    broker <- v1, lanes <- v2, table <- v3, side <- v4, handlers <- v5, writes <- v6, published <- v7,
    connection <- v8

Mqtt == INSTANCE MqttLinks WITH
    MqttReqs <- {r1, r2}, ChannelRoom <- 1, MaxDrops <- 0, MqttCalls <- {}, caller <- v1, link <- v2,
    incoming <- v3, channel <- v4, written <- v5, side <- v6, calls <- v7, closed <- v8, unsent <- v9,
    server <- v10, lane <- v11, publisher <- v1, turn <- v2, outgoing <- v3, toWrite <- v4,
    packets <- v5, pkids <- v6, waitingCalls <- v7, missed <- v8, clientLoop <- v9

Db == INSTANCE Databases WITH
    PoolCallers <- {k1, k2}, Slots <- {c1, c2, c3}, MaxSize <- 2, Replicas <- {r1, r2}, MaxStarts <- 2,
    Stores <- [engine : {"postgres", "sqlite"}, lib : {"sqlx"}], Policies <- {}, MaxNow <- 0,
    conns <- v1, work <- v2, caller <- v3, uses <- v4, closing <- v5, window <- v6, store <- v1,
    step <- v2, outcome <- v3, session <- v4, lock <- v5, closureWork <- v6, version <- v7,
    applied <- v8, starts <- v9, policy <- v1, now <- v2, shut <- v3, at <- v4, made <- v5,
    wakes <- v6, task <- v7, last <- v8, told <- v9, toldAt <- v10

Ws == INSTANCE WsServing WITH
    OpIds <- {"x"}, MaxOps <- 1, MaxNext <- 1, MaxInbox <- 1, Conns <- {c1, c2}, Admits <- Admitting,
    HttpServers <- {}, OwnServers <- {}, Members <- {}, GatewayOf <- <<>>, Targets <- {},
    Adapters <- {}, Cap <- 0, MaxPublished <- 0, Msgs <- {}, MaxInflight <- 0, MaxItems <- 0,
    opsConn <- v1, shut <- v2, draining <- v3, acked <- v4, running <- v5, opened <- v6, ops <- v7,
    opsInbox <- v8, handler <- v9, watch <- v10, clash <- v11, gate <- v1, app <- v2, drained <- v3,
    closing <- v4, stage <- v5, decided <- v6, waiting <- v7, tasks <- v8, doomed <- v9, slots <- v10,
    members <- v11, connected <- v12, left <- v13, cut <- v14, adapter <- v1, server <- v2, slot <- v3,
    inits <- v4, stream <- v5, delivery <- v6, rooms <- v7, published <- v8, owed <- v9, got <- v10,
    gateway <- v1, arrived <- v2, inbox <- v3, task <- v4, reason <- v5, calls <- v6, handling <- v7,
    busy <- v8, items <- v9, out <- v10, conn <- v11, drain <- v12, asked <- v13

Call == INSTANCE Calls WITH
    TaskIds <- {t1}, MaxAborts <- 2, Readers <- {r1, r2}, Slots <- {"a", "b", "c"}, NeedsOf <- Needs,
    MaxReads <- 1, Stacks <- {}, adapter <- v1, owner <- v2, future <- v3, outcome <- v4, record <- v5,
    over <- v6, aborted <- v7, aborts <- v8, task <- v9, end <- v10, down <- v11, path <- v1,
    got <- v2, looked <- v3, began <- v4, cells <- v5, held <- v6, released <- v7, execEnded <- v8,
    instances <- v9, lateBuilds <- v10, readsMade <- v11, answers <- v12, enhancers <- v1,
    pstage <- v2, pat <- v3, raised <- v4, admitted <- v5, entered <- v6, handled <- v7,
    controllerBuilt <- v8, offered <- v9, reply <- v10

Http == INSTANCE HttpServing WITH
    Loops <- {l1, l2}, Conns <- {c1, c2}, HttpRequests <- Requests, MaxBodyFrames <- 1,
    UpgradeHandlers <- 2, MaxInstalls <- 2, MaxListeners <- 2, unserved <- v1, draining <- v2,
    closing <- v3, serveFinished <- v4, running <- v5, loop <- v6, conn <- v7, servedBy <- v8,
    drainCall <- v9, closeCall <- v10, request <- v1, at <- v2, around <- v3, left <- v4, path <- v5,
    polled <- v6, routing <- v7, cancel <- v8, timer <- v9, reply <- v10, report <- v11, body <- v12,
    served <- v1, life <- v2, begun <- v3, joined <- v4, released <- v5, listening <- v6,
    answering <- v7, slot <- v8, installs <- v9, serving <- v10, stop <- v11, stopped <- v12,
    finished <- v13, listeners <- v14, closed <- v15

Hlth == INSTANCE Health WITH
    Probers <- {p1}, Bridge <- br, MaxRuns <- 2, Intervals <- {"every"}, CapSpent <- TRUE,
    stopping <- v1, runs <- v2, slot <- v3, waiters <- v4, nextRun <- v5, prober <- v6, joined <- v7,
    report <- v8, lateJoin <- v9, answeredUp <- v10, generation <- v11, wakerHeld <- v12,
    notice <- v13, stopStep <- v14, interval <- v15, task <- v16, sawStopping <- v17, verdict <- v18,
    bridgeHook <- v19, status <- v20, drained <- v21

Rpc == INSTANCE Grpc WITH
    GrpcRequests <- GrpcRequests, MaxGrpcItems <- 1, AdmitCalls <- {}, AdmitOn <- <<>>,
    ServerLimits <- {}, ConnectionLimits <- {}, grpcReq <- v1, grpcAt <- v2, grpcLeft <- v3,
    raced <- v4, grpcCancel <- v5, grpcTimer <- v6, grpcReply <- v7, callBody <- v8, grpcReport <- v9,
    trailers <- v10, overdue <- v11, serverLimit <- v1, connLimit <- v2, tries <- v3, serverUsed <- v4,
    connUsed <- v5

Dev == INSTANCE DevSupervisor WITH
    MaxEdits <- 3, MaxFaults <- 2, Binaries <- {"a", "b"}, held <- v1, source <- v2, unseen <- v3,
    watching <- v4, triggers <- v5, pc <- v6, stale <- v7, reading <- v8, path <- v9, tried <- v10,
    spare <- v11, running <- v12, job <- v13, handoff <- v14, up <- v15, failed <- v16, faults <- v17

Shut == INSTANCE Shutdown WITH
    Execs <- {}, Terminal <- {}, Handles <- {k}, Owner <- owner, None <- none, ServerCounts <- {1},
    NHooks <- 1, HasTimer <- FALSE, HasCap <- FALSE, WindowFits <- TRUE, phase <- v1, drainEnded <- v2,
    terminalRefused <- v3, exec <- v4, entries <- v5, linked <- v6, reason <- v7, cancelled <- v8,
    waiter <- v9, woken <- v10, drainAt <- v11, window <- v12, upgraded <- v13, counted <- v14,
    trigger <- v15, cause <- v16, fired <- v17, draining <- v18, release <- v19, servers <- v20,
    app <- v21, close <- v22, dropping <- v23, answer <- v24, runner <- v25, at <- v26, stage <- v27,
    cursor <- v28, cap <- v29, failures <- v30, drains <- v31, closes <- v32, closeErrs <- v33,
    outcome <- v34, hookStarts <- v35, closeStarts <- v36, closeFailed <- v37, drained <- v38

Server == INSTANCE RpcServer WITH
    Calls <- {r1, r2}, NoCall <- none, Arrived <- [c \in {r1, r2} |-> IF c = r1 THEN "req" ELSE "evt"],
    Id <- [c \in {r1, r2} |-> IF c = r1 THEN 1 ELSE 2], Unrouted <- {}, BadDeadline <- {},
    Deadlined <- {r1}, Misfits <- {}, Streaming <- {}, MaxQueued <- 1, Servers <- Serving,
    server <- v1, call <- v2, calls <- v3, serials <- v4, admitted <- v5, settling <- v6, serve <- v7,
    overflow <- v8, core <- v9, drain <- v10, close <- v11, ended <- v12

\* The variables a part does not use keep one value.
Idle7 == v7 = "-" /\ v8 = "-" /\ v9 = "-" /\ v10 = "-" /\ v11 = "-" /\ v12 = "-" /\ v13 = "-" /\ v14 = "-" /\ v15 = "-" /\ v16 = "-" /\ v17 = "-" /\ v18 = "-" /\ v19 = "-" /\ v20 = "-" /\ v21 = "-" /\ v22 = "-" /\ v23 = "-" /\ v24 = "-" /\ v25 = "-" /\ v26 = "-" /\ v27 = "-" /\ v28 = "-" /\ v29 = "-" /\ v30 = "-" /\ v31 = "-" /\ v32 = "-" /\ v33 = "-" /\ v34 = "-" /\ v35 = "-" /\ v36 = "-" /\ v37 = "-" /\ v38 = "-"
Kept7 == UNCHANGED <<v7, v8, v9, v10, v11, v12, v13, v14, v15, v16, v17, v18, v19, v20, v21, v22, v23, v24, v25, v26, v27, v28, v29, v30, v31, v32, v33, v34, v35, v36, v37, v38>>
Idle10 == v10 = "-" /\ v11 = "-" /\ v12 = "-" /\ v13 = "-" /\ v14 = "-" /\ v15 = "-" /\ v16 = "-" /\ v17 = "-" /\ v18 = "-" /\ v19 = "-" /\ v20 = "-" /\ v21 = "-" /\ v22 = "-" /\ v23 = "-" /\ v24 = "-" /\ v25 = "-" /\ v26 = "-" /\ v27 = "-" /\ v28 = "-" /\ v29 = "-" /\ v30 = "-" /\ v31 = "-" /\ v32 = "-" /\ v33 = "-" /\ v34 = "-" /\ v35 = "-" /\ v36 = "-" /\ v37 = "-" /\ v38 = "-"
Kept10 == UNCHANGED <<v10, v11, v12, v13, v14, v15, v16, v17, v18, v19, v20, v21, v22, v23, v24, v25, v26, v27, v28, v29, v30, v31, v32, v33, v34, v35, v36, v37, v38>>
Idle11 == v11 = "-" /\ v12 = "-" /\ v13 = "-" /\ v14 = "-" /\ v15 = "-" /\ v16 = "-" /\ v17 = "-" /\ v18 = "-" /\ v19 = "-" /\ v20 = "-" /\ v21 = "-" /\ v22 = "-" /\ v23 = "-" /\ v24 = "-" /\ v25 = "-" /\ v26 = "-" /\ v27 = "-" /\ v28 = "-" /\ v29 = "-" /\ v30 = "-" /\ v31 = "-" /\ v32 = "-" /\ v33 = "-" /\ v34 = "-" /\ v35 = "-" /\ v36 = "-" /\ v37 = "-" /\ v38 = "-"
Kept11 == UNCHANGED <<v11, v12, v13, v14, v15, v16, v17, v18, v19, v20, v21, v22, v23, v24, v25, v26, v27, v28, v29, v30, v31, v32, v33, v34, v35, v36, v37, v38>>
Idle12 == v12 = "-" /\ v13 = "-" /\ v14 = "-" /\ v15 = "-" /\ v16 = "-" /\ v17 = "-" /\ v18 = "-" /\ v19 = "-" /\ v20 = "-" /\ v21 = "-" /\ v22 = "-" /\ v23 = "-" /\ v24 = "-" /\ v25 = "-" /\ v26 = "-" /\ v27 = "-" /\ v28 = "-" /\ v29 = "-" /\ v30 = "-" /\ v31 = "-" /\ v32 = "-" /\ v33 = "-" /\ v34 = "-" /\ v35 = "-" /\ v36 = "-" /\ v37 = "-" /\ v38 = "-"
Kept12 == UNCHANGED <<v12, v13, v14, v15, v16, v17, v18, v19, v20, v21, v22, v23, v24, v25, v26, v27, v28, v29, v30, v31, v32, v33, v34, v35, v36, v37, v38>>
Idle13 == v13 = "-" /\ v14 = "-" /\ v15 = "-" /\ v16 = "-" /\ v17 = "-" /\ v18 = "-" /\ v19 = "-" /\ v20 = "-" /\ v21 = "-" /\ v22 = "-" /\ v23 = "-" /\ v24 = "-" /\ v25 = "-" /\ v26 = "-" /\ v27 = "-" /\ v28 = "-" /\ v29 = "-" /\ v30 = "-" /\ v31 = "-" /\ v32 = "-" /\ v33 = "-" /\ v34 = "-" /\ v35 = "-" /\ v36 = "-" /\ v37 = "-" /\ v38 = "-"
Kept13 == UNCHANGED <<v13, v14, v15, v16, v17, v18, v19, v20, v21, v22, v23, v24, v25, v26, v27, v28, v29, v30, v31, v32, v33, v34, v35, v36, v37, v38>>
Idle15 == v15 = "-" /\ v16 = "-" /\ v17 = "-" /\ v18 = "-" /\ v19 = "-" /\ v20 = "-" /\ v21 = "-" /\ v22 = "-" /\ v23 = "-" /\ v24 = "-" /\ v25 = "-" /\ v26 = "-" /\ v27 = "-" /\ v28 = "-" /\ v29 = "-" /\ v30 = "-" /\ v31 = "-" /\ v32 = "-" /\ v33 = "-" /\ v34 = "-" /\ v35 = "-" /\ v36 = "-" /\ v37 = "-" /\ v38 = "-"
Kept15 == UNCHANGED <<v15, v16, v17, v18, v19, v20, v21, v22, v23, v24, v25, v26, v27, v28, v29, v30, v31, v32, v33, v34, v35, v36, v37, v38>>
Idle16 == v16 = "-" /\ v17 = "-" /\ v18 = "-" /\ v19 = "-" /\ v20 = "-" /\ v21 = "-" /\ v22 = "-" /\ v23 = "-" /\ v24 = "-" /\ v25 = "-" /\ v26 = "-" /\ v27 = "-" /\ v28 = "-" /\ v29 = "-" /\ v30 = "-" /\ v31 = "-" /\ v32 = "-" /\ v33 = "-" /\ v34 = "-" /\ v35 = "-" /\ v36 = "-" /\ v37 = "-" /\ v38 = "-"
Kept16 == UNCHANGED <<v16, v17, v18, v19, v20, v21, v22, v23, v24, v25, v26, v27, v28, v29, v30, v31, v32, v33, v34, v35, v36, v37, v38>>
Idle18 == v18 = "-" /\ v19 = "-" /\ v20 = "-" /\ v21 = "-" /\ v22 = "-" /\ v23 = "-" /\ v24 = "-" /\ v25 = "-" /\ v26 = "-" /\ v27 = "-" /\ v28 = "-" /\ v29 = "-" /\ v30 = "-" /\ v31 = "-" /\ v32 = "-" /\ v33 = "-" /\ v34 = "-" /\ v35 = "-" /\ v36 = "-" /\ v37 = "-" /\ v38 = "-"
Kept18 == UNCHANGED <<v18, v19, v20, v21, v22, v23, v24, v25, v26, v27, v28, v29, v30, v31, v32, v33, v34, v35, v36, v37, v38>>
Idle22 == v22 = "-" /\ v23 = "-" /\ v24 = "-" /\ v25 = "-" /\ v26 = "-" /\ v27 = "-" /\ v28 = "-" /\ v29 = "-" /\ v30 = "-" /\ v31 = "-" /\ v32 = "-" /\ v33 = "-" /\ v34 = "-" /\ v35 = "-" /\ v36 = "-" /\ v37 = "-" /\ v38 = "-"
Kept22 == UNCHANGED <<v22, v23, v24, v25, v26, v27, v28, v29, v30, v31, v32, v33, v34, v35, v36, v37, v38>>

Init ==
    \/ part = "tcp connections" /\ watch \in 1..2 /\ Sockets!TcpConnInit /\ Idle7
    \/ part = "redis" /\ watch \in 1..1 /\ Brokers!RedisInit /\ Idle12
    \/ part = "rabbit connects" /\ watch \in 1..1 /\ Brokers!RabbitConnectInit /\ Idle7
    \/ part = "uploads" /\ watch \in 1..1 /\ Brokers!UploadInit /\ Idle11
    \/ part = "mqtt" /\ watch \in 1..1 /\ Mqtt!MqttInit /\ Idle12
    \/ part = "relay" /\ watch \in 1..1 /\ Sockets!RelayInit /\ Idle11
    \/ part = "diesel" /\ watch \in 1..1 /\ Db!PoolInit /\ Idle7
    \/ part = "graphql" /\ watch \in 1..1 /\ Ws!GqlInit /\ Idle12
    \/ part = "ws" /\ watch \in 1..1 /\ Ws!AcceptInit /\ Idle15
    \/ part = "tasks" /\ watch \in 1..1 /\ Call!TasksInit /\ Idle12
    \/ part = "resolution" /\ watch \in 1..1 /\ Call!ResolutionInit /\ Idle13
    \/ part = "hyper" /\ watch \in 1..2 /\ Http!HyperInit /\ Idle11
    \/ part = "health" /\ watch \in 1..1 /\ Hlth!HealthInit /\ Idle22
    \/ part = "http call" /\ watch \in 1..1 /\ Http!HttpInit /\ Idle13
    \/ part = "http servers" /\ watch \in 1..2 /\ Http!ServersInit /\ Idle16
    \/ part = "grpc call" /\ watch \in 1..3 /\ Rpc!GrpcInit /\ Idle12
    \/ part = "migrations" /\ watch \in 1..1 /\ Db!MigrationsInit /\ Idle10
    \/ part = "dev" /\ watch \in 1..1 /\ Dev!DevInit /\ Idle18
    \/ part = "shutdown" /\ watch \in 1..3 /\ Shut!Init
    \/ part = "rpc server" /\ watch \in 1..2 /\ Server!ServerInit /\ Idle13

Next ==
    /\ UNCHANGED <<part, watch>>
    /\ \/ part = "tcp connections" /\ Sockets!TcpConnNext /\ Kept7
       \/ part = "redis" /\ Brokers!RedisNext /\ Kept12
       \/ part = "rabbit connects" /\ Brokers!RabbitConnectNext /\ Kept7
       \/ part = "uploads" /\ Brokers!UploadNext /\ Kept11
       \/ part = "mqtt" /\ Mqtt!MqttNext /\ Kept12
       \/ part = "relay" /\ Sockets!RelayNext /\ Kept11
       \/ part = "diesel" /\ Db!DieselPoolNext /\ Kept7
       \/ part = "graphql" /\ Ws!GqlNext /\ Kept12
       \/ part = "ws" /\ (Ws!AcceptNext /\ Ws!GateKept) /\ Kept15
       \/ part = "tasks" /\ Call!TasksNext /\ Kept12
       \/ part = "resolution" /\ Call!ResolutionNext /\ Kept13
       \/ part = "hyper" /\ Http!HyperNext /\ Kept11
       \/ part = "health" /\ Hlth!HealthNext /\ Kept22
       \/ part = "http call" /\ Http!HttpNext /\ Kept13
       \/ part = "http servers" /\ Http!ServersNext /\ Kept16
       \/ part = "grpc call" /\ Rpc!GrpcNext /\ Kept12
       \/ part = "migrations" /\ Db!MigrationsNext /\ Kept10
       \/ part = "dev" /\ Dev!DevNext /\ Kept18
       \/ part = "shutdown" /\ Shut!Next
       \/ part = "rpc server" /\ (Server!ServerNext /\ UNCHANGED v1) /\ Kept13

Spec == Init /\ [][Next]_vars

\* The fairness of each module's own specification, one step of each part in a
\* formula: as `part` never changes, fairness of the disjunction is fairness of
\* each step of it.
Fair1 ==
    /\ UNCHANGED <<part, watch>>
    /\ \/ part = "tcp connections" /\ Sockets!LaneEnded(k) /\ Kept7
       \/ part = "redis" /\ Brokers!OnMessage /\ Kept12
       \/ part = "rabbit connects" /\ Brokers!Ask(k1) /\ Kept7
       \/ part = "uploads" /\ Brokers!ClientWrites /\ Kept11
       \/ part = "mqtt" /\ Mqtt!ConnAck /\ Kept12
       \/ part = "relay" /\ Sockets!Cutter /\ Kept11
       \/ part = "diesel" /\ Db!CloseRuns /\ Kept7
       \/ part = "graphql" /\ Ws!OnDisconnect /\ Kept12
       \/ part = "ws" /\ (Ws!ConnStep(c1) /\ Ws!GateKept) /\ Kept15
       \/ part = "tasks" /\ Call!RunsOn(t1) /\ Kept12
       \/ part = "resolution" /\ Call!ReadSteps(r1) /\ Kept13
       \/ part = "hyper" /\ (Http!RunEnds \/ Http!RunFails) /\ Kept11
       \/ part = "health" /\ Hlth!StopBump /\ Kept22
       \/ part = "http call" /\ Http!Respond /\ Kept13
       \/ part = "http servers" /\ Http!ServePoll /\ Kept16
       \/ part = "grpc call" /\ Rpc!PipelinePending /\ Kept12
       \/ part = "migrations" /\ (Db!RunMigrations(r1) \/ Db!Unlock(r1) \/ Db!Unlocked(r1)) /\ Kept10
       \/ part = "dev" /\ Dev!Changed /\ Kept18
       \/ part = "shutdown" /\ Shut!SeqStep
       \/ part = "rpc server" /\ (Server!LoopStep /\ UNCHANGED v1) /\ Kept13
Fair2 ==
    /\ UNCHANGED <<part, watch>>
    /\ \/ part = "tcp connections" /\ Sockets!LaneEnded(a) /\ Kept7
       \/ part = "redis" /\ Brokers!StreamOver /\ Kept12
       \/ part = "rabbit connects" /\ Brokers!Ask(k2) /\ Kept7
       \/ part = "uploads" /\ Brokers!ExpireCancelled /\ Kept11
       \/ part = "mqtt" /\ Mqtt!WriteRequest /\ Kept12
       \/ part = "relay" /\ Sockets!RelayThread(c1) /\ Kept11
       \/ part = "graphql" /\ Ws!CloseCancels /\ Kept12
       \/ part = "ws" /\ (Ws!ConnStep(c2) /\ Ws!GateKept) /\ Kept15
       \/ part = "resolution" /\ Call!ReadSteps(r2) /\ Kept13
       \/ part = "hyper" /\ Http!DrainReturns /\ Kept11
       \/ part = "health" /\ Hlth!StopWake /\ Kept22
       \/ part = "http call" /\ Http!Abandon /\ Kept13
       \/ part = "http servers" /\ Http!FireTakes /\ Kept16
       \/ part = "grpc call" /\ Rpc!GrpcGraceEnds /\ Kept12
       \/ part = "migrations" /\ (Db!RunMigrations(r2) \/ Db!Unlock(r2) \/ Db!Unlocked(r2)) /\ Kept10
       \/ part = "dev" /\ Dev!Supervise /\ Kept18
       \/ part = "shutdown" /\ Shut!ServeRuns
       \/ part = "rpc server" /\ (Server!LinkEndsOnDrain /\ UNCHANGED v1) /\ Kept13
Fair3 ==
    /\ UNCHANGED <<part, watch>>
    /\ \/ part = "tcp connections" /\ Sockets!GraceBegins(k) /\ Kept7
       \/ part = "redis" /\ Brokers!Reconnect /\ Kept12
       \/ part = "rabbit connects" /\ Brokers!AnsweredTo(k1) /\ Kept7
       \/ part = "uploads" /\ Brokers!RouteReply /\ Kept11
       \/ part = "mqtt" /\ Mqtt!ReadPacket /\ Kept12
       \/ part = "relay" /\ Sockets!RelayThread(c2) /\ Kept11
       \/ part = "graphql" /\ Ws!WatchCloses /\ Kept12
       \/ part = "ws" /\ ((Ws!AbortAll \/ Ws!TableClosed) /\ Ws!GateKept) /\ Kept15
       \/ part = "hyper" /\ Http!GraceOver /\ Kept11
       \/ part = "health" /\ Hlth!NoticePoll /\ Kept22
       \/ part = "http call" /\ Http!Finish /\ Kept13
       \/ part = "http servers" /\ Http!StoppingPoll /\ Kept16
       \/ part = "grpc call" /\ Rpc!WriteCall /\ Kept12
       \/ part = "migrations" /\ (Db!MigratorReads(r1) \/ Db!MigratorApplies(r1) \/ Db!ClosureEnds(r1)) /\ Kept10
       \/ part = "dev" /\ (Dev!JobStops \/ Dev!JobSpawns) /\ Kept18
       \/ part = "shutdown" /\ Shut!ClaimRuns(k)
       \/ part = "rpc server" /\ (Server!LinkDrained /\ UNCHANGED v1) /\ Kept13
Fair4 ==
    /\ UNCHANGED <<part, watch>>
    /\ \/ part = "tcp connections" /\ Sockets!GraceBegins(a) /\ Kept7
       \/ part = "redis" /\ Brokers!Unsubscribed /\ Kept12
       \/ part = "rabbit connects" /\ Brokers!AnsweredTo(k2) /\ Kept7
       \/ part = "uploads" /\ Brokers!DeliverOpen /\ Kept11
       \/ part = "mqtt" /\ Mqtt!EndIfIdle /\ Kept12
       \/ part = "graphql" /\ Ws!WatchCancels /\ Kept12
       \/ part = "hyper" /\ Http!CloseReturned /\ Kept11
       \/ part = "health" /\ Hlth!TaskAborted /\ Kept22
       \/ part = "http call" /\ Http!PollCut /\ Kept13
       \/ part = "http servers" /\ Http!Closed /\ Kept16
       \/ part = "grpc call" /\ Rpc!PollExpired /\ Kept12
       \/ part = "migrations" /\ (Db!MigratorReads(r2) \/ Db!MigratorApplies(r2) \/ Db!ClosureEnds(r2)) /\ Kept10
       \/ part = "shutdown" /\ Shut!ClaimRuns(owner)
       \/ part = "rpc server" /\ (Server!DrainSettled /\ UNCHANGED v1) /\ Kept13
Fair5 ==
    /\ UNCHANGED <<part, watch>>
    /\ \/ part = "tcp connections" /\ Sockets!GraceEnds(k) /\ Kept7
       \/ part = "redis" /\ Brokers!EndIfIdle /\ Kept12
       \/ part = "rabbit connects" /\ Brokers!Answer(1, FALSE) /\ Kept7
       \/ part = "uploads" /\ Brokers!OnControl /\ Kept11
       \/ part = "mqtt" /\ Mqtt!LoopEnds /\ Kept12
       \/ part = "graphql" /\ Ws!RunStep(1) /\ Kept12
       \/ part = "hyper" /\ Http!LoopStep(l1) /\ Kept11
       \/ part = "health" /\ Hlth!BridgeJoined /\ Kept22
       \/ part = "http call" /\ Http!WholeWritten /\ Kept13
       \/ part = "http servers" /\ Http!ListenerDrops /\ Kept16
       \/ part = "grpc call" /\ Rpc!PollCall /\ Kept12
       \/ part = "migrations" /\ Db!OrphanEnds(r1) /\ Kept10
       \/ part = "shutdown" /\ Shut!ReleaseRuns(k)
       \/ part = "rpc server" /\ (Server!TaskStep(r1) /\ UNCHANGED v1) /\ Kept13
Fair6 ==
    /\ UNCHANGED <<part, watch>>
    /\ \/ part = "tcp connections" /\ Sockets!GraceEnds(a) /\ Kept7
       \/ part = "redis" /\ Brokers!ReplyLast(r1) /\ Kept12
       \/ part = "rabbit connects" /\ Brokers!Answer(2, FALSE) /\ Kept7
       \/ part = "mqtt" /\ Mqtt!LaneArm(r1) /\ Kept12
       \/ part = "hyper" /\ Http!LoopStep(l2) /\ Kept11
       \/ part = "health" /\ Hlth!BridgeWrites /\ Kept22
       \/ part = "http call" /\ Http!DrainWakes /\ Kept13
       \/ part = "http servers" /\ Http!ListenersPoll /\ Kept16
       \/ part = "grpc call" /\ Rpc!EndedBodyDropped /\ Kept12
       \/ part = "migrations" /\ Db!OrphanEnds(r2) /\ Kept10
       \/ part = "shutdown" /\ Shut!ReleaseRuns(owner)
       \/ part = "rpc server" /\ (Server!TaskStep(r2) /\ UNCHANGED v1) /\ Kept13
Fair7 ==
    /\ UNCHANGED <<part, watch>>
    /\ \/ part = "tcp connections" /\ Sockets!CloseWaitsWriters /\ Kept7
       \/ part = "redis" /\ Brokers!ReplyLast(r2) /\ Kept12
       \/ part = "rabbit connects" /\ Brokers!Answer(3, FALSE) /\ Kept7
       \/ part = "mqtt" /\ Mqtt!LaneArm(r2) /\ Kept12
       \/ part = "hyper" /\ Http!Handshaken(c1) /\ Kept11
       \/ part = "health" /\ Hlth!BridgeHook /\ Kept22
       \/ part = "http call" /\ Http!EndedDropped /\ Kept13
       \/ part = "http servers" /\ Http!HostEnds /\ Kept16
       \/ part = "grpc call" /\ Rpc!GrpcTimerPasses /\ Kept12
       \/ part = "rpc server" /\ (Server!Elapse(r1) /\ UNCHANGED v1) /\ Kept13
Fair8 ==
    /\ UNCHANGED <<part, watch>>
    /\ \/ part = "tcp connections" /\ Sockets!CloseDone /\ Kept7
       \/ part = "rabbit connects" /\ Brokers!AbortLands(1) /\ Kept7
       \/ part = "mqtt" /\ Mqtt!LaneRetry(r1) /\ Kept12
       \/ part = "hyper" /\ Http!Handshaken(c2) /\ Kept11
       \/ part = "health" /\ Hlth!DrainWrites /\ Kept22
       \/ part = "rpc server" /\ (Server!Elapse(r2) /\ UNCHANGED v1) /\ Kept13
Fair9 ==
    /\ UNCHANGED <<part, watch>>
    /\ \/ part = "rabbit connects" /\ Brokers!AbortLands(2) /\ Kept7
       \/ part = "mqtt" /\ Mqtt!LaneRetry(r2) /\ Kept12
       \/ part = "hyper" /\ Http!CutEnds(c1) /\ Kept11
       \/ part = "rpc server" /\ (Server!Abort(r1) /\ UNCHANGED v1) /\ Kept13
Fair10 ==
    /\ UNCHANGED <<part, watch>>
    /\ \/ part = "rabbit connects" /\ Brokers!AbortLands(3) /\ Kept7
       \/ part = "mqtt" /\ Mqtt!LaneAwait(r1) /\ Kept12
       \/ part = "hyper" /\ Http!CutEnds(c2) /\ Kept11
       \/ part = "rpc server" /\ (Server!Abort(r2) /\ UNCHANGED v1) /\ Kept13
Fair11 ==
    /\ UNCHANGED <<part, watch>>
    /\ \/ part = "mqtt" /\ Mqtt!LaneAwait(r2) /\ Kept12
Strong1 ==
    /\ UNCHANGED <<part, watch>>
    /\ \/ part = "redis" /\ Brokers!Resubscribed(TRUE) /\ Kept12

FairSpec ==
    Spec /\ WF_vars(Fair1) /\ WF_vars(Fair2) /\ WF_vars(Fair3) /\ WF_vars(Fair4) /\ WF_vars(Fair5)
         /\ WF_vars(Fair6) /\ WF_vars(Fair7) /\ WF_vars(Fair8) /\ WF_vars(Fair9) /\ WF_vars(Fair10)
         /\ WF_vars(Fair11) /\ SF_vars(Strong1)

WaitsEndFrom ==
    \/ part = "rabbit connects" /\ Brokers!Asking(k1)
    \/ part = "redis" /\ Brokers!Draining
    \/ part = "uploads" /\ Brokers!CancelHeld
    \/ part = "mqtt" /\ Mqtt!WantsRoom(r1)
    \/ part = "tcp connections" /\ watch = 1 /\ Sockets!ClosedOver(k)
    \/ part = "tcp connections" /\ watch = 2 /\ Sockets!ClosedOver(a)
    \/ part = "hyper" /\ watch = 1 /\ Http!CloseBegun
    \/ part = "hyper" /\ watch = 2 /\ Http!DrainAlone
    \/ part = "http servers" /\ watch = 1 /\ Http!HostWaits
    \/ part = "http servers" /\ watch = 2 /\ Http!ServerClosing
    \/ part = "http call" /\ Http!DrainedCall
    \/ part = "grpc call" /\ watch = 1 /\ Rpc!DeadlineArmed
    \/ part = "grpc call" /\ watch = 2 /\ Rpc!DrainedUnanswered
    \/ part = "grpc call" /\ watch = 3 /\ Rpc!DrainedStream
    \/ part = "ws" /\ Ws!CloseWaits
    \/ part = "graphql" /\ Ws!ConnectionGone
    \/ part = "health" /\ Hlth!StopDone
    \/ part = "tasks" /\ Call!SetDropped(t1)
    \/ part = "resolution" /\ Call!ReadBegun(r1)
    \/ part = "migrations" /\ Db!EndedHolding(r1)
    \/ part = "relay" /\ Sockets!Cutting
    \/ part = "shutdown" /\ watch = 1 /\ Shut!Waits(k)
    \/ part = "shutdown" /\ watch = 2 /\ Shut!Waits(owner)
    \/ part = "shutdown" /\ watch = 3 /\ Shut!ServingFired
    \/ part = "rpc server" /\ watch = 1 /\ Server!DrainWaits
    \/ part = "rpc server" /\ watch = 2 /\ Server!DeadlineRuns(r1)
    \/ part = "diesel" /\ Db!PoolClosing
    \/ part = "dev" /\ ~Dev!CaughtUp
WaitsEndTo ==
    \/ part = "rabbit connects" /\ ~Brokers!Asking(k1)
    \/ part = "redis" /\ Brokers!StreamEnded
    \/ part = "uploads" /\ Brokers!EntryGone
    \/ part = "mqtt" /\ Mqtt!ReplyOver(r1)
    \/ part = "tcp connections" /\ watch = 1 /\ Sockets!SocketLetGo(k)
    \/ part = "tcp connections" /\ watch = 2 /\ Sockets!SocketLetGo(a)
    \/ part = "hyper" /\ watch = 1 /\ Http!CloseOver
    \/ part = "hyper" /\ watch = 2 /\ ~Http!DrainAlone
    \/ part = "http servers" /\ watch = 1 /\ Http!HostTaken
    \/ part = "http servers" /\ watch = 2 /\ ~Http!ServerClosing
    \/ part = "http call" /\ Http!CallOver
    \/ part = "grpc call" /\ watch = 1 /\ Rpc!DeadlineMet
    \/ part = "grpc call" /\ watch = 2 /\ ~Rpc!Piping
    \/ part = "grpc call" /\ watch = 3 /\ Rpc!StreamOver
    \/ part = "ws" /\ Ws!CloseReturned
    \/ part = "graphql" /\ Ws!OperationsOver
    \/ part = "health" /\ Hlth!NoticeHeard
    \/ part = "tasks" /\ Call!TaskOver(t1)
    \/ part = "resolution" /\ ~Call!ReadBegun(r1)
    \/ part = "migrations" /\ ~Db!EndedHolding(r1)
    \/ part = "relay" /\ ~Sockets!Cutting
    \/ part = "shutdown" /\ watch = 1 /\ Shut!Answered(k)
    \/ part = "shutdown" /\ watch = 2 /\ Shut!Answered(owner)
    \/ part = "shutdown" /\ watch = 3 /\ Shut!ServeOver
    \/ part = "rpc server" /\ watch = 1 /\ ~Server!DrainWaits
    \/ part = "rpc server" /\ watch = 2 /\ Server!DeadlineOver(r1)
    \/ part = "diesel" /\ Db!PoolClosed
    \/ part = "dev" /\ Dev!CaughtUp

\* No wait is for ever.
\* Shutdown: a close that waits is answered, whoever is dropped, and so is the
\* App's own; serve ends once its trigger fired.
\* Links: a connect of RabbitMQ is answered, a drain of Redis ends the stream
\* across lost connections, a cancel held for `opened` goes, a reply waiting
\* for room in MQTT's channel is woken, and after close every TCP socket is let
\* go whatever its peer does.
\* Servers: hyper's close returns or is cut with no connection outliving it and
\* its drain waits only while run does; an installed host future is taken and
\* an embedding's close returns; an HTTP call, and a gRPC call or its marked
\* stream, ends with the drain, a gRPC call with its deadline; a WebSocket
\* close returns once it aborted the connections; every GraphQL operation of an
\* ended connection ends; a subscriber polled as Stopping is recorded is told;
\* the RPC server's drain ends with every refusal sent or dropped, and a call
\* that carries a deadline ends, whatever its handler does.
\* Shared work: a task whose set was dropped is over, every read of a binding
\* is answered though builds wait on one another, the migration lock is never
\* left with a start that is over, a closed Diesel pool is emptied though the
\* close was dropped, `ulo dev` comes to have built the last version, and a cut
\* of the conformance relay returns.
WaitsEnd == WaitsEndFrom ~> WaitsEndTo
================================================================================
