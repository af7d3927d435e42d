---------------------------- MODULE MCLinks ----------------------------
(***************************************************************************)
(* The links of ulo-rpc-*, each on its own: `part` picks one of the        *)
(* modules below, whose variables v1, v2, ... stand for, and every step is *)
(* a step of that module.                                                  *)
(***************************************************************************)
EXTENDS Integers, Sequences, FiniteSets

CONSTANTS
    s1, s2, p1, p2, k, a, rp, r1, r2, k1, k2, u, st, l, c1, c2

VARIABLES
    part, v1, v2, v3, v4, v5, v6, v7, v8, v9, v10, v11, v12, v13, v14, v15, v16, v17, v18

vars ==
    <<part, v1, v2, v3, v4, v5, v6, v7, v8, v9, v10, v11, v12, v13, v14, v15, v16, v17, v18>>

\* The client's calls: no bound (1000) and a builder's default (2000) as RpcCalls has them; a call of
\* each shape, under bounds of its own, of its client and of its execution, and each refusal of how
\* it is written.
Call(shape) ==
    [shape |-> shape, header |-> "none", trace |-> "none", timeout |-> 2000, clientTimeout |-> 3, callIdle |-> 2000,
     clientIdle |-> 2, deadline |-> 1000, execEnds |-> 1000, carried |-> TRUE, encodes |-> TRUE, owned |-> TRUE,
     within |-> FALSE]
ClientCalls ==
    {Call("unary"), [Call("unary") EXCEPT !.execEnds = 2, !.within = TRUE], [Call("unary") EXCEPT !.timeout = 1000, !.owned = FALSE],
     Call("emit"), Call("stream"), [Call("stream") EXCEPT !.deadline = 3], [Call("duplex") EXCEPT !.callIdle = 1, !.within = TRUE],
     [Call("unary") EXCEPT !.header = "deadline-ms"], [Call("unary") EXCEPT !.timeout = 0],
     [Call("stream") EXCEPT !.carried = FALSE], [Call("emit") EXCEPT !.encodes = FALSE],
     [Call("unary") EXCEPT !.execEnds = 0, !.within = TRUE]}

Sockets == INSTANCE SocketLinks WITH
    Clients <- {k}, Accepted <- {a}, MaxCloses <- 1, MaxFrames <- 1, Senders <- {s1, s2},
    MaxSends <- 3, Peers <- {p1, p2}, MaxReqs <- 2, RelayConns <- {c1, c2}, MaxCuts <- 1, epoch <- v1,
    ended <- v2, closing <- v3, link <- v4, half <- v5, peer <- v6, air <- v1, sends <- v2,
    buffer <- v3, byCaller <- v4, byServer <- v5, nextId <- v6, udp <- v7, queued <- v8, replied <- v9,
    answers <- v10, ledger <- v11, tcp <- v1, conn <- v2, registered <- v3, goaway <- v4, calls <- v5,
    lastId <- v6, held <- v7, received <- v8, server <- v9, acceptor <- v1, stage <- v2, listed <- v3,
    slot <- v4, shut <- v5, eof <- v6, dirs <- v7, window <- v8, cutter <- v9, dropping <- v10

Brokers == INSTANCE BrokerLinks WITH
    Requests <- {r1, r2}, MaxLosses <- 2, Askers <- {k1, k2}, MaxAttempts <- 3,
    UploadLinks <- {"rabbitmq", "mqtt"}, MaxItems <- 2, Unary <- {u}, Streamed <- {st}, phase <- v1,
    sub <- v2, lane <- v3, resub <- v4, inbox <- v5, holds <- v6, inbound <- v7, drainStep <- v8,
    call <- v9, outcome <- v10, losses <- v11, current <- v1, started <- v2, attempt <- v3,
    asker <- v4, socket <- v5, closes <- v6, uploadLink <- v1, sent <- v2, jobs <- v3, entry <- v4,
    request <- v5, control <- v6, replies <- v7, opening <- v8, serverHolds <- v9, routed <- v10,
    broker <- v1, lanes <- v2, table <- v3, side <- v4, handlers <- v5, writes <- v6, published <- v7,
    connection <- v8

Mqtt == INSTANCE MqttLinks WITH
    MqttReqs <- {r1, r2}, ChannelRoom <- 1, MaxDrops <- 1, MqttCalls <- {c1, c2}, caller <- v1,
    link <- v2, incoming <- v3, channel <- v4, written <- v5, side <- v6, calls <- v7, closed <- v8,
    unsent <- v9, server <- v10, lane <- v11, publisher <- v1, turn <- v2, outgoing <- v3,
    toWrite <- v4, packets <- v5, pkids <- v6, waitingCalls <- v7, missed <- v8, clientLoop <- v9

Kafka == INSTANCE KafkaLinks WITH
    Partitions <- {p1, p2}, MaxRecords <- 2, InflightLimit <- 1, MaxLives <- 2, OneShot <- {u},
    Streamed <- {st}, MaxIns <- 2, Replies <- {rp}, produced <- v1, committed <- v2, owed <- v3,
    life <- v4, instance <- v5, side <- v1, sends <- v2, queue <- v3, entries <- v4, held <- v5,
    holds <- v6, writing <- v7, stage <- v8, delivering <- v9, log <- v10, arrived <- v11,
    answers <- v12, replies <- v13, replied <- v14, routed <- v15, router <- v16, closing <- v17,
    producer <- v18

Nats == INSTANCE NatsLinks WITH
    NatsUnary <- {u}, NatsStreamed <- {st}, CommandRoom <- 1, UnaryIds <- {u}, StreamIds <- {st},
    MaxIns <- 2, RootLinks <- {k, l}, MaxLoads <- 3, subject <- v1, natsLane <- v2, opening <- v3,
    natsHeld <- v4, answers <- v5, natsCall <- v6, natsGone <- v7, commands <- v8, natsWire <- v9,
    natsSide <- v10, natsUp <- v11, entry <- v1, sentIns <- v2, pumpQueue <- v3, pumping <- v4,
    control <- v5, far <- v6, inbox <- v7, given <- v8, callerDone <- v9, early <- v10, lane <- v11,
    tls <- v1, runtimes <- v2, heldBy <- v3, waitsOn <- v4, sides <- v5, sideLoad <- v6, loads <- v7,
    process <- v8, files <- v9, dropped <- v10

Client == INSTANCE RpcCalls WITH
    CallConfigs <- ClientCalls, MaxNow <- 4, Lag <- 1, MaxFrames <- 1, cfg <- v1, now <- v2, at <- v3,
    ends <- v4, limit <- v5, idle <- v6, sent <- v7, settled <- v8, frames <- v9, told <- v10,
    cause <- v11, exec <- v12, cancels <- v13, handle <- v14, link <- v15, awaited <- v16,
    unpolled <- v17

\* The variables a part does not use keep one value.
Idle6 == v6 = "-" /\ v7 = "-" /\ v8 = "-" /\ v9 = "-" /\ v10 = "-" /\ v11 = "-" /\ v12 = "-" /\ v13 = "-" /\ v14 = "-" /\ v15 = "-" /\ v16 = "-" /\ v17 = "-" /\ v18 = "-"
Kept6 == UNCHANGED <<v6, v7, v8, v9, v10, v11, v12, v13, v14, v15, v16, v17, v18>>
Idle7 == v7 = "-" /\ v8 = "-" /\ v9 = "-" /\ v10 = "-" /\ v11 = "-" /\ v12 = "-" /\ v13 = "-" /\ v14 = "-" /\ v15 = "-" /\ v16 = "-" /\ v17 = "-" /\ v18 = "-"
Kept7 == UNCHANGED <<v7, v8, v9, v10, v11, v12, v13, v14, v15, v16, v17, v18>>
Idle9 == v9 = "-" /\ v10 = "-" /\ v11 = "-" /\ v12 = "-" /\ v13 = "-" /\ v14 = "-" /\ v15 = "-" /\ v16 = "-" /\ v17 = "-" /\ v18 = "-"
Kept9 == UNCHANGED <<v9, v10, v11, v12, v13, v14, v15, v16, v17, v18>>
Idle10 == v10 = "-" /\ v11 = "-" /\ v12 = "-" /\ v13 = "-" /\ v14 = "-" /\ v15 = "-" /\ v16 = "-" /\ v17 = "-" /\ v18 = "-"
Kept10 == UNCHANGED <<v10, v11, v12, v13, v14, v15, v16, v17, v18>>
Idle11 == v11 = "-" /\ v12 = "-" /\ v13 = "-" /\ v14 = "-" /\ v15 = "-" /\ v16 = "-" /\ v17 = "-" /\ v18 = "-"
Kept11 == UNCHANGED <<v11, v12, v13, v14, v15, v16, v17, v18>>
Idle12 == v12 = "-" /\ v13 = "-" /\ v14 = "-" /\ v15 = "-" /\ v16 = "-" /\ v17 = "-" /\ v18 = "-"
Kept12 == UNCHANGED <<v12, v13, v14, v15, v16, v17, v18>>
Idle18 == v18 = "-"
Kept18 == UNCHANGED <<v18>>

Init ==
    \/ part = "tcp connections" /\ Sockets!TcpConnInit /\ Idle7
    \/ part = "redis" /\ Brokers!RedisInit /\ Idle12
    \/ part = "rabbit connects" /\ Brokers!RabbitConnectInit /\ Idle7
    \/ part = "uploads" /\ Brokers!UploadInit /\ Idle11
    \/ part = "mqtt" /\ Mqtt!MqttInit /\ Idle12
    \/ part = "udp" /\ Sockets!UdpInit /\ Idle12
    \/ part = "tcp" /\ Sockets!TcpInit /\ Idle10
    \/ part = "rabbit" /\ Brokers!RabbitInit /\ Idle9
    \/ part = "kafka" /\ Kafka!KafkaInit /\ Idle6
    \/ part = "kafka calls" /\ Kafka!KafkaCallsInit
    \/ part = "mqtt client" /\ Mqtt!MqttClientInit /\ Idle10
    \/ part = "nats" /\ Nats!NatsInit /\ Idle12
    \/ part = "nats calls" /\ Nats!CallsInit /\ Idle12
    \/ part = "nats roots" /\ Nats!RootsInit /\ Idle11
    \/ part = "relay" /\ Sockets!RelayInit /\ Idle11
    \/ part = "client calls" /\ Client!CallInit /\ Idle18

Next ==
    /\ UNCHANGED part
    /\ \/ part = "tcp connections" /\ Sockets!TcpConnNext /\ Kept7
       \/ part = "redis" /\ Brokers!RedisNext /\ Kept12
       \/ part = "rabbit connects" /\ Brokers!RabbitConnectNext /\ Kept7
       \/ part = "uploads" /\ Brokers!UploadNext /\ Kept11
       \/ part = "mqtt" /\ Mqtt!MqttNext /\ Kept12
       \/ part = "udp" /\ Sockets!UdpNext /\ Kept12
       \/ part = "tcp" /\ Sockets!TcpNext /\ Kept10
       \/ part = "rabbit" /\ Brokers!RabbitNext /\ Kept9
       \/ part = "kafka" /\ Kafka!KafkaNext /\ Kept6
       \/ part = "kafka calls" /\ Kafka!KafkaCallsNext
       \/ part = "mqtt client" /\ Mqtt!MqttClientNext /\ Kept10
       \/ part = "nats" /\ Nats!NatsNext /\ Kept12
       \/ part = "nats calls" /\ Nats!CallsNext /\ Kept12
       \/ part = "nats roots" /\ Nats!RootsNext /\ Kept11
       \/ part = "relay" /\ Sockets!RelayNext /\ Kept11
       \/ part = "client calls" /\ Client!CallNext /\ Kept18

Spec == Init /\ [][Next]_vars

\* UDP's and TCP's server sides as LinkCalls's; a part that is not theirs takes no call.
UdpPromise ==
    INSTANCE LinkCalls WITH
        Calls <- Sockets!UdpIds,
        inflight <- IF part = "udp" THEN Sockets!UdpInflight ELSE [c \in Sockets!UdpIds |-> "unborn"],
        answered <- IF part = "udp" THEN Sockets!UdpAnswered ELSE {},
        handed <- IF part = "udp" THEN Sockets!UdpHanded ELSE {},
        stream <- IF part = "udp" THEN Sockets!UdpStream ELSE "open",
        closed <- part = "udp" /\ Sockets!UdpClosed
TcpPromise ==
    INSTANCE LinkCalls WITH
        Calls <- Sockets!TcpIds,
        inflight <- IF part = "tcp" THEN Sockets!TcpInflight ELSE [c \in Sockets!TcpIds |-> "unborn"],
        answered <- IF part = "tcp" THEN Sockets!TcpAnswered ELSE {},
        handed <- IF part = "tcp" THEN Sockets!TcpHanded ELSE {},
        stream <- IF part = "tcp" THEN Sockets!TcpStream ELSE "open",
        closed <- part = "tcp" /\ Sockets!TcpClosed
UdpStep == part = "udp" /\ UdpPromise!LinkNext
TcpStep == part = "tcp" /\ TcpPromise!LinkNext
udpLink == UdpPromise!linkVars
tcpLink == TcpPromise!linkVars





================================================================================
