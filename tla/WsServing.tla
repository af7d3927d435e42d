------------------------------ MODULE WsServing ------------------------------
(***************************************************************************)
(* Serving WebSockets: the accept, the hub, a message and GraphQL          *)
(* operations.  Each part below has its own constants, variables, Init and *)
(* Next, and shares no state with the others.                              *)
(***************************************************************************)
EXTENDS Integers, Sequences, FiniteSets, SequencesExt

-------------------------------------------------------------------------------
(***************************************************************************)
(* ulo-ws/src/connection.rs: a server's connections from the upgrade       *)
(* request to on_disconnect: the handshake's decision, the connection      *)
(* phase (session, connect guards, a Slot under max_connections,           *)
(* OnConnect, a hand-written gateway's instance), the Switch that carries  *)
(* it across the 101, how an admitted connection ends, and the Tracker     *)
(* whose drain and close reach all of it.                                  *)
(*                                                                         *)
(* A connection is a request and what becomes of it.  What it does while   *)
(* it serves is WsPlaces' and WsOutbound's.                                *)
(***************************************************************************)

CONSTANTS
    Conns,     \* the upgrade requests
    Admits     \* the gateways considered: refuse ("close" or "handshake"), max_connections, hand-written or not

VARIABLES
    gate,       \* the one of Admits that serves; it never changes
    app,        \* "serving", "draining": no plain execution opens, "ended": no terminal one either
    drained,    \* Tracker::drain was called: its phase is Draining, its token is set
    closing,    \* Tracker::close: "no", "grace", "aborted" or "closed"
    stage,      \* where each connection is
    decided,    \* Switch::decided: "later", "admitted" or "full"
    waiting,    \* whether the server still waits for the handshake's decision
    tasks,      \* the connections that have a task of the Tracker's: Tracker::live counts them
    doomed,     \* those whose task was told to abort
    slots,      \* the connections holding a Slot: GatewayRuntime::live counts them
    members,    \* the connections registered with the Hub
    connected,  \* the connections whose connection phase admitted them
    left,       \* how many times each connection's on_disconnect ran
    cut         \* the connections whose task was aborted, or whose on_disconnect the ended drain skipped

acceptVars == <<app, drained, closing, stage, decided, waiting, tasks, doomed, slots, members, connected, left, cut>>

AcceptInit ==
    /\ gate \in Admits /\ app = "serving" /\ drained = FALSE /\ closing = "no"
    /\ stage = [c \in Conns |-> "none"] /\ decided = [c \in Conns |-> "later"]
    /\ waiting = {} /\ tasks = {} /\ doomed = {} /\ slots = {} /\ members = {} /\ connected = {}
    /\ left = [c \in Conns |-> 0] /\ cut = {}

Moves(c, where) == stage' = [stage EXCEPT ![c] = where]

---------------------------------------------------------------------------
\* handshake(): a request the checks refuse, or one that comes in the drain, opens nothing.  Under
\* refuse = handshake the connection phase runs before the 101, on a task of its own.
Arrive(c) ==
    /\ stage[c] = "none" /\ (drained \/ closing = "no")
    /\ \/ Moves(c, "refused") /\ UNCHANGED <<tasks, waiting>>
       \/ /\ ~drained
          /\ IF gate.refuse = "close" THEN Moves(c, "switch") /\ UNCHANGED <<tasks, waiting>>
             ELSE Moves(c, "open") /\ tasks' = tasks \cup {c} /\ waiting' = waiting \cup {c}
    /\ UNCHANGED <<app, drained, closing, decided, doomed, slots, members, connected, left, cut>>

\* The server drops the request it waits with, its client gone.
Abandon(c) ==
    /\ c \in waiting /\ waiting' = waiting \ {c}
    /\ UNCHANGED <<app, drained, closing, stage, decided, tasks, doomed, slots, members, connected, left, cut>>

\* What the connection phase decided: in the handshake a Switch, or a refusal, for the server; after
\* the 101 the connection served, or closed with its code.  A Switch nobody waits for is dropped.
Decided(c, verdict) ==
    /\ connected' = IF verdict = "admitted" THEN connected \cup {c} ELSE connected
    /\ IF gate.refuse = "handshake"
       THEN /\ decided' = [decided EXCEPT ![c] = IF verdict = "refused" THEN @ ELSE verdict]
            /\ waiting' = waiting \ {c}
            /\ Moves(c, CASE verdict = "refused" -> "refused"
                       [] verdict # "refused" /\ c \in waiting -> "switch"
                       [] OTHER -> "unreceived")
            /\ tasks' = tasks \ {c} /\ doomed' = doomed \ {c}
       ELSE /\ Moves(c, IF verdict = "admitted" THEN "serving" ELSE "refusing")
            /\ UNCHANGED <<decided, waiting, tasks, doomed>>

\* connect(): an execution, which the app's drain refuses, and in it the session, before the hub
\* knows the connection.
ConnectOpen(c) ==
    /\ stage[c] = "open"
    /\ \/ Decided(c, "refused") /\ UNCHANGED members
       \/ /\ app = "serving" /\ Moves(c, "guards") /\ members' = members \cup {c}
          /\ UNCHANGED <<decided, waiting, tasks, doomed, connected>>
    /\ UNCHANGED <<app, drained, closing, slots, left, cut>>

\* The connect guards, then a slot as the handler's call begins: with none free no hook runs.  An
\* interceptor may admit for the handler; the slot is then taken without the hook.
ConnectGuards(c) ==
    /\ stage[c] = "guards"
    /\ LET free == Cardinality(slots) < gate.max
       IN \/ Decided(c, "refused") /\ members' = members \ {c} /\ UNCHANGED slots
          \/ ~free /\ Decided(c, "full") /\ members' = members \ {c} /\ UNCHANGED slots
          \/ /\ free /\ slots' = slots \cup {c}
             /\ \E next \in {"hook", "instance"} : Moves(c, next)
             /\ UNCHANGED <<decided, waiting, tasks, doomed, connected, members>>
    /\ UNCHANGED <<app, drained, closing, left, cut>>

\* OnConnect admits, or refuses and the slot goes.
ConnectHook(c) ==
    /\ stage[c] = "hook"
    /\ \/ Moves(c, "instance") /\ UNCHANGED <<decided, waiting, tasks, doomed, connected, slots, members>>
       \/ Decided(c, "refused") /\ slots' = slots \ {c} /\ members' = members \ {c}
    /\ UNCHANGED <<app, drained, closing, left, cut>>

\* A hand-written gateway's instance, which may not resolve.
ConnectInstance(c) ==
    /\ stage[c] = "instance"
    /\ \/ Decided(c, "admitted") /\ UNCHANGED <<slots, members>>
       \/ gate.raw /\ Decided(c, "refused") /\ slots' = slots \ {c} /\ members' = members \ {c}
    /\ UNCHANGED <<app, drained, closing, left, cut>>

---------------------------------------------------------------------------

\* Drop for Switch: a connection admitted and never served ends on a task of its own.
DropSwitch(c) ==
    /\ stage[c] \in {"switch", "unreceived"}
    /\ IF decided[c] = "admitted" THEN Moves(c, "ending") /\ tasks' = tasks \cup {c} ELSE Moves(c, "over") /\ UNCHANGED tasks
    /\ UNCHANGED <<app, drained, closing, decided, waiting, doomed, slots, members, connected, left, cut>>

\* Switch::serve: the connection's task, which waits for the upgraded stream.
SwitchServe(c) ==
    /\ stage[c] = "switch" /\ Moves(c, "upgrade") /\ tasks' = tasks \cup {c}
    /\ UNCHANGED <<app, drained, closing, decided, waiting, doomed, slots, members, connected, left, cut>>

EndTask(c) == tasks' = tasks \ {c} /\ doomed' = doomed \ {c}

\* run(): the upgrade done, or failed.
UpgradeDone(c) ==
    /\ stage[c] = "upgrade"
    /\ \/ /\ Moves(c, CASE decided[c] = "later" -> "open" [] decided[c] = "full" -> "refusing" [] OTHER -> "serving")
          /\ UNCHANGED <<tasks, doomed>>
       \/ IF decided[c] = "admitted" THEN Moves(c, "ending") /\ UNCHANGED <<tasks, doomed>> ELSE Moves(c, "over") /\ EndTask(c)
    /\ UNCHANGED <<app, drained, closing, decided, waiting, slots, members, connected, left, cut>>

\* refuse(): the Close frame written and the client's awaited, until pong_timeout.
RefuseDone(c) ==
    /\ stage[c] = "refusing" /\ Moves(c, "over") /\ EndTask(c)
    /\ UNCHANGED <<app, drained, closing, decided, waiting, slots, members, connected, left, cut>>

\* serve() returns: its client left, or the drain closed it.
ServeEnds(c) ==
    /\ stage[c] = "serving" /\ Moves(c, "ending")
    /\ UNCHANGED <<app, drained, closing, decided, waiting, tasks, doomed, slots, members, connected, left, cut>>

\* Admitted::end: on_disconnect in a plain execution, or in a terminal one under the drain's token,
\* which it waits for; an ended drain skips it.
Disconnect(c) ==
    /\ stage[c] = "ending" /\ (app = "serving" \/ drained)
    /\ Moves(c, "left")
    /\ IF app = "ended" THEN cut' = cut \cup {c} /\ UNCHANGED left ELSE left' = [left EXCEPT ![c] = @ + 1] /\ UNCHANGED cut
    /\ UNCHANGED <<app, drained, closing, decided, waiting, tasks, doomed, slots, members, connected>>

\* Then out of the rooms, and the slot freed.
LeaveHub(c) ==
    /\ stage[c] = "left" /\ Moves(c, "over") /\ members' = members \ {c} /\ slots' = slots \ {c} /\ EndTask(c)
    /\ UNCHANGED <<app, drained, closing, decided, waiting, connected, left, cut>>

\* An abort takes effect where the task yields: its future is dropped, its slot with it, and a
\* handshake that waits for it is answered 503.  The hub is not told.
AbortConn(c) ==
    /\ c \in doomed /\ Moves(c, "over") /\ EndTask(c) /\ slots' = slots \ {c}
    /\ waiting' = waiting \ {c} /\ cut' = cut \cup {c}
    /\ UNCHANGED <<app, drained, closing, decided, members, connected, left>>

---------------------------------------------------------------------------
\* The app's shutdown, from its side: the drain begins, it reaches the table with its token, it ends.
AppDrains ==
    /\ app = "serving" /\ app' = "draining"
    /\ UNCHANGED <<drained, closing, stage, decided, waiting, tasks, doomed, slots, members, connected, left, cut>>

TableDrain ==
    /\ app # "serving" /\ ~drained /\ closing = "no" /\ drained' = TRUE
    /\ UNCHANGED <<app, closing, stage, decided, waiting, tasks, doomed, slots, members, connected, left, cut>>

AppDrained ==
    /\ app = "draining" /\ app' = "ended"
    /\ UNCHANGED <<drained, closing, stage, decided, waiting, tasks, doomed, slots, members, connected, left, cut>>

\* Tracker::close: after the drain a grace first, then every task left is told to abort.  With no
\* drain it closes a server that has not served, a later one's bind having failed.
TableClose ==
    /\ closing = "no"
    /\ \/ drained /\ closing' = "grace" /\ UNCHANGED doomed
       \/ ~drained /\ (\A c \in Conns : stage[c] = "none") /\ closing' = "aborted" /\ doomed' = tasks
    /\ UNCHANGED <<app, drained, stage, decided, waiting, tasks, slots, members, connected, left, cut>>

\* The grace is over, or no task is left, or the core dropped the close (AbortOnDrop).
AbortAll ==
    /\ closing = "grace" /\ closing' = "aborted" /\ doomed' = tasks
    /\ UNCHANGED <<app, drained, stage, decided, waiting, tasks, slots, members, connected, left, cut>>

TableClosed ==
    /\ closing = "aborted" /\ tasks = {} /\ closing' = "closed"
    /\ UNCHANGED <<app, drained, stage, decided, waiting, tasks, doomed, slots, members, connected, left, cut>>

\* What runs by itself once started, and what clients and the app decide.
ConnStep(c) ==
    \/ ConnectOpen(c) \/ ConnectGuards(c) \/ ConnectInstance(c) \/ SwitchServe(c)
    \/ UpgradeDone(c) \/ RefuseDone(c) \/ Disconnect(c) \/ LeaveHub(c) \/ AbortConn(c)
    \/ stage[c] = "unreceived" /\ DropSwitch(c)
    \/ drained /\ ServeEnds(c)
ClientStep(c) == Arrive(c) \/ Abandon(c) \/ ConnectHook(c) \/ ServeEnds(c) \/ DropSwitch(c)
TrackerStep == AppDrains \/ TableDrain \/ AppDrained \/ TableClose \/ AbortAll \/ TableClosed

AcceptNext == (\E c \in Conns : ConnStep(c) \/ ClientStep(c)) \/ TrackerStep
GateKept == UNCHANGED gate
AcceptSpec == AcceptInit /\ [][AcceptNext /\ GateKept]_<<gate, acceptVars>>

\* The runtime polls every task, upgrades and refusals resolve or time out, a drained connection
\* closes, and an abort takes effect.  OnConnect need not return; on_disconnect does.
AcceptFairness == (\A c \in Conns : WF_acceptVars(ConnStep(c))) /\ WF_acceptVars(AbortAll \/ TableClosed)

---------------------------------------------------------------------------
AcceptTypeOK ==
    /\ app \in {"serving", "draining", "ended"} /\ drained \in BOOLEAN /\ closing \in {"no", "grace", "aborted", "closed"}
    /\ decided \in [Conns -> {"later", "admitted", "full"}] /\ left \in [Conns -> Nat]
    /\ waiting \subseteq Conns /\ doomed \subseteq tasks /\ members \subseteq Conns /\ cut \subseteq Conns
    /\ tasks = {c \in Conns : stage[c] \notin {"none", "refused", "switch", "unreceived", "over"}}

\* Never more connections past their guards than max_connections, and a slot is held by exactly the
\* connections that took one and have not ended, wherever they are: in the phase's task, in a Switch
\* nobody has received, in the connection's task or in its on_disconnect.
SlotsExact ==
    /\ AcceptTypeOK /\ Cardinality(slots) <= gate.max
    /\ slots = {c \in Conns : \/ stage[c] \in {"hook", "instance", "serving", "ending", "left"}
                              \/ decided[c] = "admitted" /\ stage[c] \in {"switch", "unreceived", "upgrade"}}

\* connection.rs Admitted::end: an admitted connection gets on_disconnect exactly once, served or not,
\* however its request, its upgrade or its client ended, and is out of the hub by then; only an
\* abort or the drain's end keeps it from one, and a connection never admitted gets none.
AdmittedLeave ==
    \A c \in Conns :
      /\ left[c] <= 1 /\ (left[c] = 1 => c \in connected)
      /\ stage[c] \in {"over", "refused"} /\ c \notin cut => c \notin members /\ (left[c] = 1 <=> c \in connected)

\* Tracker::close has begun; it has returned.
CloseWaits == closing \in {"grace", "aborted"}
CloseReturned == closing = "closed"

-------------------------------------------------------------------------------
(***************************************************************************)
(* The rooms of ulo-ws: the application's Hub (rooms.rs), the broadcast    *)
(* adapters that feed it (broadcast.rs InMemory, ulo-ws-redis), and the    *)
(* hand-off the HTTP servers share (handoff.rs, table.rs).                 *)
(*                                                                         *)
(* A server prepares, binds (which starts the hub's one delivery task once *)
(* the adapter's subscription is live) and at last closes and releases.    *)
(* Broadcasts are numbered in the order they are published; a stream holds *)
(* the numbers carried to one subscription and not yet delivered.          *)
(***************************************************************************)

CONSTANTS
    HttpServers,    \* the HTTP servers sharing the hand-off
    OwnServers,     \* the standalone servers, each with a table of its own
    Members,        \* the connections
    GatewayOf,      \* [path, namespace] of each connection's gateway
    Targets,        \* the targets published to: [gateway, audience, room, client, except]
    Adapters,       \* the adapters configured: "memory", "redis"
    Cap,            \* the in-memory queue's capacity (1024 in the code)
    MaxPublished    \* bound: broadcasts published

VARIABLES
    adapter,    \* the adapter configured
    server,     \* each server's way from new to released
    slot,       \* the hand-off's slot: [holders, table, started]
    inits,      \* how often the gateways' AfterInit ran
    stream,     \* each server's subscription, NoStream when dropped
    delivery,   \* whose subscription the delivery task reads, or "none"
    rooms,      \* each connection's room, or NoMember
    published,  \* the targets published, in order
    owed,       \* history: published on a live subscription and not delivered yet
    got         \* history: the broadcasts each connection received

hubVars == <<adapter, server, slot, inits, stream, delivery, rooms, published, owed, got>>
memberVars == <<rooms, published, owed, got>>

Servers == HttpServers \cup OwnServers
NoStream == [subscribed |-> 0, confirmed |-> FALSE, lost |-> FALSE, queue |-> <<>>]
NoMember == "away"

HubInit ==
    /\ adapter \in Adapters
    /\ server = [s \in Servers |-> "new"]
    /\ slot = [holders |-> 0, table |-> FALSE, started |-> FALSE]
    /\ inits = 0
    /\ stream = [s \in Servers |-> NoStream]
    /\ delivery = "none"
    /\ rooms = [c \in Members |-> NoMember]
    /\ published = <<>> /\ owed = {}
    /\ got = [c \in Members |-> <<>>]

(***************************************************************************)
(* The hand-off.                                                           *)
(***************************************************************************)
\* Handoff::prepare counts the server in first and replaces the table last;
\* an app it cannot read fails between the two.
Prepare(s, ok) ==
    /\ server[s] = "new"
    /\ server' = [server EXCEPT ![s] = IF ok THEN "prepared" ELSE "failed"]
    /\ slot' = IF s \in OwnServers THEN slot
               ELSE [slot EXCEPT !.holders = @ + 1, !.table = @ \/ ok]
    /\ UNCHANGED <<adapter, inits, stream, delivery, memberVars>>

\* Hub::start up to its await: a live delivery answers at once.
Subscribes(s) ==
    IF delivery # "none"
    THEN server' = [server EXCEPT ![s] = "live"] /\ UNCHANGED stream
    ELSE /\ server' = [server EXCEPT ![s] = "subscribing"]
         /\ stream' = [stream EXCEPT ![s] = [NoStream EXCEPT
                !.subscribed = IF adapter = "memory" THEN 3 ELSE 0, !.confirmed = adapter = "memory"]]

\* Handoff::bound starts the table once per app; a standalone server starts its own.
Bound(s) ==
    /\ server[s] = "prepared" /\ \A w \in Servers : server[w] # "closed"
    /\ LET starts == s \in OwnServers \/ (slot.table /\ ~slot.started) IN
       /\ slot' = [slot EXCEPT !.started = @ \/ (starts /\ s \in HttpServers)]
       /\ IF starts THEN Subscribes(s)
          ELSE server' = [server EXCEPT ![s] = "bound"] /\ UNCHANGED stream
       /\ inits' = IF starts /\ s \in HttpServers /\ delivery # "none" THEN inits + 1 ELSE inits
    /\ UNCHANGED <<adapter, delivery, memberVars>>

\* The adapter refused, or Redis confirmed nothing in time.
SubscribeFails(s) ==
    /\ server[s] = "subscribing" /\ adapter = "redis" /\ ~stream[s].confirmed
    /\ server' = [server EXCEPT ![s] = "failed"]
    /\ stream' = [stream EXCEPT ![s] = NoStream]
    /\ slot' = [slot EXCEPT !.started = @ /\ s \in OwnServers]
    /\ UNCHANGED <<adapter, inits, delivery, memberVars>>

\* Hub::start after its await: the second of two subscriptions is dropped.
Started(s) ==
    /\ server[s] = "subscribing" /\ stream[s].confirmed
    /\ server' = [server EXCEPT ![s] = "live"]
    /\ IF delivery = "none" THEN delivery' = s /\ UNCHANGED stream
       ELSE stream' = [stream EXCEPT ![s] = NoStream] /\ UNCHANGED delivery
    /\ inits' = IF s \in HttpServers THEN inits + 1 ELSE inits
    /\ UNCHANGED <<adapter, slot, memberVars>>

\* Hub::stop, at the end of the table's close: the task, its stream with it.
\* The app closes its servers once no bind is under way.
CloseServer(s) ==
    /\ server[s] \in {"live", "bound"}
    /\ \A w \in Servers : server[w] # "subscribing"
    /\ server' = [server EXCEPT ![s] = "closed"]
    /\ delivery' = "none"
    /\ stream' = [w \in Servers |-> IF w = delivery THEN NoStream ELSE stream[w]]
    /\ owed' = {}
    /\ UNCHANGED <<adapter, slot, inits, rooms, published, got>>

\* The server drops, its start with it, and releases the hand-off.
Release(s) ==
    /\ server[s] \notin {"new", "released"}
    /\ server' = [server EXCEPT ![s] = "released"]
    /\ stream' = IF server[s] = "subscribing" THEN [stream EXCEPT ![s] = NoStream] ELSE stream
    /\ slot' = IF s \in OwnServers THEN slot
               ELSE [slot EXCEPT !.holders = @ - 1, !.table = @ /\ slot.holders > 1]
    /\ UNCHANGED <<adapter, inits, delivery, memberVars>>

(***************************************************************************)
(* The adapters.  A Redis subscription takes three commands, for the       *)
(* channel of everyone, of this node and of every room.                    *)
(***************************************************************************)
ChannelOf(target) ==
    CASE target.audience = "room" -> 3 [] target.audience = "client" -> 2 [] OTHER -> 1

\* Redis answers the next SUBSCRIBE of `listen`; the last releases `subscribe`.
SubscribeConfirmed(s) ==
    /\ adapter = "redis" /\ (server[s] = "subscribing" \/ delivery = s) /\ stream[s].subscribed < 3
    /\ stream' = [stream EXCEPT ![s].subscribed = @ + 1, ![s].confirmed = @ \/ stream[s].subscribed = 2,
                              ![s].lost = @ /\ stream[s].subscribed # 2]
    /\ UNCHANGED <<adapter, server, slot, inits, delivery, memberVars>>

\* Redis goes away; the task connects again, and what is published meanwhile is lost.
SubscriptionLost(s) ==
    /\ adapter = "redis" /\ (server[s] = "subscribing" \/ delivery = s) /\ stream[s].subscribed > 0
    /\ stream' = [stream EXCEPT ![s].subscribed = 0, ![s].lost = TRUE]
    /\ UNCHANGED <<adapter, server, slot, inits, delivery, memberVars>>

Carried(queue, b) ==
    IF adapter = "memory" /\ Len(queue) = Cap THEN Append(Tail(queue), b) ELSE Append(queue, b)

\* The broadcast a full in-memory queue drops for the next one.
Overflowed(s) == IF adapter = "memory" /\ Len(stream[s].queue) = Cap THEN {Head(stream[s].queue)} ELSE {}

Publish(target) ==
    /\ Len(published) < MaxPublished
    /\ LET b == Len(published) + 1
           live == {s \in Servers : stream[s].subscribed >= ChannelOf(target)}
           lossless == delivery # "none" /\ ~stream[delivery].lost
           dropped == IF delivery # "none" THEN Overflowed(delivery) ELSE {} IN
       /\ published' = Append(published, target)
       /\ stream' = [s \in Servers |-> IF s \in live THEN [stream[s] EXCEPT !.queue = Carried(@, b)] ELSE stream[s]]
       /\ owed' = (owed \ dropped) \cup (IF lossless THEN {b} ELSE {})
    /\ UNCHANGED <<adapter, server, slot, inits, delivery, rooms, got>>

(***************************************************************************)
(* Members and delivery, each under the members' lock.                     *)
(***************************************************************************)
Register(c) ==
    /\ rooms[c] = NoMember
    /\ rooms' = [rooms EXCEPT ![c] = "no room"]
    /\ UNCHANGED <<adapter, server, slot, inits, stream, delivery, published, owed, got>>

\* join, leave and unregister of a connection the hub has.
Moved(c, to) ==
    /\ rooms[c] \notin {NoMember, to}
    /\ rooms' = [rooms EXCEPT ![c] = to]
    /\ UNCHANGED <<adapter, server, slot, inits, stream, delivery, published, owed, got>>

Addressed(target, c) ==
    /\ rooms[c] # NoMember
    /\ c \notin target.except
    /\ target.gateway \in {"any", GatewayOf[c].path, GatewayOf[c].namespace}
    /\ CASE target.audience = "all" -> TRUE
         [] target.audience = "room" -> rooms[c] = target.room
         [] OTHER -> c = target.client

\* One turn of the delivery task: Hub::deliver of the stream's next broadcast.
Deliver(s) ==
    /\ stream[s].queue # <<>> /\ server[s] # "subscribing" /\ stream[s].confirmed
    /\ LET b == Head(stream[s].queue) IN
       /\ got' = [c \in Members |-> IF Addressed(published[b], c) THEN Append(got[c], b) ELSE got[c]]
       /\ owed' = owed \ {b}
    /\ stream' = [stream EXCEPT ![s].queue = Tail(@)]
    /\ UNCHANGED <<adapter, server, slot, inits, delivery, rooms, published>>

ServerStep ==
    \E s \in Servers :
        \/ \E ok \in BOOLEAN : Prepare(s, ok)
        \/ Bound(s) \/ Started(s) \/ SubscribeFails(s) \/ CloseServer(s) \/ Release(s)

AdapterStep ==
    \E s \in Servers : SubscribeConfirmed(s) \/ SubscriptionLost(s) \/ Deliver(s)

MemberStep ==
    \/ \E target \in Targets : Publish(target)
    \/ \E c \in Members : Register(c) \/ \E to \in {NoMember, "no room", "lobby"} : Moved(c, to)

HubNext == ServerStep \/ AdapterStep \/ MemberStep
HubSpec == HubInit /\ [][HubNext]_hubVars

(***************************************************************************)
(* What the rooms promise.                                                 *)
(***************************************************************************)
Rising(seq) == \A i, j \in DOMAIN seq : i < j => seq[i] < seq[j]

\* Whoever a target can reach, by its gateway, its exceptions and its client.
Reachable(target, c) ==
    /\ c \notin target.except
    /\ target.gateway # "any" => target.gateway \in {GatewayOf[c].path, GatewayOf[c].namespace}
    /\ target.audience = "client" => c = target.client

\* Each connection receives a broadcast at most once and in the order of
\* publication, whichever servers started the delivery and however their
\* subscriptions raced, and none that leaves it out (rooms.rs start, deliver,
\* addressed).
DeliveredOnceInOrder ==
    \A c \in Members :
        /\ Rising(got[c])
        /\ \A i \in DOMAIN got[c] : Reachable(published[got[c][i]], c)

\* A broadcast published once a server's start has returned is carried: it was
\* delivered or waits in the delivery task's stream, unless Redis was away or
\* the in-memory queue overflowed (broadcast.rs subscribe, ulo-ws-redis listen).
PublishedIsCarried ==
    \A b \in owed : delivery # "none" /\ \E i \in DOMAIN stream[delivery].queue : stream[delivery].queue[i] = b

\* The hand-off's table is there for every server that prepared it and has not
\* dropped, is gone once none is left, and AfterInit ran at most once (handoff.rs).
TableHeld ==
    /\ slot.holders = Cardinality({s \in HttpServers : server[s] \notin {"new", "released"}})
    /\ (\E s \in HttpServers : server[s] \in {"prepared", "subscribing", "live", "bound"}) => slot.table
    /\ slot.holders = 0 => ~slot.table
    /\ inits <= 1

-------------------------------------------------------------------------------
(***************************************************************************)
(* The messages of one WebSocket connection (ulo-ws/src/connection.rs):    *)
(* the read loop's `received`, one task per message opening an execution,  *)
(* dispatching, and writing its answer or pumping its stream, the client's *)
(* `cancel` frames, and the drain, which closes the connection once no     *)
(* message is in flight.  A hand-written gateway's inbox stands beside     *)
(* them.  The queue to the socket is unbounded here: its limits are        *)
(* WsOutbound's, and the server's places are WsPlaces'.                    *)
(***************************************************************************)

CONSTANTS Msgs,          \* the messages the client sends, each under its own id
          MaxInflight,   \* limits.max_inflight
          MaxItems       \* bound: items one streamed answer yields

VARIABLES gateway,     \* "envelope", or "raw" for a hand-written gateway
          arrived,     \* the messages read, in order
          inbox,       \* a raw gateway's messages not yet taken by on_message
          task,        \* each message's task
          reason,      \* the cancellation of each message's execution
          calls,       \* flight.calls
          handling,    \* flight.handling
          busy,        \* flight.busy
          items,       \* items each stream has yielded
          out,         \* what was queued for the socket, in order
          conn,        \* the connection: its close and why
          drain,       \* "serving", "draining", "ended"
          asked        \* messages a `cancel` was read for while they were in flight

msgVars == <<gateway, arrived, inbox, task, reason, calls, handling, busy,
             items, out, conn, drain, asked>>

Open == conn = "open"
Draining == drain # "serving"

\* Tasks with a live execution.
Executing == {"handling", "recover", "answer", "answered", "pump", "wait", "late"}
Live(m) == task[m] \in Executing

Begun(m) == m \in Range(arrived)

MsgInit ==
    /\ gateway \in {"envelope", "raw"}
    /\ arrived = <<>> /\ inbox = <<>> /\ out = <<>>
    /\ task = [m \in Msgs |-> "unread"]
    /\ reason = [m \in Msgs |-> "none"]
    /\ calls = {} /\ asked = {}
    /\ handling = 0 /\ busy = 0
    /\ items = [m \in Msgs |-> 0]
    /\ conn = "open" /\ drain = "serving"

\* Outbound::push and push_wait: refused once the connection has closed its queue.
Queue(m, what) == out' = IF Open THEN Append(out, <<m, what>>) ELSE out

\* The read loop reads while not closing, not draining and under the bound.
Reading == Open /\ ~Draining /\ handling < MaxInflight

\* A message to be handled: counted in and its task spawned, not yet polled; a
\* raw gateway's goes to its inbox.
ReadMessage(m) ==
    /\ Reading /\ ~Begun(m)
    /\ arrived' = Append(arrived, m)
    /\ handling' = handling + 1
    /\ busy' = busy + 1
    /\ IF gateway = "raw"
         THEN inbox' = Append(inbox, m) /\ UNCHANGED task
         ELSE task' = [task EXCEPT ![m] = "spawned"] /\ UNCHANGED inbox
    /\ UNCHANGED <<gateway, reason, calls, items, out, conn, drain, asked>>

\* Flight::cancel: the executions registered under the id.
CancelCalls(m) ==
    reason' = [reason EXCEPT ![m] = IF m \in calls /\ @ = "none" THEN "client" ELSE @]

\* A `cancel` frame takes no place; the client knows the id of a message it sent.
ReadCancel(m) ==
    /\ Reading /\ gateway = "envelope" /\ Begun(m)
    /\ CancelCalls(m)
    /\ asked' = IF task[m] \in Executing \cup {"spawned"} THEN asked \cup {m} ELSE asked
    /\ UNCHANGED <<gateway, arrived, inbox, task, calls, handling, busy, items, out, conn, drain>>

\* A frame of the other codec requests a close with 1003; one the envelope
\* refuses, and a `cancel` without an id, write an error envelope and no more.
ReadWrongCodec ==
    /\ Reading /\ gateway = "envelope"
    /\ conn' = "requested"
    /\ UNCHANGED <<gateway, arrived, inbox, task, reason, calls, handling, busy, items, out, drain, asked>>

\* Flight::handled and Flight::finished.
CountedOut == handling' = handling - 1
Ended(m) ==
    /\ task' = [task EXCEPT ![m] = "done"]
    /\ calls' = calls \ {m}
    /\ busy' = busy - 1

\* The task's first poll: refused once the app drains, else an execution opened
\* and registered, dispatched to its handler or, for an event nothing handles,
\* to the error handlers.
OpenRefused(m) ==
    /\ task[m] = "spawned" /\ Draining
    /\ Queue(m, "error")
    /\ Ended(m) /\ CountedOut
    /\ UNCHANGED <<gateway, arrived, inbox, reason, items, conn, drain, asked>>

OpenExecution(m) ==
    /\ task[m] = "spawned" /\ ~Draining
    /\ calls' = calls \cup {m}
    /\ \E to \in {"handling", "recover"} : task' = [task EXCEPT ![m] = to]
    /\ UNCHANGED <<gateway, arrived, inbox, reason, handling, busy, items, out, conn, drain, asked>>

\* The dispatch answers; a stream leaves the count as it arrives.
Dispatched(m) ==
    /\ task[m] \in {"handling", "recover"}
    /\ \/ task' = [task EXCEPT ![m] = "answer"] /\ UNCHANGED handling
       \/ task' = [task EXCEPT ![m] = "pump"] /\ CountedOut
    /\ UNCHANGED <<gateway, arrived, inbox, reason, calls, busy, items, out, conn, drain, asked>>

\* until_drained: the drain's end abandons a handler at its await, unanswered.
UntilDrained(m) ==
    /\ task[m] = "handling" /\ reason[m] = "drain"
    /\ Ended(m) /\ CountedOut
    /\ UNCHANGED <<gateway, arrived, inbox, reason, items, out, conn, drain, asked>>

Answer(m) ==
    \/ /\ task[m] = "answer" /\ Queue(m, "unary")
       /\ task' = [task EXCEPT ![m] = "answered"]
       /\ UNCHANGED <<gateway, arrived, inbox, reason, calls, handling, busy, items, conn, drain, asked>>
    \/ /\ task[m] = "answered" /\ CountedOut
       /\ Ended(m)
       /\ UNCHANGED <<gateway, arrived, inbox, reason, items, out, conn, drain, asked>>

\* pump: no further item once a cancellation has been observed; the stream is
\* polled before it.
PumpTop(m) ==
    /\ task[m] = "pump" /\ reason[m] = "none"
    /\ task' = [task EXCEPT ![m] = "wait"]
    /\ UNCHANGED <<gateway, arrived, inbox, reason, calls, handling, busy, items, out, conn, drain, asked>>

PumpCut(m) ==
    /\ task[m] \in {"pump", "wait"} /\ reason[m] # "none"
    /\ Ended(m)
    /\ UNCHANGED <<gateway, arrived, inbox, reason, handling, items, out, conn, drain, asked>>

PumpItem(m) ==
    /\ task[m] = "wait" /\ items[m] < MaxItems
    /\ items' = [items EXCEPT ![m] = @ + 1]
    /\ Queue(m, "item")
    /\ IF Open
         THEN task' = [task EXCEPT ![m] = "pump"] /\ UNCHANGED <<calls, busy>>
         ELSE Ended(m)
    /\ UNCHANGED <<gateway, arrived, inbox, reason, handling, conn, drain, asked>>

\* The stream ends with `complete`, a frame of the wrong codec with an error,
\* and an `Err` item with what the late dispatch answers.
PumpLast(m) ==
    \/ /\ task[m] = "wait"
       /\ \E last \in {"complete", "error"} : Queue(m, last)
       /\ Ended(m)
       /\ UNCHANGED <<gateway, arrived, inbox, reason, handling, items, conn, drain, asked>>
    \/ /\ task[m] = "wait"
       /\ task' = [task EXCEPT ![m] = "late"]
       /\ UNCHANGED <<gateway, arrived, inbox, reason, calls, handling, busy, items, out, conn, drain, asked>>

\* dispatch_late: the error as reshaped, the original under an `Ok`, or the end.
Late(m) ==
    /\ task[m] = "late"
    /\ \E last \in {"complete", "error"} : Queue(m, last)
    /\ Ended(m)
    /\ UNCHANGED <<gateway, arrived, inbox, reason, handling, items, conn, drain, asked>>

\* raw_inbox: one message at a time; a panic requests a close with 1011.
RawHandled ==
    /\ gateway = "raw" /\ inbox # <<>> /\ conn # "closed"
    /\ Queue(Head(inbox), "handled")
    /\ inbox' = Tail(inbox)
    /\ CountedOut /\ busy' = busy - 1
    /\ conn' \in IF Open THEN {"open", "requested"} ELSE {conn}
    /\ UNCHANGED <<gateway, arrived, task, reason, calls, items, drain, asked>>

DrainBegins ==
    /\ drain = "serving"
    /\ drain' = "draining"
    /\ UNCHANGED <<gateway, arrived, inbox, task, reason, calls, handling, busy, items, out, conn, asked>>

\* The core cancels every execution still live.
DrainEnds ==
    /\ drain = "draining"
    /\ drain' = "ended"
    /\ reason' = [m \in Msgs |-> IF Live(m) /\ reason[m] = "none" THEN "drain" ELSE reason[m]]
    /\ UNCHANGED <<gateway, arrived, inbox, task, calls, handling, busy, items, out, conn, asked>>

\* The loop writes what was queued, then a requested close, or the drain's once
\* no message is in flight.
CloseDrained ==
    /\ conn = "open" /\ Draining /\ busy = 0
    /\ conn' = "drained"
    /\ UNCHANGED <<gateway, arrived, inbox, task, reason, calls, handling, busy, items, out, drain, asked>>

CloseRequested ==
    /\ conn = "requested"
    /\ conn' = "closing"
    /\ UNCHANGED <<gateway, arrived, inbox, task, reason, calls, handling, busy, items, out, drain, asked>>

\* The loop ends, on the client's close, a deadline or a read error: every
\* registered execution is cancelled `Disconnected` and every task aborted.
ConnectionEnds ==
    /\ conn \in {"open", "closing", "requested"}
    /\ conn' = "closed"
    /\ reason' = [m \in Msgs |-> IF m \in calls /\ reason[m] = "none" THEN "disconnected" ELSE reason[m]]
    /\ task' = [m \in Msgs |-> IF Live(m) \/ task[m] = "spawned" THEN "aborted" ELSE task[m]]
    /\ UNCHANGED <<gateway, arrived, inbox, calls, handling, busy, items, out, drain, asked>>

MsgNext ==
    \/ \E m \in Msgs :
         \/ ReadMessage(m) \/ ReadCancel(m) \/ OpenRefused(m) \/ OpenExecution(m)
         \/ Dispatched(m) \/ UntilDrained(m) \/ Answer(m)
         \/ PumpTop(m) \/ PumpCut(m) \/ PumpItem(m) \/ PumpLast(m) \/ Late(m)
    \/ ReadWrongCodec \/ RawHandled \/ DrainBegins \/ DrainEnds
    \/ CloseDrained \/ CloseRequested \/ ConnectionEnds

MsgSpec == MsgInit /\ [][MsgNext]_msgVars

-----------------------------------------------------------------------------
Terminal == {"unary", "complete", "error", "handled"}
Position(m) == CHOOSE i \in DOMAIN arrived : arrived[i] = m
Answered(m) == \E i \in DOMAIN out : out[i][1] = m /\ out[i][2] \in Terminal

\* A message's answer ends once: nothing of a message is queued after its unary
\* answer, its `complete` or its `error`; and under a bound of one, unary
\* answers come back in the order the messages were read.
AnswersInOrder ==
    \A i, j \in DOMAIN out : i < j =>
        /\ out[i][1] = out[j][1] => out[i][2] \notin Terminal
        /\ (MaxInflight = 1 /\ out[i][2] = "unary" /\ out[j][2] = "unary")
             => Position(out[i][1]) < Position(out[j][1])

\* The drain's close follows every answer: once the connection closes 1001 for
\* the drain, each message it read was answered to its end, or its execution
\* had been cancelled.
DrainAnswersFirst ==
    conn = "drained" => \A m \in Range(arrived) : Answered(m) \/ reason[m] # "none"

-------------------------------------------------------------------------------
(***************************************************************************)
(* One connection of the graphql-transport-ws gateway                      *)
(* (ulo-graphql-ws/src/gateway.rs): the handler of the client's messages,  *)
(* which takes one at a time, the detached task that waits for             *)
(* `connection_init`, and one detached task per operation.  They share the *)
(* connection's state under a lock that no await holds, and the queue of   *)
(* frames, which answers a send with failure once a close was requested.   *)
(***************************************************************************)

CONSTANTS
    OpIds,          \* the ids a client names its operations by
    MaxOps,         \* bound on the operations opened on the connection
    MaxNext,        \* bound on the responses of one operation's stream
    MaxInbox        \* bound on the messages read and not yet handled

VARIABLES
    opsConn,           \* "new", "refused", "open", "gone", "left"
    shut,           \* the close code requested, "" while none is
    draining,       \* the app's drain has begun
    acked,          \* Operations::acknowledged
    running,        \* Operations::running: the operation under each id, 0 for none
    opened,         \* Operations::next: how many operations were opened
    ops,            \* each operation's id, task, cancellation and frames written
    opsInbox,          \* the messages read, oldest first
    handler,        \* what the message handler does after the lock
    watch,          \* the task that waits for connection_init
    clash           \* <<operation found, client was free to reuse>> of a 4409 close

gqlVars == <<opsConn, shut, draining, acked, running, opened, ops, opsInbox, handler, watch, clash>>

Seqs == 1..MaxOps

\* A message is a ClientMessage; a `subscribe` also records whether the client
\* had seen the end of whatever ran under its id.
ClientMessage == [kind : {"init", "bad", "ping"}, id : {""}, free : {FALSE}]
                 \cup [kind : {"subscribe"}, id : OpIds, free : BOOLEAN]
                 \cup [kind : {"complete"}, id : OpIds, free : {FALSE}]

NoOp == [id |-> "", at |-> "none", cancelled |-> "", wrote |-> <<>>]

GqlInit ==
    /\ opsConn = "new"
    /\ shut = ""
    /\ draining = FALSE
    /\ acked = FALSE
    /\ running = [i \in OpIds |-> 0]
    /\ opened = 0
    /\ ops = [s \in Seqs |-> NoOp]
    /\ opsInbox = <<>>
    /\ handler = "idle"
    /\ watch = "none"
    /\ clash = <<>>

\* Connection::send queues a frame unless a close was requested or the connection ended.
Writable == opsConn = "open" /\ shut = ""

\* outbound.request_close keeps the first close.
Request(code) == IF Writable THEN code ELSE shut

Wrote(s, kind) == IF Writable THEN [ops EXCEPT ![s].wrote = Append(@, kind)] ELSE ops

\* Every operation in the map, cancelled for `why`; a cancelled one keeps its first reason.
Cancelled(why) ==
    [s \in Seqs |-> IF \E i \in OpIds : running[i] = s /\ ops[s].cancelled = ""
                    THEN [ops[s] EXCEPT !.cancelled = why] ELSE ops[s]]

DrainRunning(why) ==
    /\ ops' = Cancelled(why)
    /\ running' = [i \in OpIds |-> 0]

-----------------------------------------------------------------------------
(* The connection.                                                         *)

\* on_connect: refused with 4406 without the subprotocol; a bounded init timeout spawns the wait.
OnConnect ==
    /\ opsConn = "new"
    /\ \/ opsConn' = "refused" /\ UNCHANGED watch
       \/ opsConn' = "open" /\ watch' \in {"none", "wait"}
    /\ UNCHANGED <<shut, draining, acked, running, opened, ops, opsInbox, handler, clash>>

\* The client may reuse an id once it has read the end of the operation under it and sent
\* nothing about it since.
FreeAtClient(i) ==
    /\ \A n \in DOMAIN opsInbox : opsInbox[n].id # i
    /\ running[i] # 0 => \E n \in DOMAIN ops[running[i]].wrote :
                            ops[running[i]].wrote[n] \in {"complete", "error"}

\* The read loop hands a frame to the inbox; it reads none once it closes or drains.
Receive(m) ==
    /\ Writable
    /\ ~draining
    /\ Len(opsInbox) < MaxInbox
    /\ m.free = (m.kind = "subscribe" /\ FreeAtClient(m.id))
    /\ opsInbox' = Append(opsInbox, m)
    /\ UNCHANGED <<opsConn, shut, draining, acked, running, opened, ops, handler, watch, clash>>

\* The app's drain: no execution opens from here on, and every operation's `draining` fires.
OpsDrainBegin ==
    /\ opsConn = "open"
    /\ ~draining
    /\ draining' = TRUE
    /\ UNCHANGED <<opsConn, shut, acked, running, opened, ops, opsInbox, handler, watch, clash>>

\* The read loop closes a draining connection once no message is in flight.
DrainCloses ==
    /\ Writable
    /\ draining
    /\ opsInbox = <<>>
    /\ handler = "idle"
    /\ shut' = "1001"
    /\ UNCHANGED <<opsConn, draining, acked, running, opened, ops, opsInbox, handler, watch, clash>>

\* The connection ends, lost or closed: the inbox's task is aborted between two messages and joined.
OpsConnectionEnds ==
    /\ opsConn = "open"
    /\ handler = "idle"
    /\ opsConn' = "gone"
    /\ opsInbox' = <<>>
    /\ UNCHANGED <<shut, draining, acked, running, opened, ops, handler, watch, clash>>

OnDisconnect ==
    /\ opsConn = "gone"
    /\ opsConn' = "left"
    /\ DrainRunning("disconnected")
    /\ UNCHANGED <<shut, draining, acked, opened, opsInbox, handler, watch, clash>>

-----------------------------------------------------------------------------
(* on_message.                                                             *)

Take(kind) ==
    /\ opsConn = "open"
    /\ handler = "idle"
    /\ opsInbox # <<>>
    /\ Head(opsInbox).kind = kind
    /\ opsInbox' = Tail(opsInbox)

\* `close` requests the close; the operations are cancelled after it.
Closes(code) ==
    /\ shut' = Request(code)
    /\ handler' = "close"

HandleInit ==
    /\ Take("init")
    /\ \/ /\ ~acked
          /\ acked' = TRUE
          /\ UNCHANGED <<shut, handler>>       \* the ack itself is a frame no operation reads
       \/ /\ acked
          /\ Closes("4429")
          /\ UNCHANGED acked
    /\ UNCHANGED <<opsConn, draining, running, opened, ops, watch, clash>>

HandleBad ==
    /\ Take("bad")
    /\ Closes("4400")
    /\ UNCHANGED <<opsConn, draining, acked, running, opened, ops, watch, clash>>

\* `ping` is answered with a `pong` and a `pong` is ignored: neither touches an operation.
HandlePing ==
    /\ Take("ping")
    /\ UNCHANGED <<opsConn, shut, draining, acked, running, opened, ops, handler, watch, clash>>

\* Admission, decided under the lock.
Admission(i) ==
    CASE ~acked -> "unauthorized"
      [] acked /\ running[i] # 0 -> "duplicate"
      [] acked /\ running[i] = 0 /\ draining -> "draining"
      [] OTHER -> "open"

HandleSubscribe ==
    /\ Take("subscribe")
    /\ LET i == Head(opsInbox).id
           verdict == Admission(i) IN
       /\ verdict = "open" => opened < MaxOps
       /\ CASE verdict = "unauthorized" ->
                 Closes("4401") /\ UNCHANGED <<running, opened, ops, clash>>
            [] verdict = "duplicate" ->
                 /\ Closes("4409")
                 /\ clash' = <<running[i], Head(opsInbox).free>>
                 /\ UNCHANGED <<running, opened, ops>>
            [] verdict = "draining" ->           \* answered `error` with the shutdown's phrase
                 UNCHANGED <<shut, handler, running, opened, ops, clash>>
            [] verdict = "open" ->
                 /\ opened' = opened + 1
                 /\ running' = [running EXCEPT ![i] = opened + 1]
                 /\ ops' = [ops EXCEPT ![opened + 1] = [NoOp EXCEPT !.id = i, !.at = "run"]]
                 /\ UNCHANGED <<shut, handler, clash>>
    /\ UNCHANGED <<opsConn, draining, acked, watch>>

\* A client's `complete` takes the operation out of the map and cancels it.
HandleComplete ==
    /\ Take("complete")
    /\ LET s == running[Head(opsInbox).id] IN
       /\ running' = [running EXCEPT ![Head(opsInbox).id] = 0]
       /\ ops' = IF s # 0 /\ ops[s].cancelled = ""
                 THEN [ops EXCEPT ![s].cancelled = "client"] ELSE ops
    /\ UNCHANGED <<opsConn, shut, draining, acked, opened, handler, watch, clash>>

\* The second half of `close`: every operation the connection runs is cancelled.
CloseCancels ==
    /\ handler = "close"
    /\ handler' = "idle"
    /\ DrainRunning("explicit")
    /\ UNCHANGED <<opsConn, shut, draining, acked, opened, opsInbox, watch, clash>>

-----------------------------------------------------------------------------
(* The wait for connection_init.                                           *)

\* The timeout passes, or the timer refuses the wait; an acknowledged connection is left alone.
WatchEnds ==
    /\ watch = "wait"
    /\ watch' \in (IF acked THEN {"none"} ELSE {"4408", "1001"})
    /\ UNCHANGED <<opsConn, shut, draining, acked, running, opened, ops, opsInbox, handler, clash>>

WatchCloses ==
    /\ watch \in {"4408", "1001"}
    /\ shut' = Request(watch)
    /\ watch' = "close"
    /\ UNCHANGED <<opsConn, draining, acked, running, opened, ops, opsInbox, handler, clash>>

WatchCancels ==
    /\ watch = "close"
    /\ watch' = "none"
    /\ DrainRunning("explicit")
    /\ UNCHANGED <<opsConn, shut, draining, acked, opened, opsInbox, handler, clash>>

-----------------------------------------------------------------------------
(* run: one operation's task.                                              *)

Goes(s, at) == ops' = [ops EXCEPT ![s].at = at]

\* The select polls the stream first: a ready response is taken even from a stopped operation.
PollStream(s) ==
    /\ ops[s].at = "run"
    /\ \/ Len(ops[s].wrote) < MaxNext /\ Goes(s, "next")
       \/ Goes(s, "error")
       \/ Goes(s, "complete")
    /\ UNCHANGED <<opsConn, shut, draining, acked, running, opened, opsInbox, handler, watch, clash>>

\* Stopped: silently when cancelled, with `complete` when the drain ends it.
PollStop(s) ==
    /\ ops[s].at = "run"
    /\ \/ ops[s].cancelled # "" /\ Goes(s, "finish")
       \/ ops[s].cancelled = "" /\ draining /\ Goes(s, "complete")
    /\ UNCHANGED <<opsConn, shut, draining, acked, running, opened, opsInbox, handler, watch, clash>>

SendError(s) ==
    /\ ops[s].at = "error"
    /\ ops' = [Wrote(s, "error") EXCEPT ![s].at = "finish"]
    /\ UNCHANGED <<opsConn, shut, draining, acked, running, opened, opsInbox, handler, watch, clash>>

SendNext(s) ==
    /\ ops[s].at = "next"
    /\ ops' = [Wrote(s, "next") EXCEPT ![s].at = IF Writable THEN "run" ELSE "finish"]
    /\ UNCHANGED <<opsConn, shut, draining, acked, running, opened, opsInbox, handler, watch, clash>>

SendComplete(s) ==
    /\ ops[s].at = "complete"
    /\ ops' = [Wrote(s, "complete") EXCEPT ![s].at = "finish"]
    /\ UNCHANGED <<opsConn, shut, draining, acked, running, opened, opsInbox, handler, watch, clash>>

\* The stream is dropped, then the entry is forgotten if it is still this operation's.
Finish(s) ==
    /\ ops[s].at = "finish"
    /\ Goes(s, "done")
    /\ running' = [running EXCEPT ![ops[s].id] = IF @ = s THEN 0 ELSE @]
    /\ UNCHANGED <<opsConn, shut, draining, acked, opened, opsInbox, handler, watch, clash>>

-----------------------------------------------------------------------------
RunStep(s) == PollStop(s) \/ SendNext(s) \/ SendError(s) \/ SendComplete(s) \/ Finish(s)

GqlNext ==
    \/ OnConnect
    \/ \E m \in ClientMessage : Receive(m)
    \/ OpsDrainBegin
    \/ DrainCloses
    \/ OpsConnectionEnds
    \/ OnDisconnect
    \/ HandleInit
    \/ HandleBad
    \/ HandlePing
    \/ HandleSubscribe
    \/ HandleComplete
    \/ CloseCancels
    \/ WatchEnds
    \/ WatchCloses
    \/ WatchCancels
    \/ \E s \in Seqs : PollStream(s)
    \/ \E s \in Seqs : RunStep(s)

\* The runtime polls every task it holds, and the connection's end runs its hook.
GqlFairness ==
    /\ WF_gqlVars(OnDisconnect)
    /\ WF_gqlVars(CloseCancels)
    /\ WF_gqlVars(WatchCloses)
    /\ WF_gqlVars(WatchCancels)
    /\ \A s \in Seqs : WF_gqlVars(RunStep(s))

GqlSpec == GqlInit /\ [][GqlNext]_gqlVars /\ GqlFairness

-----------------------------------------------------------------------------
(* Properties.                                                             *)

Ends(s) == {n \in DOMAIN ops[s].wrote : ops[s].wrote[n] \in {"complete", "error"}}

\* gateway.rs run, ConnState::finish: an operation that nothing has stopped and that has not
\* reached its end is the one the map holds under its id, so a client's `complete`, the
\* gateway's own close and a disconnect all reach it, however often the client reuses the id;
\* and an operation writes `next`s and then at most one end, `error` never followed by `complete`.
OperationsReachable ==
    \A s \in Seqs :
        /\ (ops[s].at \in {"run", "next"} /\ ops[s].cancelled = "") => running[ops[s].id] = s
        /\ \A n \in Ends(s) : n = Len(ops[s].wrote)

\* The connection ended; so did every operation.
ConnectionGone == opsConn = "gone"
OperationsOver == \A s \in Seqs : ops[s].at \in {"none", "done"}
===============================================================================
