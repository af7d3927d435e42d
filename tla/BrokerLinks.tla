----------------------------- MODULE BrokerLinks -----------------------------
(***************************************************************************)
(* The Redis and RabbitMQ links, and one streamed request over a broker.   *)
(* Each part below has its own constants, variables, Init and Next, and    *)
(* shares no state with the others.                                        *)
(***************************************************************************)
EXTENDS Integers, Sequences, FiniteSets, SequencesExt

-------------------------------------------------------------------------------
(***************************************************************************)
(* The Redis link (ulo-rpc-redis/src/link.rs) over Pub/Sub, which keeps    *)
(* nothing for a subscriber that is away: requests on the patterns'        *)
(* channels, a caller's cancels on the one control channel, the server's   *)
(* lane that reconnects, and the drain's watcher. The deliveries lock is   *)
(* one step: a call is held and handed over in it, and the stream ended.   *)
(***************************************************************************)

CONSTANTS
    Requests,   \* the calls callers make
    MaxLosses   \* bound: Pub/Sub connections the server loses

VARIABLES
    phase,      \* "serving", "draining" or "closed"
    sub,        \* the channels the current connection is subscribed to
    lane,       \* the server's lane: "reading", "down", "reserving" (phase read) or "gone"
    resub,      \* the channels the reconnect under way asks for
    inbox,      \* messages on the connection, not read: [frame, call]
    holds,      \* Calls::held
    inbound,    \* the inbound stream: "open" or "ended"
    drainStep,  \* drain: "no", "unsubscribing", "watching", "over"
    call,       \* each request: "new", "missed", "sent", "handed", "refused"
    outcome,    \* how a handed call left the table: "none", "answered", "cancelled", "cleared"
    losses

redisVars == <<phase, sub, lane, resub, inbox, holds, inbound, drainStep, call, outcome, losses>>

\* server_channels: the patterns while serving, the control channel always.
ServerChannels(serving) == IF serving THEN {"patterns", "control"} ELSE {"control"}

RedisInit ==
    /\ phase = "serving" /\ sub = ServerChannels(TRUE) /\ lane = "reading" /\ resub = {}
    /\ inbox = <<>> /\ holds = {} /\ inbound = "open" /\ drainStep = "no"
    /\ call = [r \in Requests |-> "new"]
    /\ outcome = [r \in Requests |-> "none"]
    /\ losses = 0

(***************************************************************************)
(* Callers.                                                                *)
(***************************************************************************)
\* ClientSide::request: zero receivers is NoDestination.
Publish(r) ==
    /\ call[r] = "new"
    /\ IF "patterns" \in sub
       THEN /\ inbox' = Append(inbox, [frame |-> "req", call |-> r])
            /\ call' = [call EXCEPT ![r] = "sent"]
       ELSE /\ call' = [call EXCEPT ![r] = "missed"]
            /\ UNCHANGED inbox
    /\ UNCHANGED <<phase, sub, lane, resub, holds, inbound, drainStep, outcome, losses>>

\* ClientSide::control: whoever listens reads it.
PublishCancel(r) ==
    /\ call[r] \in {"sent", "handed"} /\ outcome[r] = "none"
    /\ [frame |-> "cancel", call |-> r] \notin {inbox[i] : i \in DOMAIN inbox}
    /\ inbox' = IF "control" \in sub THEN Append(inbox, [frame |-> "cancel", call |-> r]) ELSE inbox
    /\ UNCHANGED <<phase, sub, lane, resub, holds, inbound, drainStep, call, outcome, losses>>

(***************************************************************************)
(* The server's lane.                                                      *)
(***************************************************************************)
\* ServerSide::accept of a request, in one hold of the deliveries lock.
Take(r) ==
    IF inbound = "open"
    THEN holds' = holds \cup {r} /\ call' = [call EXCEPT ![r] = "handed"]
    ELSE UNCHANGED holds /\ call' = [call EXCEPT ![r] = "refused"]

\* accept of a cancel: released and handed over, unless the stream has ended
\* or the call is not held.
TakeCancelled(r) ==
    IF inbound = "open" /\ r \in holds
    THEN holds' = holds \ {r} /\ outcome' = [outcome EXCEPT ![r] = "cancelled"]
    ELSE UNCHANGED <<holds, outcome>>

OnMessage ==
    /\ lane = "reading" /\ inbox # <<>>
    /\ inbox' = Tail(inbox)
    /\ LET m == Head(inbox) IN
       IF m.frame = "req" THEN Take(m.call) /\ UNCHANGED outcome ELSE TakeCancelled(m.call) /\ UNCHANGED call
    /\ UNCHANGED <<phase, sub, lane, resub, inbound, drainStep, losses>>

\* The connection drops: what it carried is still read, what follows is lost.
LoseConnection ==
    /\ losses < MaxLosses /\ losses' = losses + 1
    /\ lane = "reading" /\ sub # {}
    /\ sub' = {}
    /\ UNCHANGED <<phase, lane, resub, inbox, holds, inbound, drainStep, call, outcome>>

StreamOver ==
    /\ lane = "reading" /\ sub = {} /\ inbox = <<>>
    /\ lane' = IF phase = "closed" THEN "gone" ELSE "down"
    /\ UNCHANGED <<phase, sub, resub, inbox, holds, inbound, drainStep, call, outcome, losses>>

\* After the pause the phase is read ...
Reconnect ==
    /\ lane = "down"
    /\ lane' = "reserving" /\ resub' = ServerChannels(phase = "serving")
    /\ UNCHANGED <<phase, sub, inbox, holds, inbound, drainStep, call, outcome, losses>>

\* ... and what it asked for is subscribed; a failure tries again.
Resubscribed(ok) ==
    /\ lane = "reserving"
    /\ lane' = IF ok THEN "reading" ELSE "down"
    /\ sub' = IF ok THEN resub ELSE sub
    /\ UNCHANGED <<phase, resub, inbox, holds, inbound, drainStep, call, outcome, losses>>

\* A handler's last frame: the reply path releases the call.
ReplyLast(r) ==
    /\ r \in holds /\ outcome[r] = "none"
    /\ holds' = holds \ {r}
    /\ outcome' = [outcome EXCEPT ![r] = "answered"]
    /\ UNCHANGED <<phase, sub, lane, resub, inbox, inbound, drainStep, call, losses>>

(***************************************************************************)
(* drain and close.                                                        *)
(***************************************************************************)
RedisDrain ==
    /\ phase = "serving"
    /\ phase' = "draining" /\ drainStep' = "unsubscribing"
    /\ UNCHANGED <<sub, lane, resub, inbox, holds, inbound, call, outcome, losses>>

\* UNSUBSCRIBE on the sink drain read; it fails on a connection that is gone.
Unsubscribed ==
    /\ drainStep = "unsubscribing"
    /\ drainStep' = "watching" /\ sub' = sub \ {"patterns"}
    /\ UNCHANGED <<phase, lane, resub, inbox, holds, inbound, call, outcome, losses>>

\* The watcher wakes at a count of zero; end_if_idle looks again under the lock.
EndIfIdle ==
    /\ drainStep = "watching" /\ phase = "draining" /\ holds = {}
    /\ inbound' = "ended" /\ drainStep' = "over"
    /\ UNCHANGED <<phase, sub, lane, resub, inbox, holds, call, outcome, losses>>

\* close takes the stream first, then clears the table.
RedisClose ==
    /\ phase \in {"serving", "draining"} /\ drainStep # "unsubscribing"
    /\ phase' = "closed" /\ inbound' = "ended" /\ drainStep' = "over"
    /\ holds' = {}
    /\ outcome' = [r \in Requests |-> IF r \in holds THEN "cleared" ELSE outcome[r]]
    /\ sub' = {} /\ lane' = "gone"
    /\ UNCHANGED <<resub, inbox, call, losses>>

RedisNext ==
    \/ \E r \in Requests : Publish(r) \/ PublishCancel(r) \/ ReplyLast(r)
    \/ OnMessage \/ LoseConnection \/ StreamOver \/ Reconnect \/ \E ok \in BOOLEAN : Resubscribed(ok)
    \/ RedisDrain \/ Unsubscribed \/ EndIfIdle \/ RedisClose

\* Handlers answer, the lane reads, and Redis comes back in the end.
RedisFairness ==
    /\ WF_redisVars(OnMessage) /\ WF_redisVars(StreamOver) /\ WF_redisVars(Reconnect) /\ SF_redisVars(Resubscribed(TRUE))
    /\ WF_redisVars(Unsubscribed) /\ WF_redisVars(EndIfIdle)
    /\ \A r \in Requests : WF_redisVars(ReplyLast(r))

RedisSpec == RedisInit /\ [][RedisNext]_redisVars /\ RedisFairness

(***************************************************************************)
(* Properties.                                                             *)
(***************************************************************************)
\* A request the server read is held, or answered, cancelled or refused: the
\* stream never ends over a call handed to the server, and none is handed over
\* once it has ended.
RedisCallsSettled ==
    /\ \A r \in Requests : call[r] = "handed" <=> (r \in holds \/ outcome[r] # "none")
    /\ inbound = "ended" => holds = {}
    /\ \A r \in Requests : outcome[r] = "cleared" => phase = "closed"

\* While the server serves and its connection is up, it hears both its
\* patterns and the control channel, also after a reconnect; a drain leaves
\* it the control channel, so a cancel still reaches a call in flight.
RedisStillListening ==
    lane = "reading" /\ sub # {} =>
        "control" \in sub /\ (phase = "serving" => "patterns" \in sub)

Draining == phase = "draining"
StreamEnded == inbound = "ended"

-------------------------------------------------------------------------------
(***************************************************************************)
(* The RabbitMQ link's one client connect (ulo-rpc-rabbitmq/src/link.rs,   *)
(* Connecting): a task the link owns, which every connect arriving while   *)
(* it runs waits on. Its connection is taken once, its failure is answered *)
(* to everyone, and a close at any moment leaves neither a caller waiting  *)
(* nor a connection open.                                                  *)
(***************************************************************************)

CONSTANTS
    Askers,         \* the calls of connect
    MaxAttempts     \* bound: connects started

VARIABLES
    current,    \* State::connecting: the attempt, or 0
    started,    \* attempts started
    attempt,    \* each attempt: [task, done, outcome]
    asker,      \* each connect: [step, on]
    socket,     \* each attempt's connection: "none", "open", "handed", "closed"
    closes      \* whether close ran

rabbitConnectVars == <<current, started, attempt, asker, socket, closes>>
Attempts == 1..MaxAttempts
Unstarted == [task |-> "none", done |-> FALSE, outcome |-> "none"]

RabbitConnectInit ==
    /\ current = 0 /\ started = 0
    /\ attempt = [n \in Attempts |-> Unstarted]
    /\ asker = [k \in Askers |-> [step |-> "asking", on |-> 0]]
    /\ socket = [n \in Attempts |-> "none"]
    /\ closes = FALSE

\* Connecting::joinable.
Joinable(n) ==
    /\ n # 0
    /\ \/ attempt[n].outcome = "opened"
       \/ attempt[n].outcome = "none" /\ ~attempt[n].done /\ attempt[n].task = "running"

\* connect waits on the attempt under way, starting it when there is none.
Ask(k) ==
    /\ asker[k].step = "asking"
    /\ IF Joinable(current)
       THEN /\ asker' = [asker EXCEPT ![k] = [step |-> "waiting", on |-> current]]
            /\ UNCHANGED <<current, started, attempt>>
       ELSE /\ started < MaxAttempts
            /\ started' = started + 1 /\ current' = started + 1
            /\ attempt' = [attempt EXCEPT ![started + 1].task = "running"]
            /\ asker' = [asker EXCEPT ![k] = [step |-> "waiting", on |-> started + 1]]
    /\ UNCHANGED <<socket, closes>>

\* open_client made its connection, not yet answered.
Connected(n) ==
    /\ attempt[n].task = "running" /\ ~attempt[n].done /\ socket[n] = "none"
    /\ socket' = [socket EXCEPT ![n] = "open"]
    /\ UNCHANGED <<current, started, attempt, asker, closes>>

\* Connecting::start's task answers: opened, refused, panicked, or past its
\* bound, which drops the connection. An answer of close's stands.
Answer(n, opened) ==
    /\ attempt[n].task \in {"running", "aborting"} /\ (opened => socket[n] = "open")
    /\ LET kept == IF attempt[n].outcome # "none" THEN attempt[n].outcome
                   ELSE IF opened THEN "opened" ELSE "failed" IN
       /\ attempt' = [attempt EXCEPT ![n] = [task |-> "ended", done |-> TRUE, outcome |-> kept]]
       /\ socket' = [socket EXCEPT ![n] = IF @ = "open" /\ kept # "opened" THEN "closed" ELSE @]
    /\ UNCHANGED <<current, started, asker, closes>>

\* The runtime shut down: the task is dropped unanswered, its connection with it.
TaskDropped(n) ==
    /\ attempt[n].task \in {"running", "aborting"}
    /\ attempt' = [attempt EXCEPT ![n].task = "ended"]
    /\ socket' = [socket EXCEPT ![n] = IF @ = "open" THEN "closed" ELSE @]
    /\ UNCHANGED <<current, started, asker, closes>>

\* The watch channel answers, or closes with the task.
Resolved(n) == attempt[n].done \/ attempt[n].task = "ended"


\* connect wakes: the first takes the connection, a failure is everyone's, and
\* one that finds it taken asks again.
AnsweredTo(k) ==
    LET n == asker[k].on IN
    /\ asker[k].step = "waiting" /\ Resolved(n)
    /\ IF attempt[n].outcome = "opened"
       THEN /\ attempt' = [attempt EXCEPT ![n].outcome = "none"]
            /\ socket' = [socket EXCEPT ![n] = "handed"]
            /\ current' = IF current = n THEN 0 ELSE current
            /\ asker' = [asker EXCEPT ![k].step = "connected"]
       ELSE /\ asker' = [asker EXCEPT ![k].step = IF attempt[n].outcome = "none" /\ attempt[n].done THEN "asking" ELSE "refused"]
            /\ UNCHANGED <<attempt, socket, current>>
    /\ UNCHANGED <<started, closes>>

\* A call's own timeout ends its wait; the connect runs on for the next.
GiveUp(k) ==
    /\ asker[k].step = "waiting"
    /\ asker' = [asker EXCEPT ![k].step = "left"]
    /\ UNCHANGED <<current, started, attempt, socket, closes>>

\* close takes the attempt: an untaken connection is closed, its waiters are
\* answered, and the task is aborted.
CloseConnecting ==
    /\ ~closes /\ closes' = TRUE /\ current' = 0
    /\ IF current = 0 THEN UNCHANGED <<attempt, socket>>
       ELSE /\ attempt' = [attempt EXCEPT ![current].outcome = IF @ \in {"none", "opened"} THEN "failed" ELSE @,
                                          ![current].task = IF @ = "running" THEN "aborting" ELSE @]
            /\ socket' = [socket EXCEPT ![current] = IF attempt[current].outcome = "opened" THEN "closed" ELSE @]
    /\ UNCHANGED <<started, asker>>

AbortLands(n) == attempt[n].task = "aborting" /\ TaskDropped(n)

RabbitConnectNext ==
    \/ \E k \in Askers : Ask(k) \/ AnsweredTo(k) \/ GiveUp(k)
    \/ \E n \in Attempts : Connected(n) \/ TaskDropped(n) \/ \E opened \in BOOLEAN : Answer(n, opened)
    \/ CloseConnecting

\* connect_within bounds every attempt, and an abort lands.
RabbitConnectFairness ==
    /\ \A k \in Askers : WF_rabbitConnectVars(Ask(k)) /\ WF_rabbitConnectVars(AnsweredTo(k))
    /\ \A n \in Attempts : WF_rabbitConnectVars(Answer(n, FALSE))
          /\ WF_rabbitConnectVars(AbortLands(n))

RabbitConnectSpec == RabbitConnectInit /\ [][RabbitConnectNext]_rabbitConnectVars /\ RabbitConnectFairness

(***************************************************************************)
(* Properties.                                                             *)
(***************************************************************************)
\* One connect runs at a time; a connection it opened has one owner: the task
\* making it, the outcome waiting to be taken, one caller, or nobody once it
\* is closed, also when close, a timeout and a late answer cross.
ConnectionOwnedOnce ==
    /\ Cardinality({n \in Attempts : attempt[n].task = "running"}) <= 1
    /\ \A n \in Attempts :
          /\ socket[n] = "open" => attempt[n].task \in {"running", "aborting"} \/ (attempt[n].outcome = "opened" /\ current = n)
          /\ Cardinality({k \in Askers : asker[k].step = "connected" /\ asker[k].on = n}) = (IF socket[n] = "handed" THEN 1 ELSE 0)

Asking(k) == asker[k].step = "waiting"

-------------------------------------------------------------------------------
(***************************************************************************)
(* The server side of the RabbitMQ link (ulo-rpc-rabbitmq/src/link.rs):    *)
(* the queue delivers and redelivers, the request lanes hold and deliver,  *)
(* handlers answer through the table's lock and settle their delivery, and *)
(* close queues its answers and a flush behind every frame queued before.  *)
(*                                                                         *)
(* The queue, its unacknowledged deliveries and the consumers are external *)
(* (RabbitMQ and lapin), as the link uses them. Each request is read by a  *)
(* lane of its own: lanes share nothing but the table and the stream.      *)
(***************************************************************************)

CONSTANTS
    Unary,      \* requests published without a kind
    Streamed    \* streamed requests, published `open`

VARIABLES
    broker,     \* each request in the queue: "new", "queued", "sent", "acked", "rejected"
    lanes,      \* each request's lane: "idle", "buffered", "opening" (opened queued), "over"
    table,      \* Calls: [held, closed], and the calls cancelled so far
    side,       \* [phase, deliveries, watcher, consuming]
    handlers,   \* each call's handler: "none", "running", "answered", "cancelled", "settled"
    writes,     \* the server's writer's queue: [kind, call]
    published,  \* what it published, in order
    connection  \* [state, flushed]: the serving connection

rabbitVars == <<broker, lanes, table, side, handlers, writes, published, connection>>
RabbitReqs == Unary \cup Streamed
RabbitWrite(kind, r) == [kind |-> kind, call |-> r]

RabbitInit ==
    /\ broker = [r \in RabbitReqs |-> "new"]
    /\ lanes = [r \in RabbitReqs |-> "idle"]
    /\ table = [held |-> {}, closed |-> FALSE, cancelled |-> {}]
    /\ side = [phase |-> "serving", deliveries |-> "open", watcher |-> FALSE, consuming |-> TRUE]
    /\ handlers = [r \in RabbitReqs |-> "none"]
    /\ writes = <<>> /\ published = <<>>
    /\ connection = [state |-> "open", flushed |-> FALSE]

(***************************************************************************)
(* The broker.                                                             *)
(***************************************************************************)
Enqueue(r) ==
    /\ broker[r] = "new"
    /\ broker' = [broker EXCEPT ![r] = "queued"]
    /\ UNCHANGED <<lanes, table, side, handlers, writes, published, connection>>

\* A prefetched delivery waits in the consumer until its lane reads it.
Prefetch(r) ==
    /\ broker[r] = "queued" /\ side.consuming /\ connection.state = "open" /\ lanes[r] = "idle"
    /\ broker' = [broker EXCEPT ![r] = "sent"]
    /\ lanes' = [lanes EXCEPT ![r] = "buffered"]
    /\ UNCHANGED <<table, side, handlers, writes, published, connection>>

(***************************************************************************)
(* The lanes.                                                              *)
(***************************************************************************)

DeliverCall(r) ==
    handlers' = IF side.deliveries = "open" THEN [handlers EXCEPT ![r] = "running"] ELSE handlers

\* on_request of a request: held, then delivered, which drops it once the
\* stream has ended.
OnRequest(r) ==
    /\ lanes[r] = "buffered" /\ r \in Unary /\ connection.state = "open"
    /\ lanes' = [lanes EXCEPT ![r] = "over"]
    /\ table' = [table EXCEPT !.held = @ \cup {r}]
    /\ DeliverCall(r)
    /\ UNCHANGED <<broker, side, writes, published, connection>>

\* on_request of an open: held, and its `opened` queued ...
OnOpen(r) ==
    /\ lanes[r] = "buffered" /\ r \in Streamed /\ connection.state = "open"
    /\ lanes' = [lanes EXCEPT ![r] = "opening"]
    /\ table' = [table EXCEPT !.held = @ \cup {r}]
    /\ writes' = Append(writes, RabbitWrite("opened", r))
    /\ UNCHANGED <<broker, side, handlers, published, connection>>

\* ... and delivered once that is published, or could not be.
OpenedWritten(r) ==
    /\ lanes[r] = "opening"
    /\ RabbitWrite("opened", r) \notin {writes[i] : i \in DOMAIN writes}
    /\ lanes' = [lanes EXCEPT ![r] = "over"]
    /\ DeliverCall(r)
    /\ UNCHANGED <<broker, table, side, writes, published, connection>>

\* on_control of a cancel: the table lets the call go, the server is told.
OnCancel(r) ==
    /\ r \in table.held /\ connection.state = "open"
    /\ table' = [table EXCEPT !.held = @ \ {r}, !.cancelled = @ \cup {r}]
    /\ handlers' = IF side.deliveries = "open" /\ handlers[r] = "running"
                   THEN [handlers EXCEPT ![r] = "cancelled"] ELSE handlers
    /\ UNCHANGED <<broker, lanes, side, writes, published, connection>>


\* hold's reply path with a last frame, in one hold of the table's lock.
AnswerCall(r) ==
    /\ handlers[r] = "running"
    /\ handlers' = [handlers EXCEPT ![r] = "answered"]
    /\ IF table.closed THEN UNCHANGED <<table, writes>>
       ELSE /\ table' = [table EXCEPT !.held = @ \ {r}]
            /\ writes' = Append(writes, RabbitWrite("last", r))
    /\ UNCHANGED <<broker, lanes, side, published, connection>>

\* The Ack settles once the handler completed; nothing settles a connection gone.
SettleDelivery(r, accepted) ==
    /\ handlers[r] \in {"answered", "cancelled"}
    /\ handlers' = [handlers EXCEPT ![r] = "settled"]
    /\ broker' = IF connection.state = "open"
                 THEN [broker EXCEPT ![r] = IF accepted THEN "acked" ELSE "rejected"] ELSE broker
    /\ UNCHANGED <<lanes, table, side, writes, published, connection>>

PublishReply ==
    /\ writes # <<>> /\ connection.state = "open"
    /\ writes' = Tail(writes)
    /\ IF Head(writes).kind = "flush"
       THEN connection' = [connection EXCEPT !.flushed = TRUE] /\ UNCHANGED published
       ELSE published' = Append(published, Head(writes)) /\ UNCHANGED connection
    /\ UNCHANGED <<broker, lanes, table, side, handlers>>

(***************************************************************************)
(* drain and close.                                                        *)
(***************************************************************************)
RabbitDrain ==
    /\ side.phase = "serving"
    /\ side' = [side EXCEPT !.phase = "draining"]
    /\ UNCHANGED <<broker, lanes, table, handlers, writes, published, connection>>

\* basic_cancel of every consumer, then the watcher: what a consumer holds by
\* then is still read.
ConsumersCancelled ==
    /\ side.phase = "draining" /\ side.consuming
    /\ side' = [side EXCEPT !.consuming = FALSE, !.watcher = TRUE]
    /\ UNCHANGED <<broker, lanes, table, handlers, writes, published, connection>>

\* The watcher saw no call held and takes the stream.
DrainEnded ==
    /\ side.watcher /\ side.deliveries = "open" /\ table.held = {}
    /\ side' = [side EXCEPT !.deliveries = "ended"]
    /\ UNCHANGED <<broker, lanes, table, handlers, writes, published, connection>>

AsSeq(S) == {f \in [1..Cardinality(S) -> S] : \A i, j \in DOMAIN f : f[i] = f[j] => i = j}

\* close_after_writes: the table closed, its calls answered, the flush behind.
CloseAfterWrites ==
    /\ side.phase # "closed"
    /\ side' = [side EXCEPT !.phase = "closed", !.deliveries = "ended"]
    /\ table' = [table EXCEPT !.held = {}, !.closed = TRUE]
    /\ \E order \in AsSeq(table.held) :
          writes' = writes \o [i \in DOMAIN order |-> RabbitWrite("unavailable", order[i])] \o <<RabbitWrite("flush", "all")>>
    /\ UNCHANGED <<broker, lanes, handlers, published, connection>>

\* The closing task: once flushed it closes the connection; at CUT_GRACE, or
\* refused one, it lets go of it and ends the writer. The broker takes back
\* what was not acknowledged.
CloseConnection(cut) ==
    /\ side.phase = "closed" /\ connection.state = "open"
    /\ cut \/ connection.flushed
    /\ connection' = [connection EXCEPT !.state = IF cut THEN "cut" ELSE "closed"]
    /\ broker' = [r \in RabbitReqs |-> IF broker[r] = "sent" THEN "queued" ELSE broker[r]]
    /\ lanes' = [r \in RabbitReqs |-> "over"]
    /\ UNCHANGED <<table, side, handlers, writes, published>>

RabbitNext ==
    \/ \E r \in RabbitReqs :
          \/ Enqueue(r) \/ Prefetch(r) \/ OnRequest(r) \/ OnOpen(r) \/ OpenedWritten(r) \/ OnCancel(r)
          \/ AnswerCall(r) \/ \E accepted \in BOOLEAN : SettleDelivery(r, accepted)
    \/ PublishReply \/ RabbitDrain \/ ConsumersCancelled \/ DrainEnded \/ CloseAfterWrites
    \/ \E cut \in BOOLEAN : CloseConnection(cut)

RabbitSpec == RabbitInit /\ [][RabbitNext]_rabbitVars

(***************************************************************************)
(* Properties.                                                             *)
(***************************************************************************)
Lasts(r) == {i \in DOMAIN published : published[i].call = r /\ published[i].kind \in {"last", "unavailable"}}
QueuedLasts(r) == {i \in DOMAIN writes : writes[i].call = r /\ writes[i].kind \in {"last", "unavailable"}}

\* A call is answered at most once, by its handler or by close, its `opened`
\* never after its answer, and nothing is queued behind close's flush but an
\* `opened`.
RabbitOneAnswer ==
    /\ \A r \in RabbitReqs : Cardinality(Lasts(r)) + Cardinality(QueuedLasts(r)) <= 1
    /\ \A i, j \in DOMAIN published : i < j /\ published[i].call = published[j].call => published[i].kind = "opened"
    /\ \A i, j \in DOMAIN writes : i < j /\ writes[i].kind = "flush" => writes[j].kind = "opened"

\* Closed without a cut, the connection goes down with every answer out: each
\* call a lane read has its answer published, was cancelled, or is back in the
\* queue for another server; one that a drain dropped or a close overtook is
\* never acknowledged.
RabbitCloseAnswers ==
    connection.state = "closed" =>
        \A r \in RabbitReqs : Lasts(r) # {} \/ r \in table.cancelled \/ broker[r] \in {"new", "queued"}

-------------------------------------------------------------------------------
(***************************************************************************)
(* One streamed request over a broker link, both ends: the client holds    *)
(* the request's items, and its cancel, until the server's `opened` comes  *)
(* back, and the server's two lanes deliver the `open` and the control     *)
(* frames into the one stream dispatch routes in arrival order.            *)
(*                                                                         *)
(* ulo-rpc-rabbitmq/src/link.rs publishes `opened` and awaits it before it *)
(* delivers the `open`; ulo-rpc-mqtt/src/link.rs queues `opened` and       *)
(* delivers the `open` in one hold of its lock. The client side is         *)
(* RabbitMQ's, whose table MQTT's follows. Frames are lost on no lane: the *)
(* broker is external and delivers each lane in order.                     *)
(***************************************************************************)

CONSTANTS
    UploadLinks,   \* the links: "rabbitmq", "mqtt"
    MaxItems       \* items of the request stream, at most

VARIABLES
    uploadLink,    \* the link the call goes over
    sent,          \* the frames the caller has sent after its open: its items, then in_end or cancel
    jobs,          \* the client's writer's queue
    entry,         \* the client's table: [call: "none" | "streaming" | "cancelled", opened, waits]
    request,       \* the open: "queued", "read", "returned"
    control,       \* the control lane, in order
    replies,       \* the reply lane, in order
    opening,       \* the server's request lane: "idle", "acknowledging", "delivered"
    serverHolds,         \* the server's table holds the call
    routed         \* dispatch: [live, taken]: the call's state and the items its stream was given

uploadVars == <<uploadLink, sent, jobs, entry, request, control, replies, opening, serverHolds, routed>>

Item(n) == <<"in", n>>
Kind(kind) == <<kind, 0>>
Ends == {Kind("in_end"), Kind("cancel")}
SentItems == SelectSeq(sent, LAMBDA f : f \notin Ends)
Uploading == \A i \in DOMAIN sent : sent[i] \notin Ends

UploadInit ==
    /\ uploadLink \in UploadLinks
    /\ sent = <<>> /\ jobs = <<Kind("open")>>
    /\ entry = [call |-> "none", opened |-> FALSE, waits |-> <<>>]
    /\ request = "unsent" /\ control = <<>> /\ replies = <<>>
    /\ opening = "idle" /\ serverHolds = FALSE /\ routed = [live |-> "none", taken |-> <<>>]

(***************************************************************************)
(* The client.                                                             *)
(***************************************************************************)
\* The caller's pump sends items in order, then in_end; a caller that leaves
\* sends cancel instead. Each send takes its place in the writer's queue.
Feed(frame) ==
    /\ Uploading
    /\ frame \in Ends \/ (Len(sent) < MaxItems /\ frame = Item(Len(sent) + 1))
    /\ sent' = Append(sent, frame) /\ jobs' = Append(jobs, frame)
    /\ UNCHANGED <<uploadLink, entry, request, control, replies, opening, serverHolds, routed>>

NoEntry == [call |-> "none", opened |-> FALSE, waits |-> <<>>]

SendControl(frame) ==
    CASE entry.call = "streaming" /\ entry.opened -> /\ control' = Append(control, frame)
                                                     /\ entry' = entry
      [] entry.call = "streaming" /\ ~entry.opened -> /\ entry' = [entry EXCEPT !.waits = Append(@, frame)]
                                                      /\ control' = control
      [] OTHER -> UNCHANGED <<entry, control>>

SendCancel ==
    CASE entry.call = "streaming" /\ entry.opened -> entry' = NoEntry /\ control' = Append(control, Kind("cancel"))
      [] entry.call = "streaming" /\ ~entry.opened -> entry' = [NoEntry EXCEPT !.call = "cancelled"] /\ control' = control
      [] OTHER -> UNCHANGED <<entry, control>>

\* The server's `opened` releases what was held, a cancel alone.
TakeOpened ==
    CASE entry.call = "streaming" /\ ~entry.opened -> /\ entry' = [entry EXCEPT !.opened = TRUE, !.waits = <<>>]
                                                      /\ control' = control \o entry.waits
      [] entry.call = "cancelled" -> entry' = NoEntry /\ control' = Append(control, Kind("cancel"))
      [] OTHER -> UNCHANGED <<entry, control>>

\* client_writer takes the next job.
ClientWrites ==
    /\ jobs # <<>>
    /\ jobs' = Tail(jobs)
    /\ LET job == Head(jobs) IN
       \/ /\ job = Kind("open")
          /\ entry' = [NoEntry EXCEPT !.call = "streaming"] /\ request' = "queued"
          /\ UNCHANGED control
       \/ job[1] \in {"in", "in_end"} /\ SendControl(job) /\ UNCHANGED request
       \/ job = Kind("cancel") /\ SendCancel /\ UNCHANGED request
       \/ job = Kind("opened") /\ TakeOpened /\ UNCHANGED request
    /\ UNCHANGED <<uploadLink, sent, replies, opening, serverHolds, routed>>

\* settle: a request no queue takes comes back, and the call is forgotten.
Returned ==
    /\ request = "queued" /\ opening = "idle"
    /\ request' = "returned" /\ entry' = NoEntry
    /\ UNCHANGED <<uploadLink, sent, jobs, control, replies, opening, serverHolds, routed>>

\* expire_cancelled: the hold of a cancel waiting for `opened` runs out.
ExpireCancelled ==
    /\ entry.call = "cancelled"
    /\ entry' = NoEntry
    /\ UNCHANGED <<uploadLink, sent, jobs, request, control, replies, opening, serverHolds, routed>>

\* route_replies: `opened` goes behind the frames already queued, a last frame
\* ends the call.
RouteReply ==
    /\ replies # <<>>
    /\ replies' = Tail(replies)
    /\ IF Head(replies) = "opened" THEN jobs' = Append(jobs, Kind("opened")) /\ UNCHANGED entry
       ELSE entry' = NoEntry /\ UNCHANGED jobs
    /\ UNCHANGED <<uploadLink, sent, request, control, opening, serverHolds, routed>>

(***************************************************************************)
(* The server.                                                             *)
(***************************************************************************)
\* The request lane takes the open: held, and acknowledged.
TakeOpen ==
    /\ request = "queued"
    /\ request' = "read" /\ serverHolds' = TRUE
    /\ replies' = Append(replies, "opened")
    /\ IF uploadLink = "mqtt"
       THEN opening' = "delivered" /\ routed' = [routed EXCEPT !.live = "live"]
       ELSE opening' = "acknowledging" /\ UNCHANGED routed
    /\ UNCHANGED <<uploadLink, sent, jobs, entry, control>>

\* RabbitMQ's lane, woken by the publish it awaited, delivers the open.
DeliverOpen ==
    /\ opening = "acknowledging"
    /\ opening' = "delivered" /\ routed' = [routed EXCEPT !.live = "live"]
    /\ UNCHANGED <<uploadLink, sent, jobs, entry, request, control, replies, serverHolds>>

\* The control lane delivers a frame naming a held call; dispatch drops one
\* naming no live call.
OnControl ==
    /\ control # <<>>
    /\ control' = Tail(control)
    /\ LET frame == Head(control) IN
       /\ serverHolds' = (serverHolds /\ frame # Kind("cancel"))
       /\ routed' = CASE ~serverHolds \/ routed.live # "live" -> routed
                      [] frame = Kind("cancel") -> [routed EXCEPT !.live = "cancelled"]
                      [] frame = Kind("in_end") -> [routed EXCEPT !.live = "read"]
                      [] OTHER -> [routed EXCEPT !.taken = Append(@, frame)]
    /\ UNCHANGED <<uploadLink, sent, jobs, entry, request, replies, opening>>

\* The handler answers: the call leaves both tables.
AnswerUpload ==
    /\ routed.live \in {"live", "read"}
    /\ routed' = [routed EXCEPT !.live = "answered"]
    /\ serverHolds' = FALSE /\ replies' = Append(replies, "last")
    /\ UNCHANGED <<uploadLink, sent, jobs, entry, request, control, opening>>

UploadNext ==
    \/ \E frame \in {Item(n) : n \in 1..MaxItems} \cup Ends : Feed(frame)
    \/ ClientWrites \/ Returned \/ ExpireCancelled \/ RouteReply
    \/ TakeOpen \/ DeliverOpen \/ OnControl \/ AnswerUpload

\* The writer, the lanes and the timer each run as tasks of their own.
UploadFairness ==
    /\ WF_uploadVars(ClientWrites) /\ WF_uploadVars(ExpireCancelled) /\ WF_uploadVars(RouteReply)
    /\ WF_uploadVars(DeliverOpen) /\ WF_uploadVars(OnControl)

UploadSpec == UploadInit /\ [][UploadNext]_uploadVars /\ UploadFairness

(***************************************************************************)
(* Properties.                                                             *)
(***************************************************************************)
\* A cancel is published alone: behind nothing held for its call, and with
\* nothing of the call after it.
CancelAlone ==
    \A i \in DOMAIN control : control[i] = Kind("cancel") =>
        /\ i = Len(control)
        /\ ~entry.opened

\* The request stream the server's call reads is what the caller sent, from
\* its first item on and with none skipped: "a streamed request's `in` items
\* arrive in order with `in_end` last".
UploadWhole == IsPrefix(routed.taken, SentItems)

\* UploadWhole where `opened` and the open go out in one hold of a lock.
UploadWholeOnMqtt == uploadLink = "mqtt" => UploadWhole /\ (routed.live = "read" => routed.taken = SentItems)

\* A cancel waits for an `opened`; the entry of the call its caller left goes.
CancelHeld == entry.call = "cancelled"
EntryGone == entry.call = "none"
===============================================================================
