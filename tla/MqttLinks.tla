------------------------------ MODULE MqttLinks ------------------------------
(***************************************************************************)
(* The MQTT link: the server's publish loop and the client's packet ids.   *)
(* Each part below has its own constants, variables, Init and Next, and    *)
(* shares no state with the others.                                        *)
(***************************************************************************)
EXTENDS Integers, Sequences, FiniteSets

-------------------------------------------------------------------------------
(***************************************************************************)
(* The server side of the MQTT link (ulo-rpc-mqtt/src/link.rs). The event  *)
(* loop owns the connection: it takes requests off a bounded channel and   *)
(* writes them, and reads what the broker routed. Replies are queued under *)
(* one lock with close's DISCONNECT; one that finds the channel full waits *)
(* for room. The broker and rumqttc's channel are external, as the link    *)
(* uses them: one filter, subscribed again on each CONNACK.                *)
(***************************************************************************)

CONSTANTS
    MqttReqs,     \* requests a caller publishes, each once
    ChannelRoom,  \* SERVER_REQUESTS, the channel's capacity
    MaxDrops      \* connections lost, at most

VARIABLES
    caller,       \* each request: "new", "routed", "read", "refused", "lost"; "left" once cancelled
    link,         \* [up, subscribed, drops, session]: the connection at the broker
    incoming,     \* what the broker wrote, in order: [kind, call]
    channel,      \* requests the event loop has yet to take: [kind, call]
    written,      \* what it wrote, in order
    side,         \* [phase, deliveries, unsub, draining, ended]
    calls,        \* the calls held: the table and, kept with it, the unanswered ones
    closed,       \* the replies are closed
    unsent,       \* what close found no room for, in order
    server,       \* each call at its server: "none", "running", "cancelled", "over"
    lane          \* each call's last frame: "idle", "arm", "armed", "tried", "woken", "wait", "done"

mqttVars == <<caller, link, incoming, channel, written, side, calls, closed, unsent, server, lane>>
Packet(kind, r) == [kind |-> kind, call |-> r]

MqttInit ==
    /\ caller = [r \in MqttReqs |-> "new"]
    /\ link = [up |-> TRUE, subscribed |-> TRUE, drops |-> 0]
    /\ incoming = <<>> /\ channel = <<>> /\ written = <<>> /\ unsent = <<>>
    /\ side = [phase |-> "serving", deliveries |-> "open", unsub |-> "none", ended |-> FALSE]
    /\ calls = {} /\ closed = FALSE
    /\ server = [r \in MqttReqs |-> "none"]
    /\ lane = [r \in MqttReqs |-> "idle"]

(***************************************************************************)
(* The caller and the broker.                                              *)
(***************************************************************************)
Route(r) ==
    /\ caller[r] = "new" /\ link.up /\ link.subscribed
    /\ caller' = [caller EXCEPT ![r] = "routed"]
    /\ incoming' = Append(incoming, Packet("request", r))
    /\ UNCHANGED <<link, channel, written, side, calls, closed, unsent, server, lane>>

RouteCancel(r) ==
    /\ caller[r] = "read" /\ link.up
    /\ caller' = [caller EXCEPT ![r] = "left"]
    /\ incoming' = Append(incoming, Packet("cancel", r))
    /\ UNCHANGED <<link, channel, written, side, calls, closed, unsent, server, lane>>

\* A connection lost takes what was on it; the requests routed there are gone.
Drop ==
    /\ link.up /\ link.drops < MaxDrops
    /\ link' = [up |-> FALSE, subscribed |-> FALSE, drops |-> link.drops + 1]
    /\ incoming' = <<>>
    /\ caller' = [r \in MqttReqs |-> IF Packet("request", r) \in {incoming[i] : i \in DOMAIN incoming} THEN "lost" ELSE caller[r]]
    /\ UNCHANGED <<channel, written, side, calls, closed, unsent, server, lane>>

(***************************************************************************)
(* The event loop. Each poll that returns notifies the lanes waiting.      *)
(***************************************************************************)

\* A wait registered before the notification is woken by it, begun or not.
NotifyRoom ==
    lane' = [r \in MqttReqs |-> CASE lane[r] \in {"armed", "tried"} -> "woken"
                                  [] lane[r] = "wait" -> "arm"
                                  [] OTHER -> lane[r]]

LoopRuns == ~side.ended

\* CONNACK without a session: nothing is left to confirm; the shared filter is
\* subscribed only while serving.
ConnAck ==
    /\ LoopRuns /\ ~link.up /\ side.phase # "closed"
    /\ link' = [link EXCEPT !.up = TRUE, !.subscribed = (side.phase = "serving")]
    /\ side' = [side EXCEPT !.unsub = IF @ = "none" THEN "none" ELSE "confirmed"]
    /\ NotifyRoom
    /\ UNCHANGED <<caller, incoming, channel, written, calls, closed, unsent, server>>

\* The loop takes one request off the channel and writes it.
WriteRequest ==
    /\ LoopRuns /\ link.up /\ channel # <<>>
    /\ LET p == Head(channel) IN
       /\ channel' = Tail(channel)
       /\ IF p.kind = "unsubscribe"
          THEN /\ side' = [side EXCEPT !.unsub = IF @ = "queued" THEN "sent" ELSE @]
               /\ link' = [link EXCEPT !.subscribed = FALSE]
               /\ incoming' = Append(incoming, Packet("unsuback", "drain"))
               /\ UNCHANGED written
          ELSE written' = Append(written, p) /\ UNCHANGED <<side, link, incoming>>
    /\ NotifyRoom
    /\ UNCHANGED <<caller, calls, closed, unsent, server>>

Queue(p) == IF Len(channel) < ChannelRoom THEN channel' = Append(channel, p) ELSE UNCHANGED channel

\* on_publish of a request, in one hold of the deliveries' lock: held and
\* delivered, or refused once the stream has ended.
OnPublish(r) ==
    IF side.deliveries = "open"
    THEN /\ calls' = calls \cup {r}
         /\ server' = [server EXCEPT ![r] = "running"]
         /\ caller' = [caller EXCEPT ![r] = "read"]
         /\ UNCHANGED channel
    ELSE /\ IF closed THEN UNCHANGED channel ELSE Queue(Packet("last", r))
         /\ caller' = [caller EXCEPT ![r] = "refused"]
         /\ UNCHANGED <<calls, server>>

\* on_publish of a cancel: released and delivered in the same hold.
OnPublishCancel(r) ==
    /\ IF side.deliveries = "open" /\ r \in calls
       THEN /\ calls' = calls \ {r}
            /\ server' = [server EXCEPT ![r] = "cancelled"]
       ELSE UNCHANGED <<calls, server>>
    /\ UNCHANGED <<channel, caller>>

ReadPacket ==
    /\ LoopRuns /\ link.up /\ incoming # <<>>
    /\ LET p == Head(incoming) IN
       /\ incoming' = Tail(incoming)
       /\ \/ p.kind = "request" /\ OnPublish(p.call) /\ UNCHANGED side
          \/ p.kind = "cancel" /\ OnPublishCancel(p.call) /\ UNCHANGED side
          \/ /\ p.kind = "unsuback"
             /\ side' = [side EXCEPT !.unsub = IF @ = "sent" THEN "confirmed" ELSE @]
             /\ UNCHANGED <<channel, caller, calls, server>>
    /\ NotifyRoom
    /\ UNCHANGED <<link, written, closed, unsent>>

\* The broker closes the connection after close, or the linger's grace ends:
\* LoopEnded wakes every reply waiting.
LoopEnds ==
    /\ LoopRuns /\ side.phase = "closed"
    /\ side' = [side EXCEPT !.ended = TRUE]
    /\ NotifyRoom
    /\ UNCHANGED <<caller, link, incoming, channel, written, calls, closed, unsent, server>>

(***************************************************************************)
(* A call's last frame.                                                    *)
(***************************************************************************)
\* try_queue, under the answers' lock: the outcome, and what it leaves.
TryQueue(r, full) ==
    \/ /\ closed
       /\ lane' = [lane EXCEPT ![r] = "done"] /\ server' = [server EXCEPT ![r] = "over"]
       /\ UNCHANGED <<channel, calls>>
    \/ /\ ~closed /\ ~side.ended /\ Len(channel) < ChannelRoom
       /\ channel' = Append(channel, Packet("last", r))
       /\ calls' = calls \ {r}
       /\ lane' = [lane EXCEPT ![r] = "done"] /\ server' = [server EXCEPT ![r] = "over"]
    \/ /\ ~closed /\ side.ended
       /\ calls' = calls \ {r}
       /\ lane' = [lane EXCEPT ![r] = "done"] /\ server' = [server EXCEPT ![r] = "over"]
       /\ UNCHANGED channel
    \/ /\ ~closed /\ ~side.ended /\ Len(channel) >= ChannelRoom
       /\ lane' = [lane EXCEPT ![r] = full]
       /\ UNCHANGED <<channel, calls, server>>

\* Lane::send at the call, then its future's loop.
LaneSend(r) ==
    /\ server[r] = "running" /\ lane[r] = "idle"
    /\ TryQueue(r, "arm")
    /\ UNCHANGED <<caller, link, incoming, written, side, closed, unsent>>

\* The wait for room is registered before the attempt.
LaneArm(r) ==
    /\ lane[r] = "arm" /\ server[r] = "running"
    /\ lane' = [lane EXCEPT ![r] = "armed"]
    /\ UNCHANGED <<caller, link, incoming, channel, written, side, calls, closed, unsent, server>>

\* The attempt under the lock, and then the wait, or the next round where the
\* loop has polled since the wait was registered.
LaneRetry(r) ==
    /\ lane[r] \in {"armed", "woken"} /\ server[r] = "running"
    /\ TryQueue(r, IF lane[r] = "woken" THEN "arm" ELSE "tried")
    /\ UNCHANGED <<caller, link, incoming, written, side, closed, unsent>>

LaneAwait(r) ==
    /\ lane[r] = "tried" /\ server[r] = "running"
    /\ lane' = [lane EXCEPT ![r] = "wait"]
    /\ UNCHANGED <<caller, link, incoming, channel, written, side, calls, closed, unsent, server>>

(***************************************************************************)
(* drain and close.                                                        *)
(***************************************************************************)
\* drain: the UNSUBSCRIBE, behind the replies queued so far.
MqttDrain ==
    /\ side.phase = "serving" /\ Len(channel) < ChannelRoom
    /\ side' = [side EXCEPT !.phase = "draining", !.unsub = "queued"]
    /\ channel' = Append(channel, Packet("unsubscribe", "drain"))
    /\ UNCHANGED <<caller, link, incoming, written, calls, closed, unsent, server, lane>>

\* Once confirmed, the watcher's end_if_idle: no call held, in the lock calls
\* are held under.
EndIfIdle ==
    /\ side.phase = "draining" /\ side.unsub = "confirmed" /\ side.deliveries = "open" /\ calls = {}
    /\ side' = [side EXCEPT !.deliveries = "ended"]
    /\ UNCHANGED <<caller, link, incoming, channel, written, calls, closed, unsent, server, lane>>

Orders(S) == {f \in [1..Cardinality(S) -> S] : \A i, j \in DOMAIN f : f[i] = f[j] => i = j}

\* close: the stream taken, the table cleared, then Replies::close in one hold
\* of the answers' lock: an answer to each call unanswered, then DISCONNECT;
\* what finds no room is queued later, in order.
MqttClose ==
    /\ side.phase # "closed"
    /\ side' = [side EXCEPT !.phase = "closed", !.deliveries = "ended"]
    /\ calls' = {} /\ closed' = TRUE
    /\ \E order \in Orders(calls) :
          LET all == [i \in DOMAIN order |-> Packet("last", order[i])] \o <<Packet("disconnect", "link")>>
              fits == IF Len(all) > ChannelRoom - Len(channel) THEN ChannelRoom - Len(channel) ELSE Len(all)
          IN /\ channel' = channel \o SubSeq(all, 1, fits)
             /\ unsent' = SubSeq(all, fits + 1, Len(all))
    /\ UNCHANGED <<caller, link, incoming, written, server, lane>>

QueueUnsent ==
    /\ unsent # <<>> /\ ~side.ended /\ Len(channel) < ChannelRoom
    /\ channel' = Append(channel, Head(unsent)) /\ unsent' = Tail(unsent)
    /\ UNCHANGED <<caller, link, incoming, written, side, calls, closed, server, lane>>

MqttNext ==
    \/ \E r \in MqttReqs : Route(r) \/ RouteCancel(r) \/ LaneSend(r) \/ LaneArm(r) \/ LaneRetry(r) \/ LaneAwait(r)
    \/ Drop \/ ConnAck \/ WriteRequest \/ ReadPacket \/ LoopEnds
    \/ MqttDrain \/ EndIfIdle \/ MqttClose \/ QueueUnsent

\* The event loop and each reply's future are polled when woken; closed, the
\* loop ends with its connection or at the linger's grace.
MqttFairness ==
    /\ WF_mqttVars(ConnAck) /\ WF_mqttVars(WriteRequest) /\ WF_mqttVars(ReadPacket) /\ WF_mqttVars(EndIfIdle) /\ WF_mqttVars(LoopEnds)
    /\ \A r \in MqttReqs : WF_mqttVars(LaneArm(r)) /\ WF_mqttVars(LaneRetry(r)) /\ WF_mqttVars(LaneAwait(r))

MqttSpec == MqttInit /\ [][MqttNext]_mqttVars /\ MqttFairness

(***************************************************************************)
(* Properties.                                                             *)
(***************************************************************************)
MqttAnswers(r) == {i \in DOMAIN written : written[i] = Packet("last", r)}
Disconnected == \E i \in DOMAIN written : written[i].kind = "disconnect"

\* No packet follows the DISCONNECT, no call is answered twice, and once it is
\* written every call handed to the server and not cancelled is answered.
MqttDisconnectLast ==
    /\ \A i \in DOMAIN written : written[i].kind = "disconnect" => i = Len(written)
    /\ \A r \in MqttReqs : Cardinality(MqttAnswers(r)) <= 1
    /\ Disconnected => \A r \in MqttReqs : server[r] \in {"running", "over"} => MqttAnswers(r) # {}

\* A drain that ends the stream leaves no request behind it on the connection:
\* what the broker routed before it confirmed is read and delivered, unless a
\* refused call's cancel is all that follows.
DrainReadsRouted ==
    side.phase = "draining" /\ side.deliveries = "ended" =>
        \A i \in DOMAIN incoming : incoming[i].kind # "request"

\* A reply waits for room; it goes out, or is dropped by close or by the
\* loop's end.
WantsRoom(r) == lane[r] = "arm"
ReplyOver(r) == lane[r] = "done" \/ server[r] = "cancelled"

-------------------------------------------------------------------------------
(***************************************************************************)
(* The client side of the MQTT link (ulo-rpc-mqtt/src/link.rs): publishes  *)
(* take turns under `order`, each waiting for the packet id its event loop *)
(* reports, and a PUBACK's packet id is how a request no subscriber takes  *)
(* is told to its call. The publish runs inside the call's own future, so  *)
(* a call timed out or dropped drops it where it waits. The broker and     *)
(* rumqttc are external: packets are written in the order queued, each     *)
(* under an id of its own, and acknowledged in any order.                  *)
(***************************************************************************)

CONSTANT MqttCalls     \* the unary calls

VARIABLES
    publisher,     \* each publish: "idle", "wanting" (`order`), "turn", "queued" (awaits its id), "sent", "failed",
                   \*   "left"; "named" and "lost": its wait answered before its packet is queued
    turn,          \* who holds `order`
    outgoing,      \* the publish waiting for its id, if any
    toWrite,       \* rumqttc's channel
    packets,       \* what was written, [what, acked], its position the packet id
    pkids,         \* the packet ids awaiting an acknowledgment, each with its call
    waitingCalls,  \* `calls`: the calls a reply or a miss signal is for
    missed,        \* the calls told no subscriber took them, and the calls none took
    clientLoop     \* [closed, disconnected, phase]: phase "polling", "failing" (past `ended`), "over"

mqttClientVars == <<publisher, turn, outgoing, toWrite, packets, pkids, waitingCalls, missed, clientLoop>>

Request(c) == [kind |-> "req", call |-> c]
CancelOf(c) == [kind |-> "cancel", call |-> c]
Disconnect == [kind |-> "disconnect", call |-> CHOOSE c \in MqttCalls : TRUE]
Publishes == {Request(c) : c \in MqttCalls} \cup {CancelOf(c) : c \in MqttCalls}

MqttClientInit ==
    /\ publisher = [p \in Publishes |-> "idle"]
    /\ turn = {} /\ outgoing = {} /\ toWrite = <<>> /\ packets = <<>> /\ pkids = {} /\ waitingCalls = {}
    /\ missed = [told |-> {}, untaken |-> {}]
    /\ clientLoop = [closed |-> FALSE, disconnected |-> FALSE, phase |-> "polling"]

\* send, of a request: the call is entered before its publish wants `order`.
SendRequest(c) ==
    /\ publisher[Request(c)] = "idle"
    /\ publisher' = [publisher EXCEPT ![Request(c)] = "wanting"]
    /\ waitingCalls' = waitingCalls \cup {c}
    /\ UNCHANGED <<turn, outgoing, toWrite, packets, pkids, missed, clientLoop>>

\* send, of a cancel, spawned by the call's end: published while the call is entered.
SendCancelOf(c) ==
    /\ publisher[Request(c)] = "left" /\ publisher[CancelOf(c)] = "idle" /\ c \in waitingCalls
    /\ publisher' = [publisher EXCEPT ![CancelOf(c)] = "wanting"]
    /\ waitingCalls' = waitingCalls \ {c}
    /\ UNCHANGED <<turn, outgoing, toWrite, packets, pkids, missed, clientLoop>>

\* publish: with `order`, the wait for an id replaces whatever `outgoing` held.
TakeOrder(p) ==
    /\ publisher[p] = "wanting" /\ turn = {}
    /\ turn' = {p} /\ outgoing' = {p}
    /\ publisher' = [publisher EXCEPT ![p] = "turn"]
    /\ UNCHANGED <<toWrite, packets, pkids, waitingCalls, missed, clientLoop>>

\* publish, under `closed`: the packet is queued, or refused, its wait taken
\* back and its call forgotten.
QueuePublish(p) ==
    /\ publisher[p] \in {"turn", "named", "lost"}
    /\ IF clientLoop.closed \/ clientLoop.phase = "over"
       THEN /\ outgoing' = {} /\ turn' = {}
            /\ publisher' = [publisher EXCEPT ![p] = "failed"]
            /\ waitingCalls' = waitingCalls \ {p.call}
            /\ UNCHANGED toWrite
       ELSE /\ toWrite' = Append(toWrite, p)
            /\ publisher' = [publisher EXCEPT ![p] = CASE @ = "turn" -> "queued" [] @ = "named" -> "sent" [] OTHER -> "failed"]
            /\ turn' = IF publisher[p] = "turn" THEN turn ELSE {}
            /\ waitingCalls' = IF publisher[p] = "lost" THEN waitingCalls \ {p.call} ELSE waitingCalls
            /\ UNCHANGED outgoing
    /\ UNCHANGED <<packets, pkids, missed, clientLoop>>

\* The call's future is dropped: `order` with it, `outgoing` and the packet not.
LeaveCall(c) ==
    /\ publisher[Request(c)] \in {"wanting", "queued", "sent"}
    /\ publisher' = [publisher EXCEPT ![Request(c)] = "left"]
    /\ turn' = turn \ {Request(c)}
    /\ UNCHANGED <<outgoing, toWrite, packets, pkids, waitingCalls, missed, clientLoop>>

\* The wait of a publish answered, its packet queued already or not; a call
\* that left hears nothing.
Answered(state, early, done) == CASE state = "turn" -> early [] state = "queued" -> done [] OTHER -> state

\* The Outgoing::Publish event: the entry of the publish waiting, if a request's.
Written(at) == pkids \cup {[pkid |-> at, call |-> p.call] : p \in {q \in outgoing : q.kind = "req"}}

WritePublish ==
    /\ clientLoop.phase = "polling" /\ toWrite # <<>> /\ Head(toWrite) # Disconnect
    /\ packets' = Append(packets, [what |-> Head(toWrite), acked |-> FALSE])
    /\ toWrite' = Tail(toWrite)
    /\ pkids' = Written(Len(packets) + 1)
    /\ outgoing' = {}
    /\ publisher' = [p \in Publishes |-> IF p \in outgoing THEN Answered(publisher[p], "named", "sent") ELSE publisher[p]]
    /\ turn' = {p \in turn : publisher'[p] \in {"turn", "named", "lost"}}
    /\ UNCHANGED <<waitingCalls, missed, clientLoop>>

\* What an acknowledgment of a packet id is for.
EntriesOf(at) == {e \in pkids : e.pkid = at}

\* acknowledged: the broker's PUBACK, `none` when it has no subscriber for the
\* packet's topic.
Acknowledged(at, none) ==
    /\ clientLoop.phase = "polling" /\ at \in DOMAIN packets /\ ~packets[at].acked
    /\ packets' = [packets EXCEPT ![at].acked = TRUE]
    /\ pkids' = pkids \ EntriesOf(at)
    /\ LET told == IF none THEN {e.call : e \in EntriesOf(at)} \cap waitingCalls ELSE {} IN
       /\ waitingCalls' = waitingCalls \ told
       /\ missed' = [told |-> missed.told \cup told,
                     untaken |-> missed.untaken \cup
                        {p.call : p \in {q \in {packets[at].what} : q.kind = "req" /\ none /\ ~clientLoop.disconnected}}]
    /\ UNCHANGED <<publisher, turn, outgoing, toWrite, clientLoop>>

\* ended: the publish waiting fails, and no acknowledgment is looked for.
Ended ==
    /\ outgoing' = {} /\ pkids' = {}
    /\ publisher' = [p \in Publishes |-> IF p \in outgoing THEN Answered(publisher[p], "lost", "failed") ELSE publisher[p]]
    /\ turn' = {p \in turn : publisher'[p] # "failed"}
    /\ waitingCalls' = {c \in waitingCalls : publisher'[Request(c)] # "failed"}

\* client_loop: the DISCONNECT is written, and the loop polled on; or the
\* connection fails, and the loop, past `ended`, returns.
DisconnectWritten ==
    /\ clientLoop.phase = "polling" /\ toWrite # <<>> /\ Head(toWrite) = Disconnect
    /\ toWrite' = Tail(toWrite)
    /\ clientLoop' = [clientLoop EXCEPT !.disconnected = TRUE]
    /\ Ended
    /\ UNCHANGED <<packets, missed>>

ConnectionFails ==
    /\ clientLoop.phase = "polling"
    /\ clientLoop' = [clientLoop EXCEPT !.phase = "failing"]
    /\ Ended
    /\ UNCHANGED <<toWrite, packets, missed>>

LoopReturns ==
    /\ clientLoop.phase = "failing"
    /\ clientLoop' = [clientLoop EXCEPT !.phase = "over"]
    /\ UNCHANGED <<publisher, turn, outgoing, toWrite, packets, pkids, waitingCalls, missed>>

\* close: the DISCONNECT is queued as `closed` is set.
CloseClient ==
    /\ ~clientLoop.closed
    /\ clientLoop' = [clientLoop EXCEPT !.closed = TRUE]
    /\ toWrite' = Append(toWrite, Disconnect)
    /\ UNCHANGED <<publisher, turn, outgoing, packets, pkids, waitingCalls, missed>>

PublishStep(p) == TakeOrder(p) \/ QueuePublish(p)

MqttClientNext ==
    \/ \E c \in MqttCalls : SendRequest(c) \/ SendCancelOf(c) \/ LeaveCall(c)
    \/ \E p \in Publishes : PublishStep(p)
    \/ \E at \in 1..Cardinality(Publishes), none \in BOOLEAN : Acknowledged(at, none)
    \/ WritePublish \/ DisconnectWritten \/ ConnectionFails \/ LoopReturns \/ CloseClient

\* A publisher goes on while it may, and the event loop is polled.
MqttClientFairness ==
    /\ \A p \in Publishes : WF_mqttClientVars(QueuePublish(p)) /\ SF_mqttClientVars(TakeOrder(p))
    /\ WF_mqttClientVars(WritePublish) /\ WF_mqttClientVars(DisconnectWritten) /\ WF_mqttClientVars(LoopReturns)

MqttClientSpec == MqttClientInit /\ [][MqttClientNext]_mqttClientVars /\ MqttClientFairness

(***************************************************************************)
(* Properties.                                                             *)
(***************************************************************************)
\* "Held across one publish and its `Outgoing::Publish` event, so the event
\* names that publish's packet id" (link.rs:1346): an acknowledgment is looked
\* up under the call whose packet it acknowledges.
PacketNamesItsCall == \A e \in pkids : packets[e.pkid].what = Request(e.call)

\* While no call was dropped, a call is told that no subscriber took it
\* exactly when none did, however soon its PUBACK is read.
MissSignalExact ==
    (\A c \in MqttCalls : publisher[Request(c)] # "left") =>
        PacketNamesItsCall /\ missed.told = missed.untaken
===============================================================================
