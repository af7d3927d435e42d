------------------------------ MODULE WsOutbound ------------------------------
(***************************************************************************)
(* ulo-ws/src/connection.rs: a connection's outbound queue (Outbound), the *)
(* tasks that fill it, and the read loop that writes it and closes the     *)
(* connection: on request, on overflow, in the drain once no message is in *)
(* flight, on its runtime's shutdown and on the client's own close.        *)
(*                                                                         *)
(* A sender (a broadcast, Connection::send) pushes under the overflow      *)
(* policy; a stream (a message whose answer is a stream, in flight until   *)
(* it ends) waits for room; a closer requests a close.  Each takes the     *)
(* queue's lock in one step and notifies in the next.  The bounds on       *)
(* reading are WsPlaces's.                                                 *)
(***************************************************************************)
EXTENDS Naturals, Sequences, FiniteSets

CONSTANTS
    Senders, Streams, Closers,   \* who may use the queue
    Count,                       \* bound: the messages each of them pushes
    Connections                  \* the connections considered: their settings, and who uses each

ASSUME WsOutboundAssumption ==
    /\ Count \in Nat \ {0} /\ "close" \notin Senders \cup Streams \cup Closers
    /\ \A c \in Connections :
         c.limit \in Nat \ {0} /\ c.overflow \in {"drop_oldest", "close"} /\ c.fails \in BOOLEAN

VARIABLES
    connection,            \* the one of Connections that runs; it never changes
    queue, close, closed,  \* OutState; close is the reason requested, or "none"
    at,                    \* where each user of the queue is
    sent,                  \* how many messages each has had accepted or refused
    room,                  \* a stream's listener of Outbound::space
    listen,                \* the loop's listeners: of wake, of progress, of the phase
    drained, seen,         \* the server's phase, and the loop's copy of it
    outLoop,                  \* where the read loop is
    taken,                 \* the messages the loop is writing
    why,                   \* the close the loop has decided on
    closing,               \* the loop's `closing`
    refused,               \* the loop's `shut_down`
    wire,                  \* what the socket was given
    accepted, dropped      \* history: the pushes answered Ok, in order, and what a policy or an end discarded

outVars == <<queue, close, closed>>
userVars == <<at, sent, room>>
loopVars == <<seen, outLoop, taken, why, closing, refused, wire>>
vars == <<outVars, userVars, listen, drained, loopVars, accepted, dropped>>

QueueLimit == connection.limit        \* the queue's limit
Overflow == connection.overflow  \* the policy: "drop_oldest" or "close"
MayFail == connection.fails      \* whether the socket, the client and the runtime may end it
Users == Senders \cup Streams \cup Closers
Events == {"wake", "progress", "phase"}
Reasons == {"requested", "policy", "drain", "shut_down", "client"}
CloseFrame(reason) == <<"close", reason>>
CloseFrames == {CloseFrame(reason) : reason \in Reasons}

Heard(e) == [listen EXCEPT ![e] = IF @ = "on" THEN "heard" ELSE @]
RoomHeard == [s \in Streams |-> IF room[s] = "on" THEN "heard" ELSE room[s]]
Elements(s) == {s[i] : i \in 1 .. Len(s)}
Idle == \A s \in Streams : at[s] \in {"told", "over"}
Gone == closed \/ close # "none"

OutInit ==
    /\ connection \in Connections
    /\ queue = <<>> /\ close = "none" /\ closed = FALSE
    /\ at = [u \in Users |-> IF u \in connection.users THEN "ready" ELSE "over"] /\ sent = [u \in Users |-> 0] /\ room = [s \in Streams |-> "none"]
    /\ listen = [e \in Events |-> "none"] /\ drained = FALSE /\ seen = FALSE
    /\ outLoop = "top" /\ taken = <<>> /\ why = "none" /\ closing = "none" /\ refused = FALSE
    /\ wire = <<>> /\ accepted = <<>> /\ dropped = {}

---------------------------------------------------------------------------
\* The queue's users.
Accept(u) ==
    /\ sent' = [sent EXCEPT ![u] = @ + 1] /\ accepted' = Append(accepted, <<u, sent[u] + 1>>)
    /\ at' = [at EXCEPT ![u] = "notify"]

\* Outbound::push.
Push(u) ==
    /\ at[u] = "ready" /\ u \in Senders
    /\ \/ Gone /\ at' = [at EXCEPT ![u] = "over"] /\ UNCHANGED <<outVars, sent, accepted, dropped>>
       \/ /\ ~Gone /\ Len(queue) < QueueLimit /\ Accept(u) /\ queue' = Append(queue, <<u, sent[u] + 1>>)
          /\ UNCHANGED <<close, closed, dropped>>
       \/ /\ ~Gone /\ Len(queue) >= QueueLimit /\ Overflow = "drop_oldest"
          /\ Accept(u) /\ queue' = Append(Tail(queue), <<u, sent[u] + 1>>)
          /\ dropped' = dropped \cup {Head(queue)} /\ UNCHANGED <<close, closed>>
       \/ /\ ~Gone /\ Len(queue) >= QueueLimit /\ Overflow = "close"
          /\ queue' = <<>> /\ close' = "policy" /\ dropped' = dropped \cup Elements(queue)
          /\ at' = [at EXCEPT ![u] = "notify"] /\ UNCHANGED <<closed, sent, accepted>>
    /\ UNCHANGED <<room, listen, drained, loopVars>>

\* Outbound::push_wait: the listener of room, then the queue under its lock, then the wait.
StreamListen(s) ==
    /\ at[s] = "ready" /\ at' = [at EXCEPT ![s] = "check"] /\ room' = [room EXCEPT ![s] = "on"]
    /\ UNCHANGED <<outVars, sent, listen, drained, loopVars, accepted, dropped>>

StreamPush(s) ==
    /\ at[s] = "check"
    /\ \/ Gone /\ at' = [at EXCEPT ![s] = "finishing"] /\ room' = [room EXCEPT ![s] = "none"]
          /\ UNCHANGED <<queue, sent, accepted>>
       \/ /\ ~Gone /\ Len(queue) < QueueLimit /\ Accept(s) /\ queue' = Append(queue, <<s, sent[s] + 1>>)
          /\ room' = [room EXCEPT ![s] = "none"]
       \/ ~Gone /\ Len(queue) >= QueueLimit /\ at' = [at EXCEPT ![s] = "waiting"] /\ UNCHANGED <<queue, sent, room, accepted>>
    /\ UNCHANGED <<close, closed, listen, drained, loopVars, dropped>>

StreamWoken(s) ==
    /\ at[s] = "waiting" /\ room[s] = "heard" /\ at' = [at EXCEPT ![s] = "ready"] /\ room' = [room EXCEPT ![s] = "none"]
    /\ UNCHANGED <<outVars, sent, listen, drained, loopVars, accepted, dropped>>

\* pump: a cancelled message's stream is cut at its next item.
StreamCut(s) ==
    /\ at[s] = "ready" /\ at' = [at EXCEPT ![s] = "finishing"]
    /\ UNCHANGED <<outVars, sent, room, listen, drained, loopVars, accepted, dropped>>

\* Flight::finished: the message leaves the count, and the loop is told.
StreamFinished(s) ==
    /\ at[s] = "finishing" /\ at' = [at EXCEPT ![s] = "told"]
    /\ UNCHANGED <<outVars, sent, room, listen, drained, loopVars, accepted, dropped>>

\* Mutant of StreamTold: the loop is told of nothing.
StreamToldNobody(s) ==
    /\ at[s] = "told" /\ at' = [at EXCEPT ![s] = "over"]
    /\ UNCHANGED <<outVars, sent, room, listen, drained, loopVars, accepted, dropped>>

StreamTold(s) ==
    /\ at[s] = "told" /\ at' = [at EXCEPT ![s] = "over"] /\ listen' = Heard("progress")
    /\ UNCHANGED <<outVars, sent, room, drained, loopVars, accepted, dropped>>

\* Outbound::request_close: the first requested is the one written.
RequestClose(c) ==
    /\ at[c] = "ready" /\ at' = [at EXCEPT ![c] = "notify"] /\ sent' = [sent EXCEPT ![c] = Count]
    /\ close' = IF Gone THEN close ELSE "requested"
    /\ UNCHANGED <<queue, closed, room, listen, drained, loopVars, accepted, dropped>>

\* The queue's lock released, the loop is woken to write; the user goes on to its next message.
Wake(u) ==
    /\ at[u] = "notify" /\ listen' = Heard("wake")
    /\ at' = [at EXCEPT ![u] = IF sent[u] < Count THEN "ready" ELSE IF u \in Streams THEN "finishing" ELSE "over"]
    /\ UNCHANGED <<outVars, sent, room, drained, loopVars, accepted, dropped>>

\* Tracker::drain raises the phase its connections watch.
Drain ==
    /\ ~drained /\ drained' = TRUE /\ listen' = Heard("phase")
    /\ UNCHANGED <<outVars, userVars, loopVars, accepted, dropped>>

---------------------------------------------------------------------------
\* The read loop.  A turn registers its listeners, then reads what they watch.
Top ==
    /\ outLoop = "top" /\ outLoop' = "take"
    /\ listen' = [e \in Events |-> IF listen[e] = "none" /\ (e # "phase" \/ ~seen) THEN "on" ELSE listen[e]]
    /\ UNCHANGED <<outVars, userVars, drained, seen, taken, why, closing, refused, wire, accepted, dropped>>

\* Outbound::take: the queue and the close requested after it.
Take ==
    /\ outLoop = "take" /\ outLoop' = "write" /\ seen' = drained
    /\ taken' = queue /\ queue' = <<>> /\ why' = close /\ close' = "none" /\ closed' = (closed \/ close # "none")
    /\ room' = RoomHeard
    /\ UNCHANGED <<at, sent, listen, drained, closing, refused, wire, accepted, dropped>>

Write ==
    /\ outLoop = "write" /\ outLoop' = "decide" /\ wire' = wire \o taken /\ taken' = <<>>
    /\ UNCHANGED <<outVars, userVars, listen, drained, seen, why, closing, refused, accepted, dropped>>

\* Whether this turn closes, and why: what was requested, the runtime's shutdown, or the drain with
\* no message in flight.
OutDecide ==
    /\ outLoop = "decide"
    /\ why' = IF closing # "none" THEN "none"
              ELSE IF why # "none" THEN why
              ELSE IF refused THEN "shut_down"
              ELSE IF seen /\ Idle THEN "drain" ELSE "none"
    /\ outLoop' = IF why' = "none" THEN "wait" ELSE "late"
    /\ UNCHANGED <<outVars, userVars, listen, drained, seen, taken, closing, refused, wire, accepted, dropped>>

\* Mutant of Late: the queue is shut, and what came late with it.
LateShut ==
    /\ outLoop = "late" /\ outLoop' = "close"
    /\ taken' = <<>> /\ queue' = <<>> /\ closed' = TRUE /\ room' = RoomHeard
    /\ UNCHANGED <<close, at, sent, listen, drained, seen, why, closing, refused, wire, accepted, dropped>>

\* Outbound::shut_taking: what was pushed since the take is written before the close.
Late ==
    /\ outLoop = "late" /\ outLoop' = "close"
    /\ taken' = queue /\ queue' = <<>> /\ closed' = TRUE /\ room' = RoomHeard
    /\ UNCHANGED <<close, at, sent, listen, drained, seen, why, closing, refused, wire, accepted, dropped>>

\* Mutant of WriteClose: the close is written before what came late.
WriteCloseFirst ==
    /\ outLoop = "close" /\ outLoop' = "wait" /\ wire' = Append(wire, CloseFrame(why)) \o taken /\ taken' = <<>>
    /\ closing' = why /\ why' = "none"
    /\ UNCHANGED <<outVars, userVars, listen, drained, seen, refused, accepted, dropped>>

WriteClose ==
    /\ outLoop = "close" /\ outLoop' = "wait" /\ wire' = Append(wire \o taken, CloseFrame(why)) /\ taken' = <<>>
    /\ closing' = why /\ why' = "none"
    /\ UNCHANGED <<outVars, userVars, listen, drained, seen, refused, accepted, dropped>>

\* The socket refuses a write.
WriteFails ==
    /\ MayFail /\ outLoop \in {"write", "close"} /\ outLoop' = "ending"
    /\ UNCHANGED <<outVars, userVars, listen, drained, seen, taken, why, closing, refused, wire, accepted, dropped>>

\* The turn's wait: a listener heard.
Woken(e) ==
    /\ outLoop = "wait" /\ listen[e] = "heard" /\ outLoop' = "top" /\ listen' = [listen EXCEPT ![e] = "none"]
    /\ UNCHANGED <<outVars, userVars, drained, seen, taken, why, closing, refused, wire, accepted, dropped>>

\* Outbound::shut.
Shut == closed' = TRUE /\ queue' = <<>> /\ room' = RoomHeard /\ dropped' = dropped \cup Elements(queue) /\ UNCHANGED close

\* The client's Close frame; nothing is read in the drain until the close is under way.
ClientClose ==
    /\ MayFail /\ outLoop = "wait" /\ closing = "none" /\ ~seen /\ Shut /\ closing' = "client" /\ outLoop' = "top"
    /\ UNCHANGED <<at, sent, listen, drained, seen, taken, why, refused, wire, accepted>>

\* The socket ends or fails under the read, or a Pong is missed.
Lost ==
    /\ MayFail /\ outLoop = "wait" /\ outLoop' = "ending"
    /\ UNCHANGED <<outVars, userVars, listen, drained, seen, taken, why, closing, refused, wire, accepted, dropped>>

\* The close handshake done, or its deadline.
CloseDeadline ==
    /\ outLoop = "wait" /\ closing # "none" /\ outLoop' = "ending"
    /\ UNCHANGED <<outVars, userVars, listen, drained, seen, taken, why, closing, refused, wire, accepted, dropped>>

\* The keep-alive's timer refuses, its runtime shut down.
Refused ==
    /\ MayFail /\ outLoop = "wait" /\ closing = "none" /\ ~refused /\ refused' = TRUE /\ outLoop' = "top"
    /\ UNCHANGED <<outVars, userVars, listen, drained, seen, taken, why, closing, wire, accepted, dropped>>

\* The connection ends: the queue shut, its messages' tasks aborted and joined.
Ending ==
    /\ outLoop = "ending" /\ outLoop' = "over"
    /\ closed' = TRUE /\ queue' = <<>> /\ dropped' = dropped \cup Elements(queue) \cup Elements(taken) /\ taken' = <<>>
    /\ at' = [u \in Users |-> IF u \in Streams THEN "over" ELSE at[u]] /\ room' = [s \in Streams |-> "none"]
    /\ UNCHANGED <<close, sent, listen, drained, seen, why, closing, refused, wire, accepted>>

OutLoopStep == Top \/ Take \/ Write \/ OutDecide \/ Late \/ WriteClose \/ (\E e \in Events : Woken(e)) \/ CloseDeadline \/ Ending
StreamStep(s) == StreamListen(s) \/ StreamPush(s) \/ StreamWoken(s) \/ StreamFinished(s) \/ StreamTold(s) \/ Wake(s)
UserStep(u) == Push(u) \/ Wake(u)

OutNext ==
    \/ OutLoopStep \/ Drain \/ WriteFails \/ ClientClose \/ Lost \/ Refused
    \/ \E s \in Streams : StreamStep(s) \/ StreamCut(s)
    \/ \E u \in Senders \cup Closers : UserStep(u)
    \/ \E c \in Closers : RequestClose(c)
OutSpec == OutInit /\ [][OutNext /\ UNCHANGED connection]_<<connection, vars>>

\* The runtime polls what is ready, and a stream goes on yielding.  A write is assumed to end.
OutFairSpec ==
    /\ OutSpec /\ WF_vars(OutLoopStep)
    /\ (\A s \in Streams : WF_vars(StreamStep(s))) /\ \A u \in Senders \cup Closers : WF_vars(Wake(u))

---------------------------------------------------------------------------
OutTypeOK ==
    /\ Len(queue) <= QueueLimit /\ close \in Reasons \cup {"none"} /\ closed \in BOOLEAN /\ drained \in BOOLEAN
    /\ seen \in BOOLEAN /\ refused \in BOOLEAN /\ why \in Reasons \cup {"none"} /\ closing \in Reasons \cup {"none"}
    /\ at \in [Users -> {"ready", "check", "waiting", "notify", "finishing", "told", "over"}]
    /\ sent \in [Users -> 0 .. Count] /\ room \in [Streams -> {"none", "on", "heard"}]
    /\ listen \in [Events -> {"none", "on", "heard"}]
    /\ outLoop \in {"top", "take", "write", "decide", "late", "close", "wait", "ending", "over"}

\* What was written, what is being written and what is queued.
Outgoing == wire \o taken \o queue
Precedes(m, n) == \E k, l \in 1 .. Len(accepted) : k < l /\ accepted[k] = m /\ accepted[l] = n

\* What a push answered Ok for is written, is being written or is queued, once each and in the order
\* of the pushes; only an overflow and the connection's end discard any.  The queue never
\* exceeds its limit.
Accounted ==
    /\ OutTypeOK
    /\ \A i, j \in 1 .. Len(accepted) : accepted[i] = accepted[j] => i = j
    /\ Elements(Outgoing) \ CloseFrames = Elements(accepted) \ dropped
    /\ \A i, j \in 1 .. Len(Outgoing) :
         i < j /\ Outgoing[i] \notin CloseFrames /\ Outgoing[j] \notin CloseFrames => Precedes(Outgoing[i], Outgoing[j])

\* The close frame is the last thing written, and follows every message accepted, one pushed between
\* the loop's take and its decision to close included.
CloseFollows ==
    \A i \in 1 .. Len(wire) : wire[i] \in CloseFrames => i = Len(wire) /\ queue = <<>> /\ closed

\* The drain closes the connection once its last message in flight has ended.
DrainCloses == drained ~> (closing # "none" \/ outLoop = "over")
=============================================================================
