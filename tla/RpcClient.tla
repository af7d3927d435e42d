----------------------------- MODULE RpcClient -----------------------------
(***************************************************************************)
(* The RPC client of ulo-rpc/src/client.rs over the queue of               *)
(* ulo-rpc/src/queue.rs: callers that share one connection, the reply lane *)
(* that routes frames by call, a streamed request's pump, and the `cancel` *)
(* that a call abandoned before its reply sends once.                      *)
(*                                                                         *)
(* A step runs to the next lock, atomic or await.  A call is its id: a     *)
(* registration that fails inserts nothing, so a fresh id for each attempt *)
(* tells nothing apart.  The link and the server behind it are external:   *)
(* a send succeeds or fails, the server answers a call with items and at   *)
(* most one final frame, and the lane may end at any time.                 *)
(***************************************************************************)
EXTENDS Naturals, FiniteSets, Sequences

CONSTANTS
    Calls,      \* the calls a client may make
    Events,     \* the calls that are events, which expect no reply
    Uploads,    \* the calls whose request is a stream, which a pump sends
    Streamed,   \* the calls answered by a stream
    MaxConns,   \* bound: connections dialled in a behaviour
    MaxItems,   \* bound: items the server sends a call
    Limit,      \* the queue's limit, `max_queued_items`
    Clients     \* the clients considered: the calls each makes, and its bounds

ASSUME ClientAssumption ==
    /\ "none" \notin Calls
    /\ Events \subseteq Calls /\ Uploads \subseteq Calls \ Events /\ Streamed \subseteq Calls \ Events
    /\ MaxConns \in Nat /\ MaxItems \in Nat /\ Limit \in Nat \ {0}
    /\ Clients \subseteq [calls : SUBSET Calls, conns : 0 .. MaxConns, items : 0 .. MaxItems]

VARIABLES
    client,     \* the one of Clients that runs; it never changes
    caller,     \* where each caller's future is
    result,     \* what the call answered its caller
    attempt,    \* registrations tried by ClientInner::register
    on,         \* the connection handed to the call, 0 before
    settled,    \* Pending::settled
    cancelled,  \* Waiting::cancelled, shared by the lane, the pump and Pending
    cancels,    \* `cancel` frames sent for the call
    queue,      \* the call's reply frames, unread
    got,        \* items the caller has read
    pump,       \* where the call's pump is
    holder,     \* who holds the lock of ClientInner::conn
    slot,       \* the connection in ClientInner::conn, 0 for none
    dialled,    \* connections made so far
    open,       \* Conn::open
    pending,    \* Conn::pending
    lane,       \* where each connection's route_replies is
    asked,      \* the calls whose opening frame was handed to the link
    told,       \* items the server has sent each call
    answered    \* the calls the server has sent a final frame

callVars == <<caller, result, attempt, on, settled, cancelled, cancels, queue, got, pump>>
connVars == <<holder, slot, dialled, open, pending, lane>>
serverVars == <<asked, told, answered>>
clientVars == <<callVars, connVars, serverVars>>

Conns == 1 .. MaxConns
NoCall == "none"

\* The reply frames, and the errors the client queues itself.
Item(n) == [kind |-> "item", n |-> n]
Plain(kind) == [kind |-> kind, n |-> 0]
FinalKinds == {"res", "err", "end"}
ErrorKinds == {"overflow", "refused", "failed"}
Frames == {Item(n) : n \in 1 .. MaxItems} \cup {Plain(kind) : kind \in FinalKinds \cup ErrorKinds}

LaneAt == {"found", "remove", "cancel", "error"}
LaneStates == [at : {"next", "ended"}, call : {NoCall}, frame : {Plain("end")}]
                \cup [at : LaneAt, call : Calls, frame : Frames]
LaneNext == [at |-> "next", call |-> NoCall, frame |-> Plain("end")]

ClientInit ==
    /\ client \in Clients
    /\ caller = [c \in Calls |-> "start"]
    /\ result = [c \in Calls |-> "none"]
    /\ attempt = [c \in Calls |-> 0]
    /\ on = [c \in Calls |-> 0]
    /\ settled = [c \in Calls |-> FALSE]
    /\ cancelled = [c \in Calls |-> FALSE]
    /\ cancels = [c \in Calls |-> 0]
    /\ queue = [c \in Calls |-> <<>>]
    /\ got = [c \in Calls |-> 0]
    /\ pump = [c \in Calls |-> "none"]
    /\ holder = NoCall /\ slot = 0 /\ dialled = 0
    /\ open = [k \in Conns |-> FALSE]
    /\ pending = [k \in Conns |-> {}]
    /\ lane = [k \in Conns |-> LaneNext]
    /\ asked = {} /\ told = [c \in Calls |-> 0] /\ answered = {}

\* The caller's future has dropped its reading end.
ReaderGone(c) == caller[c] \in {"drop", "dropCancel", "done"}

\* A producing end of the call's queue is alive: the entry in `pending`, open()'s own, the pump's,
\* or the clone the lane took.
Fed(c) ==
    \/ \E k \in Conns : c \in pending[k] \/ lane[k].call = c
    \/ caller[c] \in {"write", "sending"}
    \/ pump[c] \notin {"none", "done"}

\* Feed::finish, and Feed::offer where it fits: an item for a reader that has gone is dropped.
Queued(c, frame) ==
    IF ReaderGone(c) THEN queue ELSE [queue EXCEPT ![c] = Append(@, frame)]

---------------------------------------------------------------------------
\* A call answered `what` whose Pending is dropped, and one that registered nothing.
Drops(c, what) == /\ caller' = [caller EXCEPT ![c] = "drop"]
                  /\ result' = [result EXCEPT ![c] = what]
Ends(c, what) == /\ caller' = [caller EXCEPT ![c] = "done"]
                 /\ result' = [result EXCEPT ![c] = what]
Goes(c, where) == caller' = [caller EXCEPT ![c] = where] /\ UNCHANGED result

\* The call is awaited: refused before any I/O (a reserved header, a zero bound, a passed deadline,
\* a cancelled execution, a shape the link does not carry), or on to the connection.
Await(c) ==
    /\ caller[c] = "start" /\ c \in client.calls
    /\ Ends(c, "refused") \/ Goes(c, "lock")
    /\ UNCHANGED <<attempt, on, settled, cancelled, cancels, queue, got, pump, connVars, serverVars>>

\* Mutant of Lock: the lock is let go before the dial.
LockThenDial(c) ==
    /\ caller[c] = "lock" /\ holder = NoCall
    /\ IF slot # 0 /\ open[slot]
         THEN Goes(c, "register") /\ on' = [on EXCEPT ![c] = slot]
         ELSE Goes(c, "dial") /\ UNCHANGED on
    /\ UNCHANGED <<attempt, settled, cancelled, cancels, queue, got, pump, connVars, serverVars>>

\* ClientInner::connection up to the dial: the connection in the slot if it is open.
Lock(c) ==
    /\ caller[c] = "lock" /\ holder = NoCall
    /\ IF slot # 0 /\ open[slot]
         THEN Goes(c, "register") /\ on' = [on EXCEPT ![c] = slot] /\ UNCHANGED holder
         ELSE Goes(c, "dial") /\ holder' = c /\ UNCHANGED on
    /\ UNCHANGED <<attempt, settled, cancelled, cancels, queue, got, pump, slot, dialled, open, pending, lane, serverVars>>

Dial(c) ==
    /\ caller[c] = "dial" /\ holder' = NoCall
    /\ \/ /\ dialled < client.conns
          /\ dialled' = dialled + 1 /\ slot' = dialled + 1
          /\ open' = [open EXCEPT ![dialled + 1] = TRUE]
          /\ on' = [on EXCEPT ![c] = dialled + 1]
          /\ Goes(c, "register")
       \/ Ends(c, "unconnected") /\ UNCHANGED <<dialled, slot, open, on>>
    /\ UNCHANGED <<attempt, settled, cancelled, cancels, queue, got, pump, pending, lane, serverVars>>

\* ClientInner::register and Conn::register: `open` is read under the lock of `pending`.  The
\* connection is replaced once; an event registers nothing.
Register(c) ==
    /\ caller[c] = "register"
    /\ CASE c \in Events -> Goes(c, "write") /\ UNCHANGED <<pending, attempt>>
         [] c \notin Events /\ open[on[c]] ->
              /\ Goes(c, "write")
              /\ pending' = [pending EXCEPT ![on[c]] = @ \cup {c}] /\ UNCHANGED attempt
         [] OTHER ->
              /\ attempt' = [attempt EXCEPT ![c] = @ + 1] /\ UNCHANGED pending
              /\ IF attempt[c] = 1 THEN Ends(c, "lost") ELSE Goes(c, "lock")
    /\ UNCHANGED <<on, settled, cancelled, cancels, queue, got, pump, holder, slot, dialled, open, lane, serverVars>>

\* written() and the first poll of the send: a bound that ended while the client connected fails the
\* call with nothing sent.
Write(c) ==
    /\ caller[c] = "write"
    /\ \/ Goes(c, "sending") /\ asked' = asked \cup {c} /\ UNCHANGED settled
       \/ /\ IF c \in Events THEN Ends(c, "timeout") ELSE Drops(c, "timeout")
          /\ settled' = [settled EXCEPT ![c] = TRUE] /\ UNCHANGED asked
    /\ UNCHANGED <<attempt, on, cancelled, cancels, queue, got, pump, connVars, told, answered>>

\* The send's end: the pump starts, or the call has failed with nothing for a `cancel` to stop.
Sent(c) ==
    /\ caller[c] = "sending"
    /\ \/ /\ IF c \in Events THEN Ends(c, "sent") ELSE Goes(c, "reading")
          /\ pump' = IF c \in Uploads THEN [pump EXCEPT ![c] = "check"] ELSE pump
          /\ UNCHANGED settled
       \/ /\ IF c \in Events THEN Ends(c, "unsent") ELSE Drops(c, "unsent")
          /\ settled' = [settled EXCEPT ![c] = TRUE]
          /\ UNCHANGED pump
    /\ UNCHANGED <<attempt, on, cancelled, cancels, queue, got, connVars, serverVars>>

\* Mutant of Read: an error the client queued itself settles the call.
ReadErrorSettles(c) ==
    /\ caller[c] = "reading" /\ queue[c] # <<>>
    /\ queue' = [queue EXCEPT ![c] = Tail(@)]
    /\ LET kind == Head(queue[c]).kind IN
         /\ settled' = [settled EXCEPT ![c] = kind # "item"]
         /\ IF kind = "item" THEN Goes(c, "reading") /\ got' = [got EXCEPT ![c] = @ + 1]
            ELSE Drops(c, kind) /\ UNCHANGED got
    /\ UNCHANGED <<attempt, on, cancelled, cancels, pump, connVars, serverVars>>

\* Exchange::single and replies(): one frame read.
Read(c) ==
    /\ caller[c] = "reading" /\ queue[c] # <<>>
    /\ queue' = [queue EXCEPT ![c] = Tail(@)]
    /\ LET kind == Head(queue[c]).kind
           settles == kind \in (IF c \in Streamed THEN FinalKinds ELSE {"res", "err"})
       IN /\ settled' = [settled EXCEPT ![c] = settles]
          /\ IF kind = "item" /\ c \in Streamed
               THEN Goes(c, "reading") /\ got' = [got EXCEPT ![c] = @ + 1]
               ELSE Drops(c, IF kind \in ErrorKinds \/ settles THEN kind ELSE "unexpected") /\ UNCHANGED got
    /\ UNCHANGED <<attempt, on, cancelled, cancels, pump, connVars, serverVars>>

\* Mutant of ReadLost: only a streamed reply ends with its queue.
ReadLostStreamed(c) ==
    /\ caller[c] = "reading" /\ c \in Streamed /\ queue[c] = <<>> /\ ~Fed(c)
    /\ Drops(c, "lost")
    /\ UNCHANGED <<attempt, on, settled, cancelled, cancels, queue, got, pump, connVars, serverVars>>

\* The queue has ended, every producing end gone.
ReadLost(c) ==
    /\ caller[c] = "reading" /\ queue[c] = <<>> /\ ~Fed(c)
    /\ Drops(c, "lost")
    /\ UNCHANGED <<attempt, on, settled, cancelled, cancels, queue, got, pump, connVars, serverVars>>

\* bounded() cuts the call at an await, its bound or its execution's cancellation, or the caller
\* drops it.
Abandon(c) ==
    /\ caller[c] \in {"lock", "dial", "sending", "reading"}
    /\ IF caller[c] \in {"sending", "reading"} /\ c \notin Events THEN Drops(c, "abandoned") ELSE Ends(c, "abandoned")
    /\ holder' = IF holder = c THEN NoCall ELSE holder
    /\ UNCHANGED <<attempt, on, settled, cancelled, cancels, queue, got, pump, slot, dialled, open, pending, lane, serverVars>>

\* Drop for Pending: out of `pending`, then the `cancel`, unless the call settled or the lane sent it.
DropRemove(c) ==
    /\ caller[c] = "drop"
    /\ pending' = [pending EXCEPT ![on[c]] = @ \ {c}]
    /\ Goes(c, "dropCancel")
    /\ UNCHANGED <<attempt, on, settled, cancelled, cancels, queue, got, pump, holder, slot, dialled, open, lane, serverVars>>

DropCancel(c) ==
    /\ caller[c] = "dropCancel"
    /\ Goes(c, "done")
    /\ IF settled[c] THEN UNCHANGED <<cancelled, cancels>>
       ELSE /\ cancelled' = [cancelled EXCEPT ![c] = TRUE]
            /\ cancels' = IF cancelled[c] THEN cancels ELSE [cancels EXCEPT ![c] = @ + 1]
    /\ UNCHANGED <<attempt, on, settled, queue, got, pump, connVars, serverVars>>

---------------------------------------------------------------------------
\* The server, external: it answers a call it was sent, items in order and then one final frame.
Reached(k, c) == on[c] = k /\ c \in asked \ (Events \cup answered)

\* route_replies looks the frame's call up under the lock, removing it at its final frame; a frame
\* for no call is dropped.
LaneFrame(k, c, kind) ==
    /\ lane[k].at = "next" /\ k <= dialled /\ Reached(k, c)
    /\ kind = "item" => told[c] < client.items
    /\ told' = IF kind = "item" THEN [told EXCEPT ![c] = @ + 1] ELSE told
    /\ answered' = IF kind = "item" THEN answered ELSE answered \cup {c}
    /\ pending' = IF kind = "item" THEN pending ELSE [pending EXCEPT ![k] = @ \ {c}]
    /\ lane' = IF c \notin pending[k] THEN lane
               ELSE [lane EXCEPT ![k] = [at |-> "found", call |-> c,
                                          frame |-> IF kind = "item" THEN Item(told[c] + 1) ELSE Plain(kind)]]
    /\ UNCHANGED <<callVars, holder, slot, dialled, open, asked>>

\* Mutant of LaneQueue: an item that does not fit is dropped and the call goes on.
LaneQueueSheds(k) ==
    /\ lane[k].at = "found"
    /\ LET c == lane[k].call  frame == lane[k].frame IN
         queue' = IF frame.kind = "item" /\ Len(queue[c]) >= Limit THEN queue ELSE Queued(c, frame)
    /\ lane' = [lane EXCEPT ![k] = LaneNext]
    /\ UNCHANGED <<caller, result, attempt, on, settled, cancelled, cancels, got, pump, holder, slot, dialled, open, pending, serverVars>>

\* The frame is queued: the last always fits; another that does not ends the call.
LaneQueue(k) ==
    /\ lane[k].at = "found"
    /\ LET c == lane[k].call  frame == lane[k].frame IN
       IF frame.kind = "item" /\ Len(queue[c]) >= Limit
         THEN lane' = [lane EXCEPT ![k].at = "remove"] /\ UNCHANGED queue
         ELSE lane' = [lane EXCEPT ![k] = LaneNext] /\ queue' = Queued(c, frame)
    /\ UNCHANGED <<caller, result, attempt, on, settled, cancelled, cancels, got, pump, holder, slot, dialled, open, pending, serverVars>>

\* overflow(): out of `pending`, the `cancel` unless Pending sent it, then the error.
OverflowRemove(k) ==
    /\ lane[k].at = "remove"
    /\ pending' = [pending EXCEPT ![k] = @ \ {lane[k].call}]
    /\ lane' = [lane EXCEPT ![k].at = "cancel"]
    /\ UNCHANGED <<callVars, holder, slot, dialled, open, serverVars>>

OverflowCancel(k) ==
    /\ lane[k].at = "cancel"
    /\ LET c == lane[k].call IN
         /\ cancelled' = [cancelled EXCEPT ![c] = TRUE]
         /\ cancels' = IF cancelled[c] THEN cancels ELSE [cancels EXCEPT ![c] = @ + 1]
    /\ lane' = [lane EXCEPT ![k].at = "error"]
    /\ UNCHANGED <<caller, result, attempt, on, settled, queue, got, pump, holder, slot, dialled, open, pending, serverVars>>

OverflowError(k) ==
    /\ lane[k].at = "error"
    /\ queue' = Queued(lane[k].call, Plain("overflow"))
    /\ lane' = [lane EXCEPT ![k] = LaneNext]
    /\ UNCHANGED <<caller, result, attempt, on, settled, cancelled, cancels, got, pump, holder, slot, dialled, open, pending, serverVars>>

\* `goaway`: no new call goes over the connection; those on it go on.
Goaway(k) ==
    /\ k <= dialled /\ lane[k].at = "next" /\ open[k]
    /\ open' = [open EXCEPT ![k] = FALSE]
    /\ UNCHANGED <<callVars, holder, slot, dialled, pending, lane, serverVars>>

\* The lane's end, Conn::ended.
LaneEnds(k) ==
    /\ k <= dialled /\ lane[k].at = "next"
    /\ lane' = [lane EXCEPT ![k].at = "ended"]
    /\ open' = [open EXCEPT ![k] = FALSE]
    /\ pending' = [pending EXCEPT ![k] = {}]
    /\ UNCHANGED <<callVars, holder, slot, dialled, serverVars>>

---------------------------------------------------------------------------
\* pump(): the call has ended, its reader gone or its overflow cancelled.
PumpEnded(c) == ReaderGone(c) \/ cancelled[c]

Pumps(c, where) == pump' = [pump EXCEPT ![c] = where]
pumpUnchanged == <<caller, result, attempt, on, settled, cancelled, cancels, got, connVars, serverVars>>

PumpCheck(c) ==
    /\ pump[c] = "check"
    /\ Pumps(c, IF PumpEnded(c) THEN "done" ELSE "pull")
    /\ UNCHANGED <<queue, pumpUnchanged>>

\* The caller's own stream yields an item, its end, or an error.
PumpPull(c) ==
    /\ pump[c] = "pull"
    /\ \/ Pumps(c, IF PumpEnded(c) THEN "done" ELSE "send") /\ UNCHANGED queue
       \/ Pumps(c, "tail") /\ UNCHANGED queue
       \/ /\ Pumps(c, "done")
          /\ queue' = IF PumpEnded(c) THEN queue ELSE Queued(c, Plain("refused"))
    /\ UNCHANGED pumpUnchanged

\* An `in` or the `in_end` is sent, or the link refuses it and the call is told.
PumpSend(c) ==
    /\ pump[c] \in {"send", "tail"}
    /\ \/ Pumps(c, IF pump[c] = "send" THEN "check" ELSE "done") /\ UNCHANGED queue
       \/ Pumps(c, "done") /\ queue' = Queued(c, Plain("failed"))
    /\ UNCHANGED pumpUnchanged

---------------------------------------------------------------------------
CallStep(c) ==
    \/ Await(c) \/ Lock(c) \/ Dial(c) \/ Register(c) \/ Write(c) \/ Sent(c)
    \/ Read(c) \/ ReadLost(c) \/ DropRemove(c) \/ DropCancel(c)
LaneStep(k) == LaneQueue(k) \/ OverflowRemove(k) \/ OverflowCancel(k) \/ OverflowError(k)
ServerStep(k) ==
    \/ \E c \in Calls, kind \in {"item"} \cup FinalKinds : LaneFrame(k, c, kind)
    \/ Goaway(k) \/ LaneEnds(k)

ClientNext ==
    \/ \E c \in Calls : CallStep(c) \/ Abandon(c) \/ PumpCheck(c) \/ PumpPull(c) \/ PumpSend(c)
    \/ \E k \in Conns : LaneStep(k) \/ ServerStep(k)

ClientSpec == ClientInit /\ [][ClientNext /\ UNCHANGED client]_<<client, clientVars>>

\* The runtime polls every task that is woken: a caller's own steps, a lane's and a pump's go on.
\* Nothing is asked of the server, of the caller's stream, or of a bound.
ClientFairness ==
    /\ \A c \in Calls : WF_clientVars(CallStep(c)) /\ WF_clientVars(PumpCheck(c)) /\ WF_clientVars(PumpSend(c))
    /\ \A k \in Conns : WF_clientVars(LaneStep(k))

ClientFairSpec == ClientSpec /\ ClientFairness

\* The same over a link that refuses what is sent once its lane has ended, the kindest to a pump.
LinkRefuses ==
    \A c \in Calls :
      pump[c] \in {"send", "tail"} /\ lane[on[c]].at = "ended" /\ ~ReaderGone(c) =>
        pump'[c] = pump[c] \/ Len(queue'[c]) > Len(queue[c])
RefusingFairSpec == ClientInit /\ [][ClientNext /\ LinkRefuses /\ UNCHANGED client]_<<client, clientVars>> /\ ClientFairness

---------------------------------------------------------------------------
CallerStates == {"start", "lock", "dial", "register", "write", "sending", "reading", "drop", "dropCancel", "done"}
Results == FinalKinds \cup ErrorKinds
             \cup {"none", "refused", "unconnected", "lost", "timeout", "sent", "unsent", "unexpected", "abandoned"}

\* The client never has two connections it would send a call over: ClientInner::connection holds
\* its lock across the dial, so callers that find the connection gone make one between them.
OneOpenConnection == \A k, l \in Conns : open[k] /\ open[l] => k = l

\* Nobody waits on a lane that has gone: Conn::register reads `open` under the lock Conn::ended
\* clears the map under.
NoneWaitsOnEndedLane == \A k \in Conns : lane[k].at = "ended" => pending[k] = {} /\ ~open[k]

\* A call that ended before its reply settled it, by its bound, its execution, its caller's drop,
\* an overflow or an answer it cannot read, has sent exactly one `cancel`, whichever of the lane's
\* overflow and Drop for Pending came first; one whose final reply was read has sent none.
CancelledExactlyOnce ==
    \A c \in Calls \ Events :
      caller[c] = "done" /\ c \in asked /\ result[c] # "unsent" =>
        cancels[c] = IF result[c] \in FinalKinds THEN 0 ELSE 1

\* What a caller reads is what the server sent, from the first item on with none missing, and a
\* final reply follows every one of them: an item that does not fit the queue ends the call and is
\* never skipped, and a lane's last frame overtakes nothing.
NothingSkipped ==
    /\ \A c \in Calls : ~ReaderGone(c) => \A i \in 1 .. Len(queue[c]) :
         (\A j \in 1 .. i : queue[c][j].kind = "item") => queue[c][i].n = got[c] + i
    /\ \A c \in Streamed : result[c] \in FinalKinds => got[c] = told[c]

\* A lost reply lane fails every call waiting on it (client.rs:19-20, 316-317): for calls whose
\* request is one payload, and for every call.
Waits(c) == caller[c] = "reading" /\ lane[on[c]].at = "ended"
LostLaneFailsUnary == \A c \in Calls \ (Events \cup Uploads) : Waits(c) ~> caller[c] = "done"
LostLaneFailsAll == \A c \in Calls \ Events : Waits(c) ~> caller[c] = "done"
=============================================================================
