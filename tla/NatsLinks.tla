------------------------------ MODULE NatsLinks ------------------------------
(***************************************************************************)
(* The NATS link: the server, the client's calls and the shared TLS roots. *)
(* Each part below has its own constants, variables, Init and Next, and    *)
(* shares no state with the others.                                        *)
(***************************************************************************)
EXTENDS Integers, Sequences, FiniteSets

-------------------------------------------------------------------------------
(***************************************************************************)
(* The server side of the NATS link (ulo-rpc-nats/src/link.rs): request    *)
(* and control lanes, reply paths that wait for room in the connection's   *)
(* command channel, the drain, and close, which answers what is held.      *)
(*                                                                         *)
(* External, as the link uses them: the subscriptions, and async-nats's    *)
(* bounded command channel, whose task writes each command in order and    *)
(* exits without writing the rest once no Client is left.                  *)
(***************************************************************************)

CONSTANTS
    NatsUnary,      \* requests
    NatsStreamed,   \* streamed requests
    CommandRoom     \* what the command channel holds

VARIABLES
    subject,    \* each request: "unsent", "buffered" in the subscription, "held", "refused", "discarded"
    natsLane,   \* [request, control]: each lane "reading", "draining" or "ended"
    opening,    \* the open whose `opened` the request lane waits to queue, if any
    natsHeld,   \* Calls: the keys held
    answers,    \* [closed, unanswered]: what Replies holds
    natsCall,   \* each call's handler: "none", "running", "waiting" (a frame waits), "over"
    natsGone,   \* the calls whose caller cancelled them
    commands,   \* the command channel: [kind, call]
    natsWire,   \* what the connection wrote
    natsSide,   \* [phase, closer, unsent, keeper]: close's progress, and the task keeping the connection
    natsUp      \* the connection: "up", "down" (disconnected), "over" (its task exited)

natsVars == <<subject, natsLane, opening, natsHeld, answers, natsCall, natsGone, commands, natsWire, natsSide, natsUp>>
NatsReqs == NatsUnary \cup NatsStreamed
Command(kind, c) == [kind |-> kind, call |-> c]
HasRoom == Len(commands) < CommandRoom
NoOpen == "none"

\* Calls::release, and whether Replies::close has run.
ReleaseHeld(c) == natsHeld' = natsHeld \ {c}
RepliesClosed == answers.closed

NatsInit ==
    /\ subject = [c \in NatsReqs |-> "unsent"]
    /\ natsLane = [request |-> "reading", control |-> "reading"]
    /\ opening = NoOpen
    /\ natsHeld = {} /\ answers = [closed |-> FALSE, unanswered |-> {}]
    /\ natsCall = [c \in NatsReqs |-> "none"] /\ natsGone = {}
    /\ commands = <<>> /\ natsWire = <<>>
    /\ natsSide = [phase |-> "serving", closer |-> "none", unsent |-> {}, keeper |-> "none"]
    /\ natsUp = "up"

(***************************************************************************)
(* The connection.                                                         *)
(***************************************************************************)
\* A request routed to the subscription while async-nats still knows it.
Routed(c) ==
    /\ subject[c] = "unsent" /\ natsUp = "up" /\ natsLane.request # "ended"
    /\ subject' = [subject EXCEPT ![c] = IF natsLane.request = "draining" THEN "discarded" ELSE "buffered"]
    /\ UNCHANGED <<natsLane, opening, natsHeld, answers, natsCall, natsGone, commands, natsWire, natsSide, natsUp>>

WriteCommand ==
    /\ natsUp = "up" /\ commands # <<>>
    /\ natsWire' = Append(natsWire, Head(commands))
    /\ commands' = Tail(commands)
    /\ UNCHANGED <<subject, natsLane, opening, natsHeld, answers, natsCall, natsGone, natsSide, natsUp>>

NatsLost ==
    /\ natsUp = "up" /\ natsUp' = "down"
    /\ UNCHANGED <<subject, natsLane, opening, natsHeld, answers, natsCall, natsGone, commands, natsWire, natsSide>>


\* hold, under the lock close takes.
Hold(c) ==
    /\ ~RepliesClosed
    /\ natsHeld' = natsHeld \cup {c}
    /\ answers' = [answers EXCEPT !.unanswered = @ \cup {c}]

\* on_request of a request: held and delivered.
ReadReq(c) ==
    /\ subject[c] = "buffered" /\ natsLane.request # "ended" /\ opening = NoOpen /\ c \in NatsUnary
    /\ Hold(c)
    /\ subject' = [subject EXCEPT ![c] = "held"]
    /\ natsCall' = [natsCall EXCEPT ![c] = "running"]
    /\ UNCHANGED <<natsLane, opening, natsGone, commands, natsWire, natsSide, natsUp>>

\* on_request of an open: held, then the lane waits to queue its `opened`.
ReadOpen(c) ==
    /\ subject[c] = "buffered" /\ natsLane.request # "ended" /\ opening = NoOpen /\ c \in NatsStreamed
    /\ Hold(c)
    /\ subject' = [subject EXCEPT ![c] = "held"]
    /\ opening' = c
    /\ UNCHANGED <<natsLane, natsCall, natsGone, commands, natsWire, natsSide, natsUp>>

OpenedQueued ==
    /\ opening # NoOpen
    /\ \/ HasRoom /\ commands' = Append(commands, Command("opened", opening))
       \/ natsUp = "over" /\ UNCHANGED commands
    /\ natsCall' = [natsCall EXCEPT ![opening] = "running"]
    /\ opening' = NoOpen
    /\ UNCHANGED <<subject, natsLane, natsHeld, answers, natsGone, natsWire, natsSide, natsUp>>

\* refuse: close has answered; queued without waiting, lost without room.
RefuseNats(c) ==
    /\ subject[c] = "buffered" /\ natsLane.request # "ended" /\ opening = NoOpen
    /\ RepliesClosed /\ c \notin natsHeld
    /\ subject' = [subject EXCEPT ![c] = "refused"]
    /\ commands' = IF HasRoom THEN Append(commands, Command("unavailable", c)) ELSE commands
    /\ UNCHANGED <<natsLane, opening, natsHeld, answers, natsCall, natsGone, natsWire, natsSide, natsUp>>

\* on_control of a cancel, whose release takes the table's lock ...
OnNatsCancel(c) ==
    /\ natsLane.control # "ended" /\ c \in natsHeld /\ c \notin natsGone
    /\ ReleaseHeld(c) /\ natsGone' = natsGone \cup {c}
    /\ UNCHANGED <<subject, natsLane, opening, answers, natsCall, commands, natsWire, natsSide, natsUp>>

\* ... and then the answers'. The server is told and its handler dropped.
CancelReleased(c) ==
    /\ c \in natsGone /\ c \in answers.unanswered
    /\ answers' = [answers EXCEPT !.unanswered = @ \ {c}]
    /\ natsCall' = IF natsCall[c] = "none" THEN natsCall ELSE [natsCall EXCEPT ![c] = "over"]
    /\ UNCHANGED <<subject, natsLane, opening, natsHeld, natsGone, commands, natsWire, natsSide, natsUp>>

\* request_lane: the drain unsubscribes and reads on to the subscription's end.
RequestDrains ==
    /\ natsLane.request = "reading" /\ opening = NoOpen /\ natsSide.phase = "draining"
    /\ natsLane' = [natsLane EXCEPT !.request = "draining"]
    /\ UNCHANGED <<subject, opening, natsHeld, answers, natsCall, natsGone, commands, natsWire, natsSide, natsUp>>

RequestEnds ==
    /\ natsLane.request # "ended" /\ opening = NoOpen
    /\ \/ natsLane.request = "reading" /\ natsSide.phase = "closed"
       \/ natsLane.request = "draining" /\ \A c \in NatsReqs : subject[c] # "buffered"
       \/ natsUp = "over"
    /\ natsLane' = [natsLane EXCEPT !.request = "ended"]
    /\ UNCHANGED <<subject, opening, natsHeld, answers, natsCall, natsGone, commands, natsWire, natsSide, natsUp>>

\* control_lane ends on close, or once draining with no call held.
ControlEnds ==
    /\ natsLane.control # "ended"
    /\ natsSide.phase = "closed" \/ natsUp = "over" \/ (natsSide.phase = "draining" /\ natsHeld = {})
    /\ natsLane' = [natsLane EXCEPT !.control = "ended"]
    /\ UNCHANGED <<subject, opening, natsHeld, answers, natsCall, natsGone, commands, natsWire, natsSide, natsUp>>

(***************************************************************************)
(* Reply paths.                                                            *)
(***************************************************************************)
AnsweredNats(c) ==
    /\ ReleaseHeld(c)
    /\ answers' = [answers EXCEPT !.unanswered = @ \ {c}]
    /\ natsCall' = [natsCall EXCEPT ![c] = "over"]

\* Lane::send of the last frame: refused once close answered, queued with
\* room, else left waiting with the lock let go.
SendLast(c) ==
    /\ natsCall[c] = "running"
    /\ IF RepliesClosed
       THEN natsCall' = [natsCall EXCEPT ![c] = "over"] /\ UNCHANGED <<commands, natsHeld, answers>>
       ELSE IF HasRoom
       THEN AnsweredNats(c) /\ commands' = Append(commands, Command("last", c))
       ELSE natsCall' = [natsCall EXCEPT ![c] = "waiting"] /\ UNCHANGED <<commands, natsHeld, answers>>
    /\ UNCHANGED <<subject, natsLane, opening, natsGone, natsWire, natsSide, natsUp>>

SendItem(c) ==
    /\ natsCall[c] = "running" /\ c \in NatsStreamed /\ ~RepliesClosed /\ HasRoom
    /\ Command("item", c) \notin {commands[i] : i \in DOMAIN commands} \cup {natsWire[i] : i \in DOMAIN natsWire}
    /\ commands' = Append(commands, Command("item", c))
    /\ UNCHANGED <<subject, natsLane, opening, natsHeld, answers, natsCall, natsGone, natsWire, natsSide, natsUp>>

\* mutant: a frame given room is queued without looking at closed again
PollUnchecked(c) ==
    /\ natsCall[c] = "waiting" /\ HasRoom
    /\ AnsweredNats(c) /\ commands' = Append(commands, Command("last", c))
    /\ UNCHANGED <<subject, natsLane, opening, natsGone, natsWire, natsSide, natsUp>>

\* A waiting frame's poll, under the lock and after closed is looked at.
PollWaiting(c) ==
    /\ natsCall[c] = "waiting"
    /\ \/ /\ RepliesClosed
          /\ natsCall' = [natsCall EXCEPT ![c] = "over"] /\ UNCHANGED <<commands, natsHeld, answers>>
       \/ /\ ~RepliesClosed /\ HasRoom
          /\ AnsweredNats(c) /\ commands' = Append(commands, Command("last", c))
    /\ UNCHANGED <<subject, natsLane, opening, natsGone, natsWire, natsSide, natsUp>>

(***************************************************************************)
(* drain and close.                                                        *)
(***************************************************************************)
NatsDrain ==
    /\ natsSide.phase = "serving"
    /\ natsSide' = [natsSide EXCEPT !.phase = "draining"]
    /\ UNCHANGED <<subject, natsLane, opening, natsHeld, answers, natsCall, natsGone, commands, natsWire, natsUp>>

\* close: the phase, then the table cleared ...
CloseClears ==
    /\ natsSide.closer = "none"
    /\ natsSide' = [natsSide EXCEPT !.phase = "closed", !.closer = "cleared"]
    /\ natsHeld' = {}
    /\ UNCHANGED <<subject, natsLane, opening, answers, natsCall, natsGone, commands, natsWire, natsUp>>

AsOrder(S) == {f \in [1..Cardinality(S) -> S] : \A i, j \in DOMAIN f : f[i] = f[j] => i = j}

\* ... then Replies::close in one hold of the lock: each call unanswered is
\* sent `unavailable`, what finds no room kept for later; and the task that
\* keeps a connected Client.
CloseReplies ==
    /\ natsSide.closer = "cleared"
    /\ answers' = [closed |-> TRUE, unanswered |-> {}]
    /\ \E order \in AsOrder(answers.unanswered) :
          LET fits == {i \in DOMAIN order : Len(commands) + i <= CommandRoom} IN
          /\ commands' = commands \o [i \in fits |-> Command("unavailable", order[i])]
          /\ natsSide' = [natsSide EXCEPT !.closer = "unsent", !.unsent = {order[i] : i \in DOMAIN order \ fits},
                                          !.keeper = IF natsUp = "up" THEN "kept" ELSE "none"]
    /\ UNCHANGED <<subject, natsLane, opening, natsHeld, natsCall, natsGone, natsWire, natsUp>>

SendUnsent(c) ==
    /\ natsSide.closer = "unsent" /\ c \in natsSide.unsent /\ HasRoom
    /\ natsSide' = [natsSide EXCEPT !.unsent = @ \ {c}]
    /\ commands' = Append(commands, Command("unavailable", c))
    /\ UNCHANGED <<subject, natsLane, opening, natsHeld, answers, natsCall, natsGone, natsWire, natsUp>>

\* shut: the echo shows all that was published routed; skipped while down.
Shut ==
    /\ natsSide.closer = "unsent" /\ natsSide.unsent = {}
    /\ natsUp # "up" \/ commands = <<>>
    /\ natsSide' = [natsSide EXCEPT !.closer = "done"]
    /\ UNCHANGED <<subject, natsLane, opening, natsHeld, answers, natsCall, natsGone, commands, natsWire, natsUp>>

\* A spent shutdown cap drops the close at whatever it awaited.
CloseIsCut ==
    /\ natsSide.closer = "unsent"
    /\ natsSide' = [natsSide EXCEPT !.closer = "cut"]
    /\ UNCHANGED <<subject, natsLane, opening, natsHeld, answers, natsCall, natsGone, commands, natsWire, natsUp>>

\* The kept Client goes once a flush made after close ended comes back ...
Flushed ==
    /\ natsSide.closer \in {"done", "cut"} /\ natsSide.keeper = "kept" /\ natsUp = "up" /\ commands = <<>>
    /\ natsUp' = "over" /\ natsSide' = [natsSide EXCEPT !.keeper = "flushed"]
    /\ UNCHANGED <<subject, natsLane, opening, natsHeld, answers, natsCall, natsGone, commands, natsWire>>

\* ... or the connection ended, CUT_GRACE passed, or none was kept.
LetGoUnflushed ==
    /\ natsSide.closer \in {"done", "cut"} /\ natsUp # "over"
    /\ natsUp' = "over" /\ natsSide' = [natsSide EXCEPT !.keeper = "none"]
    /\ UNCHANGED <<subject, natsLane, opening, natsHeld, answers, natsCall, natsGone, commands, natsWire>>

NatsNext ==
    \/ \E c \in NatsReqs :
          \/ Routed(c) \/ ReadReq(c) \/ ReadOpen(c) \/ RefuseNats(c) \/ OnNatsCancel(c) \/ CancelReleased(c)
          \/ SendLast(c) \/ SendItem(c) \/ PollWaiting(c) \/ SendUnsent(c)
    \/ WriteCommand \/ NatsLost \/ OpenedQueued \/ RequestDrains \/ RequestEnds \/ ControlEnds
    \/ NatsDrain \/ CloseClears \/ CloseReplies \/ Shut \/ CloseIsCut
    \/ Flushed \/ LetGoUnflushed

NatsSpec == NatsInit /\ [][NatsNext]_natsVars

(***************************************************************************)
(* Properties.                                                             *)
(***************************************************************************)
Queued == natsWire \o commands
NatsLasts(c) == {i \in DOMAIN Queued : Queued[i].call = c /\ Queued[i].kind \in {"last", "unavailable"}}

\* A call is sent one last frame, by its handler, by close or by a refusal,
\* though a frame waits for room while close answers; no item follows it.
NatsOneAnswer ==
    \A c \in NatsReqs :
        /\ Cardinality(NatsLasts(c)) <= 1
        /\ \A i \in NatsLasts(c), j \in DOMAIN Queued : j > i /\ Queued[j].call = c => Queued[j].kind = "opened"

\* Whatever a lane held is answered: once the flush after a close shows the
\* connection written out, each call held that its caller did not cancel has
\* its last frame on the wire, unless the cap cut close while that call's
\* answer still waited for room.
NatsCloseAnswers ==
    natsSide.keeper = "flushed" =>
        \A c \in NatsReqs : subject[c] = "held" =>
            \/ \E i \in DOMAIN natsWire : natsWire[i].call = c /\ natsWire[i].kind \in {"last", "unavailable"}
            \/ c \in natsGone \cup natsSide.unsent

-------------------------------------------------------------------------------
(***************************************************************************)
(* The client side of the NATS link (ulo-rpc-nats/src/link.rs, ClientSide, *)
(* route_replies and pump): the calls in its table, the frames a streamed  *)
(* request's pump holds until the server's `opened`, and the cancel of a   *)
(* call not yet opened, held until then or until its hold runs out.        *)
(* The server is the far end of the two subjects, external: it opens a     *)
(* call, answers it, or no subscription takes it at all.                   *)
(***************************************************************************)

CONSTANTS
    UnaryIds, StreamIds,    \* calls of each kind
    MaxIns                  \* items a streamed request sends; bounds the model

VARIABLES
    entry,      \* ClientSide::calls: "none", "unary", "gated", "open", "cancelled" (ClientCall)
    sentIns,    \* the items and in_end the caller has sent: 0..MaxIns + 1
    pumpQueue,  \* what waits in each pump's queue
    pumping,    \* each pump: "none", "waiting" (for the gate), "opened", "cut" (queue closed), "over"
    control,    \* what each call published on the control subject
    far,        \* the server's end of each call: "none", "refused" (not published), "sent", "opened", "answered"
    inbox,      \* the messages on the inbox subscription: [call, kind]
    given,      \* the frames handed to RpcClient: [call, kind]
    callerDone, \* the calls the caller cancelled
    early,      \* those of them cancelled before their `opened` was routed
    lane        \* the reply lane: "open" or "ended"

callsVars == <<entry, sentIns, pumpQueue, pumping, control, far, inbox, given, callerDone, early, lane>>
Ids == UnaryIds \cup StreamIds
Inbox(c, kind) == [call |-> c, kind |-> kind]

CallsInit ==
    /\ entry = [c \in Ids |-> "none"] /\ sentIns = [c \in Ids |-> 0]
    /\ pumpQueue = [c \in Ids |-> <<>>] /\ pumping = [c \in Ids |-> "none"]
    /\ control = [c \in Ids |-> <<>>] /\ far = [c \in Ids |-> "none"]
    /\ inbox = <<>> /\ given = {} /\ callerDone = {} /\ early = {} /\ lane = "open"

\* send of a Req or an Open: the entry first, taken back if the publish fails.
SendCall(c, published) ==
    /\ entry[c] = "none" /\ far[c] = "none" /\ pumping[c] = "none" /\ c \notin callerDone
    /\ entry' = [entry EXCEPT ![c] = IF ~published THEN "none" ELSE IF c \in UnaryIds THEN "unary" ELSE "gated"]
    /\ pumping' = [pumping EXCEPT ![c] = IF c \in UnaryIds THEN "none" ELSE IF published THEN "waiting" ELSE "over"]
    /\ far' = [far EXCEPT ![c] = IF published THEN "sent" ELSE "refused"]
    /\ UNCHANGED <<sentIns, pumpQueue, control, inbox, given, callerDone, early, lane>>

\* send of an In or the InEnd, in the caller's order: enqueued, or dropped
\* once the entry is gone.
SendIn(c) ==
    /\ c \in StreamIds /\ far[c] \notin {"none", "refused"} /\ sentIns[c] <= MaxIns /\ c \notin callerDone
    /\ sentIns' = [sentIns EXCEPT ![c] = @ + 1]
    /\ pumpQueue' = IF entry[c] \in {"gated", "open"} /\ pumping[c] \notin {"cut", "over"}
                    THEN [pumpQueue EXCEPT ![c] = Append(@, sentIns[c] + 1)] ELSE pumpQueue
    /\ UNCHANGED <<entry, pumping, control, far, inbox, given, callerDone, early, lane>>

Cancel == 0

\* send of a Cancel, by the entry it finds.
SendCancelFrame(c) ==
    /\ far[c] \notin {"none", "refused"} /\ c \notin callerDone
    /\ callerDone' = callerDone \cup {c}
    /\ early' = IF entry[c] = "gated" THEN early \cup {c} ELSE early
    /\ entry' = [entry EXCEPT ![c] = IF @ = "gated" THEN "cancelled" ELSE IF @ = "cancelled" THEN @ ELSE "none"]
    /\ pumpQueue' = IF entry[c] \in {"gated", "open"} THEN [pumpQueue EXCEPT ![c] = Append(@, Cancel)] ELSE pumpQueue
    /\ control' = IF entry[c] = "unary" THEN [control EXCEPT ![c] = Append(@, Cancel)] ELSE control
    /\ UNCHANGED <<sentIns, pumping, far, inbox, given, lane>>

\* expire_cancelled: the hold ran out, and dropping the gate ends the pump.
Expire(c) ==
    /\ entry[c] = "cancelled"
    /\ entry' = [entry EXCEPT ![c] = "none"]
    /\ pumping' = [pumping EXCEPT ![c] = "over"]
    /\ UNCHANGED <<sentIns, pumpQueue, control, far, inbox, given, callerDone, early, lane>>

\* What the pump keeps of its queue at the gate: a cancel alone.
HeldBack(queue) == IF \E i \in DOMAIN queue : queue[i] = Cancel THEN <<Cancel>> ELSE queue

\* open_gate, and the pump's first look at its queue.
OpenGate(c) ==
    IF entry[c] \in {"gated", "cancelled"}
    THEN /\ entry' = [entry EXCEPT ![c] = IF @ = "gated" THEN "open" ELSE "none"]
         /\ pumpQueue' = [pumpQueue EXCEPT ![c] = HeldBack(@)]
         /\ pumping' = [pumping EXCEPT ![c] = IF HeldBack(pumpQueue[c]) = <<Cancel>> THEN "cut" ELSE "opened"]
    ELSE UNCHANGED <<entry, pumpQueue, pumping>>

\* The pump publishes the next frame.
PumpNext(c) ==
    /\ pumping[c] \in {"opened", "cut"} /\ pumpQueue[c] # <<>>
    /\ control' = [control EXCEPT ![c] = Append(@, Head(pumpQueue[c]))]
    /\ pumpQueue' = [pumpQueue EXCEPT ![c] = Tail(@)]
    /\ UNCHANGED <<entry, sentIns, pumping, far, inbox, given, callerDone, early, lane>>

\* The pump ends with its queue: closed by a held cancel, or its entry dropped.
PumpEnds(c) ==
    /\ \/ pumping[c] = "waiting" /\ entry[c] = "none"
       \/ pumping[c] \in {"opened", "cut"} /\ pumpQueue[c] = <<>> /\ (pumping[c] = "cut" \/ entry[c] = "none")
    /\ pumping' = [pumping EXCEPT ![c] = "over"]
    /\ UNCHANGED <<entry, sentIns, pumpQueue, control, far, inbox, given, callerDone, early, lane>>

\* The far end.
FarOpens(c) ==
    /\ c \in StreamIds /\ far[c] = "sent"
    /\ far' = [far EXCEPT ![c] = "opened"] /\ inbox' = Append(inbox, Inbox(c, "opened"))
    /\ UNCHANGED <<entry, sentIns, pumpQueue, pumping, control, given, callerDone, early, lane>>

FarAnswers(c, kind) ==
    /\ \/ kind = "last" /\ far[c] = IF c \in StreamIds THEN "opened" ELSE "sent"
       \/ kind = "no_responders" /\ far[c] = "sent"
    /\ far' = [far EXCEPT ![c] = "answered"] /\ inbox' = Append(inbox, Inbox(c, kind))
    /\ UNCHANGED <<entry, sentIns, pumpQueue, pumping, control, given, callerDone, early, lane>>

\* route_replies: one message of the inbox. A miss names the entry's pattern,
\* so it is told only while the entry stands; a reply frame is handed on.
RouteReply ==
    /\ lane = "open" /\ inbox # <<>>
    /\ inbox' = Tail(inbox)
    /\ LET c == Head(inbox).call
           kind == Head(inbox).kind
       IN
       /\ given' = IF kind = "last" \/ (kind = "no_responders" /\ entry[c] # "none") THEN given \cup {Inbox(c, kind)} ELSE given
       /\ IF kind = "opened" THEN OpenGate(c)
          ELSE entry' = [entry EXCEPT ![c] = "none"] /\ UNCHANGED <<pumpQueue, pumping>>
    /\ UNCHANGED <<sentIns, control, far, callerDone, early, lane>>

\* A disconnect ends the reply lane; the frames still queued are not routed.
LaneLost ==
    /\ lane = "open" /\ lane' = "ended"
    /\ UNCHANGED <<entry, sentIns, pumpQueue, pumping, control, far, inbox, given, callerDone, early>>

CallsNext ==
    \/ \E c \in Ids :
          \/ \E published \in BOOLEAN : SendCall(c, published)
          \/ SendIn(c) \/ SendCancelFrame(c) \/ Expire(c) \/ PumpNext(c) \/ PumpEnds(c) \/ FarOpens(c)
          \/ \E kind \in {"last", "no_responders"} : FarAnswers(c, kind)
    \/ RouteReply \/ LaneLost

CallsSpec == CallsInit /\ [][CallsNext]_callsVars

(***************************************************************************)
(* Properties.                                                             *)
(***************************************************************************)
\* What a streamed request publishes on the control subject, which the server
\* reads with its call held: nothing before its `opened` was routed; then its
\* items in order, without a gap, and a cancel only last; a cancel sent before
\* the gate opened goes out alone, once, or not at all after its hold.
GatedInOrder ==
    \A c \in StreamIds :
        LET out == control[c]
            items == SelectSeq(out, LAMBDA f : f # Cancel)
        IN
        /\ out # <<>> => far[c] \in {"opened", "answered"}
        /\ \A i \in DOMAIN items : items[i] = i
        /\ \A i \in DOMAIN out : out[i] = Cancel => i = Len(out) /\ c \in callerDone
        /\ c \in early => out \in {<<>>, <<Cancel>>}

\* A call sent whose entry is gone is accounted for: cancelled by its caller,
\* or told its last frame or its miss; a held cancel has a pump waiting to send
\* it, and an opened call one that sends.
EntriesAccounted ==
    \A c \in Ids :
        /\ far[c] \notin {"none", "refused"} /\ entry[c] = "none" => c \in callerDone \/ \E g \in given : g.call = c
        /\ entry[c] = "cancelled" => pumping[c] = "waiting" /\ c \in callerDone
        /\ entry[c] = "open" => pumping[c] \in {"opened", "cut"}

-------------------------------------------------------------------------------
(***************************************************************************)
(* The root certificates of the NATS links of one process (ulo-rpc-nats/   *)
(* src/link.rs, Roots and Load): one load joined by every link while any   *)
(* holder keeps it, restarted when the runtime it ran on shut down under   *)
(* it, its file removed with its last holder, its failure logged once.     *)
(***************************************************************************)

CONSTANTS
    RootLinks,  \* the links of the process
    MaxLoads    \* loads started; bounds the model

VARIABLES
    tls,        \* the links whose url names a tls:// server
    runtimes,   \* each link's runtime: "up" or "down"
    heldBy,     \* Roots::held: each link's load, 0 for none
    waitsOn,    \* the load each link waits for, 0 for none
    sides,      \* each link's connection: None, Plain (no file) or the load whose file it was handed
    sideLoad,   \* `_roots`: the load a connection holds, else 0
    loads,      \* every load started: [on, task, answer, watched, warned]
    process,    \* PROCESS: the load the slot names weakly, 0 for none
    files,      \* the loads whose file is on disk
    dropped     \* the links that have been dropped

rootsVars == <<tls, runtimes, heldBy, waitsOn, sides, sideLoad, loads, process, files, dropped>>
LoadIds == DOMAIN loads

None == -1
Plain == 0

Load(link) == [on |-> link, task |-> "spawned", answer |-> "none", watched |-> FALSE, warned |-> 0]
Answers == {"file", "failed", "panicked"}

RootsInit ==
    /\ tls \in SUBSET RootLinks
    /\ runtimes = [l \in RootLinks |-> "up"]
    /\ heldBy = [l \in RootLinks |-> 0] /\ waitsOn = [l \in RootLinks |-> 0]
    /\ sides = [l \in RootLinks |-> None] /\ sideLoad = [l \in RootLinks |-> 0]
    /\ loads = <<>> /\ process = 0 /\ files = {} /\ dropped = {}

\* A load's holders: the links, their waits and connections, and the task that
\* waits to log its failure.
Watching(n) == loads[n].watched /\ loads[n].answer = "none" /\ loads[n].task # "abandoned"
Holders(n, held, wait, side) ==
    {l \in RootLinks : held[l] = n \/ wait[l] = n \/ side[l] = n}
Alive(n) == n # 0 /\ (Holders(n, heldBy, waitsOn, sideLoad) # {} \/ Watching(n))
Abandoned(n) == loads[n].task = "abandoned"

\* shared: joined while a holder keeps it, started on `l`'s runtime otherwise.
Shared(l) == IF Alive(process) /\ ~Abandoned(process) THEN process ELSE Len(loads) + 1

\* Roots::held
Held(l) == IF heldBy[l] # 0 /\ ~Abandoned(heldBy[l]) THEN heldBy[l] ELSE Shared(l)

\* start: on a runtime that is down the task is dropped unrun, which abandons it.
Started(n, l) ==
    IF n \in LoadIds THEN loads
    ELSE Append(loads, [Load(l) EXCEPT !.task = IF runtimes[l] = "up" THEN "spawned" ELSE "abandoned"])
Slot(n) == IF n \in LoadIds THEN process ELSE n

\* What of the files on disk is still someone's once the holders are these.
Remaining(held, wait, side) == {n \in files : Holders(n, held, wait, side) # {}}

\* A connection handed the file holds its load.
Rooted(l, n) == sideLoad' = [sideLoad EXCEPT ![l] = n]

Connects(l, n) == sides' = [sides EXCEPT ![l] = n] /\ Rooted(l, n)
ConnectsPlain(l) == sides' = [sides EXCEPT ![l] = Plain] /\ sideLoad' = [sideLoad EXCEPT ![l] = 0]

\* warn, once per load.
Warn(all, n) == [all EXCEPT ![n].warned = 1]

\* ready: a client's connect on nats://, which waits for nothing.
ReadyRoots(l) ==
    /\ l \notin dropped /\ l \notin tls /\ waitsOn[l] = 0 /\ sides[l] = None
    /\ Held(l) <= MaxLoads
    /\ LET n == Held(l)
           all == Started(n, l)
       IN
       /\ heldBy' = [heldBy EXCEPT ![l] = n] /\ process' = Slot(n)
       /\ CASE all[n].answer = "file" -> Connects(l, n) /\ loads' = all
            [] all[n].answer \in {"failed", "panicked"} -> ConnectsPlain(l) /\ loads' = Warn(all, n)
            [] OTHER -> ConnectsPlain(l) /\ loads' = [all EXCEPT ![n].watched = @ \/ runtimes[l] = "up"]
       /\ files' = Remaining(heldBy', waitsOn, sideLoad')
    /\ UNCHANGED <<tls, runtimes, waitsOn, dropped>>

\* prepare with no Timer: the load is started or joined, nothing waits.
PrepareHolds(l) ==
    /\ l \notin dropped /\ waitsOn[l] = 0 /\ sides[l] = None
    /\ Held(l) <= MaxLoads
    /\ heldBy' = [heldBy EXCEPT ![l] = Held(l)]
    /\ loads' = Started(Held(l), l) /\ process' = Slot(Held(l))
    /\ files' = Remaining(heldBy', waitsOn, sideLoad)
    /\ UNCHANGED <<tls, runtimes, waitsOn, sides, sideLoad, dropped>>

\* wait and awaited: a tls:// link's, and a nats:// server's listen.
BeginWait(l) ==
    /\ l \notin dropped /\ waitsOn[l] = 0 /\ sides[l] = None
    /\ Held(l) <= MaxLoads
    /\ heldBy' = [heldBy EXCEPT ![l] = Held(l)] /\ waitsOn' = [waitsOn EXCEPT ![l] = Held(l)]
    /\ loads' = Started(Held(l), l) /\ process' = Slot(Held(l))
    /\ files' = Remaining(heldBy', waitsOn', sideLoad)
    /\ UNCHANGED <<tls, runtimes, sides, sideLoad, dropped>>

\* The answer is in: the file connects; a failure refuses a tls:// link and is
\* logged for a nats:// one, which connects without; a load that ended
\* unanswered refuses the one and leaves the other without.
EndWait(l) ==
    /\ waitsOn[l] # 0
    /\ LET n == waitsOn[l] IN
       /\ loads[n].answer # "none" \/ Abandoned(n)
       /\ waitsOn' = [waitsOn EXCEPT ![l] = 0]
       /\ CASE loads[n].answer = "file" -> Connects(l, n) /\ UNCHANGED loads
            [] loads[n].answer # "file" /\ l \in tls -> UNCHANGED <<sides, sideLoad, loads>>
            [] OTHER -> /\ ConnectsPlain(l)
                        /\ loads' = IF loads[n].answer = "none" THEN loads ELSE Warn(loads, n)
    /\ files' = Remaining(heldBy, waitsOn', sideLoad')
    /\ UNCHANGED <<tls, runtimes, heldBy, process, dropped>>

\* within: the bound passed, or its clock refused to time it; the load runs on.
CutWait(l) ==
    /\ waitsOn[l] # 0 /\ loads[waitsOn[l]].answer = "none"
    /\ waitsOn' = [waitsOn EXCEPT ![l] = 0]
    /\ IF l \in tls THEN UNCHANGED <<sides, sideLoad>> ELSE ConnectsPlain(l)
    /\ files' = Remaining(heldBy, waitsOn', sideLoad')
    /\ UNCHANGED <<tls, runtimes, heldBy, loads, process, dropped>>

\* The task's end: its answer sent, refused once no holder is left, which drops
\* the file; a panic a runtime shut down can no longer convert is no answer.
TaskAnswers(n, answer) ==
    /\ loads[n].task = "spawned" /\ answer \in Answers
    /\ IF answer = "panicked" /\ runtimes[loads[n].on] = "down"
       THEN loads' = [loads EXCEPT ![n].task = "abandoned"] /\ UNCHANGED files
       ELSE /\ loads' = [loads EXCEPT ![n].task = "ended", ![n].answer = answer,
                                      ![n].warned = IF Watching(n) /\ runtimes[loads[n].on] = "up" /\ answer # "file" THEN 1 ELSE @]
            /\ files' = IF answer = "file" /\ Holders(n, heldBy, waitsOn, sideLoad) # {} THEN files \cup {n} ELSE files
    /\ UNCHANGED <<tls, runtimes, heldBy, waitsOn, sides, sideLoad, process, dropped>>

\* A runtime shut down drops a blocking task that has not begun.
RuntimeDown(l, unrun) ==
    /\ runtimes[l] = "up" /\ unrun \subseteq {n \in LoadIds : loads[n].on = l /\ loads[n].task = "spawned"}
    /\ runtimes' = [runtimes EXCEPT ![l] = "down"]
    /\ loads' = [n \in LoadIds |-> IF n \in unrun THEN [loads[n] EXCEPT !.task = "abandoned"] ELSE loads[n]]
    /\ UNCHANGED <<tls, heldBy, waitsOn, sides, sideLoad, process, files, dropped>>

\* The connection's side is dropped, on a loss or by close.
DropSide(l) ==
    /\ sides[l] # None
    /\ sides' = [sides EXCEPT ![l] = None] /\ sideLoad' = [sideLoad EXCEPT ![l] = 0]
    /\ files' = Remaining(heldBy, waitsOn, sideLoad')
    /\ UNCHANGED <<tls, runtimes, heldBy, waitsOn, loads, process, dropped>>

\* The link is dropped; a connection a caller still uses outlives it.
DropLink(l) ==
    /\ l \notin dropped /\ waitsOn[l] = 0
    /\ dropped' = dropped \cup {l} /\ heldBy' = [heldBy EXCEPT ![l] = 0]
    /\ files' = Remaining(heldBy', waitsOn, sideLoad)
    /\ UNCHANGED <<tls, runtimes, waitsOn, sides, sideLoad, loads, process>>

RootsNext ==
    \/ \E l \in RootLinks :
          \/ ReadyRoots(l) \/ PrepareHolds(l) \/ BeginWait(l) \/ EndWait(l) \/ CutWait(l) \/ DropSide(l) \/ DropLink(l)
          \/ \E unrun \in SUBSET LoadIds : RuntimeDown(l, unrun)
    \/ \E n \in LoadIds, answer \in Answers : TaskAnswers(n, answer)

RootsSpec == RootsInit /\ [][RootsNext]_rootsVars

(***************************************************************************)
(* Properties.                                                             *)
(***************************************************************************)
\* A connection made with the roots finds their file at each reconnect, though
\* its link, the link that started the load and that link's runtime are gone;
\* and no file outlives its holders.
RootsFileHeld ==
    /\ \A l \in RootLinks : sides[l] \notin {None, Plain} => sides[l] \in files
    /\ \A n \in files : Holders(n, heldBy, waitsOn, sideLoad) # {}

\* The process reads the platform's store once while any link holds the load:
\* two links holding loads that still answer hold the same one.
RootsReadOnce ==
    \A k, l \in RootLinks :
        heldBy[k] # 0 /\ heldBy[l] # 0 /\ ~Abandoned(heldBy[k]) /\ ~Abandoned(heldBy[l]) => heldBy[k] = heldBy[l]

\* A failed load is logged at most once, however many nats:// links meet it
\* and whether they met it running or failed; a load that answered, never.
RootsWarnedOnce ==
    \A n \in LoadIds : loads[n].warned <= 1 /\ (loads[n].warned = 1 => loads[n].answer \in {"failed", "panicked"})
===============================================================================
