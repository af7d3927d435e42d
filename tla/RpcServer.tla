------------------------------ MODULE RpcServer ------------------------------
(***************************************************************************)
(* ulo-rpc's server (server.rs, dispatch.rs): the serve loop that routes   *)
(* the link's deliveries in their arrival order, the task each call runs   *)
(* in, the drain's wait and the close.                                     *)
(*                                                                         *)
(* A call's task steps from one await to the next; the serve loop, the     *)
(* drain, the close and the caller step between.  What a frame carries is  *)
(* left out; what kind of frame it is, and why a call was cancelled, is    *)
(* kept.  The link is external: it delivers what callers send, hands over  *)
(* a frame to send or fails because the caller is gone, and ends its       *)
(* inbound stream.                                                         *)
(***************************************************************************)
EXTENDS Naturals, FiniteSets, Sequences

CONSTANTS
    Calls,         \* the requests, events and streamed requests that may arrive
    NoCall,
    Arrived,       \* the frame that opens each: "req", "evt" or "open"
    Id,            \* the id it carries; two callers may pick one id
    Unrouted,      \* the calls whose pattern nothing handles
    BadDeadline,   \* the calls whose deadline-ms the server cannot read
    Deadlined,     \* the calls that carry a deadline
    Misfits,       \* the calls whose frame does not fit the handler's shape
    Streaming,     \* the calls whose handler declares a streamed reply
    MaxQueued,     \* Server::max_queued_items
    Servers        \* the servers considered: their settings, and the calls that reach each

ASSUME RpcServerAssumption ==
    /\ NoCall \notin Calls
    /\ Arrived \in [Calls -> {"req", "evt", "open"}]
    /\ MaxQueued \in Nat \ {0}
    /\ \A s \in Servers :
         /\ s.calls \subseteq Calls /\ s.inflight \in Nat \ {0} /\ s.items \in Nat
         /\ s.backpressure \in BOOLEAN /\ s.stops \in BOOLEAN

VARIABLES
    server,    \* the one of Servers that runs; it never changes
    call,      \* each call: its task, its execution, its request's queue, what it wrote
    calls,     \* Shared::calls: the call registered under each id
    serials,   \* Shared::serial
    admitted,  \* the calls holding a Permit of Shared::admission
    settling,  \* Shared::settling
    serve,     \* where serve() is
    overflow,  \* the call whose queue the serve loop halted and has not cancelled yet
    core,      \* the app: "running", "draining", or "cancelled" at the drain's end
    drain,     \* where drain() is
    close,     \* where close() is
    ended      \* the link has ended its inbound stream

serverVars == <<call, calls, serials, admitted, settling, serve, overflow, core, drain, close, ended>>

Coming == server.calls              \* the calls that arrive
MaxInflight == server.inflight      \* Server::max_inflight
Backpressure == server.backpressure \* Capabilities::native_backpressure
MayStop == server.stops             \* whether the app shuts down, or the link fails
MaxItems == server.items            \* bound: the items a reply streams

Ids == {Id[c] : c \in Calls}
Reasons == {"none", "client", "disconnected", "deadline", "drain", "explicit"}
FinalFrames == {"res", "end", "error", "timeout", "overflow", "unavailable", "internal", "refused", "shed", "bad_deadline"}
Frames == FinalFrames \cup {"item", "nothing"}

\* The tasks that run: the ones a TaskSet still holds.
Tasks == {"refusing", "spawned", "recovering", "dispatch", "grace", "stream", "late", "sending", "settle", "acking"}

NewCall ==
    [task |-> "none", exec |-> "none", cancel |-> "none", serial |-> 0, ack |-> "none",
     fed |-> FALSE, held |-> 0, halted |-> FALSE, reader |-> FALSE, failed |-> FALSE,
     elapsed |-> FALSE, overdue |-> 0, out |-> "nothing", wrote |-> <<>>, verdict |-> "acked",
     tracked |-> FALSE, sawEnd |-> FALSE, report |-> "none", gone |-> FALSE]

ServerInit ==
    /\ server \in Servers
    /\ call = [c \in Calls |-> NewCall]
    /\ calls = [i \in Ids |-> NoCall] /\ serials = 0 /\ admitted = {}
    /\ settling = [reading |-> FALSE, ended |-> FALSE, refusals |-> 0]
    /\ serve = "unserved" /\ overflow = NoCall /\ core = "running" /\ drain = "no" /\ close = "no"
    /\ ended = FALSE

\* A call whose task has ended: its frames, its report and its delivery's end are left.
Over(s, task) ==
    [NewCall EXCEPT !.task = task, !.exec = IF s.exec = "open" THEN "ended" ELSE s.exec, !.cancel = s.cancel,
                    !.serial = s.serial, !.ack = s.ack, !.out = s.out, !.overdue = s.overdue, !.wrote = s.wrote,
                    !.report = s.report, !.gone = s.gone]

Change(c, new) == call' = [call EXCEPT ![c] = new]
Answers(c) == Arrived[c] # "evt"

\* ExecShared::cancel_with: the first reason stays.
CancelWith(s, reason) == IF s.cancel = "none" THEN [s EXCEPT !.cancel = reason] ELSE s

---------------------------------------------------------------------------
\* serve(): the inbound stream taken once, and marked read.  One after close() finds none.
ServeStart ==
    /\ serve = "unserved"
    /\ IF close = "signalled"
         THEN serve' = "returned" /\ UNCHANGED settling
         ELSE serve' = "reading" /\ settling' = [settling EXCEPT !.reading = TRUE]
    /\ UNCHANGED <<call, calls, serials, admitted, overflow, core, drain, close, ended>>

\* One turn of reading(): close's signal is polled first, then the next delivery, then a task's end,
\* which only reaps it.
ReadTurn ==
    /\ serve = "reading" /\ overflow = NoCall
    /\ serve' = IF close = "signalled" THEN "abandon" ELSE "turn"
    /\ UNCHANGED <<call, calls, serials, admitted, settling, overflow, core, drain, close, ended>>

TurnPending ==
    /\ serve = "turn" /\ ~ended /\ serve' = "reading"
    /\ UNCHANGED <<call, calls, serials, admitted, settling, overflow, core, drain, close, ended>>

\* refuse(): counted, and sent from a task of its own.  The Ack of a request refused for its
\* deadline is settled; any other is dropped as start() returns.
Refuse(c, frame) ==
    /\ settling' = [settling EXCEPT !.refusals = @ + 1]
    /\ Change(c, [call[c] EXCEPT !.task = "refusing", !.out = frame,
                                 !.ack = IF frame = "bad_deadline" THEN "acked" ELSE "dropped"])
    /\ UNCHANGED <<calls, serials, admitted>>

\* An event the server does not run: rejected, or left unsettled for its broker.
LeaveEvent(c, frame, ack) ==
    /\ Change(c, [call[c] EXCEPT !.task = "ended", !.out = frame, !.ack = ack])
    /\ UNCHANGED <<calls, serials, admitted, settling>>

Turn(c, frame, ack) == IF Answers(c) THEN Refuse(c, frame) ELSE LeaveEvent(c, frame, ack)

\* The call opened: its execution, its id registered, its task spawned.
Open(c) ==
    LET serial == IF Answers(c) THEN serials + 1 ELSE 0
    IN  /\ Change(c, [call[c] EXCEPT !.task = "spawned", !.exec = "open", !.ack = "held", !.serial = serial,
                                     !.fed = Arrived[c] = "open", !.reader = Arrived[c] = "open"])
        /\ calls' = IF Answers(c) THEN [calls EXCEPT ![Id[c]] = c] ELSE calls
        /\ serials' = IF Answers(c) THEN serial ELSE serials
        /\ admitted' = admitted \cup {c} /\ UNCHANGED settling

\* unhandled(): an event is rejected; a call runs the global error handlers in an execution of its
\* own, with neither a permit nor a registration.
Unhandled(c) ==
    IF ~Answers(c) THEN LeaveEvent(c, "nothing", "rejected")
    ELSE IF core # "running" THEN Refuse(c, "refused")
    ELSE /\ Change(c, [call[c] EXCEPT !.task = "recovering", !.exec = "open", !.ack = "held"])
         /\ UNCHANGED <<calls, serials, admitted, settling>>

\* start(): no route, a deadline it cannot read, no place, an app that drains; then the call runs.
Start(c) ==
    IF c \in Unrouted THEN Unhandled(c)
    ELSE IF c \in BadDeadline THEN Turn(c, "bad_deadline", "rejected")
    ELSE IF Cardinality(admitted) >= MaxInflight THEN Turn(c, "shed", "dropped")
    ELSE IF core # "running" THEN Turn(c, "refused", "dropped")
    ELSE Open(c)

\* A link that declares native_backpressure hands over no more than max_inflight deliveries whose
\* Ack is neither settled nor dropped.
HandedOver == Backpressure => Cardinality({c \in Calls : call[c].ack = "held"}) < MaxInflight

Deliver(c) ==
    /\ c \in Coming /\ serve = "turn" /\ ~ended /\ call[c].task = "none" /\ HandedOver
    /\ Start(c) /\ serve' = "reading"
    /\ UNCHANGED <<overflow, core, drain, close, ended>>

\* An `in` frame: offered to the queue of the call registered under its id, never awaited; a full
\* queue is halted here, and its call cancelled once the registry is let go.  A queue whose reader
\* has gone holds what it held.
DeliverIn(i) ==
    LET c == calls[i] IN
    /\ serve = "turn" /\ ~ended /\ c # NoCall /\ call[c].fed
    /\ IF call[c].held >= MaxQueued
         THEN Change(c, [call[c] EXCEPT !.fed = FALSE, !.halted = TRUE]) /\ overflow' = c
         ELSE Change(c, [call[c] EXCEPT !.held = IF call[c].reader THEN @ + 1 ELSE @])
              /\ UNCHANGED overflow
    /\ serve' = "reading"
    /\ UNCHANGED <<calls, serials, admitted, settling, core, drain, close, ended>>

CancelOverflowed ==
    /\ overflow # NoCall
    /\ Change(overflow, CancelWith(call[overflow], "explicit")) /\ overflow' = NoCall
    /\ UNCHANGED <<calls, serials, admitted, settling, serve, core, drain, close, ended>>

DeliverInEnd(i) ==
    LET c == calls[i] IN
    /\ serve = "turn" /\ ~ended /\ c # NoCall /\ call[c].fed
    /\ Change(c, [call[c] EXCEPT !.fed = FALSE]) /\ serve' = "reading"
    /\ UNCHANGED <<calls, serials, admitted, settling, overflow, core, drain, close, ended>>

\* A `cancel`: the caller's, or the link's own for a connection that ended.
DeliverCancel(i, reason) ==
    LET c == calls[i] IN
    /\ serve = "turn" /\ ~ended /\ c # NoCall /\ call[c].cancel = "none"
    /\ Change(c, CancelWith(call[c], reason)) /\ serve' = "reading"
    /\ UNCHANGED <<calls, serials, admitted, settling, overflow, core, drain, close, ended>>

\* The inbound stream ends: before the drain it is a link failure, and serve returns, its tasks
\* aborted and the stream no longer read; in the drain the calls in flight finish.
StreamEnds ==
    /\ serve = "turn" /\ ended
    /\ settling' = [settling EXCEPT !.ended = TRUE] /\ serve' = "ended"
    /\ UNCHANGED <<call, calls, serials, admitted, overflow, core, drain, close, ended>>

ServeEnded ==
    /\ serve = "ended"
    /\ IF core = "running"
         THEN serve' = "failed" /\ settling' = [settling EXCEPT !.reading = FALSE]
         ELSE serve' = "finishing" /\ UNCHANGED settling
    /\ UNCHANGED <<call, calls, serials, admitted, overflow, core, drain, close, ended>>

Running == {c \in Calls : call[c].task \in Tasks}

\* finishing(): close's signal first, then the tasks' ends.
Finishing ==
    /\ serve = "finishing"
    /\ \/ close = "signalled" /\ serve' = "abandon" /\ UNCHANGED settling
       \/ /\ close # "signalled" /\ Running = {}
          /\ serve' = "returned" /\ settling' = [settling EXCEPT !.reading = FALSE]
    /\ UNCHANGED <<call, calls, serials, admitted, overflow, core, drain, close, ended>>

\* abandon() has joined every task it aborted.
Abandoned ==
    /\ serve = "abandon" /\ Running = {}
    /\ serve' = "returned" /\ settling' = [settling EXCEPT !.reading = FALSE]
    /\ UNCHANGED <<call, calls, serials, admitted, overflow, core, drain, close, ended>>

---------------------------------------------------------------------------
\* The Tracked wrapper of a reply stream, dropped as its writer returns.
Leave(s) ==
    IF s.tracked THEN [s EXCEPT !.tracked = FALSE, !.report = IF s.sawEnd THEN "completed" ELSE "cutoff"] ELSE s

\* What cancelled() writes for the reason the execution holds.
CancelFrame(s) ==
    CASE s.cancel \in {"client", "disconnected"} -> "nothing"
      [] s.cancel = "deadline" -> "timeout"
      [] s.cancel = "explicit" /\ s.halted -> "overflow"
      [] OTHER -> "unavailable"

Sending(s, frame) ==
    IF frame = "nothing" THEN [Leave(s) EXCEPT !.task = "settle"] ELSE [s EXCEPT !.task = "sending", !.out = frame]

\* The outcome of a call: written on its reply path, or, of an event, its settlement.
Conclude(c, s, frame, verdict) ==
    IF Answers(c) THEN Sending(s, frame) ELSE [s EXCEPT !.task = "settle", !.verdict = verdict]

\* Cancelled before it answered: by its deadline, the error handlers get a Timeout under the grace.
Cancelled(c, s) ==
    IF s.cancel = "deadline" THEN [s EXCEPT !.task = "grace"] ELSE Conclude(c, s, CancelFrame(s), "dropped")

\* stream_reply() at its race: an execution already cancelled ends it at its start.
Race(s) == IF s.cancel = "none" THEN [s EXCEPT !.task = "stream"] ELSE Sending(s, CancelFrame(s))

\* What a pipeline answered.  A stream is the reply of a handler that declares one, of a miss's
\* error handler, and of no event.
Done(c, s, answer) ==
    CASE answer = "many" /\ Answers(c) /\ c \in Streaming \cup Unrouted -> Race([s EXCEPT !.tracked = TRUE])
      [] answer = "many" /\ Answers(c) -> Sending(s, "internal")
      [] answer = "error" -> Conclude(c, s, "error", "rejected")
      [] OTHER -> Conclude(c, s, "res", "acked")

OfCall == <<calls, serials, admitted, settling, serve, overflow, core, drain, close, ended>>

FirstPoll(c) ==
    /\ call[c].task = "spawned"
    /\ Change(c, CASE c \in Misfits -> [call[c] EXCEPT !.task = "recovering"]
                   [] call[c].cancel # "none" -> Cancelled(c, call[c])
                   [] OTHER -> [call[c] EXCEPT !.task = "dispatch"])
    /\ UNCHANGED OfCall

\* recover(): a miss, or a frame that does not fit the shape, through the error handlers.
Recovered(c, answer) ==
    /\ call[c].task = "recovering" /\ Change(c, Done(c, call[c], answer)) /\ UNCHANGED OfCall

\* Mutant of HandlerDone: the handler's answer stands whatever became of its request.
HandlerDoneAnyway(c, answer) ==
    /\ call[c].task = "dispatch" /\ Change(c, Done(c, call[c], answer)) /\ UNCHANGED OfCall

\* The pipeline is polled first, so its answer wins over a cancellation that woke the same poll;
\* not the answer of a handler whose request was cut short, which overflowed.
HandlerDone(c, answer) ==
    /\ call[c].task = "dispatch"
    /\ Change(c, IF call[c].halted THEN LET s == CancelWith(call[c], "explicit") IN Conclude(c, s, CancelFrame(s), "dropped")
                                   ELSE Done(c, call[c], answer))
    /\ UNCHANGED OfCall

\* until_ended() around the pipeline: the cancellation, then the deadline, which cancels.
DispatchEnds(c) ==
    /\ call[c].task = "dispatch" /\ (call[c].cancel # "none" \/ call[c].elapsed)
    /\ Change(c, Cancelled(c, CancelWith(call[c], "deadline"))) /\ UNCHANGED OfCall

\* expired(): what the error handlers answer to the Timeout, or the end of the grace.  A stream they
\* answer is tracked and dropped unread.
Grace(c, answer) ==
    /\ call[c].task = "grace"
    /\ Change(c, CASE answer = "many" /\ Answers(c) -> Sending(Leave([call[c] EXCEPT !.tracked = TRUE]), "timeout")
                   [] answer = "expired" -> Conclude(c, call[c], "timeout", "rejected")
                   [] OTHER -> Done(c, call[c], answer))
    /\ UNCHANGED OfCall

Items(s) == Len(SelectSeq(s.wrote, LAMBDA f : f = "item"))

\* passed(): the deadline polled once without waiting.
Passed(s) == IF s.elapsed THEN CancelWith(s, "deadline") ELSE s

\* The reply stream is polled first.  What it yields once its request overflowed is not written.
StreamItem(c) ==
    /\ call[c].task = "stream" /\ ~call[c].halted /\ Items(call[c]) < MaxItems
    /\ Change(c, Sending(Passed([call[c] EXCEPT !.overdue = IF call[c].elapsed THEN @ + 1 ELSE @]), "item"))
    /\ UNCHANGED OfCall

StreamError(c) ==
    /\ call[c].task = "stream" /\ ~call[c].halted
    /\ Change(c, [call[c] EXCEPT !.task = "late"]) /\ UNCHANGED OfCall

StreamEnd(c) ==
    /\ call[c].task = "stream" /\ ~call[c].halted
    /\ Change(c, Sending([call[c] EXCEPT !.sawEnd = TRUE], "end")) /\ UNCHANGED OfCall

StreamOverflowed(c) ==
    /\ call[c].task = "stream" /\ call[c].halted
    /\ LET s == CancelWith(call[c], "explicit") IN Change(c, Sending(s, CancelFrame(s)))
    /\ UNCHANGED OfCall

StreamCancelled(c) ==
    /\ call[c].task = "stream" /\ (call[c].cancel # "none" \/ call[c].elapsed)
    /\ LET s == CancelWith(call[c], "deadline") IN Change(c, Sending(s, CancelFrame(s)))
    /\ UNCHANGED OfCall

\* late(): an item's error through the error handlers, written unless they end the stream.
Late(c, frame) ==
    /\ call[c].task = "late" /\ Change(c, Sending(call[c], frame)) /\ UNCHANGED OfCall

Written(s, frame) == [s EXCEPT !.wrote = Append(@, frame)]

\* answer()'s end: what the call held is let go before its place and its delivery.
Settled(s) == [Leave(s) EXCEPT !.task = "settle"]

\* Mutant of Send: a stream goes on past the error that replaced its item.
SendGoesOn(c) ==
    /\ call[c].task = "sending"
    /\ \/ Change(c, Settled([CancelWith(call[c], "disconnected") EXCEPT !.gone = TRUE]))
       \/ Change(c, IF call[c].out = "item" THEN Race(Written(call[c], "item")) ELSE Settled(Written(call[c], call[c].out)))
       \/ /\ call[c].out \in {"res", "item"}
          /\ Change(c, IF call[c].out = "item" THEN Race(Written(call[c], "internal")) ELSE Settled(Written(call[c], "internal")))
    /\ UNCHANGED OfCall

\* send(): the frame reaches the caller, is replaced by an error when the link cannot carry it, or
\* finds the caller gone.
Send(c) ==
    /\ call[c].task = "sending"
    /\ \/ Change(c, Settled([CancelWith(call[c], "disconnected") EXCEPT !.gone = TRUE]))
       \/ Change(c, IF call[c].out = "item" THEN Race(Written(call[c], "item")) ELSE Settled(Written(call[c], call[c].out)))
       \/ call[c].out \in {"res", "item"} /\ Change(c, Settled(Written(call[c], "internal")))
    /\ UNCHANGED OfCall

OfEnd == <<serials, serve, overflow, core, drain, close, ended>>

\* Registered's drop: the registration, unless a later call took the id.
Unregister(c) == calls' = [calls EXCEPT ![Id[c]] = IF @ = c THEN NoCall ELSE @]

\* The place is freed before the delivery is settled.
FreePlace(c) ==
    /\ call[c].task = "settle" /\ Change(c, [call[c] EXCEPT !.task = "acking"])
    /\ admitted' = admitted \ {c}
    /\ UNCHANGED <<calls, settling>> /\ UNCHANGED OfEnd


\* The delivery is settled, the execution ends and the registration goes.
Settle(c) ==
    /\ call[c].task = "acking"
    /\ Change(c, Over([call[c] EXCEPT !.ack = call[c].verdict], "ended"))
    /\ Unregister(c)
    /\ UNCHANGED <<admitted, settling>> /\ UNCHANGED OfEnd

RefusalWritten(s) == [Written(s, s.out) EXCEPT !.task = "ended"]

\* A refusal's task: the frame sent or the caller gone, and the count released.
RefusalSent(c) ==
    /\ call[c].task = "refusing"
    /\ \/ Change(c, RefusalWritten(call[c]))
       \/ Change(c, [call[c] EXCEPT !.task = "ended", !.gone = TRUE])
    /\ settling' = [settling EXCEPT !.refusals = @ - 1]
    /\ UNCHANGED <<calls, admitted>> /\ UNCHANGED OfEnd

AbortedCall(s) == Over([Leave(s) EXCEPT !.ack = IF @ = "held" THEN "dropped" ELSE @], "aborted")

\* A task aborted, by abandon() or with the TaskSet of a serve that failed: what it held is dropped.
Abort(c) ==
    /\ serve \in {"abandon", "failed"} /\ call[c].task \in Tasks
    /\ Change(c, AbortedCall(call[c])) /\ admitted' = admitted \ {c} /\ Unregister(c)
    /\ settling' = [settling EXCEPT !.refusals = IF call[c].task = "refusing" THEN @ - 1 ELSE @]
    /\ UNCHANGED OfEnd

---------------------------------------------------------------------------
\* The handler, or its reply stream, reads the request: the next item, or the failure of a queue
\* that was halted.  It may drop the request and go on.
ReadRequest(c) ==
    /\ call[c].task \in {"dispatch", "stream"} /\ call[c].reader
    /\ \/ call[c].halted /\ ~call[c].failed /\ Change(c, [call[c] EXCEPT !.failed = TRUE])
       \/ ~call[c].halted /\ call[c].held > 0 /\ Change(c, [call[c] EXCEPT !.held = @ - 1])
    /\ UNCHANGED OfCall

DropRequest(c) ==
    /\ call[c].task \in {"dispatch", "stream"} /\ call[c].reader
    /\ Change(c, [call[c] EXCEPT !.reader = FALSE]) /\ UNCHANGED OfCall

\* The call's deadline passes.
Elapse(c) ==
    /\ c \in Deadlined /\ call[c].exec = "open" /\ ~call[c].elapsed
    /\ Change(c, [call[c] EXCEPT !.elapsed = TRUE]) /\ UNCHANGED OfCall

---------------------------------------------------------------------------
\* The link ends its inbound stream: it failed, or nothing more will arrive in the drain.
LinkEnds ==
    /\ MayStop /\ ~ended /\ serve \notin {"failed", "returned"} /\ ended' = TRUE
    /\ UNCHANGED <<call, calls, serials, admitted, settling, serve, overflow, core, drain, close>>

\* The app stops accepting, and enters drain(): link.drain(), then the wait.
CoreDrains ==
    /\ MayStop /\ core = "running" /\ core' = "draining"
    /\ UNCHANGED <<call, calls, serials, admitted, settling, serve, overflow, drain, close, ended>>

DrainStart ==
    /\ core = "draining" /\ drain = "no" /\ drain' = "link"
    /\ UNCHANGED <<call, calls, serials, admitted, settling, serve, overflow, core, close, ended>>

LinkDrained ==
    /\ drain = "link" /\ drain' = "waiting"
    /\ UNCHANGED <<call, calls, serials, admitted, settling, serve, overflow, core, close, ended>>

\* Settling::settled: nothing that reached the server is left unanswered.
IsSettled == ~settling.reading \/ (settling.ended /\ settling.refusals = 0)

DrainSettled ==
    /\ drain = "waiting" /\ IsSettled /\ drain' = "done"
    /\ UNCHANGED <<call, calls, serials, admitted, settling, serve, overflow, core, close, ended>>

\* The drain's end: every drain() done and no execution live, or the window expired, which drops
\* drain(); every live execution is cancelled.
CoreCancels ==
    /\ core = "draining" /\ drain # "no" /\ core' = "cancelled"
    /\ drain' = IF drain = "done" THEN "done" ELSE "dropped"
    /\ call' = [c \in Calls |-> IF call[c].exec = "open" THEN CancelWith(call[c], "drain") ELSE call[c]]
    /\ UNCHANGED <<calls, serials, admitted, settling, serve, overflow, close, ended>>

\* What one poll of a task does once its execution is cancelled: a refusal is sent; a call at its
\* race, or not polled yet, queues what a cancelled call writes.
Polled(c) ==
    LET s == call[c]
        first == IF s.task = "spawned" /\ c \notin Misfits THEN [s EXCEPT !.task = "dispatch"] ELSE s
        cut == CASE first.task = "dispatch" /\ s.cancel \notin {"none", "deadline"} -> Cancelled(c, s)
                 [] first.task = "stream" /\ s.cancel # "none" -> Sending(s, CancelFrame(s))
                 [] OTHER -> s
    IN  CASE s.task = "refusing" -> RefusalWritten(s)
          [] cut.task = "sending" /\ s.task # "sending" -> Settled(Written(cut, cut.out))
          [] OTHER -> cut

\* close(): turns.give() polls every task once; then the signal, and a stream no serve took is
\* dropped.
CloseGives ==
    /\ core = "cancelled" /\ close = "no" /\ close' = "given"
    /\ call' = [c \in Calls |-> Polled(c)]
    /\ settling' = [settling EXCEPT !.refusals = 0]
    /\ UNCHANGED <<calls, serials, admitted, serve, overflow, core, drain, ended>>

CloseSignals ==
    /\ close = "given" /\ close' = "signalled"
    /\ UNCHANGED <<call, calls, serials, admitted, settling, serve, overflow, core, drain, ended>>

---------------------------------------------------------------------------
RouteStep ==
    \/ \E c \in Calls : Deliver(c)
    \/ \E i \in Ids : DeliverIn(i) \/ DeliverInEnd(i) \/ \E reason \in {"client", "disconnected"} : DeliverCancel(i, reason)
LoopStep == ReadTurn \/ TurnPending \/ CancelOverflowed \/ StreamEnds \/ ServeEnded \/ Finishing \/ Abandoned

\* What ends without the handler, the error handlers and the link taking for ever.
TaskStep(c) ==
    \/ FirstPoll(c) \/ DispatchEnds(c) \/ StreamOverflowed(c) \/ StreamCancelled(c)
    \/ Send(c) \/ FreePlace(c) \/ Settle(c) \/ RefusalSent(c)
    \/ \E answer \in {"res", "many", "error"} : Recovered(c, answer)
    \/ \E answer \in {"res", "many", "error", "expired"} : Grace(c, answer)
    \/ \E frame \in {"error", "end"} : Late(c, frame)
HandlerStep(c) ==
    \/ \E answer \in {"res", "many", "error"} : HandlerDone(c, answer)
    \/ StreamItem(c) \/ StreamError(c) \/ StreamEnd(c) \/ ReadRequest(c) \/ DropRequest(c)

CoreStep == CoreDrains \/ DrainStart \/ LinkDrained \/ DrainSettled \/ CoreCancels \/ CloseGives \/ CloseSignals

ServerNext ==
    \/ ServeStart \/ RouteStep \/ LoopStep \/ LinkEnds \/ CoreStep
    \/ \E c \in Calls : TaskStep(c) \/ HandlerStep(c) \/ Abort(c) \/ Elapse(c)

ServerSpec == ServerInit /\ [][ServerNext /\ UNCHANGED server]_<<server, serverVars>>

\* A link told to drain ends its stream.
LinkEndsOnDrain == core # "running" /\ LinkEnds

\* serve() is polled until it returns; a task runs once what it waits for is there, a timer fires,
\* a send ends, and an aborted task is dropped; a link told to drain ends its stream.  The handler
\* owes nothing.
ServerFairSpec ==
    /\ ServerSpec
    /\ WF_serverVars(LoopStep) /\ WF_serverVars(LinkEndsOnDrain)
    /\ WF_serverVars(LinkDrained) /\ WF_serverVars(DrainSettled)
    /\ \A c \in Calls : WF_serverVars(TaskStep(c)) /\ WF_serverVars(Elapse(c)) /\ WF_serverVars(Abort(c))

---------------------------------------------------------------------------
\* The server's state is well formed: the settling count is the refusals under way, and each permit
\* is held by a call that runs; a reply stream always ready takes at most one item past its deadline.
ServerTypeOK ==
    /\ \A c \in Calls :
         /\ call[c].task \in Tasks \cup {"none", "ended", "aborted"} /\ call[c].exec \in {"none", "open", "ended"}
         /\ call[c].cancel \in Reasons /\ call[c].out \in Frames /\ call[c].wrote \in Seq(Frames)
         /\ call[c].ack \in {"none", "held", "acked", "rejected", "dropped"} /\ call[c].held \in 0 .. MaxQueued
         /\ call[c].report \in {"none", "completed", "cutoff"} /\ call[c].overdue <= 1
    /\ calls \in [Ids -> Calls \cup {NoCall}]
    /\ settling.refusals = Cardinality({c \in Calls : call[c].task = "refusing"})
    /\ admitted \subseteq {c \in Calls : call[c].exec = "open"} /\ Cardinality(admitted) <= MaxInflight

\* A caller gets one answer: no frame follows the frame that ends its call, however the handler's
\* answer, a cancellation, an overflow, the deadline, a reply the link cannot carry and the close
\* race.
OneAnswer == \A c \in Calls : \A k \in DOMAIN call[c].wrote : call[c].wrote[k] \in FinalFrames => k = Len(call[c].wrote)

\* A request is acknowledged to its broker only once its caller has an answer, or is gone or has
\* cancelled: a server that stops in between leaves it to be redelivered (link.rs:183-189).
AcknowledgedOnceAnswered ==
    \A c \in Calls :
      Answers(c) /\ call[c].ack = "acked" /\ call[c].task \in {"ended", "aborted"} =>
        \/ call[c].gone \/ call[c].cancel \in {"client", "disconnected"} \/ c \in BadDeadline
        \/ \E k \in DOMAIN call[c].wrote : call[c].wrote[k] \in FinalFrames

\* A link that hands over no more deliveries than max_inflight until their Acks are settled or
\* dropped never has one shed: the place a settled call held is free by then (link.rs:81-90).
NeverShed == Backpressure => \A c \in Calls : call[c].out # "shed"

\* What a handler answers, or its stream yields, after its read of a request cut short failed is
\* not the call's answer: the caller is told of the overflow, or of what cancelled the call first.
FailedReadNotAnswered ==
    [][\A c \in Calls :
         call[c].failed /\ call[c].cancel # "deadline" /\ call[c].wrote' # call[c].wrote =>
           call'[c].wrote[Len(call'[c].wrote)] \in {"overflow", "unavailable", "timeout"}]_serverVars


\* A call the drain's end cancelled is told so, even under a spent cap: close() aborts no call at
\* its race, or not polled yet, whose caller is still there.
DrainEndAnswered ==
    \A c \in Calls :
      serve = "abandon" /\ call[c].cancel = "drain" =>
        call[c].task \notin {"dispatch", "stream"} /\ (call[c].task = "spawned" => c \in Misfits)

\* What becomes of a call is settled once and told truly: one answer, acknowledged no sooner, none
\* shed by a link that waits for it, none aborted that the drain's end cancelled (dispatch.rs, run).
AnsweredExactly == OneAnswer /\ AcknowledgedOnceAnswered /\ NeverShed /\ DrainEndAnswered

\* A drain that waits, and a call with a deadline under way.
DrainWaits == drain = "waiting"
DeadlineRuns(c) == call[c].exec = "open"
DeadlineOver(c) == call[c].task \in {"ended", "aborted"}
=============================================================================
