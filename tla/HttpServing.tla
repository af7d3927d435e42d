----------------------------- MODULE HttpServing -----------------------------
(***************************************************************************)
(* Serving HTTP: a call, the servers on one host, and the hyper loops.     *)
(* Each part below has its own constants, variables, Init and Next, and    *)
(* shares no state with the others.                                        *)
(***************************************************************************)
EXTENDS Integers, FiniteSets

-------------------------------------------------------------------------------
(***************************************************************************)
(* One HTTP request through AppService (ulo-http/src/service.rs): the      *)
(* refusals before any work, the pre-dispatch entries around routing, the  *)
(* route's timeout, the drain's end, the error handlers' answer to a       *)
(* passed deadline read under the grace, and the response body the backend *)
(* writes, whose end is reported once through Execution::on_stream_end.    *)
(* Each poll of the call or of its body is one step, so the timer and the  *)
(* drain fall between any two of them.                                     *)
(***************************************************************************)

CONSTANT HttpRequests   \* [head, route, timed, forward, outside, malformed, unscoped, scoped]
CONSTANT MaxBodyFrames  \* data frames a body yields before it is at its end

VARIABLES
    request, \* what the client sent and what the app declares for it
    at,      \* where the call is
    around,  \* an unscoped entry called on and waits for the answer
    left,    \* entries of the sub-step running that have not started
    path,    \* "sent", "rewritten", "malformed"
    polled,  \* an entry read the request body
    routing, \* what routing decided
    cancel,  \* the execution's cancel reason, the first written
    timer,   \* the route's timeout or the grace: "off", "armed", "passed"
    reply,   \* the response: [status, length, ended, was, deadline, forward]
    report,  \* how on_stream_end was told the reply stream ended
    body     \* ExecBody: [ended, settled, waiting, frames]

httpVars == <<request, at, around, left, path, polled, routing, cancel, timer, reply, report, body>>

\* length: "known" or "stream"; was: it is a stream, or stands for one its execution reports.
Reply(status, length) ==
    [status |-> status, length |-> length, ended |-> FALSE, was |-> length = "stream", deadline |-> FALSE, forward |-> FALSE]
Nothing == [Reply("none", "known") EXCEPT !.ended = TRUE]
Problem(status) == Reply(status, "known")
Draining == Problem("503")
Unpolled == [ended |-> FALSE, settled |-> FALSE, waiting |-> FALSE, frames |-> 0]

ForbidsBody(status) == status \in {"101", "204"}
Unwritten(r) == request.head \/ ForbidsBody(r.status)

Unreported == [end |-> "none", reason |-> "none"]
Completed == [end |-> "Completed", reason |-> "none"]

HttpInit ==
    /\ request \in HttpRequests
    /\ at = "received" /\ around = FALSE /\ left = 0 /\ polled = FALSE /\ routing = "unrouted"
    /\ path = IF request.malformed THEN "malformed" ELSE "sent"
    /\ cancel = "none" /\ timer = "off" /\ reply = Nothing /\ report = Unreported /\ body = Unpolled

\* The first reason, and the first report, stay.
Cancelled(reason) == cancel' = IF cancel = "none" THEN reason ELSE cancel
Reported(outcome) == report' = IF report = Unreported THEN outcome ELSE report
CutOff(reason) == [end |-> "CutOff", reason |-> reason]

\* The pipeline has a response: back through the unscoped entries that called on, if there are any.
Answer(r) == at' = "answered" /\ reply' = r
ErrorHandlers == {Reply("200", "known"), Reply("200", "stream"), Problem("500")}

-----------------------------------------------------------------------------
\* try_admit over the bound, and Execution::open refused: answered directly.
Shed ==
    /\ at = "received" /\ at' = "over" /\ reply' = Draining
    /\ UNCHANGED <<request, around, left, path, polled, routing, cancel, timer, report, body>>

RoutesIt == ~request.outside /\ request.route # "notFound"

\* Forwardable: the miss of a request nothing has changed.
Forwardable == request.forward /\ ~polled /\ path = "sent"
Forwarded == [Problem("404") EXCEPT !.forward = TRUE]

\* respond, its refusal of a malformed path and the unscoped sub-step's start.
Respond ==
    /\ at = "received"
    /\ IF path = "malformed"
       THEN IF request.forward /\ ~RoutesIt
            THEN routing' = "notFound" /\ Answer(Forwarded) /\ UNCHANGED left
            ELSE Answer(Problem("400")) /\ UNCHANGED <<routing, left>>
       ELSE at' = "unscoped" /\ left' = request.unscoped /\ UNCHANGED <<reply, routing>>
    /\ UNCHANGED <<request, around, path, polled, cancel, timer, report, body>>

\* Watched: a poll of the request body is remembered.
BodyPolled == polled' = TRUE

\* One entry of a sub-step: it calls on with the request as it is, read or rewritten, or answers in
\* its place, itself or through the error handlers its failure is offered to.
EntryCallsOn ==
    /\ at \in {"unscoped", "scoped", "missed"} /\ left > 0 /\ left' = left - 1
    /\ \/ UNCHANGED <<path, polled>>
       \/ BodyPolled /\ UNCHANGED path
       \/ path' \in {"rewritten", "malformed"} /\ UNCHANGED polled
    /\ around' = (around \/ at = "unscoped")
    /\ UNCHANGED <<request, at, routing, cancel, timer, reply, report, body>>

\* found: HEAD answered by a GET handler owes the client no body, which is dropped here.
HeadFromGet == request.head /\ request.route = "get"
Found(r) ==
    IF HeadFromGet
    THEN Answer([r EXCEPT !.length = "known", !.ended = TRUE, !.deadline = FALSE])
         /\ (IF r.was THEN Reported(Completed) ELSE UNCHANGED report)
    ELSE Answer(r) /\ UNCHANGED report

EntryAnswers ==
    /\ at \in {"unscoped", "scoped", "missed"} /\ left > 0
    /\ \E r \in ErrorHandlers :
        IF at = "scoped" THEN Found([r EXCEPT !.deadline = request.timed]) ELSE Answer(r) /\ UNCHANGED report
    /\ UNCHANGED <<request, around, left, path, polled, routing, cancel, timer, body>>

\* route, once every unscoped entry has called on. An upgrade path runs the scoped entries and hands
\* the request to its taker; a miss runs them unless the host is to route the request again.
Route ==
    /\ at = "unscoped" /\ left = 0
    /\ IF path = "malformed" THEN Answer(Problem("400")) /\ UNCHANGED <<left, routing, timer>>
       ELSE IF request.route = "upgrade"
       THEN at' = "missed" /\ left' = request.scoped /\ UNCHANGED <<reply, routing, timer>>
       ELSE IF ~request.outside /\ request.route \in {"found", "get"}
       THEN /\ routing' = "matched" /\ at' = "scoped" /\ left' = request.scoped
            /\ timer' = (IF request.timed THEN "armed" ELSE "off") /\ UNCHANGED reply
       ELSE /\ routing' = IF request.outside THEN "notFound" ELSE request.route
            /\ at' = "missed" /\ UNCHANGED <<reply, timer>>
            /\ left' = IF request.outside \/ (routing' = "notFound" /\ Forwardable) THEN 0 ELSE request.scoped
    /\ UNCHANGED <<request, around, path, polled, cancel, report, body>>

\* unmatched and miss, and an upgrade path's taker.
Unmatched ==
    /\ at = "missed" /\ left = 0
    /\ CASE routing = "unrouted" -> Answer(Problem("101"))
         [] routing = "notFound" /\ Forwardable -> Answer(Forwarded)
         [] routing = "options" -> Answer(Problem("204"))
         [] OTHER -> \E r \in ErrorHandlers \cup {Problem("404")} : Answer(r)
    /\ UNCHANGED <<request, around, left, path, polled, routing, cancel, timer, report, body>>

\* dispatch answers before the timeout: the pending sleep goes on with the body (TimedBody).
Dispatch ==
    /\ at = "scoped" /\ left = 0
    /\ \E status \in {"200", "204"}, length \in {"known", "stream"} :
        Found([Reply(status, length) EXCEPT !.deadline = request.timed])
    /\ UNCHANGED <<request, around, left, path, polled, routing, cancel, timer, body>>

-----------------------------------------------------------------------------
\* race: the sleep wins; the execution is cancelled, the pipeline dropped, the grace armed.
Expires ==
    /\ at = "scoped" /\ timer = "passed"
    /\ Cancelled("Deadline") /\ at' = "recovering" /\ timer' = "armed"
    /\ UNCHANGED <<request, around, left, path, polled, routing, reply, report, body>>

\* expired: what the error handlers answer, or the 504 when the grace runs out first. A body not at
\* its end is read before it is answered.
Recovers ==
    /\ at = "recovering"
    /\ \E r \in ErrorHandlers :
        \/ Found([r EXCEPT !.ended = TRUE, !.length = "known", !.was = FALSE]) /\ UNCHANGED body
        \/ at' = "reading" /\ reply' = r /\ UNCHANGED <<report, body>>
    /\ UNCHANGED <<request, around, left, path, polled, routing, cancel, timer>>

GraceRunsOut ==
    /\ at \in {"recovering", "reading"} /\ timer = "passed"
    /\ IF at = "reading" /\ reply.was THEN Reported(CutOff(cancel)) ELSE UNCHANGED report
    /\ Answer(Problem("504"))
    /\ UNCHANGED <<request, around, left, path, polled, routing, cancel, timer, body>>

\* completed: read to its end, the copy of exact length reporting for the stream it was read from.
\* The report a HEAD answer owes is made as in Found.
ReadWhole ==
    /\ at = "reading"
    /\ Found([reply EXCEPT !.length = "known"])
    /\ UNCHANGED <<request, around, left, path, polled, routing, cancel, timer, body>>

\* The body fails, or yields more than BUFFER_CAP while the server waits on it.
ReadFails ==
    /\ at = "reading"
    /\ IF reply.was THEN Reported(CutOff(cancel)) ELSE UNCHANGED report
    /\ Answer(Problem("504"))
    /\ UNCHANGED <<request, around, left, path, polled, routing, cancel, timer, body>>

-----------------------------------------------------------------------------
\* The end of the reply `r` as a value is dropped: a buffered copy reports, an untracked stream does not.
Discarded == IF reply.was /\ reply.length = "known" /\ ~reply.ended THEN Reported(CutOff(cancel)) ELSE UNCHANGED report

\* An unscoped entry that called on answers something else.
EntryReplaces ==
    /\ at = "answered" /\ around
    /\ \E r \in {Reply("200", "stream"), Problem("500")} : r # reply /\ reply' = r
    /\ Discarded
    /\ UNCHANGED <<request, around, at, left, path, polled, routing, cancel, timer, body>>

\* until_drained: the call is abandoned at an await. The unscoped entries that called on may still
\* be awaiting; otherwise an answer is returned in the poll that produced it.
Abandon ==
    /\ cancel = "Drain"
    /\ \/ at \in {"unscoped", "scoped", "missed", "recovering", "reading"}
       \/ at = "answered" /\ around
    /\ at' = "written" /\ reply' = Draining /\ body' = Unpolled
    /\ CASE at = "reading" /\ reply.was -> Reported(CutOff(cancel))
         [] at = "answered" -> Discarded
         [] OTHER -> UNCHANGED report
    /\ UNCHANGED <<request, around, left, path, polled, routing, cancel, timer>>

\* respond's return: a stream the drain would cut at its first poll is refused instead; a stream the
\* backend never writes is reported now, any other is wrapped in Tracked.
CutAtFirstPoll == reply.length = "stream" /\ ~Unwritten(reply)
Finish ==
    /\ at = "answered" /\ at' = "written"
    /\ reply' = IF cancel = "Drain" /\ CutAtFirstPoll THEN Draining ELSE reply
    /\ IF Unwritten(reply) /\ reply.was THEN Reported(Completed) ELSE UNCHANGED report
    /\ body' = [Unpolled EXCEPT !.ended = Unwritten(reply') \/ reply'.ended]
    /\ UNCHANGED <<request, around, left, path, polled, routing, cancel, timer>>

-----------------------------------------------------------------------------
Streaming == reply.length = "stream"
Watching == ~body.ended /\ ~body.settled /\ Streaming

\* cut_off: the stream is reported cut off by the drain and ends with an error frame.
CutsOff == body' = [body EXCEPT !.ended = TRUE] /\ Reported(CutOff("Drain"))

\* TimedBody, polled ahead of the frame: the deadline passing cancels the execution.
DeadlinePolled == IF reply.deadline /\ timer = "passed" THEN Cancelled("Deadline") ELSE UNCHANGED cancel

\* A poll that begins a wait once the drain has cancelled the call takes no further frame.
PollCut ==
    /\ at = "written" /\ Watching /\ ~body.waiting /\ cancel = "Drain"
    /\ CutsOff
    /\ UNCHANGED <<request, around, at, left, path, polled, routing, cancel, timer, reply>>

MayPoll == at = "written" /\ ~body.ended /\ ~(Watching /\ ~body.waiting /\ cancel = "Drain")

PollFrame ==
    /\ MayPoll /\ body.frames < MaxBodyFrames /\ DeadlinePolled
    /\ body' = [body EXCEPT !.frames = @ + 1, !.waiting = FALSE]
    /\ UNCHANGED <<request, around, at, left, path, polled, routing, timer, reply, report>>

\* The body's end taken. Tracked remembers it, and the buffered copy has nothing left: each reports
\* Completed when it is dropped.
PollEnd ==
    /\ MayPoll /\ (~Streaming => body.frames = MaxBodyFrames) /\ DeadlinePolled
    /\ body' = [body EXCEPT !.ended = TRUE]
    /\ IF reply.was THEN Reported(Completed) ELSE UNCHANGED report
    /\ UNCHANGED <<request, around, at, left, path, polled, routing, timer, reply>>

\* The stream's own error frame, or a panic in it (recover).
PollFails ==
    /\ MayPoll /\ Streaming /\ DeadlinePolled
    /\ body' = [body EXCEPT !.ended = TRUE] /\ Reported(CutOff(cancel'))
    /\ UNCHANGED <<request, around, at, left, path, polled, routing, timer, reply>>

PollPending ==
    /\ MayPoll /\ Streaming /\ DeadlinePolled
    /\ CASE Watching /\ cancel' = "Drain" -> CutsOff
         [] Watching /\ cancel' \notin {"none", "Drain"} -> body' = [body EXCEPT !.settled = TRUE, !.waiting = TRUE] /\ UNCHANGED report
         [] OTHER -> body' = [body EXCEPT !.waiting = TRUE] /\ UNCHANGED report
    /\ UNCHANGED <<request, around, at, left, path, polled, routing, timer, reply>>


\* The backend drops the body, written or not: ExecBody's drop runs before the Tracked inside it.
BodyDropped ==
    /\ at = "written" /\ at' = "over"
    /\ IF body.ended THEN UNCHANGED cancel ELSE Cancelled("Disconnected")
    /\ IF reply.was /\ ~body.ended THEN Reported(CutOff(cancel')) ELSE UNCHANGED report
    /\ UNCHANGED <<request, around, left, path, polled, routing, timer, reply, body>>

\* The app's timer, the drain's end and the handler's own cancel.
TimerPasses ==
    /\ timer = "armed" /\ at # "over" /\ timer' = "passed"
    /\ UNCHANGED <<request, around, at, left, path, polled, routing, cancel, reply, report, body>>

DrainCancels ==
    /\ cancel = "none" /\ at \notin {"received", "over"} /\ cancel' \in {"Drain", "Explicit"}
    /\ UNCHANGED <<request, around, at, left, path, polled, routing, timer, reply, report, body>>

CallStep ==
    \/ Shed \/ Respond \/ EntryCallsOn \/ EntryAnswers \/ Route \/ Unmatched \/ Dispatch
    \/ Expires \/ Recovers \/ GraceRunsOut \/ ReadWhole \/ ReadFails \/ EntryReplaces \/ Abandon \/ Finish
BodyStep == PollCut \/ PollFrame \/ PollEnd \/ PollFails \/ PollPending \/ BodyDropped
WholeWritten == ~Streaming /\ (PollFrame \/ PollEnd)
DrainWakes == cancel = "Drain" /\ PollPending
EndedDropped == body.ended /\ BodyDropped
HttpNext == CallStep \/ BodyStep \/ TimerPasses \/ DrainCancels

\* A call is polled when its drain or its answer wakes it; the backend polls the body it writes and
\* drops it once it has ended.
HttpFairness ==
    /\ WF_httpVars(Respond) /\ WF_httpVars(Abandon) /\ WF_httpVars(Finish)
    /\ WF_httpVars(PollCut) /\ WF_httpVars(WholeWritten)
    /\ WF_httpVars(DrainWakes) /\ WF_httpVars(EndedDropped)
HttpSpec == HttpInit /\ [][HttpNext]_httpVars /\ HttpFairness

-----------------------------------------------------------------------------
\* Execution::on_stream_end over service.rs: a streamed reply that is over was reported Completed
\* only if the backend took its end or it owed no body, and otherwise cut off with the first
\* cancellation's reason, Disconnected when the backend left it. An entry replacing the answer to a
\* passed deadline is left out: the stream dropped then has reported in the reply's place.
StreamEndTold ==
    at = "over" /\ reply.was /\ ~(request.timed /\ request.unscoped > 0) =>
        /\ report # Unreported
        /\ Unwritten(reply) => report = Completed
        /\ ~Unwritten(reply) /\ ~body.ended => report = CutOff(cancel) /\ cancel # "none"
        /\ report = CutOff("Disconnected") => ~body.ended

\* An embedding hands back to its host only a request its entries left as it came, on a path of its
\* own no route matched; and a call refused or abandoned at the drain is never handed back.
ForwardedUntouched ==
    at \in {"written", "over"} /\ reply.forward => ~RoutesIt /\ ~polled /\ routing = "notFound" /\ (path = "sent" \/ request.malformed)

\* The drain cancelled the call; the call is over.
DrainedCall == cancel = "Drain" /\ at # "over"
CallOver == at = "over"

-------------------------------------------------------------------------------
(***************************************************************************)
(* The two HTTP servers as the core drives them: Server over a backend     *)
(* (ulo-http/src/server.rs) and Embedded over a host framework             *)
(* (embed.rs), which polls the host's server future out of a slot, tells   *)
(* the host to stop through a Notice and waits for it in close. Both       *)
(* prepare, bind, drain, close and release the upgrade handlers.           *)
(***************************************************************************)

CONSTANTS UpgradeHandlers, \* the number of registered upgrade handlers
          MaxInstalls,     \* calls of Handle::host
          MaxListeners     \* listeners a host registers

VARIABLES
    served,    \* "backend" or "embedded"
    life,      \* "new", "prepared", "bound", "draining", "closing", "closed", "refused", "dropped"
    begun,     \* handlers whose prepare began
    joined,    \* handlers in the server's list, which its drop walks
    released,  \* how often each handler was released
    listening, \* the backend holds listeners
    answering, \* what Service::answer gives: "unbound", "bound", "closed"
    slot,      \* HostSlot: "empty", "waited", "installed", "taken", "released"
    installs,  \* host futures the handle was given: installed, refused or dropped
    serving,   \* Embedded::serve: "none", "woken", "waiting", "polling", "ended"
    stop,      \* the stopping Notice: "quiet", "fired", "taken"
    stopped,   \* the host's shutdown future on it: "unpolled", "checked", "waiting", "resolved"
    finished,  \* the finished Notice
    listeners, \* [registered, open, waiting]
    closed     \* the host awaits listeners_closed: "no", "waiting", "woken", "resolved"

hostVars == <<slot, installs, serving>>
noticeVars == <<stop, stopped, finished, listeners, closed>>
serversVars == <<served, life, begun, joined, released, listening, answering, hostVars, noticeVars>>

Handlers == 1..UpgradeHandlers

ServersInit ==
    /\ served \in {"backend", "embedded"} /\ life = "new" /\ begun = {} /\ joined = {} /\ released = [h \in Handlers |-> 0]
    /\ listening = FALSE /\ answering = "unbound" /\ slot = "empty" /\ installs = 0 /\ serving = "none"
    /\ stop = "quiet" /\ stopped = "unpolled" /\ finished = FALSE
    /\ listeners = [registered |-> 0, open |-> 0, waiting |-> FALSE] /\ closed = "no"

-----------------------------------------------------------------------------

\* prepare_app: each handler joins the list before its own prepare, so a panic in it, or a failure
\* of anything else, leaves the server owing it a release.
Prepare ==
    /\ life = "new"
    /\ \E n \in 0..UpgradeHandlers, outcome \in {"ok", "failures", "panic"} :
        /\ outcome # "panic" => n = UpgradeHandlers
        /\ begun' = 1..n /\ joined' = 1..n /\ life' = IF outcome = "ok" THEN "prepared" ELSE "refused"
    /\ UNCHANGED <<served, released, listening, answering, hostVars, noticeVars>>

\* bind: the listeners, then each handler's `bound`; its error closes what this server bound.
Bind ==
    /\ life = "prepared"
    /\ \E bound \in BOOLEAN, handlers \in BOOLEAN :
        /\ served = "embedded" => bound
        /\ life' = IF bound /\ handlers THEN "bound" ELSE "refused"
        /\ listening' = (served = "backend" /\ bound /\ handlers)
        /\ answering' = IF bound /\ handlers THEN "bound" ELSE answering
    /\ UNCHANGED <<served, begun, joined, released, hostVars, noticeVars>>

\* Handle::host, by the host's code at any time: into an empty slot, waking the serve that waits.
Install ==
    /\ served = "embedded" /\ installs < MaxInstalls /\ installs' = installs + 1
    /\ slot' = IF slot \in {"empty", "waited"} THEN "installed" ELSE slot
    /\ serving' = IF slot = "waited" THEN "woken" ELSE serving
    /\ UNCHANGED <<served, life, begun, joined, released, listening, answering, noticeVars>>

\* Embedded::serve polled: take_host, or the waker left for the installation.
ServePoll ==
    /\ served = "embedded" /\ life \in {"bound", "draining", "closing"} /\ serving \in {"none", "woken"}
    /\ slot' = CASE slot = "installed" -> "taken" [] slot = "empty" -> "waited" [] OTHER -> slot
    /\ serving' = IF slot = "installed" THEN "polling" ELSE "waiting"
    /\ UNCHANGED <<served, life, begun, joined, released, listening, answering, installs, noticeVars>>

\* serve ends with the host's future, or is dropped by the core: finished fires either way.
ServeEnds ==
    /\ serving = "polling" \/ (serving = "waiting" /\ life = "closed")
    /\ serving' = "ended" /\ finished' = TRUE
    /\ UNCHANGED <<served, life, begun, joined, released, listening, answering, slot, installs, stop, stopped, listeners, closed>>

-----------------------------------------------------------------------------
\* drain, and close for an app closed without one: stopping fires, its flag before its wakers.
Drain ==
    /\ life = "bound" /\ life' = "draining"
    /\ stop' = IF served = "embedded" THEN "fired" ELSE stop
    /\ UNCHANGED <<served, begun, joined, released, listening, answering, hostVars, stopped, finished, listeners, closed>>

FireTakes ==
    /\ stop = "fired" /\ stop' = "taken"
    /\ stopped' = IF stopped = "waiting" THEN "unpolled" ELSE stopped
    /\ UNCHANGED <<served, life, begun, joined, released, listening, answering, hostVars, finished, listeners, closed>>

\* Notice::poll_fired by the host's shutdown future: the flag, then again under the wakers' lock.
StoppingPoll ==
    /\ served = "embedded" /\ stopped \in {"unpolled", "checked"}
    /\ stopped' = IF stop # "quiet" THEN "resolved" ELSE IF stopped = "unpolled" THEN "checked" ELSE "waiting"
    /\ UNCHANGED <<served, life, begun, joined, released, listening, answering, hostVars, stop, finished, listeners, closed>>

\* register_listener, the HostListener's drop, and ListenersClosed polled by the adapter's run.
Register ==
    /\ served = "embedded" /\ listeners.registered < MaxListeners /\ closed = "no" /\ stop = "quiet"
    /\ listeners' = [listeners EXCEPT !.registered = @ + 1, !.open = @ + 1]
    /\ UNCHANGED <<served, life, begun, joined, released, listening, answering, hostVars, stop, stopped, finished, closed>>

ListenerDrops ==
    /\ listeners.open > 0 /\ stopped = "resolved"
    /\ listeners' = [listeners EXCEPT !.open = @ - 1, !.waiting = @ /\ listeners.open > 1]
    /\ closed' = IF listeners.open = 1 /\ listeners.waiting THEN "woken" ELSE closed
    /\ UNCHANGED <<served, life, begun, joined, released, listening, answering, hostVars, stop, stopped, finished>>

ListenersPoll ==
    /\ stopped = "resolved" /\ closed \in {"no", "woken"}
    /\ closed' = IF listeners.open = 0 THEN "resolved" ELSE "waiting"
    /\ listeners' = [listeners EXCEPT !.waiting = @ \/ listeners.open > 0]
    /\ UNCHANGED <<served, life, begun, joined, released, listening, answering, hostVars, stop, stopped, finished>>

-----------------------------------------------------------------------------
\* close: stopping fires, the slot is released unless serve polls the future in it.
Close ==
    /\ life \in {"bound", "draining"} /\ life' = "closing"
    /\ IF served = "embedded"
       THEN /\ stop' = (IF stop = "quiet" THEN "fired" ELSE stop)
            /\ slot' = (IF slot = "taken" THEN slot ELSE "released") /\ UNCHANGED listening
       ELSE listening' = FALSE /\ UNCHANGED <<stop, slot>>
    /\ UNCHANGED <<served, begun, joined, released, answering, installs, serving, stopped, finished, listeners, closed>>

\* close's return: the host's future has ended where serve polled it.
Closed ==
    /\ life = "closing" /\ life' = "closed"
    /\ slot = "taken" => finished
    /\ answering' = "closed"
    /\ UNCHANGED <<served, begun, joined, released, listening, hostVars, noticeVars>>

\* The server's drop, after listen failed, after close or in its place.
Drop ==
    /\ life # "dropped" /\ life' = "dropped"
    /\ listening' = FALSE /\ released' = [h \in Handlers |-> released[h] + IF h \in joined THEN 1 ELSE 0]
    /\ slot' = IF served = "embedded" THEN "released" ELSE slot
    /\ serving' = (IF serving \in {"none", "ended"} THEN serving ELSE "ended") /\ finished' = (finished \/ serving # "none")
    /\ UNCHANGED <<served, begun, joined, answering, installs, stop, stopped, listeners, closed>>

HostEnds == closed = "resolved" /\ ServeEnds

ServersNext ==
    \/ Prepare \/ Bind \/ Install \/ ServePoll \/ ServeEnds \/ Drain \/ FireTakes \/ StoppingPoll
    \/ Register \/ ListenerDrops \/ ListenersPoll \/ Close \/ Closed \/ Drop

\* The core polls serve and close; a host told to stop closes its listeners and ends its future.
ServersFairness ==
    /\ WF_serversVars(ServePoll) /\ WF_serversVars(FireTakes) /\ WF_serversVars(StoppingPoll) /\ WF_serversVars(Closed)
    /\ WF_serversVars(ListenerDrops) /\ WF_serversVars(ListenersPoll) /\ WF_serversVars(HostEnds)
ServersSpec == ServersInit /\ [][ServersNext]_serversVars /\ ServersFairness

-----------------------------------------------------------------------------
\* UpgradeHandler::release and the listeners, over every way a server ends, a prepare that panics
\* half way included: once dropped it has released exactly the handlers whose prepare began, once
\* each, and a server that failed to bind, closed or dropped holds no listener and no host future.
EndsHoldNothing ==
    /\ life = "dropped" => \A h \in Handlers : released[h] = IF h \in begun THEN 1 ELSE 0
    /\ life \in {"refused", "closed", "dropped"} => ~listening
    /\ life \in {"closed", "dropped"} => slot # "installed"

\* Embedded: a future is installed while serve waits. A close is under way.
HostWaits == slot = "installed" /\ serving # "none"
HostTaken == slot # "installed"
ServerClosing == life = "closing"

-------------------------------------------------------------------------------
(***************************************************************************)
(* The accept loop and the drain of ulo-server-hyper (serve.rs): run takes *)
(* the listeners and spawns a loop for each, each loop spawns a task for   *)
(* each connection, and drain, close_after and a dropped run race them     *)
(* through the three signals draining, closing and finished. Aborting a    *)
(* task is a request that takes effect later.                              *)
(***************************************************************************)

CONSTANTS
    Loops,      \* the listeners bound, each with its accept loop
    Conns       \* the connections peers open

VARIABLES
    unserved,   \* Serve::listeners is Some: no run has taken them
    draining, closing, serveFinished,  \* Signals
    running,    \* "no", "run", "ended", "failed", "dropped": the run future
    loop,       \* each loop: "none", "await", "polled", "backoff", "joining", "aborting", "panicked", "dropped", "ended"
    conn,       \* each connection: "none", "handshake", "serving", "cut" (abort asked), "over"
    servedBy,   \* the loop that spawned each connection
    drainCall,  \* Serve::drain by the core: "no", "waits", "returned", "dropped"
    closeCall   \* Serve::close_after: "no", "graced", "closes", "returned", "cut"

hyperVars == <<unserved, draining, closing, serveFinished, running, loop, conn, servedBy, drainCall, closeCall>>

NoLoop == "noLoop"
OwnConns(l) == {c \in Conns : servedBy[c] = l}
LiveConns == {c \in Conns : conn[c] \in {"handshake", "serving", "cut"}}
Aborted(cs) == [c \in Conns |-> IF c \in cs \cap LiveConns THEN "cut" ELSE conn[c]]

HyperInit ==
    /\ unserved = TRUE /\ draining = FALSE /\ closing = FALSE /\ serveFinished = FALSE
    /\ running = "no" /\ loop = [l \in Loops |-> "none"]
    /\ conn = [c \in Conns |-> "none"] /\ servedBy = [c \in Conns |-> NoLoop]
    /\ drainCall = "no" /\ closeCall = "no"

\* run: takes the listeners, or returns at once when they were taken.
Run ==
    /\ running = "no"
    /\ IF unserved
       THEN /\ unserved' = FALSE /\ running' = "run"
            /\ loop' = [l \in Loops |-> "await"]
       ELSE running' = "ended" /\ UNCHANGED <<unserved, loop>>
    /\ UNCHANGED <<draining, closing, serveFinished, conn, servedBy, drainCall, closeCall>>

\* run's end: every loop joined; Finish drops.
RunEnds ==
    /\ running = "run" /\ \A l \in Loops : loop[l] = "ended"
    /\ running' = "ended" /\ serveFinished' = TRUE
    /\ UNCHANGED <<unserved, draining, closing, loop, conn, servedBy, drainCall, closeCall>>

\* TaskSet's drop aborts the loops left, and each loop's drop its connections.
LoopsDropped ==
    /\ loop' = [l \in Loops |-> IF loop[l] \in {"ended", "panicked"} THEN loop[l] ELSE "dropped"]
    /\ conn' = Aborted(Conns)

\* run answers Err for a loop that panicked.
RunFails ==
    /\ running = "run" /\ \E l \in Loops : loop[l] = "panicked"
    /\ running' = "failed" /\ LoopsDropped /\ serveFinished' = TRUE
    /\ UNCHANGED <<unserved, draining, closing, servedBy, drainCall, closeCall>>

\* The core drops the serve future: the loops' TaskSet drops, then Finish.
RunDropped ==
    /\ running = "run" /\ running' = "dropped" /\ LoopsDropped /\ serveFinished' = TRUE
    /\ UNCHANGED <<unserved, draining, closing, servedBy, drainCall, closeCall>>

\* release_unserved: the listeners of a run that never started.
ReleaseUnserved ==
    /\ unserved' = FALSE
    /\ serveFinished' = (serveFinished \/ unserved)

ServeDrain ==
    /\ drainCall = "no" /\ closeCall = "no"
    /\ drainCall' = "waits" /\ draining' = TRUE /\ ReleaseUnserved
    /\ UNCHANGED <<closing, running, loop, conn, servedBy, closeCall>>

DrainReturns ==
    /\ drainCall = "waits" /\ serveFinished /\ drainCall' = "returned"
    /\ UNCHANGED <<unserved, draining, closing, serveFinished, running, loop, conn, servedBy, closeCall>>

\* The drain window's deadline drops the future.
DrainDropped ==
    /\ drainCall = "waits" /\ drainCall' = "dropped"
    /\ UNCHANGED <<unserved, draining, closing, serveFinished, running, loop, conn, servedBy, closeCall>>

\* close_after's first poll: the drain polled, the listeners of an unserved run released.
CloseAfter ==
    /\ closeCall = "no" /\ drainCall # "waits"
    /\ closeCall' = "graced" /\ draining' = TRUE /\ ReleaseUnserved
    /\ UNCHANGED <<closing, running, loop, conn, servedBy, drainCall>>

\* Everything ended, or the grace over: close.
GraceOver ==
    /\ closeCall = "graced" /\ closeCall' = "closes" /\ closing' = TRUE
    /\ UNCHANGED <<unserved, draining, serveFinished, running, loop, conn, servedBy, drainCall>>

CloseReturned ==
    /\ closeCall = "closes" /\ serveFinished /\ closeCall' = "returned"
    /\ UNCHANGED <<unserved, draining, closing, serveFinished, running, loop, conn, servedBy, drainCall>>

\* close_after dropped: AbortOnDrop.
CloseCut ==
    /\ closeCall \in {"graced", "closes"} /\ closeCall' = "cut" /\ closing' = TRUE
    /\ UNCHANGED <<unserved, draining, serveFinished, running, loop, conn, servedBy, drainCall>>

-----------------------------------------------------------------------------
\* accept_loop
LoopTo(l, to) == loop' = [loop EXCEPT ![l] = to]
LoopFrame == UNCHANGED <<unserved, draining, closing, serveFinished, running, drainCall, closeCall>>

LoopAborts(l) == LoopTo(l, "aborting") /\ conn' = Aborted(OwnConns(l)) /\ UNCHANGED servedBy

\* One poll of the loop: closing before draining, both before the accept.
LoopPolls(l) ==
    /\ loop[l] = "await" /\ LoopFrame
    /\ \/ closing /\ LoopAborts(l)
       \/ ~closing /\ draining /\ LoopTo(l, "joining") /\ UNCHANGED <<conn, servedBy>>
       \/ ~closing /\ ~draining /\ LoopTo(l, "polled") /\ UNCHANGED <<conn, servedBy>>

\* The same poll's accept, the signals possibly raised since they were read.
LoopAccepts(l) ==
    /\ loop[l] = "polled" /\ LoopFrame /\ LoopTo(l, "await")
    /\ \E c \in Conns :
        /\ conn[c] = "none"
        /\ conn' = [conn EXCEPT ![c] = "handshake"] /\ servedBy' = [servedBy EXCEPT ![c] = l]

LoopPending(l) == loop[l] = "polled" /\ LoopFrame /\ LoopTo(l, "await") /\ UNCHANGED <<conn, servedBy>>

\* An accept error other than the peer's: the loop sleeps, reading no signal meanwhile.
AcceptFails(l) == loop[l] = "polled" /\ LoopFrame /\ LoopTo(l, "backoff") /\ UNCHANGED <<conn, servedBy>>

Backoff(l) ==
    /\ loop[l] = "backoff" /\ LoopFrame /\ UNCHANGED <<conn, servedBy>>
    /\ \E to \in {"await", "joining"} : LoopTo(l, to)

\* The listener dropped: connections joined, or aborted once closing is raised.
Joins(l) ==
    /\ loop[l] = "joining" /\ LoopFrame
    /\ \/ closing /\ LoopAborts(l)
       \/ ~closing /\ OwnConns(l) \cap LiveConns = {} /\ LoopTo(l, "ended") /\ UNCHANGED <<conn, servedBy>>

AbortEnds(l) ==
    /\ loop[l] = "aborting" /\ LoopFrame
    /\ OwnConns(l) \cap LiveConns = {} /\ LoopTo(l, "ended") /\ UNCHANGED <<conn, servedBy>>

\* A listener's accept panics: the loop's TaskSet drops.
LoopPanics(l) ==
    /\ loop[l] = "polled" /\ LoopFrame /\ LoopTo(l, "panicked")
    /\ conn' = Aborted(OwnConns(l)) /\ UNCHANGED servedBy

\* serve_connection: the handshake ends, times out, or is abandoned at the drain.
Handshaken(c) ==
    /\ conn[c] = "handshake" /\ LoopFrame /\ UNCHANGED <<loop, servedBy>>
    /\ \E to \in {"serving", "over"} : conn' = [conn EXCEPT ![c] = to]

\* The consumer's closure ends on its own, or an abort takes effect.
ConnEnds(c) ==
    /\ conn[c] \in {"serving", "cut"} /\ LoopFrame /\ UNCHANGED <<loop, servedBy>>
    /\ conn' = [conn EXCEPT ![c] = "over"]

LoopStep(l) == LoopPolls(l) \/ LoopPending(l) \/ Backoff(l) \/ Joins(l) \/ AbortEnds(l)

CutEnds(c) == conn[c] = "cut" /\ ConnEnds(c)

HyperNext ==
    \/ Run \/ RunEnds \/ RunFails \/ RunDropped \/ ServeDrain \/ DrainReturns \/ DrainDropped
    \/ CloseAfter \/ GraceOver \/ CloseReturned \/ CloseCut
    \/ \E l \in Loops : LoopStep(l) \/ LoopAccepts(l) \/ AcceptFails(l) \/ LoopPanics(l)
    \/ \E c \in Conns : Handshaken(c) \/ ConnEnds(c)

\* The runtime polls woken tasks, the core the futures it holds; an abort takes effect and a
\* handshake ends, by the drain or the timeout. A served connection may stay open for ever.
HyperFairness ==
    /\ WF_hyperVars(RunEnds \/ RunFails) /\ WF_hyperVars(DrainReturns)
    /\ WF_hyperVars(GraceOver) /\ WF_hyperVars(CloseReturned)
    /\ \A l \in Loops : WF_hyperVars(LoopStep(l))
    /\ \A c \in Conns : WF_hyperVars(Handshaken(c)) /\ WF_hyperVars(CutEnds(c))

HyperSpec == HyperInit /\ [][HyperNext]_hyperVars /\ HyperFairness

-----------------------------------------------------------------------------
\* finished is raised with nothing left serving: once a run that neither failed nor was dropped has
\* raised it, no listener is unserved and every connection has ended, the aborted ones included; a
\* run that failed or was dropped has asked every connection to stop.
FinishedIsOver ==
    serveFinished =>
        /\ ~unserved
        /\ LiveConns # {} => running \in {"failed", "dropped"}
        /\ \A c \in LiveConns : conn[c] = "cut"

\* A close has begun; it returned or was cut, and no connection is left. A drain waits with no run.
CloseBegun == closeCall # "no"
CloseOver == closeCall \in {"returned", "cut"} /\ LiveConns = {}
DrainAlone == drainCall = "waits" /\ running # "run"
===============================================================================
