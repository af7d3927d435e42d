------------------------------ MODULE RpcCalls ------------------------------
(***************************************************************************)
(* One call of an RPC client, from its await to its end, on the client's   *)
(* clock: what refuses it before any I/O, its bounds, the `deadline-ms` it *)
(* gives its server, the `cancel` its drop sends, and the close of a link  *)
(* the client owns (ulo-rpc client.rs). The connection's registry and the  *)
(* queues are RpcClient's.                                                 *)
(*                                                                         *)
(* The clock counts half milliseconds. A timer is noticed at most Lag      *)
(* after its end; a stream nobody polls is not noticed at all.             *)
(***************************************************************************)
EXTENDS Naturals

CONSTANTS CallConfigs, MaxNow, Lag, MaxFrames

\* No bound, a builder's untouched Bound::Default, and the sub-units of a
\* millisecond.
Never == 1000
Default == 2000
PerMilli == 2

VARIABLES cfg, now, at, ends, limit, idle, sent, settled, frames, told, cause, exec, cancels, handle, link, awaited, unpolled

callVars == <<cfg, now, at, ends, limit, idle, sent, settled, frames, told, cause, exec, cancels, handle, link, awaited, unpolled>>

Least(a, b) == IF a < b THEN a ELSE b

\* checked_add: a bound whose end the clock cannot hold is none.
EndOf(start, bound) == IF bound = Never THEN Never ELSE start + bound

NotSent == [at |-> Never, ms |-> 0]

Streams == cfg.shape \in {"stream", "duplex"}

\* Spec::reserved.
Reserved ==
    \/ cfg.header = "deadline-ms"
    \/ cfg.header = "traceparent" /\ cfg.trace # "none"
    \/ cfg.header = "tracestate" /\ cfg.trace = "received"

\* The zero a builder was given, found at the await.
ZeroBound ==
    IF Streams THEN cfg.callIdle = 0 \/ cfg.deadline = 0
    ELSE cfg.shape # "emit" /\ cfg.timeout = 0

\* StreamCall's idle timeout, the client's at Bound::Default.
IdleOf == IF Streams THEN IF cfg.callIdle = Default THEN cfg.clientIdle ELSE cfg.callIdle ELSE Never

\* Spec::limit's own bound: the call's timeout or the client's, a stream's deadline.
Own == IF Streams THEN cfg.deadline
       ELSE IF cfg.timeout # Default /\ cfg.shape # "emit" THEN cfg.timeout ELSE cfg.clientTimeout

Limited == Least(EndOf(now, Own), cfg.execEnds)

\* Limit::frame, and Limit::call where no idle timeout applies.
LimitFrame(i, e) == Least(EndOf(now, i), e)

\* deadline_ms.
DeadlineMs(left) == IF left \div PerMilli = 0 THEN 1 ELSE left \div PerMilli

\* The end of the call: its value dropped, Pending sends `cancel` unless
\* settled, and the client it held is let go. `registered` is whether it had
\* a Pending.
Ended(kind, why, registered, done) ==
    /\ at' = "ended"
    /\ told' = kind
    /\ cause' = why
    /\ settled' = done
    /\ cancels' = IF registered /\ ~done /\ cfg.shape # "emit" THEN cancels + 1 ELSE cancels
    /\ limit' = Never
    /\ link' = IF cfg.owned /\ ~handle THEN "closing" ELSE link

Kept == UNCHANGED <<cfg, now, ends, idle, exec, handle, awaited, unpolled>>

\* The await: refusals of how the call is written, then of its execution, then
\* of what the link carries; else the connect begins under its first limit.
Await ==
    /\ at = "built"
    /\ UNCHANGED <<cfg, now, sent, frames, exec, handle, unpolled>>
    /\ awaited' = now
    /\ ends' = Limited
    /\ idle' = IdleOf
    /\ CASE Reserved -> Ended("BadRequest", "reserved_header", FALSE, FALSE)
         [] ~Reserved /\ ZeroBound -> Ended("BadRequest", "zero_timeout", FALSE, FALSE)
         [] ~Reserved /\ ~ZeroBound /\ cfg.execEnds <= now -> Ended("Timeout", "exec_deadline", FALSE, FALSE)
         [] ~Reserved /\ ~ZeroBound /\ cfg.execEnds > now /\ exec ->
              Ended("Unavailable", "exec_cancelled", FALSE, FALSE)
         [] ~Reserved /\ ~ZeroBound /\ cfg.execEnds > now /\ ~exec /\ cfg.shape # "emit" /\ ~cfg.carried ->
              Ended("Unimplemented", "shape_unsupported", FALSE, FALSE)
         [] ~Reserved /\ ~ZeroBound /\ cfg.execEnds > now /\ ~exec /\ (cfg.shape = "emit" \/ cfg.carried) /\ ~cfg.encodes ->
              Ended("BadRequest", "payload", FALSE, FALSE)
         [] OTHER -> /\ at' = "connecting"
                     /\ limit' = LimitFrame(idle', ends')
                     /\ UNCHANGED <<settled, told, cause, cancels, link>>

\* connect_error.
ConnectErrors ==
    {<<"Unavailable", "connect">>, <<"Unavailable", "panicked">>, <<"Internal", "misconfigured_link">>,
     <<"Unavailable", "runtime_shut_down">>, <<"Unavailable", "connect_timed_out">>}

ConnectFails ==
    /\ at = "connecting"
    /\ \E e \in ConnectErrors : Ended(e[1], e[2], FALSE, FALSE)
    /\ UNCHANGED <<sent, frames>> /\ Kept

\* `written`: what is left of the bound as the frame is written.
Written == [at |-> now, ms |-> IF cfg.shape = "emit" \/ ends = Never THEN 0 ELSE DeadlineMs(ends - now)]

\* The connection is in hand: the frame is written, unless its bound is over.
Connects ==
    /\ at = "connecting"
    /\ Kept /\ UNCHANGED frames
    /\ IF now >= ends THEN Ended("Timeout", "bound", TRUE, TRUE) /\ UNCHANGED sent
       ELSE /\ sent' = Written
            /\ at' = "sending"
            /\ UNCHANGED <<limit, settled, told, cause, cancels, link>>

\* Nothing reached a server that a `cancel` would stop.
SendSettles == TRUE

\* send_error.
SendErrors ==
    {<<"Unavailable", "no_destination">>, <<"BadRequest", "payload_too_large">>, <<"Internal", "unencodable">>,
     <<"Unavailable", "refused">>}

SendFails ==
    /\ at = "sending"
    /\ \E e \in SendErrors : Ended(e[1], e[2], TRUE, SendSettles)
    /\ sent' = NotSent
    /\ UNCHANGED frames /\ Kept

\* The link took the frame: an event is done, a reply is awaited under the
\* call's limit, a stream is handed to its caller.
Sends ==
    /\ at = "sending"
    /\ Kept /\ UNCHANGED <<sent, frames>>
    /\ CASE cfg.shape = "emit" -> Ended("ok", "sent", FALSE, TRUE)
         [] Streams -> at' = "held" /\ limit' = Never /\ UNCHANGED <<settled, told, cause, cancels, link>>
         [] OTHER -> at' = "reading" /\ UNCHANGED <<limit, settled, told, cause, cancels, link>>

\* A stream polled for its next frame: `bounded` over a new Limit::frame.
Poll ==
    /\ at = "held"
    /\ Kept /\ UNCHANGED <<sent, frames>>
    /\ IF exec THEN Ended("Unavailable", "exec_cancelled", TRUE, FALSE)
       ELSE at' = "reading" /\ limit' = LimitFrame(idle, ends) /\ UNCHANGED <<settled, told, cause, cancels, link>>

\* An item of a stream.
Item ==
    /\ at = "reading" /\ Streams /\ frames < MaxFrames
    /\ at' = "held"
    /\ frames' = frames + 1
    /\ limit' = Never
    /\ UNCHANGED <<sent, settled, told, cause, cancels, link>> /\ Kept

\* Exchange::single and replies: the frames that end a call.
Reply ==
    /\ at = "reading"
    /\ \/ Ended("ok", "res", TRUE, TRUE)
       \/ Streams /\ Ended("ok", "end", TRUE, TRUE)
       \/ Ended("server", "err", TRUE, TRUE)
       \/ Ended("Internal", "unexpected", TRUE, FALSE)
       \/ Ended("Unavailable", "lost", TRUE, FALSE)
    /\ UNCHANGED <<sent, frames>> /\ Kept

\* The limit's timer, or a runtime that has shut down refusing it.
Expire ==
    /\ at \in {"connecting", "sending", "reading"} /\ limit # Never
    /\ \/ now >= limit /\ Ended("Timeout", IF limit = ends THEN "bound" ELSE "idle", at # "connecting", FALSE)
       \/ Ended("Unavailable", "runtime_shut_down", at # "connecting", FALSE)
    /\ UNCHANGED <<sent, frames>> /\ Kept

\* The calling execution is cancelled, and the call's select sees it.
ExecCancels ==
    /\ cfg.within /\ ~exec
    /\ exec' = TRUE
    /\ UNCHANGED <<cfg, now, at, ends, limit, idle, sent, settled, frames, told, cause, cancels, handle, link, awaited, unpolled>>

SeesCancel ==
    /\ exec /\ at \in {"connecting", "sending", "reading"}
    /\ Ended("Unavailable", "exec_cancelled", at # "connecting", FALSE)
    /\ UNCHANGED <<sent, frames>> /\ Kept

\* The caller drops the call or its stream.
DropCall ==
    /\ at \in {"connecting", "sending", "held", "reading"}
    /\ Ended("dropped", "dropped", at # "connecting", FALSE)
    /\ UNCHANGED <<sent, frames>> /\ Kept

\* Spec's client, then Exchange::_client.
CallHolds == at # "ended"

\* The caller's last handle goes: the client's link closes with it unless the
\* call still holds the client. A module's client closes in a hook instead.
DropHandle ==
    /\ handle /\ at # "built"
    /\ handle' = FALSE
    /\ link' = IF cfg.owned /\ ~CallHolds THEN "closing" ELSE link
    /\ UNCHANGED <<cfg, now, at, ends, limit, idle, sent, settled, frames, told, cause, exec, cancels, awaited, unpolled>>

\* The spawned close ends, or its runtime drops it and Unfinished warns.
CloseEnds ==
    /\ link = "closing"
    /\ link' \in {"closed", "warned"}
    /\ UNCHANGED <<cfg, now, at, ends, limit, idle, sent, settled, frames, told, cause, exec, cancels, handle, awaited, unpolled>>

\* The clock, which matters only while the call runs.
Tick ==
    /\ now < MaxNow /\ at \notin {"built", "ended"}
    /\ limit # Never => now < limit + Lag
    /\ now' = now + 1
    /\ unpolled' = IF at = "held" THEN unpolled + 1 ELSE unpolled
    /\ UNCHANGED <<cfg, at, ends, limit, idle, sent, settled, frames, told, cause, exec, cancels, handle, link, awaited>>

CallInit ==
    /\ cfg \in CallConfigs
    /\ now = 0 /\ at = "built" /\ ends = Never /\ limit = Never /\ idle = Never
    /\ sent = NotSent /\ settled = FALSE /\ frames = 0 /\ told = "none" /\ cause = "none"
    /\ exec = FALSE /\ cancels = 0 /\ handle = TRUE /\ link = "open" /\ awaited = 0 /\ unpolled = 0

CallNext ==
    \/ Await \/ ConnectFails \/ Connects \/ SendFails \/ Sends \/ Poll \/ Item \/ Reply
    \/ Expire \/ ExecCancels \/ SeesCancel \/ DropCall \/ DropHandle \/ CloseEnds \/ Tick

CallSpec == CallInit /\ [][CallNext]_callVars

----------------------------------------------------------------------------
\* The server's deadline ends no later than the caller's wait, however long
\* the connect took (`written`, deadline_ms): counted from when its frame was
\* written it is within the call's bound, a remainder under a millisecond
\* aside, which is written as 1; a frame is never written once the bound is
\* over, and an event carries none.
ServerStopsFirst ==
    sent # NotSent =>
      /\ sent.at < ends
      /\ sent.ms # 0 => sent.at + PerMilli * sent.ms <= ends \/ (sent.ms = 1 /\ sent.at + 1 = ends)
      /\ (sent.ms = 0) = (cfg.shape = "emit" \/ ends = Never)

\* What a caller is told is what happened: a refusal of how the call is
\* written, or of what the link carries, left nothing sent; `Timeout` only once
\* a bound it was given is over; and a server that was sent the call and has
\* not answered it is sent one `cancel`, one that answered or never had it none.
ToldTrue ==
    at = "ended" =>
      /\ cause \in {"reserved_header", "zero_timeout", "shape_unsupported", "payload", "exec_deadline"} => sent = NotSent
      /\ told = "Timeout" => \/ cause = "exec_deadline" /\ cfg.execEnds <= now
                             \/ cause = "bound" /\ ends <= now
                             \/ cause = "idle" /\ awaited + idle <= now
      /\ sent # NotSent /\ cfg.shape # "emit" => cancels = IF settled THEN 0 ELSE 1
      /\ sent = NotSent => cancels = 0

\* A client that owns its link closes it once its last handle and its calls
\* are gone, and not while a call is under way (Exchange::_client, ClientInner's
\* Drop): a reply awaited is never cut off by the drop of a handle.
LinkOutlivesCalls ==
    (link # "open") <=> (cfg.owned /\ ~handle /\ at = "ended")
=============================================================================
