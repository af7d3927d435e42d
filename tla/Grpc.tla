-------------------------------- MODULE Grpc ---------------------------------
(***************************************************************************)
(* gRPC: one call, and the places its connections and server admit.  Each  *)
(* part below has its own constants, variables, Init and Next, and shares  *)
(* no state with the others.                                               *)
(***************************************************************************)
EXTENDS Integers, FiniteSets

-------------------------------------------------------------------------------
(***************************************************************************)
(* One gRPC call through Dispatcher::call (ulo-grpc/src/dispatch.rs): the  *)
(* refusals before any work, the pre-dispatch entries and routing, the     *)
(* handler, the caller's grpc-timeout racing all of it, the error          *)
(* handlers' answer to a passed deadline read under the grace, and the     *)
(* reply body hyper polls: CallBody around a status, a unary reply, a      *)
(* marked stream (LateItems), a buffered reply or a body built elsewhere.  *)
(* Each poll is one step; the clock and the drain fall between polls.      *)
(***************************************************************************)

CONSTANT GrpcRequests    \* [timeout, encoded, to, unscoped, scoped]
CONSTANT MaxGrpcItems    \* messages a stream yields

VARIABLES
    grpcReq,   \* what the caller sent, and the entries declared for its path
    grpcAt,    \* where the call is
    grpcLeft,  \* entries of the sub-step running that have not called on
    raced,     \* the deadline won race: the pipeline is dropped
    grpcCancel,\* the execution's cancel reason, the first written
    grpcTimer, \* the deadline, then the grace: "off", "armed", "passed"
    grpcReply, \* [body, code, marked, settled, stands]
    callBody,  \* CallBody: [ended, expired, deadline, items, waiting, late]
    grpcReport,\* what on_stream_end was told, the first report
    trailers,  \* the code in the trailers, or in the headers of a trailers-only reply
    overdue    \* messages written after the poll that saw the deadline pass

grpcVars == <<grpcReq, grpcAt, grpcLeft, raced, grpcCancel, grpcTimer, grpcReply, callBody, grpcReport, trailers, overdue>>

\* body: "none" (trailers-only), "one" (a unary reply), "stream" (LateItems), "buffered" (read whole
\* by `single`), "raw" (a builtin's, or built by hand). Only encode_stream marks a reply Streamed.
\* stands: the status written in place of a marked stream the error handlers answered with.
GrpcReply(body, code) == [body |-> body, code |-> code, marked |-> FALSE, settled |-> FALSE, stands |-> FALSE]
StatusReply(code) == GrpcReply("none", code)
EncodeOne == GrpcReply("one", "OK")
EncodeStream == [GrpcReply("stream", "OK") EXCEPT !.marked = TRUE, !.settled = grpcCancel = "Deadline"]
HandBuilt == GrpcReply("raw", "OK")

NewBody == [ended |-> FALSE, expired |-> FALSE, deadline |-> FALSE, items |-> 0, waiting |-> FALSE, late |-> "Streaming"]
GrpcUnreported == [end |-> "none", reason |-> "none"]
GrpcCompleted == [end |-> "Completed", reason |-> "none"]
GrpcCutOff(reason) == [end |-> "CutOff", reason |-> reason]

GrpcInit ==
    /\ grpcReq \in GrpcRequests
    /\ grpcAt = "received" /\ grpcLeft = 0 /\ raced = FALSE /\ grpcCancel = "none" /\ grpcTimer = "off"
    /\ grpcReply = StatusReply("none") /\ callBody = NewBody /\ grpcReport = GrpcUnreported
    /\ trailers = "none" /\ overdue = 0

\* The first reason, and the first report, stay.
GrpcCancelled(reason) == grpcCancel' = IF grpcCancel = "none" THEN reason ELSE grpcCancel
GrpcReported(outcome) == grpcReport' = IF grpcReport = GrpcUnreported THEN outcome ELSE grpcReport

GrpcAnswer(r) == grpcAt' = "answered" /\ grpcReply' = r

\* What `recover` answers an entry's failure or a handler's with: a status rendered from the error,
\* or a reply an error handler built.
Handled == {StatusReply("INTERNAL"), EncodeOne, EncodeStream, HandBuilt}

-----------------------------------------------------------------------------
\* grpc_timeout off its grammar, a zero timeout, try_admit over a bound, Execution::open refused.
RefuseCall ==
    /\ grpcAt = "received" /\ grpcAt' = "refused"
    /\ grpcReply' = StatusReply(CASE grpcReq.timeout = "malformed" -> "INTERNAL"
                                  [] grpcReq.timeout = "zero" -> "DEADLINE_EXCEEDED"
                                  [] OTHER -> "UNAVAILABLE")
    /\ trailers' = grpcReply'.code
    /\ UNCHANGED <<grpcReq, grpcLeft, raced, grpcCancel, grpcTimer, callBody, grpcReport, overdue>>

Opened == grpcReq.timeout \in {"none", "set"}

\* The execution opened, the timeout armed, the unscoped sub-step begun.
OpenCall ==
    /\ grpcAt = "received" /\ Opened
    /\ grpcAt' = "unscoped" /\ grpcLeft' = grpcReq.unscoped
    /\ grpcTimer' = IF grpcReq.timeout = "set" THEN "armed" ELSE "off"
    /\ UNCHANGED <<grpcReq, raced, grpcCancel, grpcReply, callBody, grpcReport, trailers, overdue>>

\* An entry calls on, answers in the pipeline's place (an HTTP status as_grpc translates), or fails.
EntryOn ==
    /\ grpcAt \in {"unscoped", "scoped", "unrouted"} /\ grpcLeft > 0 /\ grpcLeft' = grpcLeft - 1
    /\ UNCHANGED <<grpcReq, grpcAt, raced, grpcCancel, grpcTimer, grpcReply, callBody, grpcReport, trailers, overdue>>

EntryStops ==
    /\ grpcAt \in {"unscoped", "scoped", "unrouted"} /\ grpcLeft > 0
    /\ \E r \in Handled \cup {StatusReply("PERMISSION_DENIED")} : GrpcAnswer(r)
    /\ UNCHANGED <<grpcReq, grpcLeft, raced, grpcCancel, grpcTimer, callBody, grpcReport, trailers, overdue>>

\* route: a method's path runs its scoped entries, reflection's and an unknown path the ones whose
\* scope covers it; the health service runs none.
RouteCall ==
    /\ grpcAt = "unscoped" /\ grpcLeft = 0
    /\ CASE grpcReq.to = "method" -> grpcAt' = "scoped" /\ grpcLeft' = grpcReq.scoped /\ UNCHANGED grpcReply
         [] grpcReq.to = "health" -> GrpcAnswer(HandBuilt) /\ UNCHANGED grpcLeft
         [] OTHER -> grpcAt' = "unrouted" /\ grpcLeft' = grpcReq.scoped /\ UNCHANGED grpcReply
    /\ UNCHANGED <<grpcReq, raced, grpcCancel, grpcTimer, callBody, grpcReport, trailers, overdue>>

\* unrouted's end: the reflection service, or UNIMPLEMENTED.
Unrouted ==
    /\ grpcAt = "unrouted" /\ grpcLeft = 0
    /\ GrpcAnswer(IF grpcReq.to = "reflection" THEN HandBuilt ELSE StatusReply("UNIMPLEMENTED"))
    /\ UNCHANGED <<grpcReq, grpcLeft, raced, grpcCancel, grpcTimer, callBody, grpcReport, trailers, overdue>>

\* dispatch: a compressed request is refused before the handler; a guard or the handler may fail.
DispatchCall ==
    /\ grpcAt = "scoped" /\ grpcLeft = 0
    /\ IF grpcReq.encoded THEN GrpcAnswer(StatusReply("UNIMPLEMENTED")) ELSE \E r \in Handled : GrpcAnswer(r)
    /\ UNCHANGED <<grpcReq, grpcLeft, raced, grpcCancel, grpcTimer, callBody, grpcReport, trailers, overdue>>

Piping == grpcAt \in {"unscoped", "scoped", "unrouted"}

\* until_drained: a pipeline still pending when the drain's end cancels the call is dropped.
Abandoned == grpcCancel = "Drain"

\* A poll the pipeline does not answer in: the drain's end first, then race's sleep.
PipelinePending ==
    /\ Piping
    /\ \/ Abandoned /\ GrpcAnswer(StatusReply("UNAVAILABLE")) /\ UNCHANGED <<raced, grpcCancel, grpcTimer>>
       \/ /\ ~Abandoned /\ grpcTimer = "passed"
          /\ GrpcCancelled("Deadline") /\ grpcAt' = "recovering" /\ raced' = TRUE /\ grpcTimer' \in {"armed", "off"} /\ UNCHANGED grpcReply
    /\ UNCHANGED <<grpcReq, grpcLeft, callBody, grpcReport, trailers, overdue>>

-----------------------------------------------------------------------------
\* expired: the error handlers answer, within the grace where there is one (grpcTimer is "off" at
\* Bound::Unbounded); a reply with a body is read before it is written.
RecoverCall ==
    /\ grpcAt = "recovering"
    /\ \E r \in Handled : IF r.body = "none" THEN GrpcAnswer(r) ELSE grpcAt' = "reading" /\ grpcReply' = r
    /\ UNCHANGED <<grpcReq, grpcLeft, raced, grpcCancel, grpcTimer, callBody, grpcReport, trailers, overdue>>

\* A stream replaced by the status was the reply, and reports the deadline.
ReplacedByStatus ==
    /\ GrpcAnswer([StatusReply("DEADLINE_EXCEEDED") EXCEPT !.stands = grpcAt = "reading" /\ grpcReply.marked])
    /\ IF grpcAt = "reading" /\ grpcReply.marked THEN GrpcReported(GrpcCutOff(grpcCancel)) ELSE UNCHANGED grpcReport

GrpcGraceEnds ==
    /\ grpcAt \in {"recovering", "reading"} /\ grpcTimer = "passed" /\ ReplacedByStatus
    /\ UNCHANGED <<grpcReq, grpcLeft, raced, grpcCancel, grpcTimer, callBody, trailers, overdue>>

\* single: a byte past the first message, or a body that fails while it is read.
NotSingle ==
    /\ grpcAt = "reading" /\ grpcReply.body # "one" /\ ReplacedByStatus
    /\ UNCHANGED <<grpcReq, grpcLeft, raced, grpcCancel, grpcTimer, callBody, trailers, overdue>>

\* The body read whole, with the trailers it ended with; a body built by hand may have had none.
ReadSingle ==
    /\ grpcAt = "reading"
    /\ \E code \in {"OK", "INTERNAL", "none"} :
        /\ grpcReply.body = "one" => code = "OK"
        /\ grpcReply.body = "stream" => code # "none"
        /\ GrpcAnswer([grpcReply EXCEPT !.body = "buffered", !.code = code])
    /\ UNCHANGED <<grpcReq, grpcLeft, raced, grpcCancel, grpcTimer, callBody, grpcReport, trailers, overdue>>

-----------------------------------------------------------------------------
\* The answer as the response: CallBody takes the sleep race left pending.
WriteCall ==
    /\ grpcAt = "answered" /\ grpcAt' = "written"
    /\ callBody' = [NewBody EXCEPT !.ended = grpcReply.body = "none",
                                   !.deadline = grpcReq.timeout = "set" /\ ~raced]
    /\ trailers' = IF grpcReply.body = "none" THEN grpcReply.code ELSE "none"
    /\ UNCHANGED <<grpcReq, grpcLeft, raced, grpcCancel, grpcTimer, grpcReply, grpcReport, overdue>>

\* The caller resets its stream before the call answers: CancelOnDrop.
CallDropped ==
    /\ Piping \/ grpcAt \in {"recovering", "reading"}
    /\ GrpcCancelled("ClientCancelled") /\ grpcAt' = "over" /\ grpcReply' = StatusReply("none")
    /\ UNCHANGED <<grpcReq, grpcLeft, raced, grpcTimer, callBody, grpcReport, trailers, overdue>>

Ended(code) == [yields |-> "trailers", code |-> code]
Yields(what) == [yields |-> what, code |-> "none"]

\* LateItems::ending.
Ending(cancel) == CASE cancel = "Drain" -> "UNAVAILABLE" [] cancel = "Deadline" -> "DEADLINE_EXCEEDED" [] OTHER -> "none"

\* A wait that begins once the call is cancelled takes no further item.
CutAtItem(cancel) ==
    callBody.late = "Streaming" /\ ~grpcReply.settled /\ ~callBody.waiting /\ Ending(cancel) # "none"

\* LateItems::poll_next under EncodeBody: an item, its end, an error its handlers render or end the
\* stream for, a wait the cancellation may end, a panic. An Err item's handlers may keep it waiting.
StreamPolls(cancel) ==
    IF CutAtItem(cancel) THEN {Ended(Ending(cancel))}
    ELSE (IF callBody.late = "Recovering" THEN {Yields("pending")}
          ELSE {Yields("recovering")}
               \cup (IF callBody.items < MaxGrpcItems THEN {Yields("data")} ELSE {})
               \cup {IF ~grpcReply.settled /\ Ending(cancel) # "none" THEN Ended(Ending(cancel)) ELSE Yields("pending")})
         \cup {Ended("OK"), Ended("INTERNAL"), Yields("panic")}

InnerPolls(cancel) ==
    CASE grpcReply.body = "stream" -> StreamPolls(cancel)
      [] grpcReply.body = "one" -> {IF callBody.items = 0 THEN Yields("data") ELSE Ended("OK")}
      [] grpcReply.body = "buffered" ->
            IF callBody.items = 0 THEN {Yields("data")} ELSE {IF grpcReply.code = "none" THEN Yields("end") ELSE Ended(grpcReply.code)}
      [] OTHER -> {Yields("pending"), Yields("end"), Yields("panic"), Ended("OK"), Ended("INTERNAL")}
                  \cup (IF callBody.items < MaxGrpcItems THEN {Yields("data")} ELSE {})

\* report, and end_with.
EndedAs(code) ==
    /\ callBody' = [callBody EXCEPT !.ended = TRUE, !.deadline = FALSE]
    /\ trailers' = code /\ UNCHANGED <<overdue, grpcReply>>
    /\ IF grpcReply.marked
       THEN GrpcReported(IF code = "OK" THEN GrpcCompleted ELSE GrpcCutOff(grpcCancel'))
       ELSE UNCHANGED grpcReport

\* A marked stream is cut at the poll after the one the deadline passed in.
PollExpired ==
    /\ grpcAt = "written" /\ ~callBody.ended /\ callBody.expired /\ grpcReply.marked
    /\ UNCHANGED grpcCancel /\ EndedAs("DEADLINE_EXCEEDED")
    /\ UNCHANGED <<grpcReq, grpcAt, grpcLeft, raced, grpcTimer>>

\* What a poll that is not the last leaves: the next one ends the body.
ExpiresNext(passed) == callBody.expired \/ passed

\* poll_frame: the deadline observed before the body is polled and acted on after it.
PollCall ==
    /\ grpcAt = "written" /\ ~callBody.ended /\ ~(callBody.expired /\ grpcReply.marked)
    /\ LET passed == callBody.deadline /\ grpcTimer = "passed"
           cancel == IF passed /\ grpcCancel = "none" THEN "Deadline" ELSE grpcCancel IN
       /\ grpcCancel' = cancel
       /\ \E polled \in InnerPolls(cancel) :
            CASE polled.yields = "trailers" -> EndedAs(polled.code)
              [] polled.yields = "end" -> EndedAs("none")
              [] polled.yields = "panic" ->
                    /\ callBody' = [callBody EXCEPT !.ended = TRUE, !.deadline = FALSE] /\ trailers' = "INTERNAL"
                    /\ GrpcReported(GrpcCutOff(cancel)) /\ UNCHANGED <<overdue, grpcReply>>
              [] callBody.expired \/ (passed /\ polled.yields # "data") -> EndedAs("DEADLINE_EXCEEDED")
              [] polled.yields = "data" ->
                    /\ callBody' = [callBody EXCEPT !.items = @ + 1, !.waiting = FALSE, !.expired = ExpiresNext(passed),
                                                    !.deadline = @ /\ ~passed]
                    /\ overdue' = overdue + (IF grpcCancel = "Deadline" /\ ~grpcReply.settled /\ grpcReply.body # "buffered" THEN 1 ELSE 0)
                    /\ UNCHANGED <<grpcReport, trailers, grpcReply>>
              [] OTHER ->
                    /\ callBody' = [callBody EXCEPT !.waiting = TRUE,
                                                    !.late = IF polled.yields = "recovering" THEN "Recovering" ELSE @]
                    /\ grpcReply' = [grpcReply EXCEPT !.settled = @ \/ (grpcReply.body = "stream" /\ callBody.late = "Streaming" /\ polled.yields = "pending" /\ cancel # "none")]
                    /\ UNCHANGED <<grpcReport, trailers, overdue>>
    /\ UNCHANGED <<grpcReq, grpcAt, grpcLeft, raced, grpcTimer>>

\* Drop for CallBody, the execution and the permit released with it.
CallBodyDropped ==
    /\ grpcAt = "written" /\ grpcAt' = "over"
    /\ IF callBody.ended THEN UNCHANGED grpcCancel ELSE GrpcCancelled("ClientCancelled")
    /\ IF grpcReply.marked THEN GrpcReported(GrpcCutOff(grpcCancel')) ELSE UNCHANGED grpcReport
    /\ UNCHANGED <<grpcReq, grpcLeft, raced, grpcTimer, grpcReply, callBody, trailers, overdue>>

-----------------------------------------------------------------------------
\* The app's clock, and the drain's end or the handler's own cancel.
GrpcTimerPasses ==
    /\ grpcTimer = "armed" /\ grpcAt # "over" /\ grpcTimer' = "passed"
    /\ UNCHANGED <<grpcReq, grpcAt, grpcLeft, raced, grpcCancel, grpcReply, callBody, grpcReport, trailers, overdue>>

ExecutionCancelled ==
    /\ grpcCancel = "none" /\ grpcAt \notin {"received", "refused", "over"} /\ grpcCancel' \in {"Drain", "Explicit"}
    /\ UNCHANGED <<grpcReq, grpcAt, grpcLeft, raced, grpcTimer, grpcReply, callBody, grpcReport, trailers, overdue>>

GrpcPipeline == RefuseCall \/ OpenCall \/ EntryOn \/ EntryStops \/ RouteCall \/ Unrouted \/ DispatchCall \/ PipelinePending
GrpcAnswering == RecoverCall \/ GrpcGraceEnds \/ NotSingle \/ ReadSingle \/ WriteCall \/ CallDropped
GrpcBody == PollExpired \/ PollCall \/ CallBodyDropped
EndedBodyDropped == callBody.ended /\ CallBodyDropped
GrpcNext == GrpcPipeline \/ GrpcAnswering \/ GrpcBody \/ GrpcTimerPasses \/ ExecutionCancelled

\* The drain's end and a passed sleep wake the call; hyper polls the body it writes and drops it
\* once it has ended; the clock runs.
GrpcFairness ==
    /\ WF_grpcVars(PipelinePending) /\ WF_grpcVars(GrpcGraceEnds) /\ WF_grpcVars(WriteCall)
    /\ WF_grpcVars(PollExpired) /\ WF_grpcVars(PollCall) /\ WF_grpcVars(EndedBodyDropped)
    /\ WF_grpcVars(GrpcTimerPasses)
GrpcSpec == GrpcInit /\ [][GrpcNext]_grpcVars /\ GrpcFairness

-----------------------------------------------------------------------------
\* CallBody's and Dispatcher::expired's reports: a marked stream that was the reply is reported once
\* it is over, Completed exactly when the trailers it ended with carry OK, cut off otherwise with
\* the reason its end gave the client: UNAVAILABLE from the drain, DEADLINE_EXCEEDED from the
\* deadline, a reset from the client. A stream replaced by the status of a passed deadline is too.
GrpcStreamEndTold ==
    /\ grpcAt = "over" /\ grpcReply.stands => grpcReport.end = "CutOff"
    /\ grpcAt = "over" /\ grpcReply.marked =>
        /\ grpcReport # GrpcUnreported
        /\ grpcReport = GrpcCompleted <=> trailers = "OK"
        /\ trailers = "UNAVAILABLE" => grpcReport.reason = "Drain"
        /\ trailers = "DEADLINE_EXCEEDED" => grpcReport.reason \in {"Deadline", "Drain", "Explicit"}
        /\ ~callBody.ended => grpcReport.reason # "none"

\* The deadline ends what it finds running: once the poll it passes in is over no further message
\* is written, while a unary reply whose message is out still ends with its own status.
DeadlineStopsReply ==
    /\ overdue = 0
    /\ grpcAt \in {"written", "over"} /\ callBody.ended /\ grpcReply.body = "one" => trailers = "OK"

\* A deadline is armed; it ended the call or the error handlers wait unbounded.
DeadlineArmed == grpcTimer = "armed" /\ Piping
DeadlineMet == grpcAt = "over" \/ (grpcAt \in {"recovering", "reading"} /\ grpcTimer = "off")
\* The drain ended with the call unanswered.
DrainedUnanswered == grpcCancel = "Drain" /\ grpcReq.timeout = "none" /\ Piping
\* The drain ended with a marked stream going out; it is over or waits for an item's error handlers.
DrainedStream == grpcCancel = "Drain" /\ grpcAt = "written" /\ grpcReply.marked
StreamOver == grpcAt = "over" \/ callBody.late = "Recovering"

-------------------------------------------------------------------------------
(***************************************************************************)
(* Load shedding (ulo-transport/src/admission.rs): a call takes a place in *)
(* its connection's counter and then one in the server's, or is refused at *)
(* once. Each semaphore is acquired in one atomic step, and calls of one   *)
(* or of several connections try at once.                                  *)
(***************************************************************************)

CONSTANTS AdmitCalls,    \* the calls
          AdmitOn        \* AdmitOn[c]: the connection a call arrives on
CONSTANT ServerLimits, ConnectionLimits   \* the bounds configured; 0 is none

VARIABLES
    serverLimit, connLimit,
    tries,      \* tries[c]: "new", "connected" (a place in its connection's counter), "admitted", "shed", "done"
    serverUsed, \* places taken in the server's semaphore
    connUsed    \* connUsed[k]: in connection k's

admitVars == <<serverLimit, connLimit, tries, serverUsed, connUsed>>

AdmitInit ==
    /\ serverLimit \in ServerLimits /\ connLimit \in ConnectionLimits
    /\ tries = [c \in AdmitCalls |-> "new"]
    /\ serverUsed = 0 /\ connUsed = [k \in {AdmitOn[c] : c \in AdmitCalls} |-> 0]

\* try_acquire_arc of the connection's counter.
TryConnection(c) ==
    /\ tries[c] = "new"
    /\ IF connLimit # 0 /\ connUsed[AdmitOn[c]] = connLimit
       THEN tries' = [tries EXCEPT ![c] = "shed"] /\ UNCHANGED connUsed
       ELSE /\ tries' = [tries EXCEPT ![c] = "connected"]
            /\ connUsed' = IF connLimit = 0 THEN connUsed ELSE [connUsed EXCEPT ![AdmitOn[c]] = @ + 1]
    /\ UNCHANGED <<serverLimit, connLimit, serverUsed>>

\* A call the server refuses drops the place it took.
RefusedFrees(c) == connUsed' = IF connLimit = 0 THEN connUsed ELSE [connUsed EXCEPT ![AdmitOn[c]] = @ - 1]

\* Admission::try_admit.
TryServer(c) ==
    /\ tries[c] = "connected"
    /\ IF serverLimit # 0 /\ serverUsed = serverLimit
       THEN tries' = [tries EXCEPT ![c] = "shed"] /\ RefusedFrees(c) /\ UNCHANGED serverUsed
       ELSE /\ tries' = [tries EXCEPT ![c] = "admitted"] /\ UNCHANGED connUsed
            /\ serverUsed' = IF serverLimit = 0 THEN serverUsed ELSE serverUsed + 1
    /\ UNCHANGED <<serverLimit, connLimit>>

\* The Permit dropped: at the call's end, or with its reply's body.
PermitDropped(c) ==
    /\ tries[c] = "admitted" /\ tries' = [tries EXCEPT ![c] = "done"]
    /\ RefusedFrees(c)
    /\ serverUsed' = IF serverLimit = 0 THEN serverUsed ELSE serverUsed - 1
    /\ UNCHANGED <<serverLimit, connLimit>>

AdmitNext == \E c \in AdmitCalls : TryConnection(c) \/ TryServer(c) \/ PermitDropped(c)
AdmitSpec == AdmitInit /\ [][AdmitNext]_admitVars

-----------------------------------------------------------------------------
\* The counters hold exactly the calls admitted or between their two tries, so no more run than
\* either bound allows, and a place is never lost to a call that was refused: with every call over
\* both are empty, and the next is admitted.
AdmissionExact ==
    LET On(k, states) == {c \in AdmitCalls : AdmitOn[c] = k /\ tries[c] \in states} IN
    /\ serverLimit # 0 => /\ serverUsed = Cardinality({c \in AdmitCalls : tries[c] = "admitted"})
                          /\ serverUsed <= serverLimit
    /\ connLimit # 0 => \A k \in DOMAIN connUsed :
            /\ connUsed[k] = Cardinality(On(k, {"connected", "admitted"}))
            /\ connUsed[k] <= connLimit
===============================================================================
