------------------------------ MODULE ExecHandle ------------------------------
(***************************************************************************)
(* One execution and the handles to it (ulo/src/execution/mod.rs): what    *)
(* its holder records on it, what clones of its handle cancel, report,     *)
(* register and read from other tasks, and what its end leaves.            *)
(*                                                                         *)
(* A callback of on_stream_end is a model value; Nesting registers Nested  *)
(* as it runs. A panic in a callback is caught and changes nothing here.   *)
(***************************************************************************)
EXTENDS Naturals, Sequences, FiniteSets, SequencesExt

CONSTANTS
    Cancellers,  \* tasks that cancel, each with a reason of its own
    Reporters,   \* tasks that report the reply stream's end, each its outcome
    Callbacks,   \* callbacks registered by tasks
    Nesting,     \* the callback that registers another
    Nested,      \* the one it registers
    RefReaders   \* tasks that read an execution-scoped binding through a handle

VARIABLES
    traced,      \* the app's TraceMode is on
    module,      \* the module a new resolver takes
    trace,       \* what trace() answers: "none" | "inbound" | "first" | "second"
    dispatched,  \* `handler` is set
    ended,       \* Execution::drop began
    released,    \* the cache is released
    cells,       \* the slot's cell: "none" | "building" | "built", "gone" or "orphaned" once released
    reason,      \* cancel_reason
    fired,       \* the cancellation signal
    cancels,     \* where each canceller is: "idle" | "written" | "done"
    heard,       \* what a listener woken by the fire read
    outcome,     \* StreamEnd::outcome
    waiting,     \* StreamEnd::callbacks
    reports,     \* each reporter's callbacks left to run
    reported,    \* reporters that reported
    taken,       \* the callbacks that waited for the report
    registered,  \* callbacks registered, in order
    ran,         \* callbacks run, in order, each with the outcome it got
    reads        \* where each reader is, and what it was answered

holderVars == <<traced, module, trace, dispatched, ended, released>>
cancelVars == <<reason, fired, cancels, heard>>
streamVars == <<outcome, waiting, reports, reported, taken, registered, ran>>
readVars == <<cells, reads>>
execHandleVars == <<holderVars, cancelVars, streamVars, readVars>>

\* Execution::open, with ExecOptions' trace dropped under TraceMode::Off.
OpenExecution ==
    /\ traced \in BOOLEAN
    /\ module = "root" /\ dispatched = FALSE /\ ended = FALSE /\ released = FALSE
    /\ trace \in (IF traced THEN {"none", "inbound"} ELSE {"none"})
    /\ cells = "none" /\ reads = [r \in RefReaders |-> "idle"]
    /\ reason = "none" /\ fired = FALSE /\ cancels = [c \in Cancellers |-> "idle"] /\ heard = "nothing"
    /\ outcome = "none" /\ waiting = <<>> /\ reports = [p \in Reporters |-> <<>>] /\ reported = {} /\ taken = <<>>
    /\ registered = <<>> /\ ran = <<>>

\* route_to: once, and to a module of this app only.
RouteTo(m, ours) ==
    /\ ~ended
    /\ module' = IF ours /\ module = "root" THEN m ELSE module
    /\ UNCHANGED <<traced, trace, dispatched, ended, released, cancelVars, streamVars, readVars>>


\* set_trace: once, and not from dispatch on.
SetTrace(t) ==
    /\ ~ended
    /\ trace' = IF traced /\ ~dispatched /\ trace \notin {"first", "second"} THEN t ELSE trace
    /\ UNCHANGED <<traced, module, dispatched, ended, released, cancelVars, streamVars, readVars>>

Dispatch ==
    /\ ~ended /\ ~dispatched
    /\ dispatched' = TRUE
    /\ UNCHANGED <<traced, module, trace, ended, released, cancelVars, streamVars, readVars>>

\* Drop for Execution: `ended`, then the cache is released.
DropBegins ==
    /\ ~ended /\ ended' = TRUE
    /\ UNCHANGED <<traced, module, trace, dispatched, released, cancelVars, streamVars, readVars>>

\* OnceCells::release: every later read of the map is refused. A build that
\* runs completes for the readers that await its cell.
Release ==
    /\ ended /\ ~released /\ released' = TRUE
    /\ cells' = IF cells = "building" THEN "orphaned" ELSE "gone"
    /\ UNCHANGED <<traced, module, trace, dispatched, ended, cancelVars, streamVars, reads>>

\* cancel_with: the first reason stays; then the fire.
WriteReason(c) ==
    /\ cancels[c] = "idle"
    /\ cancels' = [cancels EXCEPT ![c] = "written"]
    /\ reason' = IF reason = "none" THEN c ELSE reason
    /\ UNCHANGED <<fired, heard, holderVars, streamVars, readVars>>

Fire(c) ==
    /\ cancels[c] = "written"
    /\ cancels' = [cancels EXCEPT ![c] = "done"]
    /\ fired' = TRUE
    /\ UNCHANGED <<reason, heard, holderVars, streamVars, readVars>>

\* A task that awaited cancelled() reads cancel_reason.
Hear ==
    /\ fired /\ heard = "nothing"
    /\ heard' = reason
    /\ UNCHANGED <<reason, fired, cancels, holderVars, streamVars, readVars>>

\* run_stream_end: what one callback adds to the calls made. The one it
\* registers finds the outcome recorded and runs at once.
Runs(c, o) == IF c = Nesting THEN <<<<c, o>>, <<Nested, o>>>> ELSE <<<<c, o>>>>
Registers(c) == IF c = Nesting THEN <<Nested>> ELSE <<>>

\* on_stream_end: run at once when the end was reported, else kept for it.
OnStreamEnd(c) ==
    /\ c \notin ToSet(registered)
    /\ IF outcome # "none"
       THEN /\ ran' = ran \o Runs(c, outcome)
            /\ registered' = registered \o <<c>> \o Registers(c)
            /\ UNCHANGED waiting
       ELSE /\ waiting' = Append(waiting, c)
            /\ registered' = Append(registered, c)
            /\ UNCHANGED ran
    /\ UNCHANGED <<outcome, reports, reported, taken, holderVars, cancelVars, readVars>>

\* report_stream_end: the first outcome is kept and takes the callbacks, under
\* the lock; they run outside it (RunNext).
ReportStreamEnd(p) ==
    /\ p \notin reported
    /\ reported' = reported \cup {p}
    /\ IF outcome = "none"
       THEN outcome' = p /\ reports' = [reports EXCEPT ![p] = waiting] /\ waiting' = <<>> /\ taken' = waiting
       ELSE UNCHANGED <<outcome, reports, waiting, taken>>
    /\ UNCHANGED <<registered, ran, holderVars, cancelVars, readVars>>

RunNext(p) ==
    /\ reports[p] # <<>>
    /\ LET c == Head(reports[p]) IN
       /\ ran' = ran \o Runs(c, outcome)
       /\ registered' = registered \o Registers(c)
    /\ reports' = [reports EXCEPT ![p] = Tail(@)]
    /\ UNCHANGED <<outcome, waiting, reported, taken, holderVars, cancelVars, readVars>>

\* ExecutionRef::get and a resolver taken from the handle: `ended` is read
\* first, the map of cells after it.
ReadStarts(r) ==
    /\ reads[r] = "idle"
    /\ reads' = [reads EXCEPT ![r] = IF ended THEN "refused" ELSE "checked"]
    /\ UNCHANGED <<cells, holderVars, cancelVars, streamVars>>

\* get_or_build: the reader's cell under the map's lock, refused once released.
TakesCell(r) ==
    /\ reads[r] = "checked"
    /\ IF cells \in {"gone", "orphaned"} THEN reads' = [reads EXCEPT ![r] = "refused"] /\ UNCHANGED cells
       ELSE IF cells = "built" THEN reads' = [reads EXCEPT ![r] = "answered"] /\ UNCHANGED cells
       ELSE /\ reads' = [reads EXCEPT ![r] = IF cells = "building" THEN "awaiting" ELSE "building"]
            /\ cells' = "building"
    /\ UNCHANGED <<holderVars, cancelVars, streamVars>>

\* The build ends for its builder and those awaiting it; kept unless released.
BuildEnds(r) ==
    /\ reads[r] = "building"
    /\ reads' = [q \in RefReaders |-> IF reads[q] \in {"building", "awaiting"} THEN "answered" ELSE reads[q]]
    /\ cells' = IF cells = "building" THEN "built" ELSE cells
    /\ UNCHANGED <<holderVars, cancelVars, streamVars>>

\* Execution: what only its holder does.
HolderNext ==
    \/ \E m \in {"m", "n"}, ours \in BOOLEAN : RouteTo(m, ours)
    \/ \E t \in {"first", "second"} : SetTrace(t)
    \/ Dispatch \/ DropBegins \/ Release

CancelNext == Hear \/ \E c \in Cancellers : WriteReason(c) \/ Fire(c)

StreamNext ==
    \/ \E c \in Callbacks : OnStreamEnd(c)
    \/ \E p \in Reporters : ReportStreamEnd(p) \/ RunNext(p)

ReadNext == \E r \in RefReaders : ReadStarts(r) \/ TakesCell(r) \/ BuildEnds(r)

\* ExecutionRef: what any task holding a handle does.
RefNext == CancelNext \/ StreamNext \/ ReadNext

ExecHandleNext == HolderNext \/ RefNext

ExecHandleSpec == OpenExecution /\ [][ExecHandleNext]_execHandleVars

Times(c) == Cardinality({i \in DOMAIN ran : ran[i][1] = c})

\* Every callback runs once, with the one outcome kept, whoever registered it
\* and when: none is lost between the report and a registration that races it,
\* and none told another outcome. Those that waited run in the order they were
\* registered.
StreamEndToldOnce ==
    /\ \A i \in DOMAIN ran : ran[i][2] = outcome /\ outcome # "none"
    /\ \A c \in ToSet(registered) : Times(c) <= 1
    /\ outcome # "none" /\ (\A p \in Reporters : reports[p] = <<>>) => \A c \in ToSet(registered) : Times(c) = 1
    /\ outcome # "none" =>
          taken = SelectSeq([i \in DOMAIN ran |-> ran[i][1]], LAMBDA c : c \in ToSet(taken)) \o reports[outcome]

\* A task woken by the cancellation reads a reason, the first one written, and
\* the reason stays whatever cancels after.
ReasonHeard ==
    /\ fired => reason # "none"
    /\ heard # "nothing" => heard = reason /\ reason # "none"

\* Once the execution has ended and its cache is released nothing is built or
\* kept for it: the only build still going is one a reader had begun before.
EndBuildsNothing ==
    /\ released => cells \in {"gone", "orphaned"}
    /\ released /\ cells = "gone" => \A r \in RefReaders : reads[r] \notin {"building", "awaiting"}

\* From dispatch on the trace context never changes, so no guard or handler
\* sees it change; and the module is switched once.
ContextKept ==
    /\ dispatched => trace' = trace
    /\ module # "root" => module' = module
    /\ trace \in {"first", "second"} => trace' = trace
===============================================================================
