-------------------------------- MODULE Calls --------------------------------
(***************************************************************************)
(* One call: its pipeline, the reads through its execution, and its tasks. *)
(* Each part below has its own constants, variables, Init and Next, and    *)
(* shares no state with the others.                                        *)
(***************************************************************************)
EXTENDS Naturals, Sequences, FiniteSets, SequencesExt

-------------------------------------------------------------------------------
(***************************************************************************)
(* The dispatch pipeline of one call (ulo/src/transport/pipeline.rs,       *)
(* next.rs): guards, then the interceptors built, then the controller,     *)
(* then the handler inside the interceptors, and the error handlers over   *)
(* whatever failed. What each enhancer answers is open: it may not build,  *)
(* refuse, fail or panic. An error is named by who raised it.              *)
(***************************************************************************)

CONSTANTS
    Stacks         \* [guards, interceptors, handlers : Nat, builds : BOOLEAN]: the enhancers of all three tiers
                   \* in the order they run, and whether the transport's controllers are built ahead

VARIABLES
    enhancers,     \* the call's enhancer stack
    pstage,        \* "idle", "guards", "build", "controller", "in", "out", "claim", "answered", "late"
    pat,           \* the next enhancer of the stage
    raised,        \* the error in flight, <<>> for none
    admitted,      \* guards that admitted
    entered,       \* interceptors that ran, in order
    handled,       \* the handler ran
    controllerBuilt,
    offered,       \* the error handlers offered an error: <<handler, the error>>
    reply          \* "none", "handler", "interceptor", "errorHandler", or "err" for the error returned

pipelineVars == <<enhancers, pstage, pat, raised, admitted, entered, handled, controllerBuilt, offered, reply>>

PipelineStart(first) ==
    /\ pat = 1 /\ raised = <<>> /\ admitted = {} /\ entered = <<>> /\ handled = FALSE /\ controllerBuilt = FALSE
    /\ offered = <<>> /\ reply = "none" /\ pstage = first

\* dispatch; recover for an error raised outside one.
PipelineInit == enhancers \in Stacks /\ PipelineStart("guards")

Raise(who, how) ==
    /\ raised' = <<who, how>> /\ pstage' = "claim" /\ pat' = 1
    /\ UNCHANGED <<enhancers, admitted, entered, handled, controllerBuilt, offered, reply>>

\* mutant: the guards after a refusal are asked too
AdmitOn ==
    /\ pstage = "guards" /\ pat <= enhancers.guards
    /\ \/ admitted' = admitted \cup {pat} /\ UNCHANGED raised
       \/ \E how \in {"unbuilt", "rejected", "errored", "panicked"} : raised' = <<"guard", how>> /\ UNCHANGED admitted
    /\ pat' = pat + 1
    /\ UNCHANGED <<enhancers, pstage, entered, handled, controllerBuilt, offered, reply>>

\* admit, check: each guard built once the one before it admitted.
Admit ==
    /\ pstage = "guards" /\ pat <= enhancers.guards
    /\ \/ /\ admitted' = admitted \cup {pat} /\ pat' = pat + 1
          /\ UNCHANGED <<enhancers, pstage, raised, entered, handled, controllerBuilt, offered, reply>>
       \/ \E how \in {"unbuilt", "rejected", "errored", "panicked"} : Raise("guard", how)

\* build_interceptors: all of them before the controller.
BuildInterceptors ==
    /\ pstage = "guards" /\ pat > enhancers.guards
    /\ \/ /\ pstage' = "controller" /\ pat' = 1
          /\ UNCHANGED <<enhancers, raised, admitted, entered, handled, controllerBuilt, offered, reply>>
       \/ enhancers.interceptors > 0 /\ Raise("interceptor", "unbuilt")

\* build_controller: its failure never passes through the interceptors.
BuildController ==
    /\ pstage = "controller"
    /\ \/ /\ controllerBuilt' = enhancers.builds /\ pstage' = "in"
          /\ UNCHANGED <<enhancers, pat, raised, admitted, entered, handled, offered, reply>>
       \/ enhancers.builds /\ Raise("controller", "unbuilt")

\* Next::run: the next interceptor, which calls on, or answers itself.
Intercept ==
    /\ pstage = "in" /\ pat <= enhancers.interceptors
    /\ entered' = Append(entered, pat)
    /\ \/ pat' = pat + 1 /\ UNCHANGED <<pstage, raised, reply>>
       \/ pat' = pat - 1 /\ pstage' = "out" /\ reply' = "interceptor" /\ UNCHANGED raised
       \/ \E how \in {"errored", "panicked"} : pat' = pat - 1 /\ pstage' = "out" /\ raised' = <<"interceptor", how>> /\ UNCHANGED reply
    /\ UNCHANGED <<enhancers, admitted, handled, controllerBuilt, offered>>

RunHandler ==
    /\ pstage = "in" /\ pat > enhancers.interceptors
    /\ handled' = TRUE /\ pat' = pat - 1 /\ pstage' = "out"
    /\ \/ reply' = "handler" /\ UNCHANGED raised
       \/ \E how \in {"errored", "panicked"} : raised' = <<"handler", how>> /\ UNCHANGED reply
    /\ UNCHANGED <<enhancers, admitted, entered, controllerBuilt, offered>>

\* An interceptor gets back what it called on: it answers with it, over it, or fails.
Return ==
    /\ pstage = "out" /\ pat >= 1
    /\ pat' = pat - 1
    /\ \/ UNCHANGED <<raised, reply>>
       \/ raised' = <<>> /\ reply' = "interceptor"
       \/ \E how \in {"errored", "panicked"} : raised' = <<"interceptor", how>> /\ reply' = "none"
    /\ UNCHANGED <<enhancers, pstage, admitted, entered, handled, controllerBuilt, offered>>

ChainOver ==
    /\ pstage = "out" /\ pat = 0
    /\ pstage' = IF raised = <<>> THEN "answered" ELSE "claim"
    /\ pat' = 1
    /\ UNCHANGED <<enhancers, raised, admitted, entered, handled, controllerBuilt, offered, reply>>

\* claim: the last declared of the innermost tier first, each handed the error of the one
\* before it; a handler that cannot be built or panics hands on its own.
Claim ==
    /\ pstage = "claim" /\ pat <= enhancers.handlers
    /\ offered' = Append(offered, <<pat, raised>>)
    /\ \/ reply' = "errorHandler" /\ pstage' = "answered" /\ UNCHANGED <<pat, raised>>
       \/ \E how \in {"errored", "panicked", "unbuilt"} :
            raised' = <<"errorHandler", how>> /\ pat' = pat + 1 /\ UNCHANGED <<pstage, reply>>
    /\ UNCHANGED <<enhancers, admitted, entered, handled, controllerBuilt>>

ClaimOver ==
    /\ pstage = "claim" /\ pat > enhancers.handlers
    /\ pstage' = "answered" /\ reply' = "err"
    /\ UNCHANGED <<enhancers, pat, raised, admitted, entered, handled, controllerBuilt, offered>>

\* dispatch_late: the reply streams, and an item of it is an error.
StreamErrs ==
    /\ pstage = "answered" /\ reply = "handler" /\ offered = <<>>
    /\ raised' = <<"stream", "errored">> /\ pstage' = "claim" /\ pat' = 1 /\ reply' = "none"
    /\ UNCHANGED <<enhancers, admitted, entered, handled, controllerBuilt, offered>>

PipelineNext ==
    Admit \/ BuildInterceptors \/ BuildController \/ Intercept \/ RunHandler \/ Return \/ ChainOver \/ Claim \/ ClaimOver \/ StreamErrs

PipelineSpec == PipelineInit /\ [][PipelineNext]_pipelineVars

(***************************************************************************)
(* Properties.                                                             *)
(***************************************************************************)
\* The handler, and any interceptor, runs only for a call every guard admitted, with
\* its controller built before them; a guard after a refusal is never asked.
AdmittedBeforeRun ==
    /\ (handled \/ entered # <<>>) => admitted = 1..enhancers.guards /\ controllerBuilt = enhancers.builds
    /\ admitted = 1..Cardinality(admitted)
    /\ raised # <<>> /\ raised[1] = "guard" => admitted # 1..enhancers.guards
    /\ entered = [i \in 1..Len(entered) |-> i]

\* An error answered unclaimed went to every error handler, each handed what the one
\* before it raised, a panic as its own error; one claimed is answered by the claimer.
ErrorsOffered ==
    /\ \A i \in 2..Len(offered) : offered[i][1] = i /\ offered[i][2][1] = "errorHandler"
    /\ pstage = "answered" => (reply = "err" => Len(offered) = enhancers.handlers)
    /\ reply = "err" /\ offered # <<>> => raised[1] = "errorHandler"
    /\ reply = "errorHandler" => offered # <<>>

-------------------------------------------------------------------------------
(***************************************************************************)
(* What a read inside an execution answers (ulo/src/app/shared.rs          *)
(* `obtain`, execution/cache.rs `OnceCells`, `Drop for Execution`): the    *)
(* handler and the subtasks it started read execution-scoped bindings,     *)
(* each built once in the execution's cache by its first reader, while the *)
(* holder may end the execution under them. A read is a path: the binding  *)
(* read and, while it builds, the bindings its constructor reads.          *)
(***************************************************************************)

CONSTANTS
    Readers,       \* the tasks reading through the execution
    Slots,         \* the execution-scoped bindings
    NeedsOf,       \* what each binding's constructor reads: a sequence of slots
    MaxReads       \* reads one task makes

VARIABLES
    path,          \* the reads each task is inside of, innermost last
    got,           \* how many of its constructor's reads each build on the path has made
    looked,        \* whether the innermost read found the execution open
    began,         \* whether the outermost read began after the end
    cells,         \* the cells of the cache: "empty", "building", "built"
    held,          \* the slots whose cell each task holds
    released,      \* the cache was released
    execEnded,     \* the execution has ended
    instances,     \* successful builds of each slot
    lateBuilds,    \* builds that started for a read begun after the end
    readsMade,     \* reads begun by each task
    answers        \* what each task was answered last: "none", "instance", "ended", "failed"

resolveVars == <<path, got, looked, began, cells, held, released, execEnded, instances, lateBuilds, readsMade, answers>>

ResolutionInit ==
    /\ path = [r \in Readers |-> <<>>] /\ got = [r \in Readers |-> <<>>] /\ looked = [r \in Readers |-> FALSE] /\ began = [r \in Readers |-> "before"]
    /\ cells = [s \in Slots |-> "empty"] /\ held = [r \in Readers |-> {}]
    /\ released = FALSE /\ execEnded = FALSE
    /\ instances = [s \in Slots |-> 0] /\ lateBuilds = 0
    /\ readsMade = [r \in Readers |-> 0] /\ answers = [r \in Readers |-> "none"]

Wanted(r) == Last(path[r])
Builds(r) == {path[r][i] : i \in {j \in 1..Len(path[r]) : got[r][j] > 0}}

\* The read at the end of the path answers: a dependency's failure is its reader's, so a
\* refusal ends the whole path, and every cell it was building is empty again.
Refuse(r, why) ==
    /\ path' = [path EXCEPT ![r] = <<>>] /\ got' = [got EXCEPT ![r] = <<>>]
    /\ cells' = [s \in Slots |-> IF s \in Builds(r) /\ cells[s] = "building" THEN "empty" ELSE cells[s]]
    /\ held' = [held EXCEPT ![r] = {}]
    /\ answers' = [answers EXCEPT ![r] = why]
    /\ UNCHANGED <<looked, began, released, execEnded, instances, lateBuilds, readsMade>>

Served(r) ==
    /\ held' = [held EXCEPT ![r] = @ \ {Wanted(r)}]
    /\ IF Len(path[r]) = 1
         THEN /\ path' = [path EXCEPT ![r] = <<>>] /\ got' = [got EXCEPT ![r] = <<>>]
              /\ answers' = [answers EXCEPT ![r] = "instance"]
         ELSE LET up == Len(path[r]) - 1
              IN /\ path' = [path EXCEPT ![r] = Front(@)]
                 /\ got' = [got EXCEPT ![r] = [Front(@) EXCEPT ![up] = @ + 1]]
                 /\ UNCHANGED answers

\* Execution::get, ExecutionRef::get
BeginRead(r, s) ==
    /\ path[r] = <<>> /\ readsMade[r] < MaxReads
    /\ readsMade' = [readsMade EXCEPT ![r] = @ + 1]
    /\ began' = [began EXCEPT ![r] = IF execEnded THEN "after" ELSE "before"]
    /\ path' = [path EXCEPT ![r] = <<s>>] /\ got' = [got EXCEPT ![r] = <<0>>]
    /\ looked' = [looked EXCEPT ![r] = FALSE]
    /\ answers' = [answers EXCEPT ![r] = "none"]
    /\ UNCHANGED <<cells, held, released, execEnded, instances, lateBuilds>>

\* obtain: through an ended execution nothing is built.
LookEnded(r) ==
    /\ path[r] # <<>> /\ Wanted(r) \notin held[r] /\ ~looked[r]
    /\ IF execEnded THEN Refuse(r, "ended")
       ELSE /\ looked' = [looked EXCEPT ![r] = TRUE]
            /\ UNCHANGED <<path, got, began, cells, held, released, execEnded, instances, lateBuilds, readsMade, answers>>


\* get_or_build: the cell under the map's lock, refused once released. The execution may have
\* ended since `obtain` looked.
TakeCell(r) ==
    /\ path[r] # <<>> /\ Wanted(r) \notin held[r] /\ looked[r] /\ ~released
    /\ held' = [held EXCEPT ![r] = @ \cup {Wanted(r)}]
    /\ UNCHANGED <<path, got, looked, began, cells, released, execEnded, instances, lateBuilds, readsMade, answers>>
CellsReleased(r) == path[r] # <<>> /\ Wanted(r) \notin held[r] /\ looked[r] /\ released /\ Refuse(r, "ended")

\* get_or_try_init: one task builds and the others of the cell wait.
StartBuild(r) ==
    /\ path[r] # <<>> /\ Wanted(r) \in held[r] /\ got[r][Len(path[r])] = 0 /\ cells[Wanted(r)] = "empty"
    /\ cells' = [cells EXCEPT ![Wanted(r)] = "building"]
    /\ got' = [got EXCEPT ![r] = [@ EXCEPT ![Len(path[r])] = 1]]
    /\ lateBuilds' = lateBuilds + (IF began[r] = "after" THEN 1 ELSE 0)
    /\ UNCHANGED <<path, looked, began, held, released, execEnded, instances, readsMade, answers>>

ReadBuilt(r) ==
    /\ path[r] # <<>> /\ Wanted(r) \in held[r] /\ got[r][Len(path[r])] = 0 /\ cells[Wanted(r)] = "built"
    /\ Served(r)
    /\ UNCHANGED <<looked, began, cells, released, execEnded, instances, lateBuilds, readsMade>>

\* The constructor running reads the next of what it needs.
ReadNeed(r) ==
    /\ path[r] # <<>> /\ got[r][Len(path[r])] \in 1..Len(NeedsOf[Wanted(r)])
    /\ path' = [path EXCEPT ![r] = Append(@, NeedsOf[Wanted(r)][got[r][Len(path[r])]])]
    /\ got' = [got EXCEPT ![r] = Append(@, 0)]
    /\ looked' = [looked EXCEPT ![r] = FALSE]
    /\ UNCHANGED <<began, cells, held, released, execEnded, instances, lateBuilds, readsMade, answers>>

\* build: the constructor answered, failed, panicked or passed its bound.
BuildAnswers(r) ==
    /\ path[r] # <<>> /\ got[r][Len(path[r])] = Len(NeedsOf[Wanted(r)]) + 1
    /\ cells' = [cells EXCEPT ![Wanted(r)] = "built"]
    /\ instances' = [instances EXCEPT ![Wanted(r)] = @ + 1]
    /\ Served(r)
    /\ UNCHANGED <<looked, began, released, execEnded, lateBuilds, readsMade>>
BuildErrs(r) == path[r] # <<>> /\ got[r][Len(path[r])] = Len(NeedsOf[Wanted(r)]) + 1 /\ Refuse(r, "failed")

\* A task dropped at an await of its read leaves the cells it was building empty.
ReaderDropped(r) == path[r] # <<>> /\ Refuse(r, "none")

\* Drop for Execution: marked ended, then the cache released.
EndExecution ==
    /\ ~execEnded /\ execEnded' = TRUE
    /\ UNCHANGED <<path, got, looked, began, cells, held, released, instances, lateBuilds, readsMade, answers>>
ReleaseCells ==
    /\ execEnded /\ ~released /\ released' = TRUE
    /\ UNCHANGED <<path, got, looked, began, cells, held, execEnded, instances, lateBuilds, readsMade, answers>>

ReadSteps(r) ==
    \/ LookEnded(r) \/ TakeCell(r) \/ CellsReleased(r) \/ StartBuild(r) \/ ReadBuilt(r) \/ ReadNeed(r) \/ BuildAnswers(r) \/ BuildErrs(r)
ResolutionNext ==
    \/ EndExecution \/ ReleaseCells
    \/ \E r \in Readers : ReadSteps(r) \/ ReaderDropped(r) \/ \E s \in Slots : BeginRead(r, s)

ResolutionFairness == \A r \in Readers : WF_resolveVars(ReadSteps(r))
ResolutionSpec == ResolutionInit /\ [][ResolutionNext]_resolveVars /\ ResolutionFairness

(***************************************************************************)
(* Properties.                                                             *)
(***************************************************************************)
\* Two tasks reading one binding share the instance one of them built, whoever's build
\* failed or was dropped before; and a read begun after the execution ended builds
\* nothing.
OneInstance ==
    /\ \A s \in Slots : instances[s] <= 1 /\ (instances[s] = 1 <=> cells[s] = "built")
    /\ \A s \in Slots : Cardinality({r \in Readers : s \in Builds(r)}) <= 1
    /\ lateBuilds = 0

\* A read is under way.
ReadBegun(r) == path[r] # <<>>

-------------------------------------------------------------------------------
(***************************************************************************)
(* A spawned task, the runtime's handle to it and the core's handle over   *)
(* that (ulo/src/runtime.rs, `TaskSet` of ulo-transport, and the two run-  *)
(* times, ulo-runtime-tokio and ulo-runtime-smol). A worker thread polls   *)
(* the task's future while its owner aborts, waits for or drops its        *)
(* handle; a runtime that shuts down drops what it has not finished.       *)
(***************************************************************************)

CONSTANTS
    TaskIds,       \* the tasks of one owner
    MaxAborts      \* times the owner aborts a task

VARIABLES
    adapter,       \* the runtime: "tokio" or "smol"
    owner,         \* "handles": dropping one detaches its task; "set": dropping it aborts
    future,        \* "unspawned", "idle", "polled" (by a worker), "dropped", "refused" (try_spawn)
    outcome,       \* how the future ended: "none", "finished" or "panicked"
    record,        \* what the wrapper recorded
    over,          \* tasks the runtime has completed or dropped
    aborted,       \* tasks the runtime was told to stop
    aborts,        \* times the owner aborted each
    task,          \* the runtime's handle: "running", "cancelling" (smol), "ended", "detached"
    end,           \* what the core's handle answered: "none", "finished", "panicked" or "aborted"
    down           \* the runtime has shut down

taskVars == <<adapter, owner, future, outcome, record, over, aborted, aborts, task, end, down>>

TasksInit ==
    /\ adapter \in {"tokio", "smol"} /\ owner \in {"handles", "set"}
    /\ future = [t \in TaskIds |-> "unspawned"]
    /\ outcome = [t \in TaskIds |-> "none"] /\ record = outcome /\ end = outcome
    /\ over = {} /\ aborted = {} /\ aborts = [t \in TaskIds |-> 0]
    /\ task = [t \in TaskIds |-> "running"]
    /\ down = FALSE

\* TaskHandle::launch, Spawn::spawn: a runtime that has shut down drops the task unrun.
SpawnTask(t) ==
    /\ future[t] = "unspawned"
    /\ future' = [future EXCEPT ![t] = IF down THEN "dropped" ELSE "idle"]
    /\ over' = IF down THEN over \cup {t} ELSE over
    /\ UNCHANGED <<adapter, owner, outcome, record, aborted, aborts, task, end, down>>

\* Spawn::try_spawn on tokio: the runtime's handle is polled once, on a runtime that may
\* be shutting down, and a task that was dropped is refused.
TrySpawn(t) ==
    /\ adapter = "tokio" /\ future[t] = "unspawned" /\ down
    /\ future' = [future EXCEPT ![t] = "refused"]
    /\ over' = over \cup {t} /\ task' = [task EXCEPT ![t] = "ended"]
    /\ UNCHANGED <<adapter, owner, outcome, record, aborted, aborts, end, down>>

\* A worker takes the task up, unless it was aborted.
BeginPoll(t) ==
    /\ future[t] = "idle" /\ t \notin aborted /\ ~down
    /\ future' = [future EXCEPT ![t] = "polled"]
    /\ UNCHANGED <<adapter, owner, outcome, record, over, aborted, aborts, task, end, down>>

PollPends(t) ==
    /\ future[t] = "polled" /\ outcome[t] = "none"
    /\ future' = [future EXCEPT ![t] = "idle"]
    /\ UNCHANGED <<adapter, owner, outcome, record, over, aborted, aborts, task, end, down>>

\* Launched::poll: the future returned, or its panic was caught at the poll.
FutureEnds(t, how) ==
    /\ future[t] = "polled" /\ outcome[t] = "none"
    /\ outcome' = [outcome EXCEPT ![t] = how]
    /\ UNCHANGED <<adapter, owner, future, record, over, aborted, aborts, task, end, down>>

\* drop_caught, before the end is recorded.
LaunchedDrops(t) ==
    /\ future[t] = "polled" /\ outcome[t] # "none"
    /\ future' = [future EXCEPT ![t] = "dropped"]
    /\ UNCHANGED <<adapter, owner, outcome, record, over, aborted, aborts, task, end, down>>

LaunchedRecords(t) ==
    /\ future[t] = "dropped" /\ outcome[t] # "none" /\ t \notin over
    /\ record' = [record EXCEPT ![t] = outcome[t]] /\ over' = over \cup {t}
    /\ UNCHANGED <<adapter, owner, future, outcome, aborted, aborts, task, end, down>>

\* Drop for Launched: the runtime drops an aborted task, or all it has when it shuts down,
\* between two polls.
RuntimeDrops(t) ==
    /\ future[t] = "idle" /\ (t \in aborted \/ down)
    /\ future' = [future EXCEPT ![t] = "dropped"] /\ over' = over \cup {t}
    /\ UNCHANGED <<adapter, owner, outcome, record, aborted, aborts, task, end, down>>

RuntimeDown ==
    /\ adapter = "tokio" /\ ~down /\ down' = TRUE
    /\ UNCHANGED <<adapter, owner, future, outcome, record, over, aborted, aborts, task, end>>

\* RuntimeTask::abort. smol's takes the handle out: a cancel still waiting is kept, and
\* asked again what is taken out is that cancel, which goes.
AbortedTo(t) ==
    IF adapter = "tokio" THEN task[t]
    ELSE IF task[t] = "running" /\ t \notin over THEN "cancelling" ELSE "ended"

\* TaskHandle::abort, and TaskSet::abort_all for each.
Abort(t) ==
    /\ future[t] \notin {"unspawned", "refused"} /\ task[t] # "detached" /\ end[t] = "none" /\ aborts[t] < MaxAborts
    /\ aborts' = [aborts EXCEPT ![t] = @ + 1]
    /\ aborted' = IF task[t] = "running" THEN aborted \cup {t} ELSE aborted
    /\ task' = [task EXCEPT ![t] = AbortedTo(t)]
    /\ UNCHANGED <<adapter, owner, future, outcome, record, over, end, down>>

\* RuntimeTask::poll_ended
PollEnded(t) == task[t] = "ended" \/ t \in over

\* TaskHandle::poll, TaskSet::join_next: read once the runtime says the task is over.
JoinTask(t) ==
    /\ future[t] \notin {"unspawned", "refused"} /\ task[t] # "detached" /\ end[t] = "none" /\ PollEnded(t)
    /\ end' = [end EXCEPT ![t] = IF record[t] = "none" THEN "aborted" ELSE record[t]]
    /\ task' = [task EXCEPT ![t] = "ended"]
    /\ UNCHANGED <<adapter, owner, future, outcome, record, over, aborted, aborts, down>>

\* Drop for TaskHandle detaches; Drop for TaskSet, and Aborting's under Tokio::run, aborts first.
LetGo(t) == IF owner = "set" /\ task[t] = "running" THEN aborted \cup {t} ELSE aborted

DropHandle(t) ==
    /\ future[t] \notin {"unspawned", "refused"} /\ task[t] # "detached"
    /\ aborted' = LetGo(t)
    /\ task' = [task EXCEPT ![t] = "detached"]
    /\ UNCHANGED <<adapter, owner, future, outcome, record, over, aborts, end, down>>

TaskSteps(t) ==
    \/ BeginPoll(t) \/ PollPends(t) \/ \E how \in {"finished", "panicked"} : FutureEnds(t, how)
    \/ LaunchedDrops(t) \/ LaunchedRecords(t) \/ RuntimeDrops(t)
OwnerSteps(t) == SpawnTask(t) \/ TrySpawn(t) \/ Abort(t) \/ JoinTask(t) \/ DropHandle(t)

TasksNext == RuntimeDown \/ \E t \in TaskIds : TaskSteps(t) \/ OwnerSteps(t)

RunsOn(t) == PollPends(t) \/ LaunchedDrops(t) \/ LaunchedRecords(t) \/ RuntimeDrops(t)
TasksFairness == \A t \in TaskIds : WF_taskVars(RunsOn(t))
TasksSpec == TasksInit /\ [][TasksNext]_taskVars /\ TasksFairness

(***************************************************************************)
(* Properties.                                                             *)
(***************************************************************************)

\* The same for a task aborted once, and the end answered is the one the future came
\* to: a future that returned while it was being aborted is not reported aborted.
EndTrue ==
    \A t \in TaskIds :
        end[t] # "none" /\ (adapter = "tokio" \/ aborts[t] < 2) =>
            future[t] = "dropped" /\ end[t] = (IF outcome[t] = "none" THEN "aborted" ELSE outcome[t])

\* The task's set was dropped; the task is over.
SetDropped(t) == owner = "set" /\ task[t] = "detached"
TaskOver(t) == t \in over
===============================================================================
