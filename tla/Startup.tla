------------------------------- MODULE Startup -------------------------------
(***************************************************************************)
(* Starting an app: servers, connect, its bounds, loads and the            *)
(* configuration.  Each part below has its own constants, variables, Init  *)
(* and Next, and shares no state with the others.                          *)
(***************************************************************************)
EXTENDS Integers, Sequences, FiniteSets, SequencesExt

-------------------------------------------------------------------------------
(***************************************************************************)
(* From AppBuilder to App<Bound> (ulo/src/app/mod.rs, transport/server.rs):*)
(* the clock and the executor an app is given, the end of connect, and     *)
(* listen, which prepares every queued server before it binds any and      *)
(* closes what it bound when a later one fails.                            *)
(***************************************************************************)

CONSTANTS
    ServerPlans,  \* the servers queued: Seq([prepare : {"ok", "err", "panic"}, bind : {"ok", "err"}])
    MaxSettings   \* .timer(..) and .runtime(..) calls made on the builder

VARIABLES
    settings,     \* the .timer and .runtime calls made, each giving an object of its own number
    clockSet,     \* AppConfig::timer: the number of the clock, 0 when unset
    spawnerSet,   \* AppConfig::spawner: the number of the runtime spawned on
    runtimeSet,   \* AppConfig::runtime: the wrapper's runtime and clock
    traced,       \* TraceMode and what the root sees as dyn TraceSource
    opening,      \* "builder", "connecting", "connected", "preparing", "binding", "undoing", "bound", "refused", "dropped"
    queued,       \* the servers not yet bound and those bound, in order
    prepared,     \* how many servers have been prepared
    unfit,        \* the servers whose prepare failed, in order
    bound,        \* the servers bound, in order
    shutBy,       \* how many of them the failing listen has closed
    refusal       \* what listen or connect answered

builder == <<settings, clockSet, spawnerSet, runtimeSet, traced>>
startupVars == <<builder, opening, queued, prepared, unfit, bound, shutBy, refusal>>

NoRuntime == [spawns |-> 0, times |-> 0]

StartupInit ==
    /\ settings = 0 /\ clockSet = 0 /\ spawnerSet = 0 /\ runtimeSet = NoRuntime
    /\ traced \in {"off", "none", "found", "failed"}
    /\ opening = "builder" /\ queued \in ServerPlans
    /\ prepared = 0 /\ unfit = <<>> /\ bound = <<>> /\ shutBy = 0 /\ refusal = "none"

\* AppBuilder::timer: the clock alone, the spawner kept.
SetTimer ==
    /\ opening = "builder" /\ settings < MaxSettings
    /\ settings' = settings + 1 /\ clockSet' = settings + 1
    /\ runtimeSet' = IF spawnerSet = 0 THEN NoRuntime ELSE [spawns |-> spawnerSet, times |-> settings + 1]
    /\ UNCHANGED <<spawnerSet, traced, opening, queued, prepared, unfit, bound, shutBy, refusal>>

\* AppBuilder::runtime: both, a timer set before it replaced.
SetRuntime ==
    /\ opening = "builder" /\ settings < MaxSettings
    /\ settings' = settings + 1 /\ clockSet' = settings + 1 /\ spawnerSet' = settings + 1
    /\ runtimeSet' = [spawns |-> settings + 1, times |-> settings + 1]
    /\ UNCHANGED <<traced, opening, queued, prepared, unfit, bound, shutBy, refusal>>

\* AppBuilder::wire, and the connect walk, both modelled apart.
WiredApp ==
    /\ opening = "builder" /\ opening' = "connecting"
    /\ UNCHANGED <<builder, queued, prepared, unfit, bound, shutBy, refusal>>

\* connect, after the walk: the trace source, under TraceMode::On.
Connected ==
    /\ opening = "connecting"
    /\ IF traced = "failed" THEN opening' = "refused" /\ refusal' = "traceSource"
       ELSE opening' = "connected" /\ UNCHANGED refusal
    /\ UNCHANGED <<builder, queued, prepared, unfit, bound, shutBy>>

\* listen, its first poll: a transport on an app with no Runtime is refused.
Listen ==
    /\ opening = "connected"
    /\ IF runtimeSet = NoRuntime /\ queued # <<>>
       THEN opening' = "refused" /\ refusal' = "runtimeMissing"
       ELSE opening' = "preparing" /\ UNCHANGED refusal
    /\ UNCHANGED <<builder, queued, prepared, unfit, bound, shutBy>>

\* listen: prepare on every server, a failure or a panic collected.
PrepareNext ==
    /\ opening = "preparing" /\ prepared < Len(queued)
    /\ prepared' = prepared + 1
    /\ unfit' = IF queued[prepared'].prepare = "ok" THEN unfit ELSE Append(unfit, prepared')
    /\ UNCHANGED <<builder, opening, queued, bound, shutBy, refusal>>

PreparedAll ==
    /\ opening = "preparing" /\ prepared = Len(queued)
    /\ IF unfit # <<>> THEN opening' = "refused" /\ refusal' = "configure"
       ELSE opening' = "binding" /\ UNCHANGED refusal
    /\ UNCHANGED <<builder, queued, prepared, unfit, bound, shutBy>>

\* listen: bind each in order; the first failure turns to closing those bound.
BindNext ==
    /\ opening = "binding" /\ Len(bound) < Len(queued)
    /\ IF queued[Len(bound) + 1].bind = "ok"
       THEN bound' = Append(bound, Len(bound) + 1) /\ UNCHANGED opening
       ELSE opening' = "undoing" /\ UNCHANGED bound
    /\ UNCHANGED <<builder, queued, prepared, unfit, shutBy, refusal>>

BoundAll ==
    /\ opening = "binding" /\ Len(bound) = Len(queued) /\ opening' = "bound"
    /\ UNCHANGED <<builder, queued, prepared, unfit, bound, shutBy, refusal>>

\* listen: close in the order bound, whatever each close answers.
CloseBound ==
    /\ opening = "undoing"
    /\ IF shutBy < Len(bound) THEN shutBy' = shutBy + 1 /\ UNCHANGED <<opening, refusal>>
       ELSE opening' = "refused" /\ refusal' = "bind" /\ UNCHANGED shutBy
    /\ UNCHANGED <<builder, queued, prepared, unfit, bound>>

\* The listen future dropped at one of its awaits: its servers drop with it.
ListenDropped ==
    /\ opening \in {"preparing", "binding", "undoing"} /\ opening' = "dropped"
    /\ shutBy' = Len(bound)
    /\ UNCHANGED <<builder, queued, prepared, unfit, bound, refusal>>

StartupNext ==
    \/ SetTimer \/ SetRuntime \/ WiredApp \/ Connected \/ Listen \/ PrepareNext \/ PreparedAll
    \/ BindNext \/ BoundAll \/ CloseBound \/ ListenDropped

StartupSpec == StartupInit /\ [][StartupNext]_startupVars

-----------------------------------------------------------------------------
\* Whatever order .timer(..) and .runtime(..) were called in, the runtime the app hands out times
\* with the clock the app reads, and spawns on the runtime given last.
OneClock == runtimeSet # NoRuntime => runtimeSet.times = clockSet /\ runtimeSet.spawns = spawnerSet

\* listen: a server is bound only once every server has prepared without failing, a refused or
\* dropped listen has closed every server it bound, and every unfit server is one reported.
RefusedHoldsNothing ==
    /\ bound # <<>> => prepared = Len(queued) /\ \A i \in DOMAIN queued : queued[i].prepare = "ok"
    /\ opening \in {"refused", "dropped"} => shutBy = Len(bound)
    /\ refusal = "configure" => ToSet(unfit) = {i \in DOMAIN queued : queued[i].prepare # "ok"}

-------------------------------------------------------------------------------
(***************************************************************************)
(* The connect walk (ulo/src/lifecycle/connect.rs): every singleton built  *)
(* in connect order and made ready by its check, then the OnModuleInit     *)
(* hooks, then the OnApplicationBootstrap hooks, the first failure ending  *)
(* the walk. What user code answers, and when its bounds pass or the       *)
(* runtime refuses to time them, is open.                                  *)
(***************************************************************************)

CONSTANTS
    ConnectGraphs  \* [singletons : Seq([origin, retries]), modules : Seq(STRING)]: retries < 0 for a binding with no check

VARIABLES
    wired,         \* the graph connected
    step,          \* "idle", "build", "attempt", "backoff", "init", "bootstrap", "connected", "failed"
    at,            \* the singleton being connected, or the hook of the plan to run next
    attempts,      \* readiness attempts made on the singleton at `at`
    wholePassed,   \* the check's whole bound has passed on the clock
    answers,       \* what the attempts of this check answered
    readied,       \* the singletons built and found ready
    ran,           \* the hooks run: <<kind, owner>>
    reason         \* why the walk failed, and the attempts it reports

connectVars == <<wired, step, at, attempts, wholePassed, answers, readied, ran, reason>>

NoReason == [why |-> "none", attempts |-> 0]

ConnectInit ==
    /\ wired \in ConnectGraphs /\ step = "build" /\ at = 1
    /\ attempts = 0 /\ wholePassed = FALSE /\ answers = <<>> /\ readied = {} /\ ran = <<>> /\ reason = NoReason

Count == Len(wired.singletons)
Check == wired.singletons[at]

Fails(why) ==
    /\ step' = "failed" /\ reason' = [why |-> why, attempts |-> attempts]
    /\ UNCHANGED <<wired, at, attempts, wholePassed, answers, readied, ran>>

\* connect: a singleton is done once built and its check, if it has one, passed.
Readied ==
    /\ readied' = readied \cup {at} /\ at' = at + 1 /\ step' = "build"
    /\ attempts' = 0 /\ wholePassed' = FALSE /\ answers' = <<>>
    /\ UNCHANGED <<wired, ran, reason>>

\* build_singleton: built, and its check begun.
BuildSingleton ==
    /\ step = "build" /\ at <= Count
    /\ IF Check.retries < 0 THEN Readied
       ELSE /\ step' = "attempt" /\ attempts' = 1
            /\ UNCHANGED <<wired, at, wholePassed, answers, readied, ran, reason>>

BuildFails == step = "build" /\ at <= Count /\ \E why \in {"errored", "panicked", "timedOut", "shutDown"} : Fails(why)

AttemptReady == step = "attempt" /\ Readied

\* An attempt that panicked, failed for good, or could not be timed ends the check.
AttemptEnds(answer) == step = "attempt" /\ answer \in {"permanent", "panicked", "shutDown"} /\ Fails(answer)

\* Another failure is the check's once its retries are spent, and followed by the
\* backoff until then.
AttemptFails(answer) ==
    /\ step = "attempt" /\ answer \in {"errored", "attemptTimedOut"}
    /\ IF attempts > Check.retries THEN Fails(answer)
       ELSE /\ step' = "backoff" /\ answers' = Append(answers, answer)
            /\ UNCHANGED <<wired, at, attempts, wholePassed, readied, ran, reason>>

\* The backoff over, or none to wait for: the next attempt.
Retry ==
    /\ step = "backoff" /\ step' = "attempt" /\ attempts' = attempts + 1
    /\ UNCHANGED <<wired, at, wholePassed, answers, readied, ran, reason>>

\* mutant: a refused backoff is always the refusal
BackoffRefusedAlways == step = "backoff" /\ Fails("shutDown")

\* A backoff the timer refuses ends the check: as the whole bound's expiry when that
\* had passed, else as the shut-down runtime.
BackoffRefused == step = "backoff" /\ Fails(IF wholePassed THEN "timedOut" ELSE "shutDown")

\* The whole bound passes on the clock while an attempt or a backoff is waited for,
\* and the poll that sees it ends the check; an attempt or backoff that ends in that
\* same poll goes first.
WholePasses ==
    /\ step \in {"attempt", "backoff"} /\ ~wholePassed /\ wholePassed' = TRUE
    /\ UNCHANGED <<wired, step, at, attempts, answers, readied, ran, reason>>
WholeExpires == step \in {"attempt", "backoff"} /\ wholePassed /\ Fails("timedOut")
WholeRefused == step \in {"attempt", "backoff"} /\ ~wholePassed /\ Fails("shutDown")

\* hook_plan: a module goes after the last of its singletons, one with none after
\* every module before it in collection order.
Positions ==
    LET Own(m) == {i \in 1..Count : wired.singletons[i].origin = m}
        floor[j \in 0..Len(wired.modules)] ==
          IF j = 0 THEN 0
          ELSE LET own == Own(wired.modules[j])
                   last == IF own = {} THEN floor[j - 1] ELSE CHOOSE i \in own : \A k \in own : k <= i
               IN IF last > floor[j - 1] THEN last ELSE floor[j - 1]
    IN [j \in 1..Len(wired.modules) |->
          LET own == Own(wired.modules[j])
          IN IF own = {} THEN floor[j - 1] ELSE CHOOSE i \in own : \A k \in own : k <= i]

Placed(i) == SelectSeq([j \in 1..Len(wired.modules) |-> j], LAMBDA j : Positions[j] = i)

HookPlan ==
    FlattenSeq([i \in 1..2 * Count + 1 |->
        IF i % 2 = 1 THEN [k \in 1..Len(Placed((i - 1) \div 2)) |-> <<"module", wired.modules[Placed((i - 1) \div 2)[k]]>>]
        ELSE <<<<"binding", i \div 2>>>>])

StartHooks ==
    /\ step = "build" /\ at > Count /\ step' = "init" /\ at' = 1
    /\ UNCHANGED <<wired, attempts, wholePassed, answers, readied, ran, reason>>

\* run_startup_hooks, for the kind the step is of.
RunHook ==
    /\ step \in {"init", "bootstrap"} /\ at <= Len(HookPlan)
    /\ ran' = Append(ran, <<step, HookPlan[at]>>) /\ at' = at + 1
    /\ UNCHANGED <<wired, step, attempts, wholePassed, answers, readied, reason>>

HookFails == step \in {"init", "bootstrap"} /\ at <= Len(HookPlan) /\ \E why \in {"errored", "panicked", "timedOut", "shutDown"} : Fails(why)

HooksOver ==
    /\ step \in {"init", "bootstrap"} /\ at > Len(HookPlan)
    /\ step' = IF step = "init" THEN "bootstrap" ELSE "connected"
    /\ at' = 1
    /\ UNCHANGED <<wired, attempts, wholePassed, answers, readied, ran, reason>>

ConnectNext ==
    \/ BuildSingleton \/ BuildFails \/ AttemptReady \/ Retry \/ BackoffRefused
    \/ \E answer \in {"permanent", "panicked", "shutDown", "errored", "attemptTimedOut"} : AttemptEnds(answer) \/ AttemptFails(answer)
    \/ WholePasses \/ WholeExpires \/ WholeRefused
    \/ StartHooks \/ RunHook \/ HookFails \/ HooksOver

ConnectSpec == ConnectInit /\ [][ConnectNext]_connectVars

(***************************************************************************)
(* Properties.                                                             *)
(***************************************************************************)
\* A check makes one attempt and its retries, none after an attempt that ended it
\* for good, and reports its whole bound as expired exactly when it had passed: a
\* runtime shut down after that is not what the operator reads.
ReadinessTold ==
    /\ step \in {"attempt", "backoff"} =>
         /\ attempts <= Check.retries + 1
         /\ \A i \in 1..Len(answers) : answers[i] \in {"errored", "attemptTimedOut"}
    /\ step = "failed" /\ attempts > 0 =>
         reason.attempts \in 1..Check.retries + 1 /\ (reason.why = "timedOut" => wholePassed)
    /\ step = "failed" /\ attempts = Len(answers) /\ attempts > 0 /\ reason.why = "shutDown" => ~wholePassed

\* Startup hooks run on a graph that is built and ready, the init hooks of all of it
\* before the first bootstrap hook, each owner after the singletons before it, a
\* module's own after its providers', and a module with none after the modules the
\* collection put before it.
HooksInOrder ==
    LET Before(a, b) == \E i, j \in 1..Len(ran) : i < j /\ ran[i] = a /\ ran[j] = b
        Ran(a) == \E i \in 1..Len(ran) : ran[i] = a
        m == wired.modules
    IN /\ ran # <<>> => readied = 1..Count
       /\ Cardinality(ToSet(ran)) = Len(ran)
       /\ \A j \in 1..Len(ran) : ran[j][1] = "bootstrap" => Ran(<<"init", ran[j][2]>>)
       /\ \A kind \in {"init", "bootstrap"} :
            /\ \A i \in 1..Count :
                 Ran(<<kind, <<"module", wired.singletons[i].origin>>>>) =>
                     Before(<<kind, <<"binding", i>>>>, <<kind, <<"module", wired.singletons[i].origin>>>>)
            /\ \A i, k \in 1..Count : i < k /\ Ran(<<kind, <<"binding", k>>>>) => Before(<<kind, <<"binding", i>>>>, <<kind, <<"binding", k>>>>)
            /\ \A j, k \in 1..Len(m) :
                 /\ j < k /\ Ran(<<kind, <<"module", m[k]>>>>)
                 /\ \A i \in 1..Count : wired.singletons[i].origin # m[k]
                 => Before(<<kind, <<"module", m[j]>>>>, <<kind, <<"module", m[k]>>>>)
       /\ step = "connected" => Len(ran) = 2 * (Count + Len(m))

-------------------------------------------------------------------------------
(***************************************************************************)
(* What the core waits on under a bound (ulo/src/timer.rs, `run` in        *)
(* lifecycle/run.rs): an item raced against the shutdown cap, and that     *)
(* against the item's own bound, poll by poll, on a clock that moves       *)
(* between polls and whose runtime may shut down. A poll comes when some-  *)
(* thing wakes the task, however late.                                     *)
(***************************************************************************)

CONSTANTS
    MaxClock,      \* the last reading of the clock
    MaxPolls       \* polls the item may take to be ready

VARIABLES
    timed,         \* [own, cap, ready]: the bound, the cap's end (each an instant or Never) and the poll the item is ready on
    clock,         \* what `now` reads
    refuses,       \* the runtime has shut down: a sleep not yet over is refused
    polls,         \* polls made
    refused,       \* the limits whose refusal waits for the next poll
    ended,         \* how the item ended: <<"running">>, <<"done">>, <<"expired", limit>>, <<"refused", limit>>
    lastPolled     \* what the clock read and which limits had a refusal waiting, at the poll before

boundVars == <<timed, clock, refuses, polls, refused, ended, lastPolled>>

Never == MaxClock + 1
Limits == {"cap", "own"}
Until(limit) == IF limit = "cap" THEN timed.cap ELSE timed.own
Passed(limit) == clock >= Until(limit)

\* resolve_bound: an item with no bound, or no `Timer`, has none; a cap may have
\* passed already, a bound of zero the wiring pass refuses.
BoundsInit ==
    /\ timed \in [own : 1..Never, cap : 0..Never, ready : 1..MaxPolls + 1]
    /\ clock = 0 /\ refuses = FALSE /\ polls = 0 /\ refused = {} /\ ended = <<"running">> /\ lastPolled = [clock |-> 0, refused |-> {}]

Running == ended = <<"running">>

Tick ==
    /\ Running /\ clock < MaxClock /\ clock' = clock + 1
    /\ UNCHANGED <<timed, refuses, polls, refused, ended, lastPolled>>

RuntimeStops ==
    /\ Running /\ ~refuses /\ refuses' = TRUE
    /\ UNCHANGED <<timed, clock, polls, refused, ended, lastPolled>>

\* Expiry::poll: a passed bound is expired, refused or not; a refusal that waited a
\* poll is reported.
Cut(limit) ==
    IF limit \in refused THEN <<"refused", limit>>
    ELSE IF Passed(limit) THEN <<"expired", limit>> ELSE <<"pending">>

\* A limit the clock cannot reach makes no sleep the runtime could refuse only when unset.
Refusing(limit) == refuses /\ ~Passed(limit) /\ Until(limit) # Never

\* race, twice over: the item before either limit, the cap before the item's bound.
Race ==
    IF polls + 1 >= timed.ready THEN <<"done">>
    ELSE IF Cut("cap") # <<"pending">> THEN Cut("cap")
    ELSE IF Cut("own") # <<"pending">> THEN Cut("own") ELSE <<"running">>

\* run, polled. The limits are polled first on the first poll, to arm them, and
\* their cuts weighed after the item all the same.
PollItem ==
    /\ Running /\ polls <= MaxPolls
    /\ ended' = Race
    /\ polls' = polls + 1
    /\ refused' = refused \cup {l \in Limits : Refusing(l)}
    /\ lastPolled' = [clock |-> clock, refused |-> refused]
    /\ UNCHANGED <<timed, clock, refuses>>

BoundsNext == Tick \/ RuntimeStops \/ PollItem

BoundsSpec == BoundsInit /\ [][BoundsNext]_boundVars

(***************************************************************************)
(* Properties.                                                             *)
(***************************************************************************)
\* What ended an item is what is reported: an answer ready on the poll a limit
\* passes in, or on the one after a refusal, outranks the limit; a limit is
\* reported as expired only once it has passed; the cap wins a tie with the item's
\* own bound; and a limit that passed is never reported as refused for a refusal
\* that came after.
CutTrue ==
    CASE ended[1] = "done" -> TRUE
      [] ended[1] = "expired" ->
           polls < timed.ready /\ clock >= Until(ended[2]) /\ (ended[2] = "own" => ~Passed("cap") \/ "cap" \in lastPolled.refused)
      [] ended[1] = "refused" -> polls < timed.ready /\ refuses /\ ended[2] \in lastPolled.refused
      [] OTHER -> \A l \in Limits : polls > 0 => lastPolled.clock < Until(l)

-------------------------------------------------------------------------------
(***************************************************************************)
(* Lazily loaded modules (ulo/src/app/load.rs, wire_lazy in wire.rs, the   *)
(* singleton store in app/shared.rs) against the shutdown's hook steps     *)
(* (run_hook_step in lifecycle/shutdown.rs). A load extends the published  *)
(* graph, connects what it brought, and puts the graph back when that      *)
(* fails. Ids are positions in the graph, so a failed load's are assigned  *)
(* again. Each module here brings one singleton with one hook; what the    *)
(* base graph holds comes before them and never moves.                     *)
(***************************************************************************)

CONSTANTS
    Loads,         \* the `load` calls
    Loading,       \* the module each one loads
    Abandons       \* whether a load's future may be dropped before it ends

VARIABLES
    appPhase,      \* "running", "stopping", "destroying", "closed"
    published,     \* the graph's loaded modules, by position
    store,         \* the singleton store: each position's instance, named by its module, or None
    loadLock,      \* the load that holds load_lock, or None
    loadAt,        \* each load: "idle", "waits", "build", "hooks", "failed", "ok", "error", "closed", "dropped"
    extends,       \* the graph each load wired against
    handle,        \* the position in the ModuleRef a load returned
    hooked,        \* the modules whose init hooks ran since they were last built
    stepPlan,      \* the shutdown step's plan: the positions left, the latest load first
    destroyed      \* the modules whose destroy hook ran, in order

loadVars == <<appPhase, published, store, loadLock, loadAt, extends, handle, hooked, stepPlan, destroyed>>

None == "none"
LoadPlaces == 1..Cardinality(Loads)

LoadsInit ==
    /\ appPhase = "running" /\ published = <<>> /\ store = [p \in LoadPlaces |-> None] /\ loadLock = None
    /\ loadAt = [l \in Loads |-> "idle"] /\ extends = [l \in Loads |-> <<>>] /\ handle = [l \in Loads |-> 0]
    /\ hooked = {} /\ stepPlan = <<>> /\ destroyed = <<>>

AllowsLoad == appPhase = "running"

\* load: refused from Stopping on, then queued on the lock.
CallLoad(l) ==
    /\ loadAt[l] = "idle"
    /\ loadAt' = [loadAt EXCEPT ![l] = IF AllowsLoad THEN "waits" ELSE "closed"]
    /\ UNCHANGED <<appPhase, published, store, loadLock, extends, handle, hooked, stepPlan, destroyed>>

PositionOf(m) == {p \in DOMAIN published : published[p] = m}
Ends(l, how) == loadAt' = [loadAt EXCEPT ![l] = how] /\ loadLock' = None

\* The phase is checked again under the lock.
LoadRefused(l) ==
    /\ loadAt[l] = "waits" /\ loadLock = None /\ ~AllowsLoad
    /\ Ends(l, "closed")
    /\ UNCHANGED <<appPhase, published, store, extends, handle, hooked, stepPlan, destroyed>>

\* An identity the graph holds answers with its handle.
LoadKnown(l) ==
    /\ loadAt[l] = "waits" /\ loadLock = None /\ AllowsLoad
    /\ \E p \in PositionOf(Loading[l]) : handle' = [handle EXCEPT ![l] = p]
    /\ Ends(l, "ok")
    /\ UNCHANGED <<appPhase, published, store, extends, hooked, stepPlan, destroyed>>

\* wire_lazy reports errors or a refusal before anything is published.
LoadWiring(l, wires) ==
    /\ loadAt[l] = "waits" /\ loadLock = None /\ AllowsLoad /\ PositionOf(Loading[l]) = {}
    /\ IF wires
       THEN /\ loadLock' = l /\ loadAt' = [loadAt EXCEPT ![l] = "build"]
            /\ extends' = [extends EXCEPT ![l] = published]
            /\ published' = Append(published, Loading[l])
       ELSE Ends(l, "error") /\ UNCHANGED <<extends, published>>
    /\ UNCHANGED <<appPhase, store, handle, hooked, stepPlan, destroyed>>

At(l) == Len(extends[l]) + 1

\* connect: a singleton the store has is not built; its readiness check follows.
\* From Destroying on a lookup its constructor makes is refused, and it may fail.
LoadBuild(l, builds) ==
    /\ loadAt[l] = "build"
    /\ store' = IF builds /\ store[At(l)] = None THEN [store EXCEPT ![At(l)] = Loading[l]] ELSE store
    /\ loadAt' = [loadAt EXCEPT ![l] = IF builds THEN "hooks" ELSE "failed"]
    /\ hooked' = hooked \ {Loading[l]}
    /\ UNCHANGED <<appPhase, published, loadLock, extends, handle, stepPlan, destroyed>>

\* run_startup_hooks, then the handle.
LoadHooks(l, succeed) ==
    /\ loadAt[l] = "hooks"
    /\ hooked' = IF succeed THEN hooked \cup {Loading[l]} ELSE hooked
    /\ handle' = [handle EXCEPT ![l] = IF succeed THEN At(l) ELSE 0]
    /\ IF succeed THEN Ends(l, "ok") ELSE loadAt' = [loadAt EXCEPT ![l] = "failed"] /\ UNCHANGED loadLock
    /\ UNCHANGED <<appPhase, published, store, extends, stepPlan, destroyed>>

\* A load that fails to connect puts the graph back and drops what it built.
RollBack(l) ==
    /\ loadAt[l] = "failed"
    /\ published' = extends[l]
    /\ store' = [store EXCEPT ![At(l)] = None]
    /\ Ends(l, "error")
    /\ UNCHANGED <<appPhase, extends, handle, hooked, stepPlan, destroyed>>

\* The caller drops the future: the lock goes with it, and nothing else.
DropLoad(l) ==
    /\ Abandons /\ loadAt[l] \in {"build", "hooks"}
    /\ Ends(l, "dropped")
    /\ UNCHANGED <<appPhase, published, store, extends, handle, hooked, stepPlan, destroyed>>

\* The shutdown: before-shutdown hooks, the drain, then the destroy step, whose
\* plan is made from the graph then published, the latest load first.
BeginStopping ==
    /\ appPhase = "running" /\ appPhase' = "stopping"
    /\ UNCHANGED <<published, store, loadLock, loadAt, extends, handle, hooked, stepPlan, destroyed>>

\* shutdown_plan.
ShutdownPlan == [i \in DOMAIN published |-> Len(published) + 1 - i]

BeginDestroying ==
    /\ appPhase = "stopping" /\ appPhase' = "destroying"
    /\ stepPlan' = ShutdownPlan
    /\ UNCHANGED <<published, store, loadLock, loadAt, extends, handle, hooked, destroyed>>

\* run_hook: a binding whose singleton was never built has nothing to run on.
RunDestroy ==
    /\ appPhase = "destroying" /\ stepPlan # <<>>
    /\ destroyed' = IF store[Head(stepPlan)] = None THEN destroyed ELSE Append(destroyed, store[Head(stepPlan)])
    /\ stepPlan' = Tail(stepPlan)
    /\ UNCHANGED <<appPhase, published, store, loadLock, loadAt, extends, handle, hooked>>

AppClosed ==
    /\ appPhase = "destroying" /\ stepPlan = <<>> /\ appPhase' = "closed"
    /\ UNCHANGED <<published, store, loadLock, loadAt, extends, handle, hooked, stepPlan, destroyed>>

LoadsNext ==
    \/ BeginStopping \/ BeginDestroying \/ RunDestroy \/ AppClosed
    \/ \E l \in Loads : CallLoad(l) \/ LoadRefused(l) \/ LoadKnown(l) \/ RollBack(l) \/ DropLoad(l)
                        \/ \E yes \in BOOLEAN : LoadWiring(l, yes) \/ LoadBuild(l, yes) \/ LoadHooks(l, yes)

LoadsSpec == LoadsInit /\ [][LoadsNext]_loadVars

(***************************************************************************)
(* Properties.                                                             *)
(***************************************************************************)
\* The store never answers a binding of the published graph with another
\* module's instance, though a failed load's ids are assigned again, and `connect`
\* skips what the store already holds.
StoreOwnInstances == \A p \in DOMAIN published : store[p] \in {None, published[p]}

\* A load that answered a handle answered one to a module that is connected: its
\* singleton is built under the position the handle names, and its init hooks ran.
LoadedIsConnected ==
    \A l \in Loads : loadAt[l] = "ok" =>
      /\ handle[l] \in DOMAIN published /\ published[handle[l]] = Loading[l]
      /\ store[handle[l]] = Loading[l] /\ Loading[l] \in hooked

\* So it is for every load, where none was dropped on the way.
ConnectedUnlessDropped == (\A l \in Loads : loadAt[l] # "dropped") => LoadedIsConnected

\* Two loads never extend one graph: what is published grows by one load at a
\* time, goes back only to where that load began, and holds each module once.
LoadsSerial ==
    /\ \A p, q \in DOMAIN published : published[p] = published[q] => p = q
    /\ \A l \in Loads : loadAt[l] \in {"build", "hooks", "failed"} => published = Append(extends[l], Loading[l])

\* Loaded modules are destroyed in reverse load order, a load that failed
\* meanwhile left out.
DestroyedInReverse ==
    \A i, j \in DOMAIN destroyed : i < j =>
      \A p \in PositionOf(destroyed[i]), q \in PositionOf(destroyed[j]) : p > q

-------------------------------------------------------------------------------
(***************************************************************************)
(* A section read (ulo-config/src/de.rs): the passes of the deserializer   *)
(* over the merged tree, each of which learns one missing field or sets    *)
(* one section aside, until a pass learns nothing. A section is a field of *)
(* the type being read, a leaf or a struct of leaves. What stands at a     *)
(* leaf is "absent", "good", "ill" (the deserializer sees the mismatch and *)
(* answers a placeholder) or "refused" (the leaf type's own Deserialize    *)
(* fails, which ends the pass). A leaf type that can refuse refuses a      *)
(* placeholder too.                                                        *)
(***************************************************************************)

CONSTANTS
    Shapes,       \* the inputs: [sections, stray, deny, forward]
    MaxPasses     \* MAX_PASSES, 2048 in the code

\* A section: [needed, struct, leaf, fields, here]. A leaf: [needed, refuses, is]. `forward` says whether
\* the tree lists its keys in the order the type declares them or in reverse; a stray key comes first.

VARIABLES shape, pass, patches, skipped, missing, held, found, consumed, settled, ok

vars == <<shape, pass, patches, skipped, missing, held, found, consumed, settled, ok>>

Sections == DOMAIN shape.sections
Fields(s) == DOMAIN shape.sections[s].fields
Here(s) == IF shape.sections[s].struct THEN shape.sections[s].here ELSE shape.sections[s].leaf.is # "absent"
InOrder(n) == IF shape.forward THEN [i \in 1..n |-> i] ELSE [i \in 1..n |-> n + 1 - i]

\* Ctx: what one pass learns. `stop` is the error that ends the visitor.
Ctx == [problems |-> <<>>, consumed |-> {}, patch |-> <<>>, silent |-> FALSE, failed |-> <<>>, start |-> 0, stop |-> FALSE]

Problem(path, what) == [path |-> path, what |-> what]

\* A placeholder is answered silently; a leaf type's refusal of it ends the pass and is no finding.
ReadPlaceholder(ctx, path, leaf) == IF leaf.refuses THEN [ctx EXCEPT !.stop = TRUE] ELSE ctx

\* leaf, expected, settle and done: the scalar is consumed whatever becomes of it.
ReadLeaf(ctx, path, leaf) ==
    LET read == [ctx EXCEPT !.consumed = @ \cup {path}] IN
    CASE leaf.is = "good" -> read
      [] leaf.is = "ill" -> [read EXCEPT !.problems = Append(@, Problem(path, "ill"))]
      [] leaf.is = "refused" -> [read EXCEPT !.problems = Append(@, Problem(path, "refused")), !.stop = TRUE]

\* table over a struct section: its entries, the placeholders of its patches in the order found, and the
\* first field the derive misses, which becomes a patch. `placed`: the section is a placeholder itself.
ReadStruct(ctx, s, placed) ==
    LET section == shape.sections[s]
        given(f) == ~placed /\ section.fields[f].is # "absent"
        entries == SelectSeq(InOrder(Len(section.fields)), given)
        extras == SelectSeq(patches, LAMBDA p : Len(p) = 2 /\ p[1] = s /\ ~given(p[2]))
        afterEntries == FoldLeft(LAMBDA c, f : IF c.stop THEN c ELSE ReadLeaf(c, <<s, f>>, section.fields[f]), ctx, entries)
        afterExtras == FoldLeft(LAMBDA c, p : IF c.stop THEN c ELSE ReadPlaceholder(c, p, section.fields[p[2]]), afterEntries, extras)
        missed == {f \in Fields(s) : section.fields[f].needed /\ ~given(f) /\ <<s, f>> \notin Range(patches)} IN
    IF afterExtras.stop \/ missed = {} THEN afterExtras
    ELSE [afterExtras EXCEPT !.stop = TRUE, !.silent = placed,
                             !.patch = <<s, CHOOSE f \in missed : \A g \in missed : f <= g>>]

\* next_value_seed at the root: a section that ended without a patch is the one set aside.
ReadSection(ctx, s, placed) ==
    LET start == Len(ctx.problems)
        leaf == shape.sections[s].leaf
        read == IF shape.sections[s].struct THEN ReadStruct(ctx, s, placed)
                ELSE IF placed THEN ReadPlaceholder(ctx, <<s>>, leaf)
                ELSE ReadLeaf(ctx, <<s>>, leaf) IN
    IF read.stop /\ read.patch = <<>> /\ <<s>> \notin skipped
    THEN [read EXCEPT !.failed = <<s>>, !.start = start] ELSE read

\* next_key_seed: a key the type refuses is recorded and set aside like a section.
ReadStray(ctx) ==
    IF shape.stray /\ shape.deny /\ <<0>> \notin skipped
    THEN [ctx EXCEPT !.problems = Append(@, Problem(<<0>>, "unknown")), !.stop = TRUE, !.failed = <<0>>, !.start = Len(ctx.problems)]
    ELSE ctx

\* table_result at the root: the first section the derive misses. One that was set aside is reported
\* already, and the derive cannot go on without it.
MissAtRoot(ctx) ==
    LET missed == {s \in Sections : /\ IF shape.sections[s].struct THEN shape.sections[s].needed ELSE shape.sections[s].leaf.needed
                                    /\ ~Here(s) \/ <<s>> \in skipped
                                    /\ <<s>> \notin Range(patches)}
        first == CHOOSE s \in missed : \A t \in missed : s <= t IN
    IF ctx.stop \/ missed = {} THEN ctx
    ELSE IF <<first>> \in skipped THEN [ctx EXCEPT !.stop = TRUE]
    ELSE [ctx EXCEPT !.stop = TRUE, !.patch = <<first>>]

\* One deserialisation of the type.
Deserialize ==
    LET entries == SelectSeq(InOrder(Cardinality(Sections)), LAMBDA s : Here(s) /\ <<s>> \notin skipped)
        extras == SelectSeq(patches, LAMBDA p : Len(p) = 1 /\ ~Here(p[1]))
        afterEntries == FoldLeft(LAMBDA c, s : IF c.stop THEN c ELSE ReadSection(c, s, FALSE), ReadStray(Ctx), entries)
        afterExtras == FoldLeft(LAMBDA c, p : IF c.stop THEN c ELSE ReadSection(c, p[1], TRUE), afterEntries, extras) IN
    MissAtRoot(afterExtras)

MissingOf(ctx) == IF ctx.patch = <<>> \/ ctx.silent THEN <<>> ELSE <<Problem(ctx.patch, "missing")>>

ReadInit ==
    /\ shape \in Shapes
    /\ pass = 0 /\ patches = <<>> /\ skipped = {} /\ missing = <<>> /\ held = <<>> /\ found = <<>>
    /\ consumed = {} /\ settled = "no" /\ ok = FALSE

\* The pass past the cap runs only to learn whether anything is left to add.
CutOff(ctx) ==
    /\ pass = MaxPasses /\ ctx.stop
    /\ ctx.patch # <<>> \/ ctx.failed # <<>>
    /\ settled' = "cut"
    /\ UNCHANGED <<patches, skipped, missing, held, found, ok>>

\* A section that failed is set aside with the problems found in it.
SetAside(ctx) ==
    /\ pass < MaxPasses /\ ctx.stop /\ ctx.patch = <<>> /\ ctx.failed # <<>>
    /\ held' = held \o SubSeq(ctx.problems, ctx.start + 1, Len(ctx.problems))
    /\ skipped' = skipped \cup {ctx.failed}
    /\ UNCHANGED <<patches, missing, found, settled, ok>>

\* A missing field is remembered, and supplied as a placeholder by the passes after.
Patch(ctx) ==
    /\ pass < MaxPasses /\ ctx.stop /\ ctx.patch # <<>>
    /\ patches' = Append(patches, ctx.patch)
    /\ missing' = missing \o MissingOf(ctx)
    /\ UNCHANGED <<skipped, held, found, settled, ok>>

\* The type was read, or nothing more can be learned of it.
Settle(ctx) ==
    /\ ~ctx.stop \/ (ctx.patch = <<>> /\ ctx.failed = <<>>)
    /\ found' = ctx.problems /\ settled' = "yes" /\ ok' = ~ctx.stop
    /\ UNCHANGED <<patches, skipped, missing, held>>

Pass ==
    /\ settled = "no"
    /\ pass' = pass + 1
    /\ LET ctx == Deserialize IN
       /\ consumed' = consumed \cup ctx.consumed
       /\ \/ CutOff(ctx)
          \/ SetAside(ctx)
          \/ Patch(ctx)
          \/ Settle(ctx)
    /\ UNCHANGED shape

ReadSpec == ReadInit /\ [][Pass]_vars

\* The report section answers: what was held, found and missing, in that order.
Report == held \o found \o missing
Value == ok /\ Report = <<>>

-----------------------------------------------------------------------------
\* What the documentation promises of a report (integrations DESIGN 2.2): every section's problems up to
\* the first refusal in it; every missing field, but those declared after one whose type refuses a
\* placeholder, and those declared after a section that was set aside.

OrderOf(s, f) == IF shape.forward THEN f ELSE 0 - f
Refusals(s) == {f \in Fields(s) : shape.sections[s].fields[f].is = "refused"}
MissedFields(s) == {f \in Fields(s) : shape.sections[s].fields[f].needed /\ shape.sections[s].fields[f].is = "absent"}
Hidden(s, f) == \E g \in MissedFields(s) : g < f /\ shape.sections[s].fields[g].refuses

OfStruct(s) ==
    LET before(f) == \A g \in Refusals(s) : OrderOf(s, f) <= OrderOf(s, g) IN
    {Problem(<<s, f>>, shape.sections[s].fields[f].is) : f \in {f \in Fields(s) : before(f) /\ shape.sections[s].fields[f].is \in {"ill", "refused"}}}
    \cup (IF Refusals(s) # {} THEN {} ELSE {Problem(<<s, f>>, "missing") : f \in {f \in MissedFields(s) : ~Hidden(s, f)}})

\* A section the type cannot go on without: it needs it, and its read ended or its placeholder is refused.
Stopper(s) ==
    LET section == shape.sections[s] IN
    IF section.struct
    THEN section.needed /\ IF section.here THEN Refusals(s) # {} \/ \E f \in MissedFields(s) : section.fields[f].refuses
                           ELSE \E f \in Fields(s) : section.fields[f].needed /\ section.fields[f].refuses
    ELSE section.leaf.needed /\ (section.leaf.is = "refused" \/ (section.leaf.is = "absent" /\ section.leaf.refuses))

Needed(s) == IF shape.sections[s].struct THEN shape.sections[s].needed ELSE shape.sections[s].leaf.needed

Expected ==
    UNION {IF shape.sections[s].struct THEN (IF Here(s) THEN OfStruct(s) ELSE {})
           ELSE IF shape.sections[s].leaf.is \in {"ill", "refused"} THEN {Problem(<<s>>, shape.sections[s].leaf.is)} ELSE {} : s \in Sections}
    \cup {Problem(<<s>>, "missing") : s \in {s \in Sections : Needed(s) /\ ~Here(s) /\ ~\E t \in 1..(s - 1) : Stopper(t)}}
    \cup (IF shape.stray /\ shape.deny THEN {Problem(<<0>>, "unknown")} ELSE {})

Given == {<<s>> : s \in {s \in Sections : ~shape.sections[s].struct /\ Here(s)}}
         \cup UNION {{<<s, f>> : f \in {f \in Fields(s) : shape.sections[s].here /\ shape.sections[s].fields[f].is # "absent"}} :
                     s \in {s \in Sections : shape.sections[s].struct}}

\* A read that settles reports exactly the problems the documentation promises, each once, and answers a
\* value only when there are none; every leaf of a value it answers counts as read. A read the cap cut has
\* added as many as the cap allows, answers no value and reports only true problems, each once.
ReportExact ==
    /\ settled # "no" => Cardinality(Range(Report)) = Len(Report)
    /\ settled = "yes" => Range(Report) = Expected /\ (Value <=> Expected = {}) /\ (Value => consumed = Given)
    /\ settled = "cut" => Range(Report) \subseteq Expected /\ ~Value /\ Len(patches) + Cardinality(skipped) = MaxPasses
===============================================================================
