-------------------------------- MODULE Health --------------------------------
(***************************************************************************)
(* Readiness and its gRPC bridge (ulo-health readiness.rs, run.rs,         *)
(* module.rs; ulo-health-grpc; GrpcHealth of ulo-grpc/src/health.rs):      *)
(* probes share the run of checks in flight, the before-shutdown hook      *)
(* turns readiness false and wakes the subscribers, and the bridge's task  *)
(* copies readiness to the overall gRPC status, which the bridge's hook    *)
(* and the server's drain write too. A spent shutdown cap skips hooks.     *)
(* The liveness slot is the readiness slot over again and is left out.     *)
(***************************************************************************)
EXTENDS Naturals

CONSTANTS
    Probers,   \* callers of Readiness::readiness other than the bridge
    Bridge,    \* the bridge's task, which calls it too
    MaxRuns,   \* runs of the checks
    Intervals, \* the intervals considered: "every", "none" (Unbounded)
    CapSpent   \* whether the shutdown cap may be spent before the hooks

VARIABLES
    stopping,  \* State::stopping
    runs,      \* run id -> [sample, done], 0 standing for no run
    slot,      \* the id of the run in the slot, 0 for none
    waiters,   \* its count of probes
    nextRun,
    prober,    \* "idle", "entering", "joined", "reported", "asked" (the bridge, before it asks)
    joined,    \* the run each probe awaits
    report,    \* the report each probe took
    lateJoin,  \* some probe was handed a run that had finished
    answeredUp,\* some probe was answered ready after Stopping was recorded
    generation, wakerHeld, notice,  \* the subscriber: its waker registered, "poll", "checked", "listening", "pending", "ready"; "none"
    stopStep,  \* Readiness::stop: "no", "swapped", "bumped", "done"; "skipped"
    interval, task, sawStopping, verdict, \* the bridge's task
    bridgeHook,\* "no", "joining", "writing", "done", "skipped"
    status,    \* the overall status GrpcHealth holds
    drained    \* the server's drain has written its floor

probeVars == <<runs, slot, waiters, nextRun, prober, joined, report, lateJoin, answeredUp>>
noticeVars == <<generation, wakerHeld, notice, stopStep, stopping>>
bridgeVars == <<interval, task, sawStopping, verdict, bridgeHook, status, drained>>
healthVars == <<probeVars, noticeVars, bridgeVars>>

Callers == Probers \cup {Bridge}

HealthInit ==
    /\ stopping = FALSE
    /\ runs = [i \in 0..MaxRuns |-> [sample |-> "none", done |-> i = 0]] /\ slot = 0 /\ waiters = 0 /\ nextRun = 1
    /\ prober = [p \in Callers |-> "idle"] /\ joined = [p \in Callers |-> 0] /\ report = [p \in Callers |-> "none"]
    /\ lateJoin = FALSE /\ answeredUp = FALSE
    /\ generation = 0 /\ wakerHeld = FALSE /\ stopStep = "no"
    /\ \/ notice = "poll" /\ task = "ended"    \* an app with a subscriber
       \/ notice = "none" /\ task = "read"     \* an app with the bridge
    /\ interval \in Intervals /\ sawStopping = FALSE /\ verdict = "none"
    /\ bridgeHook = "no" /\ status = "serving" /\ drained = FALSE

-----------------------------------------------------------------------------
\* readiness: Stopping answers down without a run.
Ask(p) ==
    /\ prober[p] = (IF p = Bridge THEN "asked" ELSE "idle")
    /\ IF stopping
       THEN prober' = [prober EXCEPT ![p] = "reported"] /\ report' = [report EXCEPT ![p] = "down"]
       ELSE prober' = [prober EXCEPT ![p] = "entering"] /\ UNCHANGED report
    /\ UNCHANGED <<runs, slot, waiters, nextRun, joined, lateJoin, answeredUp, noticeVars, bridgeVars>>

\* Runner::join: the run in flight, or a new one when none is or the one there has finished.
Join(p) ==
    /\ prober[p] = "entering" /\ prober' = [prober EXCEPT ![p] = "joined"]
    /\ \/ /\ ~runs[slot].done
          /\ joined' = [joined EXCEPT ![p] = slot] /\ waiters' = waiters + 1
          /\ UNCHANGED <<slot, nextRun>>
       \/ /\ runs[slot].done
          /\ nextRun <= MaxRuns
          /\ slot' = nextRun /\ nextRun' = nextRun + 1 /\ waiters' = 1 /\ joined' = [joined EXCEPT ![p] = nextRun]
    /\ lateJoin' = (lateJoin \/ runs[joined'[p]].done)
    /\ UNCHANGED <<runs, report, answeredUp, noticeVars, bridgeVars>>

\* run_one: an answer; a panic and a bound that passes read as down.
Sample(i) ==
    /\ \E p \in Callers : prober[p] = "joined" /\ joined[p] = i
    /\ \/ /\ runs[i].sample = "none"
          /\ \E health \in {"up", "down"} : runs' = [runs EXCEPT ![i].sample = health]
       \/ runs[i].sample # "none" /\ ~runs[i].done /\ runs' = [runs EXCEPT ![i].done = TRUE]
    /\ UNCHANGED <<slot, waiters, nextRun, prober, joined, report, lateJoin, answeredUp, noticeVars, bridgeVars>>

\* Runner::leave: a waiter of the run in the slot; the last clears it.
Leave(p) ==
    /\ joined' = [joined EXCEPT ![p] = 0]
    /\ waiters' = IF slot = joined[p] THEN waiters - 1 ELSE waiters
    /\ slot' = IF slot = joined[p] /\ waiters = 1 THEN 0 ELSE slot

TakeReport(p) ==
    /\ prober[p] = "joined" /\ runs[joined[p]].done
    /\ prober' = [prober EXCEPT ![p] = "reported"] /\ report' = [report EXCEPT ![p] = runs[joined[p]].sample]
    /\ Leave(p)
    /\ UNCHANGED <<runs, nextRun, lateJoin, answeredUp, noticeVars, bridgeVars>>

\* The probe's future dropped: its Waiter leaves.
GiveUp(p) ==
    /\ p # Bridge /\ prober[p] = "joined"
    /\ prober' = [prober EXCEPT ![p] = "idle"] /\ Leave(p)
    /\ UNCHANGED <<runs, nextRun, report, lateJoin, answeredUp, noticeVars, bridgeVars>>

\* readiness, its last line: Stopping read again.
Answered(p) == IF stopping THEN "down" ELSE report[p]

Answer(p) ==
    /\ p # Bridge /\ prober[p] = "reported" /\ prober' = [prober EXCEPT ![p] = "idle"]
    /\ report' = [report EXCEPT ![p] = "none"]
    /\ answeredUp' = (answeredUp \/ (stopping /\ Answered(p) = "up"))
    /\ UNCHANGED <<runs, slot, waiters, nextRun, joined, lateJoin, noticeVars, bridgeVars>>

-----------------------------------------------------------------------------
\* The health module's hook, Readiness::stop, step by step; skipped by a spent cap.
StopSwap ==
    /\ stopStep = "no" /\ stopStep' = "swapped" /\ stopping' = TRUE
    /\ UNCHANGED <<generation, wakerHeld, notice, probeVars, bridgeVars>>

StopBump ==
    /\ stopStep = "swapped" /\ stopStep' = "bumped" /\ generation' = generation + 1
    /\ UNCHANGED <<stopping, wakerHeld, notice, probeVars, bridgeVars>>

StopWake ==
    /\ stopStep = "bumped" /\ stopStep' = "done" /\ wakerHeld' = FALSE
    /\ notice' = IF wakerHeld /\ notice = "pending" THEN "poll" ELSE notice
    /\ UNCHANGED <<stopping, generation, probeVars, bridgeVars>>

StopSkipped ==
    /\ CapSpent /\ stopStep = "no" /\ stopStep' = "skipped"
    /\ UNCHANGED <<stopping, generation, wakerHeld, notice, probeVars, bridgeVars>>

\* poll_changed: read, register, read again. A waker taken between them leaves the task runnable.
NoticePoll ==
    /\ \/ notice = "poll" /\ notice' = (IF generation # 0 THEN "ready" ELSE "checked") /\ UNCHANGED wakerHeld
       \/ notice = "checked" /\ notice' = "listening" /\ wakerHeld' = TRUE
       \/ /\ notice = "listening" /\ UNCHANGED wakerHeld
          /\ notice' = IF generation # 0 THEN "ready" ELSE IF wakerHeld THEN "pending" ELSE "poll"
    /\ UNCHANGED <<stopping, generation, stopStep, probeVars, bridgeVars>>

-----------------------------------------------------------------------------
\* reevaluate
TaskRuns == task \notin {"ended", "refused"}

TaskReads ==
    /\ task = "read" /\ task' = "evaluating" /\ sawStopping' = stopping
    /\ prober' = [prober EXCEPT ![Bridge] = "asked"]
    /\ UNCHANGED <<runs, slot, waiters, nextRun, joined, report, lateJoin, answeredUp, noticeVars, interval, verdict, bridgeHook, status, drained>>

TaskEvaluated ==
    /\ task = "evaluating" /\ prober[Bridge] = "reported"
    /\ task' = "write" /\ verdict' = Answered(Bridge) /\ prober' = [prober EXCEPT ![Bridge] = "idle"]
    /\ report' = [report EXCEPT ![Bridge] = "none"]
    /\ UNCHANGED <<runs, slot, waiters, nextRun, joined, lateJoin, answeredUp, noticeVars, interval, sawStopping, bridgeHook, status, drained>>

TaskWrites ==
    /\ task = "write" /\ status' = IF verdict = "up" THEN "serving" ELSE "not"
    /\ task' = IF sawStopping THEN "ended"
               ELSE IF interval = "every" THEN "sleeping" ELSE IF stopping THEN "read" ELSE "ended"
    /\ sawStopping' = FALSE /\ verdict' = "none"
    /\ UNCHANGED <<probeVars, noticeVars, interval, bridgeHook, drained>>

\* The interval over, or refused by a runtime that has shut down.
TaskSlept ==
    /\ task = "sleeping" /\ \E to \in {"read", "refused"} : task' = to
    /\ UNCHANGED <<probeVars, noticeVars, interval, sawStopping, verdict, bridgeHook, status, drained>>

\* Bridge::stop: the task taken and its abort asked; awaited to its end; then the write.
BridgeStop ==
    /\ bridgeHook = "no" /\ bridgeHook' = "joining"
    /\ UNCHANGED <<probeVars, noticeVars, interval, task, sawStopping, verdict, status, drained>>

\* The abort takes effect between two polls: the task's future, a probe's place included, drops.
TaskAborted ==
    /\ bridgeHook \in {"joining", "writing", "done"} /\ TaskRuns /\ task' = "ended"
    /\ prober' = [prober EXCEPT ![Bridge] = "idle"]
    /\ IF prober[Bridge] = "joined" THEN Leave(Bridge) ELSE UNCHANGED <<joined, waiters, slot>>
    /\ UNCHANGED <<runs, nextRun, report, lateJoin, answeredUp, noticeVars, interval, sawStopping, verdict, bridgeHook, status, drained>>

BridgeJoined ==
    /\ bridgeHook = "joining" /\ ~TaskRuns /\ bridgeHook' = "writing"
    /\ UNCHANGED <<probeVars, noticeVars, interval, task, sawStopping, verdict, status, drained>>

BridgeWrites ==
    /\ bridgeHook = "writing" /\ bridgeHook' = "done" /\ status' = "not"
    /\ UNCHANGED <<probeVars, noticeVars, interval, task, sawStopping, verdict, drained>>

BridgeSkipped ==
    /\ CapSpent /\ bridgeHook = "no" /\ bridgeHook' = "skipped"
    /\ UNCHANGED <<probeVars, noticeVars, interval, task, sawStopping, verdict, status, drained>>

\* The drain, after the hook step: GrpcHealth::set_at_drain.
DrainWrites ==
    /\ ~drained /\ stopStep \in {"done", "skipped"} /\ bridgeHook \in {"done", "skipped"}
    /\ drained' = TRUE /\ status' = "not"
    /\ UNCHANGED <<probeVars, noticeVars, interval, task, sawStopping, verdict, bridgeHook>>

BridgeHook == stopping /\ (BridgeStop \/ BridgeSkipped)

HealthNext ==
    \/ \E i \in 1..MaxRuns : Sample(i)
    \/ \E p \in Callers : Ask(p) \/ Join(p) \/ TakeReport(p) \/ GiveUp(p) \/ Answer(p)
    \/ StopSwap \/ StopBump \/ StopWake \/ StopSkipped \/ NoticePoll
    \/ TaskReads \/ TaskEvaluated \/ TaskWrites \/ TaskSlept \/ TaskAborted
    \/ BridgeStop \/ BridgeJoined \/ BridgeWrites \/ BridgeSkipped \/ DrainWrites

\* The runtime polls what is woken; the core runs its hooks and the drain; every check has a bound.
HealthFairness ==
    /\ WF_healthVars(StopBump) /\ WF_healthVars(StopWake) /\ WF_healthVars(NoticePoll)
    /\ WF_healthVars(TaskAborted) /\ WF_healthVars(BridgeJoined) /\ WF_healthVars(BridgeWrites)
    /\ WF_healthVars(BridgeHook) /\ WF_healthVars(DrainWrites)

HealthSpec == HealthInit /\ [][HealthNext]_healthVars /\ HealthFairness

-----------------------------------------------------------------------------
\* Runner: no probe is handed a run that finished before the probe came, the slot's count is of the
\* probes awaiting that run, so a run is dropped exactly when nobody awaits it, and no probe
\* answers ready once Stopping is recorded.
ProbesShareRuns ==
    /\ ~lateJoin /\ ~answeredUp
    /\ slot # 0 =>
        LET here == {p \in Callers : joined[p] = slot} IN
        /\ here # {} /\ (waiters = 1) = (\E p \in here : here = {p})
    /\ \A p \in Callers : prober[p] = "joined" /\ ~runs[joined[p]].done => slot = joined[p]

\* Bridge::stop: once the hook has written NOT_SERVING the overall status stays NOT_SERVING.
StoppedStatusLast == bridgeHook = "done" => status = "not"

\* Readiness::stop returned; the notice of a subscriber polled meanwhile is ready.
StopDone == stopStep = "done"
NoticeHeard == notice \in {"ready", "none"}
=============================================================================
