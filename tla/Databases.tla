------------------------------ MODULE Databases ------------------------------
(***************************************************************************)
(* The databases: the create loop, the migration lock and the Diesel pool. *)
(* Each part below has its own constants, variables, Init and Next, and    *)
(* shares no state with the others.                                        *)
(***************************************************************************)
EXTENDS Naturals, FiniteSets

-------------------------------------------------------------------------------
(***************************************************************************)
(* A store's client is built (ulo-db/src/connect.rs, `create`): the        *)
(* runtime's name, then one `create`, or for options whose `create`        *)
(* connects the retry loop under the connect bound, which the binding's    *)
(* own construction bound shares.  The runtime may shut down at any time   *)
(* and then refuses timers.                                                *)
(***************************************************************************)

CONSTANTS
  Policies,    \* what is tried: [name, connects, within, retries, backoff]
  MaxNow       \* bound on the clock

VARIABLES
  policy, now,
  shut,        \* the runtime has shut down
  at,          \* where the future is
  made,        \* attempts made
  wakes,       \* when the backoff ends
  task,        \* an attempt's task is running on the runtime
  last,        \* how the last attempt ended
  told,        \* what the construction answered
  toldAt       \* and when

cvars == <<policy, now, shut, at, made, wakes, task, last, told, toldAt>>

CreateInit ==
  /\ policy \in Policies
  /\ now = 0 /\ shut = FALSE
  /\ at = "start" /\ made = 0 /\ wakes = 0 /\ task = FALSE
  /\ last = "none" /\ told = "none" /\ toldAt = 0

Ends == policy.within

\* The future answers; dropping what it held aborts an attempt (`Attached`).
Answers(what) ==
  /\ at' = "done" /\ task' = FALSE
  /\ told' = what /\ toldAt' = now

\* The name is compared before anything is built.
RequireTokio ==
  /\ at = "start"
  /\ policy.name # "tokio"
  /\ Answers("unsupported")
  /\ UNCHANGED <<policy, now, shut, made, wakes, last>>

\* One `S::create` in a task on the given runtime.
CreateOnce ==
  /\ \/ at = "start" /\ policy.name = "tokio"
     \/ at = "backoff" /\ now >= wakes /\ (~shut \/ policy.backoff = 0)
  /\ at' = "attempt" /\ task' = TRUE /\ made' = made + 1
  /\ UNCHANGED <<policy, now, shut, wakes, last, told, toldAt>>

\* The errors after which the loop makes no further attempt.
EndsLoop(o) == ~policy.connects \/ o \in {"permanent", "panicked"} \/ made > policy.retries

\* The attempt's task ended.
Attempted(o) ==
  /\ at = "attempt"
  /\ task' = FALSE /\ last' = o
  /\ IF o = "ok" \/ EndsLoop(o)
     THEN /\ at' = "done" /\ told' = (IF o = "ok" THEN "client" ELSE "error") /\ toldAt' = now
          /\ wakes' = wakes
     ELSE /\ at' = "backoff" /\ wakes' = now + policy.backoff
          /\ UNCHANGED <<told, toldAt>>
  /\ UNCHANGED <<policy, now, shut, made>>

\* The runtime refuses the wait between attempts: past the bound the future
\* stays pending for the construction's bound to report.
BackoffRefused ==
  /\ at = "backoff" /\ shut /\ policy.backoff > 0
  /\ IF now >= Ends
     THEN at' = "pending" /\ task' = FALSE /\ UNCHANGED <<told, toldAt>>
     ELSE Answers("shutdown")
  /\ UNCHANGED <<policy, now, shut, made, wakes, last>>

\* The loop's own bound: its expiry drops the loop, attempt and all, and
\* waits for the construction's; a refusal before it is a shutdown.
BoundPasses ==
  /\ policy.connects /\ at \in {"attempt", "backoff"}
  /\ \/ /\ now >= Ends
        /\ at' = "pending" /\ task' = FALSE /\ UNCHANGED <<told, toldAt>>
     \/ /\ shut /\ now < Ends
        /\ Answers("shutdown")
  /\ UNCHANGED <<policy, now, shut, made, wakes, last>>

\* The binding's construction bound, of the same length when `create`
\* connects.
ConstructionExpires ==
  /\ at \in {"attempt", "backoff", "pending"}
  /\ now >= Ends
  /\ Answers("expired")
  /\ UNCHANGED <<policy, now, shut, made, wakes, last>>

TimePasses ==
  /\ at # "done" /\ now < MaxNow
  /\ now' = now + 1
  /\ UNCHANGED <<policy, shut, at, made, wakes, task, last, told, toldAt>>

RuntimeShutsDown ==
  /\ ~shut /\ at # "done" /\ shut' = TRUE
  /\ UNCHANGED <<policy, now, at, made, wakes, task, last, told, toldAt>>

CreateNext ==
  \/ RequireTokio \/ CreateOnce \/ (\E o \in {"ok", "bare", "permanent", "panicked"} : Attempted(o))
  \/ BackoffRefused \/ BoundPasses \/ ConstructionExpires \/ TimePasses \/ RuntimeShutsDown

CreateSpec == CreateInit /\ [][CreateNext]_cvars

-----------------------------------------------------------------------------

\* What the start is told is what happened: the bound passing is reported
\* only once it passed, a runtime's shutdown never in its place, an error
\* only when no attempt was left, and no attempt outlives the answer or
\* follows an error that only the operator can mend.
CreateTold ==
  /\ told = "expired" => toldAt >= Ends
  /\ told = "shutdown" => shut /\ toldAt < Ends
  /\ told = "error" => last \in {"permanent", "panicked"} \/ ~policy.connects \/ made > policy.retries
  /\ told # "none" => ~task
  /\ at \in {"backoff", "attempt"} => last \in {"none", "bare"}
  /\ made <= policy.retries + 1

-------------------------------------------------------------------------------
(***************************************************************************)
(* The migration step of a store module (ulo-db/src/migrate.rs) run by     *)
(* several replicas against one database: the wait for the lock, the       *)
(* migrator, the release, and the ways each of them is cut.                *)
(*                                                                         *)
(* A replica's steps run in one task.  Ending it early drops the guard and *)
(* whatever future is running.  What the drop leaves behind depends on the *)
(* store: a server closes the session some time later, the SQLite lock     *)
(* thread polls on to its last attempt, and a Diesel migrator keeps        *)
(* running on its blocking thread.                                         *)
(***************************************************************************)

CONSTANTS
  Replicas,    \* the processes that start on one database
  Stores,      \* the stores tried: [engine, lib]
  MaxStarts    \* starts each replica makes

VARIABLES
  store,       \* the store in use
  step,        \* replica -> where its migration task is
  outcome,     \* replica -> how its last start ended
  session,     \* replica -> the lock connection or lock thread it opened
  lock,        \* the replica whose session holds the lock, or NoOne
  closureWork,        \* replica -> what its migrator is doing
  version,     \* the version table says the migrations were applied
  applied,     \* replicas whose present start ran a migration body
  starts       \* starts made

mvars == <<store, step, outcome, session, lock, closureWork, version, applied, starts>>

NoOne == "nobody"

Replica == Replicas

\* The sidecar is an OS lock: closing the file or the process frees it at
\* once.  A server frees a session's lock when it sees the connection close.
FileLock == store.engine = "sqlite"

\* `diesel_migrations` runs in a closure on the blocking pool.
Blocking == store.lib = "diesel"

MigrationsInit ==
  /\ store \in Stores
  /\ step = [r \in Replica |-> "idle"]
  /\ outcome = [r \in Replica |-> "none"]
  /\ session = [r \in Replica |-> "none"]
  /\ lock = NoOne
  /\ closureWork = [r \in Replica |-> "none"]
  /\ version = FALSE
  /\ applied = {}
  /\ starts = [r \in Replica |-> 0]

Running(r) == closureWork[r] \in {"reading", "applying"}

\* The hook runs: `S::lock` is asked for under the connect bound.
Request(r) ==
  /\ step[r] = "idle"
  /\ starts[r] < MaxStarts
  /\ session[r] = "none"
  /\ ~Running(r)
  /\ step' = [step EXCEPT ![r] = "locking"]
  /\ session' = [session EXCEPT ![r] = "waiting"]
  /\ outcome' = [outcome EXCEPT ![r] = "none"]
  /\ applied' = applied \ {r}
  /\ starts' = [starts EXCEPT ![r] = @ + 1]
  /\ UNCHANGED <<store, lock, closureWork, version>>

\* The lock is granted to a session that waits, its caller there or not.
Granted(r) ==
  /\ lock = NoOne
  /\ session[r] \in {"waiting", "orphan"}
  /\ lock' = r
  /\ session' = [session EXCEPT ![r] = IF @ = "waiting" THEN "held" ELSE "orphanHeld"]
  /\ UNCHANGED <<store, step, outcome, closureWork, version, applied, starts>>

\* The guard arrives in the task, which calls the migrator.
RunMigrations(r) ==
  /\ step[r] = "locking"
  /\ session[r] = "held"
  /\ step' = [step EXCEPT ![r] = "migrating"]
  /\ closureWork' = [closureWork EXCEPT ![r] = "reading"]
  /\ UNCHANGED <<store, outcome, session, lock, version, applied, starts>>

\* What becomes of a session whose guard or whose future is dropped.
Dropped(s) == IF s = "held" THEN "orphanHeld" ELSE IF s = "waiting" THEN "orphan" ELSE s

\* A file closed with its guard frees the lock there; a lock thread that is
\* still polling, or about to send a file to a dropped receiver, goes on.
GuardDropped(r) ==
  IF FileLock /\ session[r] = "held" /\ step[r] # "locking"
  THEN /\ session' = [session EXCEPT ![r] = "none"]
       /\ lock' = NoOne
  ELSE /\ session' = [session EXCEPT ![r] = Dropped(@)]
       /\ lock' = lock

\* A dropped migrator: a future stops where it stands, a closure on the
\* blocking pool runs to its end.
MigratorDropped(r) == closureWork' = [closureWork EXCEPT ![r] = IF Blocking /\ Running(r) THEN @ ELSE "none"]

StartEnds(r, o) ==
  /\ step' = [step EXCEPT ![r] = "ended"]
  /\ outcome' = [outcome EXCEPT ![r] = o]

\* The store's own wait runs out, on the server or at the lock thread's last
\* attempt: `LockTimedOut`, which Diesel's Postgres lock does not make of the
\* server's `lock_timeout`.
LockTimedOut(r) ==
  /\ step[r] = "locking"
  /\ session[r] = "waiting"
  /\ lock # NoOne
  /\ StartEnds(r, IF Blocking /\ store.engine = "postgres" THEN "LockStep" ELSE "LockWait")
  /\ session' = [session EXCEPT ![r] = "none"]
  /\ UNCHANGED <<store, lock, closureWork, version, applied, starts>>

\* Any other error of the lock step, as the store's classifier reads it.
LockFailed(r) ==
  /\ step[r] = "locking"
  /\ session[r] = "waiting"
  /\ \E o \in {"LockStep", "No"} : StartEnds(r, o)
  /\ session' = [session EXCEPT ![r] = "none"]
  /\ UNCHANGED <<store, lock, closureWork, version, applied, starts>>

\* The task's clock for the lock reaches the bound first, or the runtime
\* refuses the timer.
LockExpired(r) ==
  /\ step[r] = "locking"
  /\ \E o \in {"LockWait", "No"} : StartEnds(r, o)
  /\ GuardDropped(r)
  /\ UNCHANGED <<store, closureWork, version, applied, starts>>

\* The migrator reads the version table, then applies what is pending and
\* writes the table, failing on its key when another wrote it meanwhile.
MigratorReads(r) ==
  /\ closureWork[r] = "reading"
  /\ closureWork' = [closureWork EXCEPT ![r] = IF version THEN "ok" ELSE "applying"]
  /\ applied' = IF version THEN applied ELSE applied \cup {r}
  /\ UNCHANGED <<store, step, outcome, session, lock, version, starts>>

MigratorApplies(r) ==
  /\ closureWork[r] = "applying"
  /\ \E fails \in BOOLEAN :
       /\ closureWork' = [closureWork EXCEPT ![r] = IF fails \/ version THEN "failed" ELSE "ok"]
       /\ version' = (version \/ ~fails)
  /\ UNCHANGED <<store, step, outcome, session, lock, applied, starts>>

\* The migrator returned; the lock is released whether it succeeded or not.
Unlock(r) ==
  /\ step[r] = "migrating"
  /\ closureWork[r] \in {"ok", "failed"}
  /\ step' = [step EXCEPT ![r] = "unlocking"]
  /\ UNCHANGED <<store, outcome, session, lock, closureWork, version, applied, starts>>

\* `unlock` finished: the task answers what the migrator returned.
Unlocked(r) ==
  /\ step[r] = "unlocking"
  /\ StartEnds(r, IF closureWork[r] = "ok" THEN "ok" ELSE "No")
  /\ closureWork' = [closureWork EXCEPT ![r] = "none"]
  /\ session' = [session EXCEPT ![r] = "none"]
  /\ lock' = NoOne
  /\ UNCHANGED <<store, version, applied, starts>>

\* The release outlasts its bound and the guard is dropped instead.
UnlockExpired(r) ==
  /\ step[r] = "unlocking"
  /\ StartEnds(r, IF closureWork[r] = "ok" THEN "ok" ELSE "No")
  /\ closureWork' = [closureWork EXCEPT ![r] = "none"]
  /\ GuardDropped(r)
  /\ UNCHANGED <<store, version, applied, starts>>

\* `migrate_within` passes: the migrator's future and the guard are dropped.
MigrationTimedOut(r) ==
  /\ step[r] = "migrating"
  /\ StartEnds(r, "No")
  /\ GuardDropped(r)
  /\ MigratorDropped(r)
  /\ UNCHANGED <<store, version, applied, starts>>

\* The start is dropped: `Attached` aborts the task, which drops it all.
Aborted(r) ==
  /\ step[r] \in {"locking", "migrating", "unlocking"}
  /\ StartEnds(r, "aborted")
  /\ GuardDropped(r)
  /\ MigratorDropped(r)
  /\ UNCHANGED <<store, version, applied, starts>>

\* The process dies with its threads; a server sees the connection close.
Crashed(r) ==
  /\ step[r] # "idle"
  /\ StartEnds(r, "aborted")
  /\ closureWork' = [closureWork EXCEPT ![r] = "none"]
  /\ IF FileLock
     THEN /\ session' = [session EXCEPT ![r] = "none"]
          /\ lock' = IF lock = r THEN NoOne ELSE lock
     ELSE /\ session' = [session EXCEPT ![r] = Dropped(@)]
          /\ lock' = lock
  /\ UNCHANGED <<store, version, applied, starts>>

\* A detached closure's result is thrown away.
ClosureEnds(r) ==
  /\ step[r] \in {"idle", "ended"}
  /\ closureWork[r] \in {"ok", "failed"}
  /\ closureWork' = [closureWork EXCEPT ![r] = "none"]
  /\ UNCHANGED <<store, step, outcome, session, lock, version, applied, starts>>

\* The session nobody waits for ends: the server closes it, or the lock
\* thread makes its last attempt or finds its receiver dropped.  What it
\* held is free.
OrphanEnds(r) ==
  /\ session[r] \in {"orphan", "orphanHeld"}
  /\ session' = [session EXCEPT ![r] = "none"]
  /\ lock' = IF session[r] = "orphanHeld" THEN NoOne ELSE lock
  /\ UNCHANGED <<store, step, outcome, closureWork, version, applied, starts>>

\* A start that failed, or was cut, is made again.
Restart(r) ==
  /\ step[r] = "ended"
  /\ outcome[r] # "ok"
  /\ step' = [step EXCEPT ![r] = "idle"]
  /\ UNCHANGED <<store, outcome, session, lock, closureWork, version, applied, starts>>

MigrationStep(r) ==
  \/ Request(r) \/ Granted(r) \/ RunMigrations(r)
  \/ LockTimedOut(r) \/ LockFailed(r) \/ LockExpired(r)
  \/ MigratorReads(r) \/ MigratorApplies(r)
  \/ Unlock(r) \/ Unlocked(r) \/ UnlockExpired(r)
  \/ MigrationTimedOut(r) \/ Aborted(r) \/ Crashed(r)
  \/ ClosureEnds(r) \/ OrphanEnds(r) \/ Restart(r)

MigrationsNext == \E r \in Replicas : MigrationStep(r)

\* Sessions end and migrators return by themselves; the task is polled.
MigrationsFairness ==
  \A r \in Replicas :
    /\ WF_mvars(RunMigrations(r) \/ Unlock(r) \/ Unlocked(r))
    /\ WF_mvars(MigratorReads(r) \/ MigratorApplies(r) \/ ClosureEnds(r))
    /\ WF_mvars(OrphanEnds(r))

MigrationsSpec == MigrationsInit /\ [][MigrationsNext]_mvars /\ MigrationsFairness

-----------------------------------------------------------------------------

\* The lock is held around the migrator: two replicas never run the
\* migrations of one database at once (`Migrations`: "`StoreModule` holds
\* `MigrationLock`'s lock around `run`"), whatever drops a start on the way.
MigratorsExclusive == \A r, s \in Replicas : Running(r) /\ Running(s) => r = s

\* A start that reports success serves a migrated database, and a failure
\* that says a retry can mend it ran no migration body in that start: once
\* the lock is held every failure is permanent.
OutcomeTrue ==
  \A r \in Replicas :
    /\ outcome[r] = "ok" => version
    /\ outcome[r] \in {"LockWait", "LockStep"} => r \notin applied

\* A start is over and the lock is still its own.
EndedHolding(r) == step[r] = "ended" /\ lock = r

-------------------------------------------------------------------------------
(***************************************************************************)
(* The Diesel SQLite pool (ulo-db-diesel/src/store.rs).  Every connection  *)
(* is opened and used by closures on the runtime's blocking pool, which    *)
(* cannot be stopped once they run.  A call's future may be dropped while  *)
(* its closure runs; `Joined` then waits for the closure, except on a      *)
(* current-thread runtime, before the connection goes back to the pool.    *)
(* deadpool itself (permits, idle connections, the recycle check) is       *)
(* external and modelled from its use.                                     *)
(***************************************************************************)

CONSTANTS PoolCallers,   \* tasks that use the pool
          Slots,         \* names of connections
          MaxSize        \* the pool's `max_size`

VARIABLES conns,         \* Slots -> "none" | "opening" | "out" | "idle"
          work,          \* connections a closure on the blocking pool holds
          caller,        \* PoolCallers -> what its future is doing
          uses,          \* PoolCallers -> the connection it has, or "none"
          closing,       \* "no" | "called" (closure spawned) | "closed"
          window         \* a drop on a current-thread runtime left a closure running

poolVars == <<conns, work, caller, uses, closing, window>>

\* `create` connects nothing: it reads the runtime's handle and builds an empty pool.
PoolInit ==
  /\ conns = [c \in Slots |-> "none"]
  /\ work = {}
  /\ caller = [k \in PoolCallers |-> "idle"]
  /\ uses = [k \in PoolCallers |-> "none"]
  /\ closing = "no"
  /\ window = FALSE

Permits == MaxSize - Cardinality({k \in PoolCallers : uses[k] # "none"})

Idle == {c \in Slots : conns[c] = "idle"}

\* The pool's recycle check needs the connection unshared, and panics where a closure has it.
Recycle(k, c) ==
  /\ caller' = [caller EXCEPT ![k] = IF c \in work THEN "panicked" ELSE "holds"]
  /\ uses' = [uses EXCEPT ![k] = IF c \in work THEN "none" ELSE c]
  /\ conns' = [conns EXCEPT ![c] = IF c \in work THEN "none" ELSE "out"]
  /\ UNCHANGED work

\* No idle connection: `establish` spawns the closure that opens one.
Establish(k, c) ==
  /\ conns[c] = "none" /\ c \notin work
  /\ caller' = [caller EXCEPT ![k] = "waits"]
  /\ uses' = [uses EXCEPT ![k] = c]
  /\ conns' = [conns EXCEPT ![c] = "opening"]
  /\ work' = work \cup {c}

Get(k) ==
  /\ caller[k] = "idle" /\ closing # "closed" /\ Permits > 0
  /\ \/ \E c \in Idle : Recycle(k, c)
     \/ Idle = {} /\ \E c \in Slots : Establish(k, c)
  /\ UNCHANGED <<closing, window>>

\* A statement runs in a closure with a clone of the connection's `Arc<Mutex<_>>`.
SpawnBlocking(k) ==
  /\ caller[k] = "holds"
  /\ caller' = [caller EXCEPT ![k] = "waits"]
  /\ work' = work \cup {uses[k]}
  /\ UNCHANGED <<conns, uses, closing, window>>

PoolClosureEnds(c) ==
  /\ c \in work
  /\ work' = work \ {c}
  /\ UNCHANGED <<conns, caller, uses, closing, window>>

\* The caller's future reads its closure's end; opening a connection may have failed.
JoinedPoll(k) ==
  /\ caller[k] = "waits" /\ uses[k] \notin work
  /\ \/ /\ caller' = [caller EXCEPT ![k] = "holds"]
        /\ conns' = [conns EXCEPT ![uses[k]] = "out"]
        /\ UNCHANGED uses
     \/ /\ conns[uses[k]] = "opening"
        /\ caller' = [caller EXCEPT ![k] = "idle"]
        /\ conns' = [conns EXCEPT ![uses[k]] = "none"]
        /\ uses' = [uses EXCEPT ![k] = "none"]
  /\ UNCHANGED <<work, closing, window>>

\* The caller lets its connection go: to the pool, or closed with it once the pool is closed.
LetGo(k) ==
  /\ conns' = [conns EXCEPT ![uses[k]] =
                 IF conns[uses[k]] = "out" /\ closing # "closed" THEN "idle" ELSE "none"]
  /\ uses' = [uses EXCEPT ![k] = "none"]
  /\ caller' = [caller EXCEPT ![k] = "idle"]

Return(k) ==
  /\ caller[k] = "holds"
  /\ LetGo(k)
  /\ UNCHANGED <<work, closing, window>>

\* The caller's future is dropped on a thread of no runtime, of a multi-thread one or of a
\* current-thread one.  A finished closure, or a current-thread runtime, is not waited for.
JoinedDrops(k, thread) ==
  /\ caller[k] = "waits"
  /\ IF uses[k] \notin work \/ thread = "current"
       THEN LetGo(k) /\ window' = (window \/ uses[k] \in work)
       ELSE /\ caller' = [caller EXCEPT ![k] = "blocked"]
            /\ UNCHANGED <<conns, uses, window>>
  /\ UNCHANGED <<work, closing>>

\* The blocked drop returns, and the connection goes where it would have gone.
JoinedDropped(k) ==
  /\ caller[k] = "blocked" /\ uses[k] \notin work
  /\ LetGo(k)
  /\ UNCHANGED <<work, closing, window>>

\* The pool's `close`: it drops the idle connections where it runs.
PoolCloses ==
  /\ closing' = "closed"
  /\ conns' = [c \in Slots |-> IF conns[c] = "idle" THEN "none" ELSE conns[c]]
  /\ UNCHANGED <<work, caller, uses, window>>

\* `close` runs the call on the blocking pool, or where it is outside any runtime.
Close ==
  /\ closing = "no"
  /\ \/ closing' = "called" /\ UNCHANGED <<conns, work, caller, uses, window>>
     \/ PoolCloses

\* The closure of `Given::run` runs to its end, its future dropped by the hook's bound or not.
CloseRuns == closing = "called" /\ PoolCloses

DieselPoolNext ==
  \/ \E k \in PoolCallers :
       \/ Get(k) \/ SpawnBlocking(k) \/ JoinedPoll(k) \/ Return(k) \/ JoinedDropped(k)
       \/ \E thread \in {"none", "multi", "current"} : JoinedDrops(k, thread)
  \/ \E c \in Slots : PoolClosureEnds(c)
  \/ Close
  \/ CloseRuns

DieselPoolSpec == PoolInit /\ [][DieselPoolNext]_poolVars /\ WF_poolVars(CloseRuns)

(***************************************************************************)
(* Unless a future was dropped on a current-thread runtime (the window the *)
(* comment on `Joined` leaves open), no caller meets a connection that is  *)
(* still shared with a closure, and the connections open or being opened   *)
(* never exceed `max_size`: a dropped future gives its place back only     *)
(* when its closure is over.  None comes back to a pool that was closed.   *)
(***************************************************************************)
PoolUnshared ==
  /\ closing = "closed" => Idle = {}
  /\ \/ window
     \/ /\ \A k \in PoolCallers : caller[k] # "panicked"
        /\ Cardinality({c \in Slots : conns[c] # "none" \/ c \in work}) <= MaxSize

\* `close` was called; it has run, its future dropped by the hook's bound or not.
PoolClosing == closing # "no"
PoolClosed == closing = "closed"
===============================================================================
