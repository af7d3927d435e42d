---------------------------- MODULE DevSupervisor ----------------------------
(***************************************************************************)
(* `ulo dev` (ulo-cli/src/commands/dev.rs): the watcher turns file changes *)
(* and signals into triggers, the supervisor builds and replaces the       *)
(* application, and the application's job (watchexec, external) stops and  *)
(* spawns the process.  With `--listen` the command holds a socket and     *)
(* leaves one duplicate of it for each spawn to take.                      *)
(***************************************************************************)
EXTENDS Naturals, Sequences

CONSTANTS
    MaxEdits,       \* bound on the edits of the source
    MaxFaults,      \* bound on failed builds, starts and crashes together
    Binaries        \* the paths a build may leave the binary at

VARIABLES
    held,           \* Plan::held: whether --listen holds a socket
    source,         \* the source's version
    unseen,         \* an edit the watcher has not reported
    watching,       \* the watcher runs
    triggers,       \* the channel of triggers
    pc,             \* where the supervisor stands
    stale,          \* supervise's `stale`
    reading,        \* the version the build under way began with
    path,           \* the path the last build left the binary at
    tried,          \* the version of the last build that was not superseded
    spare,          \* a duplicate the supervisor holds
    running,        \* Running: the executable, "" for none
    job,            \* the job's control under way, "none", "stop", "spawn"
    handoff,        \* Handoff: a duplicate waits for the spawn
    up,             \* a process of the application runs
    failed,         \* a spawn found no duplicate
    faults

devVars == <<held, source, unseen, watching, triggers, pc, stale, reading, path, tried, spare,
             running, job, handoff, up, failed, faults>>

DevInit ==
    /\ held \in BOOLEAN
    /\ source = 1
    /\ unseen = FALSE
    /\ watching = TRUE
    /\ triggers = <<>>
    /\ pc = "loop"
    /\ stale = TRUE
    /\ reading = 0
    /\ path = ""
    /\ tried = 0
    /\ spare = FALSE
    /\ running = ""
    /\ job = "none"
    /\ handoff = FALSE
    /\ up = FALSE
    /\ failed = FALSE
    /\ faults = 0

Fault == faults < MaxFaults /\ faults' = faults + 1

-----------------------------------------------------------------------------
(* The watcher.                                                            *)

Edit ==
    /\ source < MaxEdits
    /\ source' = source + 1
    /\ unseen' = TRUE
    /\ UNCHANGED <<held, watching, triggers, pc, stale, reading, path, tried, spare, running, job, handoff, up, failed, faults>>

\* A write or a close after one is a change; opening and reading a file is not (`changed`).
Changed ==
    /\ watching
    /\ unseen
    /\ unseen' = FALSE
    /\ triggers' = Append(triggers, "change")
    /\ UNCHANGED <<held, source, watching, pc, stale, reading, path, tried, spare, running, job, handoff, up, failed, faults>>

\* An interrupt, or the watcher ending on an error: either way the supervisor is told to quit.
Quit ==
    /\ watching
    /\ watching' = FALSE
    /\ triggers' = Append(triggers, "quit")
    /\ UNCHANGED <<held, source, unseen, pc, stale, reading, path, tried, spare, running, job, handoff, up, failed, faults>>

-----------------------------------------------------------------------------
(* The supervisor.                                                         *)

Build ==
    /\ pc = "loop"
    /\ stale
    /\ stale' = FALSE
    /\ reading' = source
    /\ pc' = "build"
    /\ UNCHANGED <<held, source, unseen, watching, triggers, path, tried, spare, running, job, handoff, up, failed, faults>>

\* A trigger during the build: a change makes it stale, a quit kills it.
BuildHears ==
    /\ pc = "build"
    /\ triggers # <<>>
    /\ triggers' = Tail(triggers)
    /\ stale' = (stale \/ Head(triggers) = "change")
    /\ pc' = IF Head(triggers) = "quit" THEN "stop" ELSE pc
    /\ UNCHANGED <<held, source, unseen, watching, reading, path, tried, spare, running, job, handoff, up, failed, faults>>

\* A build superseded by a change is built again before anything is replaced; one that failed
\* leaves the application as it is.
BuildEnds ==
    /\ pc = "build"
    /\ \/ /\ stale
          /\ pc' = "loop"
          /\ UNCHANGED <<path, tried, faults>>
       \/ /\ ~stale
          /\ tried' = reading
          /\ \/ pc' = "start" /\ path' \in Binaries /\ UNCHANGED faults
             \/ pc' = "wait" /\ UNCHANGED path /\ Fault
    /\ UNCHANGED <<held, source, unseen, watching, triggers, stale, reading, spare, running, job, handoff, up, failed>>

\* start: the duplicate is made before anything is stopped, and its failure calls the start off.
Duplicated ==
    /\ pc = "start"
    /\ \/ pc' = "place" /\ spare' = held /\ UNCHANGED faults
       \/ held /\ pc' = "wait" /\ UNCHANGED spare /\ Fault
    /\ UNCHANGED <<held, source, unseen, watching, triggers, stale, reading, path, tried, running, job, handoff, up, failed>>

\* The same path keeps its job: the duplicate is left for the spawn, and the restart is awaited.
Restart ==
    /\ pc = "place"
    /\ running = path
    /\ job = "none"
    /\ handoff' = spare
    /\ spare' = FALSE
    /\ job' = "stop"
    /\ pc' = "await"
    /\ UNCHANGED <<held, source, unseen, watching, triggers, stale, reading, path, tried, running, up, failed, faults>>

\* Another path: the old application is stopped and its job deleted, a duplicate it left with it.
Replace ==
    /\ pc = "place"
    /\ running # path
    /\ running' = ""
    /\ up' = FALSE
    /\ handoff' = FALSE
    /\ pc' = "command"
    /\ UNCHANGED <<held, source, unseen, watching, triggers, stale, reading, path, tried, spare, job, failed, faults>>

\* The new job's command may not be written (a path that is not UTF-8 with a socket held).
Start ==
    /\ pc = "command"
    /\ spare' = FALSE
    /\ \/ /\ running' = path
          /\ handoff' = spare
          /\ job' = "spawn"
          /\ pc' = "await"
          /\ UNCHANGED faults
       \/ /\ held
          /\ pc' = "wait"
          /\ Fault
          /\ UNCHANGED <<running, handoff, job>>
    /\ UNCHANGED <<held, source, unseen, watching, triggers, stale, reading, path, tried, up, failed>>

Awaited ==
    /\ pc = "await"
    /\ job = "none"
    /\ pc' = "wait"
    /\ UNCHANGED <<held, source, unseen, watching, triggers, stale, reading, path, tried, spare, running, job, handoff, up, failed, faults>>

Hear ==
    /\ pc = "wait"
    /\ triggers # <<>>
    /\ triggers' = Tail(triggers)
    /\ IF Head(triggers) = "quit" THEN pc' = "stop" /\ UNCHANGED stale
       ELSE pc' = "loop" /\ stale' = TRUE
    /\ UNCHANGED <<held, source, unseen, watching, reading, path, tried, spare, running, job, handoff, up, failed, faults>>

Stop ==
    /\ pc = "stop"
    /\ pc' = "ended"
    /\ up' = FALSE
    /\ running' = ""
    /\ handoff' = FALSE
    /\ UNCHANGED <<held, source, unseen, watching, triggers, stale, reading, path, tried, spare, job, failed, faults>>

-----------------------------------------------------------------------------
(* The job.                                                                *)

JobStops ==
    /\ job = "stop"
    /\ up' = FALSE
    /\ job' = "spawn"
    /\ UNCHANGED <<held, source, unseen, watching, triggers, pc, stale, reading, path, tried, spare, running, handoff, failed, faults>>

\* spawn_with_socket takes the duplicate and announces it, or fails the spawn.
JobSpawns ==
    /\ job = "spawn"
    /\ job' = "none"
    /\ handoff' = FALSE
    /\ \/ held /\ ~handoff /\ failed' = TRUE /\ UNCHANGED <<up, faults>>
       \/ held = handoff /\ up' = TRUE /\ UNCHANGED <<failed, faults>>
       \/ held = handoff /\ Fault /\ UNCHANGED <<up, failed>>          \* the binary cannot start
    /\ UNCHANGED <<held, source, unseen, watching, triggers, pc, stale, reading, path, tried, spare, running>>

Crash ==
    /\ up
    /\ up' = FALSE
    /\ Fault
    /\ UNCHANGED <<held, source, unseen, watching, triggers, pc, stale, reading, path, tried, spare, running, job, handoff, failed>>

-----------------------------------------------------------------------------
Supervise ==
    \/ Build
    \/ BuildHears
    \/ BuildEnds
    \/ Duplicated
    \/ Restart
    \/ Replace
    \/ Start
    \/ Awaited
    \/ Hear
    \/ Stop

DevNext == Edit \/ Changed \/ Quit \/ Supervise \/ JobStops \/ JobSpawns \/ Crash

\* The tasks are polled, the watcher reports what it saw and a build ends.
DevFairness ==
    /\ WF_devVars(Changed)
    /\ WF_devVars(Supervise)
    /\ WF_devVars(JobStops \/ JobSpawns)

DevSpec == DevInit /\ [][DevNext]_devVars /\ DevFairness

-----------------------------------------------------------------------------
(* Properties.                                                             *)

\* dev.rs start, Handoff, spawn_with_socket: with a socket held, every spawn finds the duplicate
\* made for it, one duplicate at most is open beside the held socket, none while the supervisor
\* waits, and a session that ended left neither a process nor a duplicate behind.
EachSpawnHasItsSocket ==
    /\ ~failed
    /\ ~(spare /\ handoff)
    /\ pc = "wait" => ~spare /\ ~handoff
    /\ pc = "ended" => ~up /\ job = "none" /\ ~handoff

\* The last build that was not superseded began with the last version, unless the session is over.
CaughtUp == pc = "ended" \/ ~watching \/ tried = source
=============================================================================
