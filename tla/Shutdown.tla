------------------------------ MODULE Shutdown ------------------------------
(***************************************************************************)
(* The one shutdown of an app, crates/ulo/src/lifecycle/shutdown.rs: the   *)
(* trigger, the claims on the servers, the release by a drop, and the      *)
(* sequence of hook steps, drain and close step, which a future runs that  *)
(* may be dropped at any of its awaits and whose successor resumes it.     *)
(* The App value, its serve loop and its drop are those of app/mod.rs, the *)
(* executions and the drain those of LiveSet.                              *)
(*                                                                         *)
(* A step is one critical section, one atomic access or one stretch of     *)
(* code between two awaits that no other thread can tell apart from one.   *)
(* A future may be dropped only where it awaits.                           *)
(***************************************************************************)
EXTENDS LiveSet, Sequences

CONSTANTS Handles,      \* the close calls made through AppHandles
          Owner,        \* the App value: serve, App<Connected>::close, its drop
          None,
          ServerCounts, \* how many servers the apps considered have bound
          NHooks,       \* the hooks of each shutdown hook step, in plan order
          HasTimer,     \* AppConfig.timer is set
          HasCap,       \* shutdown_timeout is set
          WindowFits    \* drain_timeout fits on the clock

ASSUME ShutdownAssumption ==
  /\ IsFiniteSet(Handles) /\ Owner \notin Handles /\ None \notin Handles \cup {Owner}
  /\ ServerCounts \subseteq Nat /\ NHooks \in Nat
  /\ \A n \in ServerCounts : (Handles \cup {Owner, None}) \cap (1 .. n) = {}
  /\ {HasTimer, HasCap, WindowFits} \subseteq BOOLEAN

VARIABLES trigger,      \* Trigger.signal, as who brought it
          cause,        \* Trigger.cause, as the server whose serve ended
          fired,        \* ShutdownCell.triggered has fired
          draining,     \* AppShared.draining has fired
          release,      \* ShutdownCell.release
          servers,      \* AppShared.servers
          app,          \* the App value
          close,        \* the future of each close call
          dropping,     \* what is left of an after_release
          answer,       \* what each close call answered
          runner,       \* the caller initialising ShutdownCell.outcome
          at,           \* where that caller is in sequence()
          stage,        \* Progress.stage
          cursor,       \* Progress.cursor
          cap,          \* Progress.cap
          failures,     \* Progress.failures
          drains,       \* drain(): the server drains not completed
          closes,       \* close_servers(): the closes not ended
          closeErrs,    \* close_servers(): those that ended in a failure
          outcome,      \* ShutdownCell.outcome
          hookStarts,   \* how often each hook has been started or skipped
          closeStarts,  \* how often each server's close has been started
          closeFailed,  \* the servers whose close has failed
          drained       \* the servers whose drain has been entered

cellVars  == <<trigger, cause, fired>>
claimVars == <<release, app, close, dropping, answer>>
seqVars   == <<runner, at, stage, cursor, cap, failures, drains, closes, closeErrs,
               outcome, hookStarts, closeStarts, closeFailed, drained>>
vars      == <<liveVars, cellVars, claimVars, seqVars, draining, servers>>

Server     == DOMAIN closeStarts   \* the bound servers, numbered in bind order
Hook       == 1 .. NHooks
Claimers   == Handles \cup {Owner}
HookStages == {"BeforeShutdown", "Destroy", "Shutdown"}

\* enum Stage, in order.
Stages    == <<"Trigger", "BeforeShutdown", "Drain", "Destroy", "Close", "Shutdown", "Done">>
Rank(s)   == CHOOSE i \in 1 .. 7 : Stages[i] = s
After(s)  == Stages[Rank(s) + 1]

\* The awaits of sequence(): a hook, the drain window, the closes still pending.
AtAwait == at \in {"hook", "window"} \/ (at = "closing" /\ closes # {})

\* ShutdownFailure: a serve that ended, a hook or a close with its reason.
Failure(kind, who, why) == [kind |-> kind, who |-> who, why |-> why]

\* ShutdownCell.outcome while nothing is stored in it.
NoOutcome == [signal |-> None, failures |-> <<>>, abandoned |-> 0, terminalSkipped |-> 0]

TypeOK ==
  /\ LiveTypeOK
  /\ trigger \in Claimers \cup Server \cup {None}
  /\ cause \in Server \cup {None}
  /\ fired \in BOOLEAN /\ draining \in BOOLEAN
  /\ release \in [appDropped: BOOLEAN, closing: Nat, released: BOOLEAN, serversClosed: BOOLEAN]
  /\ servers \in SUBSET Server
  /\ app \in {"held", "serving", "trigger", "closing", "returning", "gone"}
  /\ close \in [Claimers -> {"idle", "claimed", "refused", "fire", "join", "running", "done"}]
  /\ dropping \in [Claimers -> {"no", "fire", "release"}]
  /\ answer \in [Claimers -> {"none", "outcome", "Dropped"}]
  /\ runner \in Claimers \cup {None}
  /\ at \in {"none", "enter", "hooks", "hook", "fire", "drains", "window", "cancel", "closing", "closed", "release"}
  /\ stage \in {Stages[i] : i \in 1 .. 7}
  /\ cursor \in Nat
  /\ cap \in {"none", "running", "expired"}
  /\ drains \in SUBSET Server /\ closes \in SUBSET Server /\ closeErrs \in SUBSET Server
  /\ hookStarts \in [HookStages -> [Hook -> Nat]]
  /\ closeStarts \in [Server -> Nat]
  /\ closeFailed \in SUBSET Server /\ drained \in SUBSET Server

Init ==
  /\ LiveInit
  /\ trigger = None /\ cause = None /\ fired = FALSE /\ draining = FALSE
  /\ release = [appDropped |-> FALSE, closing |-> 0, released |-> FALSE, serversClosed |-> FALSE]
  /\ \E n \in ServerCounts : closeStarts = [s \in 1 .. n |-> 0]
  /\ servers = Server
  /\ app = "held"
  /\ close = [c \in Claimers |-> "idle"]
  /\ dropping = [c \in Claimers |-> "no"]
  /\ answer = [c \in Claimers |-> "none"]
  /\ runner = None /\ at = "none"
  /\ stage = "Trigger" /\ cursor = 0 /\ cap = "none" /\ failures = <<>>
  /\ drains = {} /\ closes = {} /\ closeErrs = {}
  /\ outcome = NoOutcome
  /\ hookStarts = [s \in HookStages |-> [h \in Hook |-> 0]]
  /\ closeFailed = {} /\ drained = {}

-----------------------------------------------------------------------------
(* The claims and the release by a drop. *)

\* Mutant: a release refuses every later claim, also one the outcome answers.
ClaimAfterRelease(c) ==
  /\ close' = [close EXCEPT ![c] = IF release.released THEN "refused" ELSE "claimed"]
  /\ release' = [release EXCEPT !.closing = @ + 1]

\* Closing::claim.
Claim(c) ==
  /\ close' = [close EXCEPT ![c] = IF release.released /\ ~release.serversClosed
                                   THEN "refused" ELSE "claimed"]
  /\ release' = [release EXCEPT !.closing = @ + 1]

\* Mutant: the App value's drop takes the servers from under a claim.
ReleasedUnderClaim(r, c) ==
  /\ release' = [r EXCEPT !.released = @ \/ r.appDropped]
  /\ IF r.appDropped /\ ~r.serversClosed THEN Advance(Closed) ELSE UNCHANGED phase
  /\ dropping' = [dropping EXCEPT ![c] = IF ~r.appDropped THEN "no"
                                         ELSE IF r.serversClosed THEN "release" ELSE "fire"]
  /\ UNCHANGED <<drainEnded, terminalRefused, execVars, drainVars>>

\* released_by_drop on the record as the drop has changed it, under its lock;
\* c goes on to after_release outside it.
ReleasedByDrop(r, c) ==
  LET go == r.appDropped /\ r.closing = 0
  IN  /\ release' = [r EXCEPT !.released = @ \/ go]
      /\ IF go /\ ~r.serversClosed THEN Advance(Closed) ELSE UNCHANGED phase
      /\ dropping' = [dropping EXCEPT ![c] = IF ~go THEN "no"
                                             ELSE IF r.serversClosed THEN "release" ELSE "fire"]
      /\ UNCHANGED <<drainEnded, terminalRefused, execVars, drainVars>>

\* Mutant: the last claim to drop releases nothing.
DropClaimKeeps(c) ==
  /\ close' = [close EXCEPT ![c] = "done"]
  /\ app' = IF c = Owner THEN "returning" ELSE app
  /\ release' = [release EXCEPT !.closing = @ - 1]
  /\ UNCHANGED <<liveVars, dropping>>

\* Drop for Closing, as c's close future ends or is dropped.  The App value's
\* own future then returns, and drops the value.
DropClaim(c) ==
  /\ close' = [close EXCEPT ![c] = "done"]
  /\ app' = IF c = Owner THEN "returning" ELSE app
  /\ ReleasedByDrop([release EXCEPT !.closing = @ - 1], c)

\* after_release: fires draining() for an unclosed release, ...
ReleaseFire(c) ==
  /\ dropping[c] = "fire"
  /\ draining' = TRUE
  /\ dropping' = [dropping EXCEPT ![c] = "release"]
  /\ UNCHANGED <<liveVars, cellVars, release, app, close, answer, seqVars, servers>>

\* ... then release_servers.
ReleaseServers(c) ==
  /\ dropping[c] = "release"
  /\ servers' = {}
  /\ dropping' = [dropping EXCEPT ![c] = "no"]
  /\ UNCHANGED <<liveVars, cellVars, release, app, close, answer, seqVars, draining>>

\* app_dropped: the drop of the App value, of its serve future, or what
\* follows that future's return.
DropApp ==
  /\ app \in {"held", "serving", "returning"} /\ dropping[Owner] = "no"
  /\ app' = "gone"
  /\ ReleasedByDrop([release EXCEPT !.appDropped = TRUE], Owner)
  /\ UNCHANGED <<cellVars, close, answer, seqVars, draining, servers>>

-----------------------------------------------------------------------------
(* close and serve. *)

\* AppHandle::close: the claim is taken at the call.
HandleClose(c) ==
  /\ c \in Handles /\ close[c] = "idle"
  /\ Claim(c)
  /\ UNCHANGED <<liveVars, cellVars, app, dropping, answer, seqVars, draining, servers>>

\* The first poll of a claim that found the servers released.
AnswerDropped(c) ==
  /\ close[c] = "refused"
  /\ answer' = [answer EXCEPT ![c] = "Dropped"]
  /\ DropClaim(c)
  /\ UNCHANGED <<cellVars, seqVars, draining, servers>>

\* The first poll of any other: trigger, under its lock, ...
PollTrigger(c) ==
  /\ close[c] = "claimed"
  /\ trigger' = IF trigger = None THEN c ELSE trigger
  /\ close' = [close EXCEPT ![c] = IF trigger = None THEN "fire" ELSE "join"]
  /\ UNCHANGED <<liveVars, cause, fired, release, app, dropping, answer, seqVars, draining, servers>>

\* ... and outside it the fire.
PollFire(c) ==
  /\ close[c] = "fire"
  /\ fired' = TRUE
  /\ close' = [close EXCEPT ![c] = "join"]
  /\ UNCHANGED <<liveVars, trigger, cause, release, app, dropping, answer, seqVars, draining, servers>>

\* run_sequence: outcome.get_or_init makes one caller the runner.
Join(c) ==
  /\ close[c] = "join" /\ outcome = NoOutcome /\ runner = None
  /\ runner' = c /\ at' = "enter"
  /\ close' = [close EXCEPT ![c] = "running"]
  /\ UNCHANGED <<liveVars, cellVars, release, app, dropping, answer, draining, servers,
                 stage, cursor, cap, failures, drains, closes, closeErrs, outcome,
                 hookStarts, closeStarts, closeFailed, drained>>

Answer(c) ==
  /\ close[c] = "join" /\ outcome # NoOutcome
  /\ answer' = [answer EXCEPT ![c] = "outcome"]
  /\ DropClaim(c)
  /\ UNCHANGED <<cellVars, seqVars, draining, servers>>

\* Mutant: a dropped runner keeps the outcome cell.
DropCloseHoldsCell(c) ==
  /\ \/ close[c] \in {"claimed", "refused", "join"} /\ UNCHANGED seqVars
     \/ /\ close[c] = "running" /\ AtAwait
        /\ at' = "none"
        /\ drains' = {} /\ closes' = {} /\ closeErrs' = {}
        /\ UNCHANGED <<runner, stage, cursor, cap, failures, outcome, hookStarts, closeStarts,
                       closeFailed, drained>>
  /\ DropClaim(c)
  /\ UNCHANGED <<cellVars, answer, draining, servers>>

\* A close future dropped before it ends, unpolled, waiting or running; a
\* runner leaves Progress and loses the futures it was driving.
DropClose(c) ==
  /\ \/ close[c] \in {"claimed", "refused", "join"} /\ UNCHANGED seqVars
     \/ /\ close[c] = "running" /\ AtAwait
        /\ runner' = None /\ at' = "none"
        /\ drains' = {} /\ closes' = {} /\ closeErrs' = {}
        /\ UNCHANGED <<stage, cursor, cap, failures, outcome, hookStarts, closeStarts,
                       closeFailed, drained>>
  /\ DropClaim(c)
  /\ UNCHANGED <<cellVars, answer, draining, servers>>

\* App<Connected>::close, on an app no transport was bound to.
AppClose ==
  /\ app = "held" /\ Server = {}
  /\ app' = "closing"
  /\ Claim(Owner)
  /\ UNCHANGED <<liveVars, cellVars, dropping, answer, seqVars, draining, servers>>

Serve ==
  /\ app = "held"
  /\ app' = "serving"
  /\ UNCHANGED <<liveVars, cellVars, release, close, dropping, answer, seqVars, draining, servers>>

\* serve's own signal resolves.
ServeSignal ==
  /\ app = "serving"
  /\ app' = "closing"
  /\ Claim(Owner)
  /\ UNCHANGED <<liveVars, cellVars, dropping, answer, seqVars, draining, servers>>

\* serve learns of a trigger from elsewhere.
ServeTriggered == fired /\ ServeSignal

\* Mutant: a serve that lost the trigger records itself as the cause.
ServeEndsOverwrites(s) ==
  /\ app = "serving"
  /\ cause' = s
  /\ IF trigger = None
       THEN trigger' = s /\ app' = "trigger" /\ UNCHANGED <<release, close>>
       ELSE app' = "closing" /\ Claim(Owner) /\ UNCHANGED trigger
  /\ UNCHANGED <<liveVars, fired, dropping, answer, seqVars, draining, servers>>

\* A transport's serve ends first.  The trigger records it as the cause, unless
\* one has arrived since serve last looked.
ServeEnds(s) ==
  /\ app = "serving"
  /\ \/ /\ trigger = None
        /\ trigger' = s /\ cause' = s
        /\ app' = "trigger"
        /\ UNCHANGED <<release, close>>
     \/ /\ trigger # None
        /\ app' = "closing"
        /\ Claim(Owner)
        /\ UNCHANGED <<trigger, cause>>
  /\ UNCHANGED <<liveVars, fired, dropping, answer, seqVars, draining, servers>>

ServeFire ==
  /\ app = "trigger"
  /\ fired' = TRUE
  /\ app' = "closing"
  /\ Claim(Owner)
  /\ UNCHANGED <<liveVars, trigger, cause, dropping, answer, seqVars, draining, servers>>

-----------------------------------------------------------------------------
(* The sequence.  At(a, s): the runner is at point a of stage s. *)

At(a, s) == runner # None /\ at = a /\ stage = s

\* Stage::Trigger: the cause is the first failure, the cap starts.
SeqTrigger ==
  /\ At("enter", "Trigger")
  /\ failures' = IF cause = None THEN failures ELSE Append(failures, Failure("Serve", cause, "ended"))
  /\ cause' = None
  /\ cap' = IF HasTimer /\ HasCap THEN "running" ELSE "none"
  /\ Advance(Stopping)
  /\ stage' = "BeforeShutdown"
  /\ UNCHANGED <<drainEnded, terminalRefused, execVars, drainVars, trigger, fired, claimVars, draining, servers,
                 runner, at, cursor, drains, closes, closeErrs, outcome,
                 hookStarts, closeStarts, closeFailed, drained>>

\* Mutant: every hook step moves the phase, the one before the drain too.
BeginStepAlways ==
  /\ \E s \in HookStages : At("enter", s)
  /\ at' = "hooks"
  /\ Advance(Destroying)
  /\ UNCHANGED <<drainEnded, terminalRefused, execVars, drainVars, cellVars, claimVars, draining, servers,
                 runner, stage, cursor, cap, failures, drains, closes, closeErrs, outcome,
                 hookStarts, closeStarts, closeFailed, drained>>

\* A hook step starts, or its successor resumes it; the destroy step moves the
\* phase first.
BeginStep ==
  /\ \E s \in HookStages : At("enter", s)
  /\ at' = "hooks"
  /\ IF stage = "Destroy" THEN Advance(Destroying) ELSE UNCHANGED phase
  /\ UNCHANGED <<drainEnded, terminalRefused, execVars, drainVars, cellVars, claimVars, draining, servers,
                 runner, stage, cursor, cap, failures, drains, closes, closeErrs, outcome,
                 hookStarts, closeStarts, closeFailed, drained>>

\* run_hook_step: the next hook of the plan counts as started before it runs,
\* and is skipped once the cap has expired.
StartHook ==
  /\ \E s \in HookStages : At("hooks", s)
  /\ cursor < NHooks
  /\ cursor' = cursor + 1
  /\ hookStarts' = [hookStarts EXCEPT ![stage][cursor + 1] = @ + 1]
  /\ IF cap = "expired"
       THEN failures' = Append(failures, Failure(stage, cursor + 1, "Skipped")) /\ UNCHANGED at
       ELSE at' = "hook" /\ UNCHANGED failures
  /\ UNCHANGED <<liveVars, cellVars, claimVars, draining, servers, runner, stage, cap, drains,
                 closes, closeErrs, outcome, closeStarts, closeFailed, drained>>

\* The hook ends: done, in an error, a panic or a refused bound, or at a limit.
EndHook ==
  /\ \E s \in HookStages : At("hook", s)
  /\ at' = "hooks"
  /\ \/ UNCHANGED failures
     \/ failures' = Append(failures, Failure(stage, cursor, "Errored"))
     \/ HasTimer /\ failures' = Append(failures, Failure(stage, cursor, "TimedOut"))
  /\ UNCHANGED <<liveVars, cellVars, claimVars, draining, servers, runner, stage, cursor, cap, drains,
                 closes, closeErrs, outcome, hookStarts, closeStarts, closeFailed, drained>>

\* The step ends; after the last one the phase is Closed.
EndStep ==
  /\ \E s \in HookStages : At("hooks", s)
  /\ cursor >= NHooks
  /\ cursor' = 0
  /\ stage' = After(stage) /\ at' = "enter"
  /\ IF stage = "Shutdown" THEN Advance(Closed) ELSE UNCHANGED phase
  /\ UNCHANGED <<drainEnded, terminalRefused, execVars, drainVars, cellVars, claimVars, draining, servers,
                 runner, cap, failures, drains, closes, closeErrs, outcome,
                 hookStarts, closeStarts, closeFailed, drained>>

\* drain: the phase, ...
SeqStop ==
  /\ At("enter", "Drain")
  /\ StopAccepting
  /\ at' = "fire"
  /\ UNCHANGED <<cellVars, claimVars, draining, servers, runner, stage, cursor, cap, failures, drains,
                 closes, closeErrs, outcome, hookStarts, closeStarts, closeFailed, drained>>

\* ... the notice, ...
SeqFire ==
  /\ At("fire", "Drain")
  /\ draining' = TRUE
  /\ at' = "drains"
  /\ UNCHANGED <<liveVars, cellVars, claimVars, servers, runner, stage, cursor, cap, failures, drains,
                 closes, closeErrs, outcome, hookStarts, closeStarts, closeFailed, drained>>

\* ... and every server's drain, entered by the window's first poll even when
\* nothing is left of the window.
SeqDrains ==
  /\ At("drains", "Drain")
  /\ drains' = servers /\ drained' = drained \cup servers
  /\ at' = "window"
  /\ UNCHANGED <<liveVars, cellVars, claimVars, draining, servers, runner, stage, cursor, cap, failures,
                 closes, closeErrs, outcome, hookStarts, closeStarts, closeFailed>>

\* A successor finds accepting stopped and waits for the executions alone.
SeqResumeDrain ==
  /\ At("enter", "Drain")
  /\ ResumeWindow
  /\ at' = "window"
  /\ UNCHANGED <<cellVars, claimVars, draining, servers, runner, stage, cursor, cap, failures, drains,
                 closes, closeErrs, outcome, hookStarts, closeStarts, closeFailed, drained>>

\* settle: a server's drain completes.
ServerDrained(s) ==
  /\ At("window", "Drain") /\ s \in drains
  /\ drains' = drains \ {s}
  /\ UNCHANGED <<liveVars, cellVars, claimVars, draining, servers, runner, at, stage, cursor, cap, failures,
                 closes, closeErrs, outcome, hookStarts, closeStarts, closeFailed, drained>>

\* drain_end: without a Timer the window is zero, and one too long for the
\* clock ends with the cap or never.
WindowEnds == ~HasTimer \/ WindowFits \/ cap = "expired"

\* The wait of the window, then the end of the drain and cancel_all.
SeqDrain ==
  /\ \/ At("window", "Drain") /\ drains = {} /\ PollUntilEmpty
     \/ At("window", "Drain") /\ WindowEnds /\ WindowExpires
     \/ At("cancel", "Drain") /\ (EndDrain \/ CollectLive \/ CancelLive)
  /\ at' = CASE drainAt' = "window" -> "window"
             [] drainAt' = "done"   -> "enter"
             [] OTHER               -> "cancel"
  /\ stage' = IF drainAt' = "done" THEN "Destroy" ELSE stage
  /\ drains' = IF drainAt' = "window" THEN drains ELSE {}
  /\ UNCHANGED <<cellVars, claimVars, draining, servers, runner, cursor, cap, failures,
                 closes, closeErrs, outcome, hookStarts, closeStarts, closeFailed, drained>>

\* Mutant: a successor starts the closes again.
StartClosesAgain ==
  /\ At("enter", "Close")
  /\ cursor' = Cardinality(servers) /\ at' = "closing"
  /\ closes' = servers
  /\ closeStarts' = [s \in Server |-> IF s \in servers THEN closeStarts[s] + 1 ELSE closeStarts[s]]
  /\ UNCHANGED <<liveVars, cellVars, claimVars, draining, servers, runner, stage, cap, failures, drains,
                 closeErrs, outcome, hookStarts, closeFailed, drained>>

\* close_servers: every close starts in the step's first poll, and a successor
\* starts none again.
StartCloses ==
  /\ At("enter", "Close")
  /\ IF cursor >= Cardinality(servers)
       THEN cursor' = 0 /\ at' = "closed" /\ UNCHANGED <<closes, closeStarts>>
       ELSE /\ cursor' = Cardinality(servers) /\ at' = "closing"
            /\ closes' = servers
            /\ closeStarts' = [s \in Server |-> IF s \in servers THEN closeStarts[s] + 1 ELSE closeStarts[s]]
  /\ UNCHANGED <<liveVars, cellVars, claimVars, draining, servers, runner, stage, cap, failures, drains,
                 closeErrs, outcome, hookStarts, closeFailed, drained>>

\* A close ends, in a failure or not.
EndClose(s) ==
  /\ At("closing", "Close") /\ s \in closes
  /\ closes' = closes \ {s}
  /\ \/ UNCHANGED <<closeErrs, closeFailed>>
     \/ closeErrs' = closeErrs \cup {s} /\ closeFailed' = closeFailed \cup {s}
  /\ UNCHANGED <<liveVars, cellVars, claimVars, draining, servers, runner, at, stage, cursor, cap, failures,
                 drains, outcome, hookStarts, closeStarts, drained>>

\* Every close has ended: their failures are recorded in bind order.
JoinCloses ==
  /\ At("closing", "Close") /\ closes = {}
  /\ failures' = failures \o [i \in 1 .. Cardinality(closeErrs) |->
       Failure("Close", CHOOSE s \in closeErrs : Cardinality({t \in closeErrs : t <= s}) = i, "close")]
  /\ closeErrs' = {}
  /\ cursor' = 0
  /\ at' = "closed"
  /\ UNCHANGED <<liveVars, cellVars, claimVars, draining, servers, runner, stage, cap, drains,
                 closes, outcome, hookStarts, closeStarts, closeFailed, drained>>

MarkClosed ==
  /\ At("closed", "Close")
  /\ release' = [release EXCEPT !.serversClosed = TRUE]
  /\ at' = "release"
  /\ UNCHANGED <<liveVars, cellVars, app, close, dropping, answer, draining, servers, runner, stage, cursor,
                 cap, failures, drains, closes, closeErrs, outcome,
                 hookStarts, closeStarts, closeFailed, drained>>

ReleaseClosed ==
  /\ At("release", "Close")
  /\ servers' = {}
  /\ stage' = "Shutdown" /\ at' = "enter"
  /\ UNCHANGED <<liveVars, cellVars, claimVars, draining, runner, cursor, cap, failures, drains,
                 closes, closeErrs, outcome, hookStarts, closeStarts, closeFailed, drained>>

\* The report, stored in the outcome cell; the runner then reads it as every
\* other caller does.
Finish ==
  /\ At("enter", "Done")
  /\ outcome' = [signal |-> trigger, failures |-> failures, abandoned |-> Cardinality(counted),
                 terminalSkipped |-> Cardinality(counted \cap Terminal) + terminalRefused]
  /\ failures' = <<>>
  /\ close' = [close EXCEPT ![runner] = "join"]
  /\ runner' = None /\ at' = "none"
  /\ UNCHANGED <<liveVars, cellVars, release, app, dropping, answer, draining, servers, stage, cursor, cap,
                 drains, closes, closeErrs, hookStarts, closeStarts, closeFailed, drained>>

\* The clock reaches the end of the cap.
CapExpires ==
  /\ cap = "running"
  /\ cap' = "expired"
  /\ UNCHANGED <<liveVars, cellVars, claimVars, draining, servers, runner, at, stage, cursor, failures, drains,
                 closes, closeErrs, outcome, hookStarts, closeStarts, closeFailed, drained>>

SeqStep == \/ SeqTrigger \/ BeginStep \/ StartHook \/ EndHook \/ EndStep
           \/ SeqStop \/ SeqFire \/ SeqDrains \/ SeqResumeDrain
           \/ (\E s \in Server : ServerDrained(s) \/ EndClose(s))
           \/ SeqDrain \/ StartCloses \/ JoinCloses \/ MarkClosed \/ ReleaseClosed \/ Finish

\* The DrainToken a terminal execution opens with comes from a server's drain.
ExecutionStep(e) ==
  /\ e \in Terminal => drained # {}
  /\ ExecStep(e)
  /\ UNCHANGED <<cellVars, claimVars, seqVars, draining, servers>>

ClaimStep(c) ==
  \/ HandleClose(c) \/ AnswerDropped(c) \/ PollTrigger(c) \/ PollFire(c) \/ Join(c)
  \/ Answer(c) \/ DropClose(c) \/ ReleaseFire(c) \/ ReleaseServers(c)

AppStep == \/ DropApp \/ AppClose \/ Serve \/ ServeSignal \/ ServeTriggered \/ ServeFire
           \/ \E s \in Server : ServeEnds(s)

Next == \/ SeqStep \/ CapExpires \/ AppStep
        \/ \E c \in Claimers : ClaimStep(c)
        \/ \E e \in Execs : ExecutionStep(e)

Spec == Init /\ [][Next]_vars

\* A close, a release and serve, each at the one await it stands at.
ClaimRuns(c) == PollTrigger(c) \/ PollFire(c) \/ Join(c) \/ Answer(c) \/ AnswerDropped(c)
ReleaseRuns(c) == ReleaseFire(c) \/ ReleaseServers(c)
ServeRuns == ServeTriggered \/ ServeFire

\* Every future still held is polled when it can go on, and what user code the
\* sequence waits on ends: a hook or a close by itself or at its bound, the
\* drain at its window.  No fairness on a drop, on serve's own signal, on a
\* serve that ends, on the cap or on the executions.
Fairness ==
  /\ WF_vars(SeqStep) /\ WF_vars(ServeRuns)
  /\ \A c \in Claimers : WF_vars(ClaimRuns(c)) /\ WF_vars(ReleaseRuns(c))

FairSpec == Spec /\ Fairness

-----------------------------------------------------------------------------
(* Properties. *)

\* No hook and no server's close is started twice, however often the future
\* running the sequence is dropped and resumed by another, and none is passed
\* over: once there is an outcome every hook was started or skipped
\* (run_hook_step), the close step ends with every close started
\* (close_servers), and the drain with every server's own entered (drain).
StepsOnce ==
  /\ \A s \in HookStages : \A h \in DOMAIN hookStarts[s] : hookStarts[s][h] <= 1
  /\ \A s \in Server : closeStarts[s] <= 1
  /\ outcome # NoOutcome => \A s \in HookStages : \A h \in DOMAIN hookStarts[s] : hookStarts[s][h] = 1
  /\ release.serversClosed => \A s \in Server : closeStarts[s] = 1
  /\ drainEnded => drained = Server

\* Until the close step has ended, a close whose claim was not refused finds
\* every server still there, whoever else drops what on which thread: neither
\* the App value's drop nor another claim's takes them from under it (Release).
ClaimKeepsServers ==
  (\E c \in Claimers : close[c] \in {"claimed", "fire", "join", "running"}) /\ ~release.serversClosed
    => servers = Server

\* A close that answers Dropped speaks for good: no outcome is ever stored, no
\* one runs the sequence, and the phase already reads Closed (released_by_drop).
DroppedIsFinal ==
  (\E c \in Claimers : answer[c] = "Dropped" \/ close[c] = "refused")
    => outcome = NoOutcome /\ runner = None /\ phase = Closed

\* Once the App value is gone and no close is held, nothing is kept and no one
\* waits: the servers have been let go and draining() has fired, whichever drop
\* came last (after_release, release_servers).
NothingKept ==
  (app = "gone" /\ \A c \in Claimers : close[c] \in {"idle", "done"} /\ dropping[c] = "no")
    => servers = {} /\ draining

\* The outcome lists a serve that ended as its first failure exactly when that
\* end is the trigger that won, however it raced a close (trigger_with).
CauseReported ==
  outcome # NoOutcome =>
    /\ outcome.signal = trigger
    /\ trigger \in Server <=> outcome.failures # <<>> /\ outcome.failures[1].kind = "Serve"
    /\ \A i \in 2 .. Len(outcome.failures) : outcome.failures[i].kind # "Serve"

\* The sequence runs the steps of LiveSet and no others on its state: the drain
\* of shutdown.rs is the one LiveSet.tla checks against concurrent opens.
ImplementsLiveSet == LiveSpec

\* A close that waits, and serve once the trigger has fired.
Waits(c) == close[c] = "join"
Answered(c) == close[c] = "done"
ServingFired == fired /\ app = "serving"
ServeOver == app \in {"returning", "gone"}

\* A close that waits for the outcome is answered unless it is dropped, though
\* the callers running the sequence before it may all be dropped (run_sequence),
\* and a trigger that has fired ends serve, in an outcome or by its drop.
CallersAnswered == (\A c \in Claimers : Waits(c) ~> Answered(c)) /\ (ServingFired ~> ServeOver)

\* Server::close: "An error is recorded as ShutdownFailure::Close".
CloseErrorsReported ==
  outcome # NoOutcome =>
    \A s \in closeFailed : \E i \in 1 .. Len(outcome.failures) :
      outcome.failures[i].kind = "Close" /\ outcome.failures[i].who = s
=============================================================================
