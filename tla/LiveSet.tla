------------------------------- MODULE LiveSet -------------------------------
EXTENDS Integers, FiniteSets, TLAPS

(***************************************************************************)
(* PhaseCell, crates/ulo/src/lifecycle/phase.rs: the phase of the app, the *)
(* flag the drain's end sets, and the count of terminal executions refused *)
(* by phase.  The cell has no behaviour of its own: the shutdown sequence, *)
(* the release of the servers and every opening execution read and change  *)
(* it, so this module only names its state and its operations.             *)
(***************************************************************************)

VARIABLES phase,            \* PhaseCell.phase
          drainEnded,       \* PhaseCell.drain_ended
          terminalRefused   \* PhaseCell.terminal_refused

phaseVars == <<phase, drainEnded, terminalRefused>>

\* enum Phase, ordered: every transition moves forward.
Wired      == 0
Connecting == 1
Running    == 2
Stopping   == 3
Draining   == 4
Destroying == 5
Closed     == 6
Phases     == Wired .. Closed

PhaseTypeOK == /\ phase \in Phases
               /\ drainEnded \in BOOLEAN
               /\ terminalRefused \in Nat

\* An app that has connected and that no shutdown has touched.
PhaseInit == phase = Running /\ drainEnded = FALSE /\ terminalRefused = 0

\* advance: to a later phase, never back.
Advance(to) == phase' = IF to > phase THEN to ELSE phase

\* allows_execution reads the phase, and for a terminal execution the drain's
\* end after it, in a read of its own.
PhaseAllows(terminal) == IF terminal THEN phase <= Draining ELSE phase < Draining

AllowsSingletonLookup == phase < Destroying

AllowsLoad == phase < Stopping

-------------------------------------------------------------------------------
(***************************************************************************)
(* The executions of an app and the drain that ends them: AppShared::open, *)
(* Drop for Execution and LiveSet (crates/ulo/src/app/shared.rs, execution *)
(* /mod.rs), against the last part of shutdown::drain, which waits for the *)
(* live set to empty, ends the drain and cancels what is left.             *)
(*                                                                         *)
(* Every step is one critical section or one atomic access of one thread,  *)
(* so an open on one thread interleaves with the drain on another at each  *)
(* point where the two can meet.  Shutdown.tla runs the same steps from    *)
(* the shutdown sequence.                                                  *)
(***************************************************************************)

CONSTANTS Execs,      \* the executions the app is asked to open
          Terminal    \* those opened with open_terminal

ASSUME ExecsAssumption == IsFiniteSet(Execs) /\ Terminal \subseteq Execs

VARIABLES exec,        \* where each execution is in open, its life and its drop
          entries,     \* LiveInner.executions: the ids in the map
          linked,      \* the entries whose Weak attach has linked
          reason,      \* ExecShared.cancel_reason
          cancelled,   \* LiveInner.cancelled
          waiter,      \* LiveInner.waiters holds the drain's waker
          woken,       \* the drain's task has a wake-up it has not answered
          drainAt,     \* where drain() is
          window,      \* how the drain window stands
          upgraded,    \* cancel_all: the handles taken under the lock
          counted      \* cancel_all: the executions it counts and cancels

execVars  == <<exec, entries, linked, reason>>
drainVars == <<cancelled, waiter, woken, drainAt, window, upgraded, counted>>
liveVars  == <<phaseVars, execVars, drainVars>>

ExecStates == {"new",       \* not opened
               "entered",   \* in the live set, phase not checked
               "checked",   \* terminal, phase read, drain_ended not read
               "allowed",   \* past allows_execution, not attached
               "late",      \* attached after cancel_all, not yet cancelled
               "open",      \* held by its caller
               "ended",     \* Execution dropping: ended set, slot not dropped
               "refused",   \* Closed, slot not dropped
               "gone"}      \* slot dropped

Reasons == {"none", "Drain", "Other"}

DrainStates == {"idle", "window", "ending", "collecting", "cancelling", "done"}

LiveTypeOK ==
  /\ PhaseTypeOK
  /\ exec \in [Execs -> ExecStates]
  /\ entries \in SUBSET Execs
  /\ linked \in SUBSET Execs
  /\ reason \in [Execs -> Reasons]
  /\ cancelled \in BOOLEAN
  /\ waiter \in BOOLEAN
  /\ woken \in BOOLEAN
  /\ drainAt \in DrainStates
  /\ window \in {"none", "open", "settled", "expired"}
  /\ upgraded \in SUBSET Execs
  /\ counted \in SUBSET Execs

LiveInit ==
  /\ PhaseInit
  /\ exec = [e \in Execs |-> "new"]
  /\ entries = {} /\ linked = {}
  /\ reason = [e \in Execs |-> "none"]
  /\ cancelled = FALSE /\ waiter = FALSE /\ woken = FALSE
  /\ drainAt = "idle" /\ window = "none"
  /\ upgraded = {} /\ counted = {}

-----------------------------------------------------------------------------
(* The executions. *)

\* cancel_reason is a OnceLock: the first reason stays.
Cancelled(why, es) == [e \in Execs |-> IF e \in es /\ reason[e] = "none" THEN why ELSE reason[e]]

\* live.enter(), before the phase is read.  A terminal execution needs the
\* DrainToken the servers receive as the drain begins.
Enter(e) ==
  /\ exec[e] = "new"
  /\ e \in Terminal => drainAt # "idle"
  /\ exec' = [exec EXCEPT ![e] = "entered"]
  /\ entries' = entries \cup {e}
  /\ UNCHANGED <<phaseVars, linked, reason, drainVars>>

\* allows_execution: the read of the phase.
CheckPhase(e) ==
  /\ exec[e] = "entered"
  /\ \/ /\ PhaseAllows(e \in Terminal)
        /\ exec' = [exec EXCEPT ![e] = IF e \in Terminal THEN "checked" ELSE "allowed"]
        /\ UNCHANGED terminalRefused
     \/ /\ ~PhaseAllows(e \in Terminal)
        /\ exec' = [exec EXCEPT ![e] = "refused"]
        /\ terminalRefused' = IF e \in Terminal THEN terminalRefused + 1 ELSE terminalRefused
  /\ UNCHANGED <<phase, drainEnded, entries, linked, reason, drainVars>>

\* allows_execution: a terminal execution's read of drain_ended.
CheckDrainEnded(e) ==
  /\ exec[e] = "checked"
  /\ exec' = [exec EXCEPT ![e] = IF drainEnded THEN "refused" ELSE "allowed"]
  /\ terminalRefused' = IF drainEnded THEN terminalRefused + 1 ELSE terminalRefused
  /\ UNCHANGED <<phase, drainEnded, entries, linked, reason, drainVars>>

\* attach: links the entry and reads the flag cancel_all sets, under one lock.
Attach(e) ==
  /\ exec[e] = "allowed"
  /\ linked' = linked \cup {e}
  /\ exec' = [exec EXCEPT ![e] = IF cancelled THEN "late" ELSE "open"]
  /\ UNCHANGED <<phaseVars, entries, reason, drainVars>>

\* attach, outside the lock: cancels an execution attached after cancel_all.
CancelLate(e) ==
  /\ exec[e] = "late"
  /\ reason' = Cancelled("Drain", {e})
  /\ exec' = [exec EXCEPT ![e] = "open"]
  /\ UNCHANGED <<phaseVars, entries, linked, drainVars>>

\* cancel_with at the deadline or a client's disconnect.
CancelOther(e) ==
  /\ exec[e] = "open" /\ reason[e] = "none"
  /\ reason' = Cancelled("Other", {e})
  /\ UNCHANGED <<phaseVars, exec, entries, linked, drainVars>>

\* Drop for Execution: ended is set, then the cache is released.
EndExec(e) ==
  /\ exec[e] = "open"
  /\ exec' = [exec EXCEPT ![e] = "ended"]
  /\ UNCHANGED <<phaseVars, entries, linked, reason, drainVars>>

\* Drop for LiveSlot: the entry goes, and an empty set wakes the drain.
DropSlot(e) ==
  /\ exec[e] \in {"ended", "refused"}
  /\ exec' = [exec EXCEPT ![e] = "gone"]
  /\ entries' = entries \ {e}
  /\ linked' = linked \ {e}
  /\ LET empty == entries' = {}
     IN  /\ woken' = (woken \/ (empty /\ waiter))
         /\ waiter' = (waiter /\ ~empty)
  /\ UNCHANGED <<phaseVars, reason, cancelled, drainAt, window, upgraded, counted>>

ExecStep(e) == \/ Enter(e) \/ CheckPhase(e) \/ CheckDrainEnded(e) \/ Attach(e)
               \/ CancelLate(e) \/ CancelOther(e) \/ EndExec(e) \/ DropSlot(e)

-----------------------------------------------------------------------------
(* The drain. *)

\* Step 2, stop accepting; the wait starts with a poll.
StopAccepting ==
  /\ drainAt = "idle"
  /\ Advance(Draining)
  /\ drainAt' = "window" /\ window' = "open" /\ woken' = TRUE
  /\ UNCHANGED <<drainEnded, terminalRefused, execVars, cancelled, waiter, upgraded, counted>>

\* Mutant: the wait looks at the linked executions, not at every entry.
PollUntilUnlinked ==
  /\ drainAt = "window" /\ woken
  /\ woken' = FALSE
  /\ IF linked = {}
       THEN drainAt' = "ending" /\ window' = "settled" /\ UNCHANGED waiter
       ELSE waiter' = TRUE /\ UNCHANGED <<drainAt, window>>
  /\ UNCHANGED <<phaseVars, execVars, cancelled, upgraded, counted>>

\* until_empty's poll.
PollUntilEmpty ==
  /\ drainAt = "window" /\ woken
  /\ woken' = FALSE
  /\ IF entries = {}
       THEN drainAt' = "ending" /\ window' = "settled" /\ UNCHANGED waiter
       ELSE waiter' = TRUE /\ UNCHANGED <<drainAt, window>>
  /\ UNCHANGED <<phaseVars, execVars, cancelled, upgraded, counted>>

\* The window's sleep ends, or nothing of the window was left to wait for.
WindowExpires ==
  /\ drainAt = "window"
  /\ drainAt' = "ending" /\ window' = "expired"
  /\ UNCHANGED <<phaseVars, execVars, cancelled, waiter, woken, upgraded, counted>>

\* phase.end_drain().
EndDrain ==
  /\ drainAt = "ending"
  /\ drainEnded' = TRUE
  /\ drainAt' = "collecting"
  /\ UNCHANGED <<phase, terminalRefused, execVars, cancelled, waiter, woken, window, upgraded, counted>>

\* cancel_all, under the lock: the flag, and a handle to every linked entry.
CollectLive ==
  /\ drainAt = "collecting"
  /\ cancelled' = TRUE
  /\ upgraded' = linked
  /\ drainAt' = "cancelling"
  /\ UNCHANGED <<phaseVars, execVars, waiter, woken, window, counted>>

\* Mutant: a terminal execution is counted and not cancelled.
CancelLiveOrdinary ==
  /\ drainAt = "cancelling"
  /\ counted' = {e \in upgraded : exec[e] \notin {"ended", "gone"}}
  /\ reason' = Cancelled("Drain", counted' \ Terminal)
  /\ drainAt' = "done"
  /\ UNCHANGED <<phaseVars, exec, entries, linked, cancelled, waiter, woken, window, upgraded>>

\* cancel_all, outside the lock: those not ended are cancelled and counted.
CancelLive ==
  /\ drainAt = "cancelling"
  /\ counted' = {e \in upgraded : exec[e] \notin {"ended", "gone"}}
  /\ reason' = Cancelled("Drain", counted')
  /\ drainAt' = "done"
  /\ UNCHANGED <<phaseVars, exec, entries, linked, cancelled, waiter, woken, window, upgraded>>

\* A successor of a runner dropped in the window waits again, with a poll.
ResumeWindow ==
  /\ drainAt = "window"
  /\ woken' = TRUE
  /\ UNCHANGED <<phaseVars, execVars, cancelled, waiter, drainAt, window, upgraded, counted>>

DrainStep == \/ StopAccepting \/ PollUntilEmpty \/ WindowExpires \/ EndDrain
             \/ CollectLive \/ CancelLive \/ ResumeWindow

\* The rest of the sequence moves the phase: to Stopping before the drain and
\* to Destroying and Closed after it; a release of unclosed servers by a drop
\* moves it to Closed while no runner is past the window.
MovePhase ==
  /\ \E to \in {Stopping, Destroying, Closed} :
       /\ to = Stopping => drainAt = "idle"
       /\ to = Destroying => drainAt = "done"
       /\ to = Closed => drainAt \in {"idle", "window", "done"}
       /\ Advance(to)
  /\ UNCHANGED <<drainEnded, terminalRefused, execVars, drainVars>>

LiveNext == DrainStep \/ MovePhase \/ \E e \in Execs : ExecStep(e)

LiveSpec == LiveInit /\ [][LiveNext]_liveVars

\* An executor polls a woken drain, a thread inside open or a drop goes on, and
\* a caller drops its execution in the end.  Nothing makes the window expire or
\* starts a drain.
DrainRunStep == PollUntilEmpty \/ EndDrain \/ CollectLive \/ CancelLive
ExecRunStep(e) ==
  \/ CheckPhase(e) \/ CheckDrainEnded(e) \/ Attach(e) \/ CancelLate(e)
  \/ EndExec(e) \/ DropSlot(e)

-----------------------------------------------------------------------------
(* Properties. *)

\* Whatever the interleaving of an open with the drain, once cancel_all has
\* returned every execution a caller still holds has been cancelled: one linked
\* before the flag is found by cancel_all, one linked after it sees the flag in
\* attach (shared.rs, attach and cancel_all).
SurvivorsCancelled ==
  drainAt = "done" => \A e \in Execs : exec[e] = "open" => reason[e] # "none"

\* A drain that saw the live set empty leaves no ordinary execution behind, and
\* none opens later: open enters the set before it reads the phase, so one that
\* read an earlier phase was in the set the drain looked at (shared.rs, open).
SettledMeansNone ==
  window = "settled" =>
    \A e \in Execs \ Terminal : exec[e] \notin {"allowed", "late", "open"}

\* The inductive invariant behind the two: where each execution stands in the
\* map and among the linked entries, what cancel_all has seen, and that the
\* phase has left Stopping before the drain looks at the set.
LiveInv ==
  /\ LiveTypeOK
  /\ \A e \in Execs : /\ exec[e] \in {"late", "open", "ended"} => e \in linked
                      /\ exec[e] \notin {"new", "gone"} => e \in entries
                      /\ exec[e] = "checked" => e \in Terminal
  /\ cancelled <=> (drainAt \in {"cancelling", "done"})
  /\ drainAt = "cancelling" =>
       \A e \in Execs : exec[e] = "open" /\ reason[e] = "none" => e \in upgraded
  /\ SurvivorsCancelled
  /\ drainAt # "idle" => phase >= Draining
  /\ window = "settled" => drainAt # "idle"
  /\ SettledMeansNone

\* The wait for live executions ends once they have all ended, with no help
\* from the window's deadline: no wake-up of until_empty is lost (LiveSlot's
\* drop takes the wakers under the lock the poll registers them under).
DrainEnds == drainAt = "window" ~> drainAt = "done"

-----------------------------------------------------------------------------
(* For any set of executions: the types, and the two facts the drain rests on.  LiveInv is the
   inductive invariant. *)

\* The types of LiveSet hold initially.
LEMMA LiveInitTypeOK == LiveInit => LiveTypeOK
<1> SUFFICES ASSUME LiveInit PROVE LiveTypeOK OBVIOUS
<1> USE DEF LiveInit
<1>1. PhaseTypeOK
  <2>1. phase \in Phases BY DEF PhaseInit, Phases, Wired, Running, Closed
  <2>2. drainEnded \in BOOLEAN /\ terminalRefused \in Nat BY DEF PhaseInit
  <2>3. QED BY <2>1, <2>2 DEF PhaseTypeOK
<1>2. /\ exec \in [Execs -> ExecStates] /\ reason \in [Execs -> Reasons]
      /\ entries \in SUBSET Execs /\ linked \in SUBSET Execs
      /\ upgraded \in SUBSET Execs /\ counted \in SUBSET Execs
  BY DEF ExecStates, Reasons
<1>3. /\ cancelled \in BOOLEAN /\ waiter \in BOOLEAN /\ woken \in BOOLEAN
      /\ drainAt \in DrainStates /\ window \in {"none", "open", "settled", "expired"}
  BY DEF DrainStates
<1>4. QED BY <1>1, <1>2, <1>3 DEF LiveTypeOK

\* Every step of an execution keeps the types.
LEMMA ExecStepTypeOK ==
  ASSUME LiveTypeOK, NEW e \in Execs, ExecStep(e)
  PROVE  LiveTypeOK'
<1> USE DEF LiveTypeOK, PhaseTypeOK, ExecStates, Reasons, DrainStates, execVars, drainVars, phaseVars
<1>1. CASE Enter(e) BY <1>1 DEF Enter
<1>2. CASE CheckPhase(e) BY <1>2 DEF CheckPhase
<1>3. CASE CheckDrainEnded(e) BY <1>3 DEF CheckDrainEnded
<1>4. CASE Attach(e) BY <1>4 DEF Attach
<1>5. CASE CancelLate(e) BY <1>5 DEF CancelLate, Cancelled
<1>6. CASE CancelOther(e) BY <1>6 DEF CancelOther, Cancelled
<1>7. CASE EndExec(e) BY <1>7 DEF EndExec
<1>8. CASE DropSlot(e) BY <1>8 DEF DropSlot
<1>9. QED BY <1>1, <1>2, <1>3, <1>4, <1>5, <1>6, <1>7, <1>8 DEF ExecStep

\* Every step of the drain, and every other move of the phase, keeps them.
LEMMA DrainStepTypeOK ==
  ASSUME LiveTypeOK, DrainStep \/ MovePhase
  PROVE  LiveTypeOK'
<1> USE DEF LiveTypeOK, execVars, drainVars, phaseVars
<1>a. ASSUME PhaseTypeOK, NEW to \in {Stopping, Draining, Destroying, Closed}, Advance(to),
             UNCHANGED <<drainEnded, terminalRefused>>
      PROVE  PhaseTypeOK'
  BY <1>a DEF PhaseTypeOK, Advance, Phases, Wired, Stopping, Draining, Destroying, Closed
<1>1. CASE StopAccepting BY <1>1, <1>a DEF StopAccepting, DrainStates
<1>2. CASE PollUntilEmpty BY <1>2 DEF PollUntilEmpty, DrainStates, PhaseTypeOK
<1>3. CASE WindowExpires BY <1>3 DEF WindowExpires, DrainStates, PhaseTypeOK
<1>4. CASE EndDrain BY <1>4 DEF EndDrain, DrainStates, PhaseTypeOK
<1>5. CASE CollectLive BY <1>5 DEF CollectLive, DrainStates, PhaseTypeOK
<1>6. CASE CancelLive BY <1>6 DEF CancelLive, Cancelled, DrainStates, Reasons, PhaseTypeOK
<1>7. CASE ResumeWindow BY <1>7 DEF ResumeWindow, PhaseTypeOK
<1>8. CASE MovePhase BY <1>8, <1>a DEF MovePhase
<1>9. QED BY <1>1, <1>2, <1>3, <1>4, <1>5, <1>6, <1>7, <1>8 DEF DrainStep

\* The invariant holds initially.
LEMMA LiveInitInv == LiveInit => LiveInv
<1> SUFFICES ASSUME LiveInit PROVE LiveInv OBVIOUS
<1>1. LiveTypeOK BY LiveInitTypeOK
<1>2. \A e \in Execs : exec[e] = "new" BY DEF LiveInit
<1>3. ~cancelled /\ drainAt = "idle" /\ window = "none" BY DEF LiveInit
<1>4. QED BY <1>1, <1>2, <1>3 DEF LiveInv, SurvivorsCancelled, SettledMeansNone

\* An execution's steps keep it, whatever the drain has done so far.
LEMMA ExecStepInv ==
  ASSUME LiveInv, NEW e \in Execs, ExecStep(e)
  PROVE  LiveInv'
<1>1. LiveTypeOK' BY ExecStepTypeOK DEF LiveInv
<1> USE <1>1 DEF LiveInv, LiveTypeOK, SurvivorsCancelled, SettledMeansNone, execVars, drainVars, phaseVars
<1>2. CASE Enter(e) BY <1>2 DEF Enter
<1>3. CASE CheckPhase(e) BY <1>3 DEF CheckPhase, PhaseAllows, PhaseTypeOK, Phases, Wired, Draining, Closed
<1>4. CASE CheckDrainEnded(e) BY <1>4 DEF CheckDrainEnded
<1>5. CASE Attach(e) BY <1>5 DEF Attach
<1>6. CASE CancelLate(e) BY <1>6 DEF CancelLate, Cancelled
<1>7. CASE CancelOther(e) BY <1>7 DEF CancelOther, Cancelled
<1>8. CASE EndExec(e) BY <1>8 DEF EndExec
<1>9. CASE DropSlot(e) BY <1>9 DEF DropSlot
<1>10. QED BY <1>2, <1>3, <1>4, <1>5, <1>6, <1>7, <1>8, <1>9 DEF ExecStep

\* So do the drain's steps and the other moves of the phase.
LEMMA DrainStepInv ==
  ASSUME LiveInv, DrainStep \/ MovePhase
  PROVE  LiveInv'
<1>1. LiveTypeOK' BY DrainStepTypeOK DEF LiveInv
<1> USE <1>1 DEF LiveInv, LiveTypeOK, SurvivorsCancelled, SettledMeansNone, execVars, drainVars, phaseVars
<1>2. CASE StopAccepting
  BY <1>2 DEF StopAccepting, Advance, PhaseTypeOK, Phases, Wired, Draining, Closed
<1>3. CASE PollUntilEmpty BY <1>3 DEF PollUntilEmpty
<1>4. CASE WindowExpires BY <1>4 DEF WindowExpires
<1>5. CASE EndDrain BY <1>5 DEF EndDrain
<1>6. CASE CollectLive BY <1>6 DEF CollectLive
<1>7. CASE CancelLive BY <1>7 DEF CancelLive, Cancelled
<1>8. CASE ResumeWindow BY <1>8 DEF ResumeWindow
<1>9. CASE MovePhase
  BY <1>9 DEF MovePhase, Advance, PhaseTypeOK, Phases, Wired, Stopping, Draining, Destroying, Closed
<1>10. QED BY <1>2, <1>3, <1>4, <1>5, <1>6, <1>7, <1>8, <1>9 DEF DrainStep

\* The invariant is inductive.
THEOREM LiveInvariance == LiveSpec => []LiveInv
<1>1. LiveInit => LiveInv BY LiveInitInv
<1>2. LiveInv /\ [LiveNext]_liveVars => LiveInv'
  <2> SUFFICES ASSUME LiveInv, [LiveNext]_liveVars PROVE LiveInv' OBVIOUS
  <2>1. CASE \E e \in Execs : ExecStep(e) BY <2>1, ExecStepInv
  <2>2. CASE DrainStep \/ MovePhase BY <2>2, DrainStepInv
  <2>3. CASE UNCHANGED liveVars
    BY <2>3 DEF liveVars, phaseVars, execVars, drainVars, LiveInv, LiveTypeOK, PhaseTypeOK,
                SurvivorsCancelled, SettledMeansNone
  <2>4. QED BY <2>1, <2>2, <2>3 DEF LiveNext
<1>3. QED BY <1>1, <1>2, PTL DEF LiveSpec

\* LiveSet's types hold for any executions.
THEOREM LiveTypes == LiveSpec => []LiveTypeOK
<1>1. LiveInv => LiveTypeOK BY DEF LiveInv
<1>2. QED BY <1>1, LiveInvariance, PTL

\* Once cancel_all has returned, every execution still held has been cancelled.
THEOREM LiveSurvivorsCancelled == LiveSpec => []SurvivorsCancelled
<1>1. LiveInv => SurvivorsCancelled BY DEF LiveInv
<1>2. QED BY <1>1, LiveInvariance, PTL

\* A drain that saw the live set empty leaves no ordinary execution behind it.
THEOREM LiveSettledMeansNone == LiveSpec => []SettledMeansNone
<1>1. LiveInv => SettledMeansNone BY DEF LiveInv
<1>2. QED BY <1>1, LiveInvariance, PTL
=============================================================================
