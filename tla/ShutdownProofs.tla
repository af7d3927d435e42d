--------------------------- MODULE ShutdownProofs ---------------------------
(***************************************************************************)
(* The inductive invariant of Shutdown, that every step keeps it, and what *)
(* follows from it for any handles, servers and hooks.                     *)
(*                                                                         *)
(* What the sequence has done is kept in three records that different      *)
(* actors write: Progress (the runner's), Release (every claim's and the   *)
(* App value's) and the drain's place.  No property of Shutdown follows    *)
(* from one of them, so IInv says how they stand to each other:            *)
(*   SeqInv     where the runner stands, against Progress.stage and drain; *)
(*   ClaimInv   that Release.closing counts the claims not yet dropped;    *)
(*   ReleaseInv what a release by the last drop found and leaves behind;   *)
(*   KeptInv    who still has the servers and still owes draining();       *)
(*   HooksInv, ClosesInv, DrainedInv                                       *)
(*              what stage and cursor say of the hooks, closes and drains; *)
(*   CauseInv   what is recorded of the trigger, and where it stands;      *)
(*   RestInv    the ranges of the rest.                                    *)
(***************************************************************************)
EXTENDS Shutdown, FiniteSetTheorems

StageNames == {"Trigger", "BeforeShutdown", "Drain", "Destroy", "Close", "Shutdown", "Done"}
Points == {"none", "enter", "hooks", "hook", "fire", "drains", "window", "cancel",
           "closing", "closed", "release"}

\* The claims counted in release.closing, and those not refused.
Held == {c \in Claimers : close[c] \notin {"idle", "done"}}
Active == {c \in Claimers : close[c] \in {"claimed", "fire", "join", "running"}}

\* Where the runner stands in sequence(), against Progress.stage and the drain.
SeqInv ==
  /\ runner \in Claimers \cup {None} /\ at \in Points
  /\ stage \in StageNames /\ drainAt \in DrainStates
  /\ runner = None <=> at = "none"
  /\ at \in {"hooks", "hook"} => stage \in HookStages
  /\ at \in {"fire", "drains", "window", "cancel"} => stage = "Drain"
  /\ at \in {"closing", "closed", "release"} => stage = "Close"
  /\ stage \in {"Trigger", "BeforeShutdown"} => drainAt = "idle"
  /\ stage \in {"Destroy", "Close", "Shutdown", "Done"} => drainAt = "done"
  /\ stage = "Drain" => drainAt # "done"
  /\ at \in {"fire", "drains", "window"} => drainAt = "window"
  /\ at = "cancel" <=> drainAt \in {"ending", "collecting", "cancelling"}
  /\ drainEnded => drainAt \in {"collecting", "cancelling", "done"}

\* The claims, the App value and the record the drops share.
ClaimInv ==
  /\ release \in [appDropped: BOOLEAN, closing: Nat, released: BOOLEAN, serversClosed: BOOLEAN]
  /\ app \in {"held", "serving", "trigger", "closing", "returning", "gone"}
  /\ close \in [Claimers -> {"idle", "claimed", "refused", "fire", "join", "running", "done"}]
  /\ dropping \in [Claimers -> {"no", "fire", "release"}]
  /\ answer \in [Claimers -> {"none", "outcome", "Dropped"}]
  /\ release.closing = Cardinality(Held)
  /\ release.appDropped <=> app = "gone"
  /\ release.released => release.appDropped
  /\ app = "closing" <=> Owner \in Held
  /\ app \in {"held", "serving", "trigger"} => close[Owner] = "idle"
  /\ \A c \in Claimers : close[c] = "running" <=> runner = c
  /\ \A c \in Claimers : dropping[c] # "no" =>
       release.released /\ c \notin Held /\ (c \in Handles => close[c] = "done")

\* What a release by a drop has taken and from whom.
ReleaseInv ==
  /\ phase \in Phases
  /\ release.serversClosed <=> (at = "release" \/ stage \in {"Shutdown", "Done"})
  /\ outcome # NoOutcome => stage = "Done" /\ runner = None
  /\ release.appDropped /\ release.closing = 0 => release.released
  /\ release.released /\ ~release.serversClosed => Active = {} /\ phase = Closed
  /\ \A c \in Claimers : close[c] = "refused" \/ answer[c] = "Dropped"
       => release.released /\ ~release.serversClosed

\* Who still has the servers, and who still has to fire draining().
KeptInv ==
  /\ \E n \in ServerCounts : Server = 1 .. n
  /\ servers \in SUBSET Server /\ draining \in BOOLEAN
  /\ ~release.released /\ ~release.serversClosed => servers = Server
  /\ drainAt # "idle" /\ at # "fire" => draining
  /\ release.released => draining \/ \E c \in Claimers : dropping[c] = "fire"
  /\ release.released => servers = {} \/ \E c \in Claimers : dropping[c] # "no"

\* The stages behind a hook step.
Behind(s) == CASE s = "BeforeShutdown" -> {"Drain", "Destroy", "Close", "Shutdown", "Done"}
               [] s = "Destroy"        -> {"Close", "Shutdown", "Done"}
               [] s = "Shutdown"       -> {"Done"}

\* What Progress.stage and Progress.cursor say of the hooks, ...
HooksInv ==
  /\ hookStarts \in [HookStages -> [Hook -> Nat]] /\ cursor \in Nat
  /\ stage \in HookStages => cursor <= NHooks
  /\ stage \in {"Trigger", "Drain", "Done"} => cursor = 0
  /\ \A s \in HookStages : \A h \in Hook :
       hookStarts[s][h] = IF stage \in Behind(s) \/ (stage = s /\ h <= cursor) THEN 1 ELSE 0

\* ... of the closes, ...
ClosesInv ==
  /\ closeStarts \in [Server -> Nat]
  /\ stage \in {"Trigger", "BeforeShutdown", "Drain", "Destroy"} => \A s \in Server : closeStarts[s] = 0
  /\ stage \in {"Shutdown", "Done"} => \A s \in Server : closeStarts[s] = 1
  /\ stage = "Close" /\ at \in {"closed", "release"} =>
       cursor = 0 /\ \A s \in Server : closeStarts[s] = 1
  /\ stage = "Close" /\ at \notin {"closed", "release"} =>
       \/ cursor = 0 /\ at # "closing" /\ \A s \in Server : closeStarts[s] = 0
       \/ cursor = Cardinality(Server) /\ \A s \in Server : closeStarts[s] = 1

\* ... and the drain's own place of the servers it has told.
DrainedInv ==
  /\ drained \in SUBSET Server
  /\ drainAt # "idle" /\ at \notin {"fire", "drains"} => drained = Server

\* A list of failures that begins with the serve that ended exactly when that
\* end is the trigger, and names no other.
ServeFirst(fs) ==
  /\ trigger \in Server <=> Len(fs) > 0 /\ fs[1].kind = "Serve"
  /\ \A i \in 2 .. Len(fs) : fs[i].kind # "Serve"
IsSeq(fs) == fs \in Seq({fs[i] : i \in DOMAIN fs})

\* Who brought the shutdown about, and what the failures recorded so far say.
CauseInv ==
  /\ trigger \in Claimers \cup Server \cup {None} /\ cause \in Server \cup {None}
  /\ \A c \in Claimers : close[c] \in {"fire", "join", "running"} => trigger # None
  /\ stage # "Trigger" => trigger # None /\ cause = None
  /\ stage = "Trigger" => /\ failures = <<>>
                          /\ cause = IF trigger \in Server THEN trigger ELSE None
  /\ IsSeq(failures)
  /\ stage # "Trigger" /\ outcome = NoOutcome => ServeFirst(failures)
  /\ outcome # NoOutcome => /\ outcome.signal = trigger
                            /\ IsSeq(outcome.failures) /\ ServeFirst(outcome.failures)

\* The rest of the types.
RestInv ==
  /\ fired \in BOOLEAN /\ cap \in {"none", "running", "expired"}
  /\ drains \in SUBSET Server /\ closes \in SUBSET Server /\ closeErrs \in SUBSET Server
  /\ closeFailed \in SUBSET Server

IInv == SeqInv /\ ClaimInv /\ ReleaseInv /\ KeptInv /\ HooksInv /\ ClosesInv /\ DrainedInv /\ CauseInv /\ RestInv

\* The stage that follows each hook step, and the stages by name.
LEMMA StageOrder ==
  /\ After("BeforeShutdown") = "Drain" /\ After("Destroy") = "Close" /\ After("Shutdown") = "Done"
  /\ {Stages[i] : i \in 1 .. 7} = StageNames
<1>1. ASSUME NEW k \in 1 .. 7 PROVE Rank(Stages[k]) = k
  <2>1. \A i \in 1 .. 7 : Stages[i] = Stages[k] => i = k BY DEF Stages
  <2>2. \E i \in 1 .. 7 : Stages[i] = Stages[k] BY ZenonT(20)
  <2>3. QED BY ZenonT(20), <2>1, <2>2 DEF Rank
<1>2. Rank("BeforeShutdown") = 2 /\ Rank("Destroy") = 4 /\ Rank("Shutdown") = 6
  <2>1. Stages[2] = "BeforeShutdown" /\ Stages[4] = "Destroy" /\ Stages[6] = "Shutdown" BY ZenonT(20) DEF Stages
  <2>2. Rank(Stages[2]) = 2 /\ Rank(Stages[4]) = 4 /\ Rank(Stages[6]) = 6 BY <1>1
  <2>3. QED BY ZenonT(20), <2>1, <2>2
<1>3. After("BeforeShutdown") = "Drain" /\ After("Destroy") = "Close" /\ After("Shutdown") = "Done"
  BY <1>2 DEF After, Stages
<1>4. {Stages[i] : i \in 1 .. 7} = StageNames
  <2>1. \A i \in 1 .. 7 : Stages[i] \in StageNames BY DEF Stages, StageNames
  <2>2. \A s \in StageNames : \E i \in 1 .. 7 : Stages[i] = s
    <3>1. /\ Stages[1] = "Trigger" /\ Stages[2] = "BeforeShutdown" /\ Stages[3] = "Drain"
          /\ Stages[4] = "Destroy" /\ Stages[5] = "Close" /\ Stages[6] = "Shutdown" /\ Stages[7] = "Done"
      BY ZenonT(20) DEF Stages
    <3>2. QED BY <3>1 DEF StageNames
  <2>3. QED BY ZenonT(20), <2>1, <2>2
<1>5. QED BY ZenonT(20), <1>3, <1>4

\* No claimer and no server is None.
LEMMA NoneApart == None \notin Claimers
BY ZenonT(20), ShutdownAssumption DEF Claimers

-----------------------------------------------------------------------------
(* Where the runner stands. *)

\* SeqInv holds initially and every step keeps it.
LEMMA SeqInvInit == Init => SeqInv
BY ZenonT(20) DEF Init, LiveInit, PhaseInit, SeqInv, Points, StageNames, DrainStates, HookStages

\* Every step keeps SeqInv.
LEMMA SeqInvStep ==
  ASSUME SeqInv, [Next]_vars
  PROVE  SeqInv'
<1> USE DEF SeqInv, Points, StageNames, DrainStates, HookStages, At
<1> USE DEF liveVars, phaseVars, execVars, drainVars, cellVars, claimVars, seqVars
<1>1. CASE SeqTrigger BY ZenonT(20), <1>1 DEF SeqTrigger
<1>2. CASE BeginStep BY ZenonT(20), <1>2 DEF BeginStep
<1>3. CASE StartHook BY ZenonT(20), <1>3 DEF StartHook
<1>4. CASE EndHook BY ZenonT(20), <1>4 DEF EndHook
<1>5. CASE EndStep BY ZenonT(20), <1>5, StageOrder DEF EndStep
<1>6. CASE SeqStop BY ZenonT(20), <1>6 DEF SeqStop, StopAccepting
<1>7. CASE SeqFire BY ZenonT(20), <1>7 DEF SeqFire
<1>8. CASE SeqDrains BY ZenonT(20), <1>8 DEF SeqDrains
<1>9. CASE SeqResumeDrain BY ZenonT(20), <1>9 DEF SeqResumeDrain, ResumeWindow
<1>10. CASE \E s \in Server : ServerDrained(s) \/ EndClose(s) BY <1>10 DEF ServerDrained, EndClose
<1>11. CASE SeqDrain
  <2>1. CASE At("window", "Drain") /\ (PollUntilEmpty \/ WindowExpires)
    BY SMTT(30), <1>11, <2>1 DEF SeqDrain, PollUntilEmpty, WindowExpires
  <2>2. CASE At("cancel", "Drain") /\ (EndDrain \/ CollectLive \/ CancelLive)
    BY ZenonT(20), <1>11, <2>2 DEF SeqDrain, EndDrain, CollectLive, CancelLive
  <2>3. QED BY ZenonT(20), <1>11, <2>1, <2>2 DEF SeqDrain
<1>12. CASE StartCloses BY ZenonT(20), <1>12 DEF StartCloses
<1>13. CASE JoinCloses BY ZenonT(20), <1>13 DEF JoinCloses
<1>14. CASE MarkClosed BY ZenonT(20), <1>14 DEF MarkClosed
<1>15. CASE ReleaseClosed BY ZenonT(20), <1>15 DEF ReleaseClosed
<1>16. CASE Finish BY ZenonT(20), <1>16 DEF Finish
<1>17. CASE CapExpires BY ZenonT(20), <1>17 DEF CapExpires
<1>18. CASE AppStep
  BY SMTT(30), <1>18 DEF AppStep, DropApp, ReleasedByDrop, AppClose, Serve, ServeSignal, ServeTriggered, ServeFire, ServeEnds
<1>19. ASSUME NEW c \in Claimers, ClaimStep(c) PROVE SeqInv'
  <2>1. CASE Join(c) BY ZenonT(20), <2>1, NoneApart DEF Join
  <2>2. CASE DropClose(c)
    BY ZenonT(20), <2>2 DEF DropClose, DropClaim, ReleasedByDrop, AtAwait
  <2>3. CASE HandleClose(c) \/ PollTrigger(c) \/ PollFire(c) \/ ReleaseFire(c) \/ ReleaseServers(c)
    BY <2>3 DEF HandleClose, PollTrigger, PollFire, ReleaseFire, ReleaseServers
  <2>4. CASE AnswerDropped(c) \/ Answer(c)
    BY SMTT(30), <2>4 DEF AnswerDropped, Answer, DropClaim, ReleasedByDrop
  <2>5. QED BY ZenonT(20), <1>19, <2>1, <2>2, <2>3, <2>4 DEF ClaimStep
<1>20. ASSUME NEW e \in Execs, ExecutionStep(e) PROVE SeqInv'
  BY SMTT(30), <1>20 DEF ExecutionStep, ExecStep, Enter, CheckPhase, CheckDrainEnded, Attach, CancelLate, CancelOther, EndExec, DropSlot
<1>21. CASE UNCHANGED vars BY ZenonT(20), <1>21 DEF vars
<1>22. QED
  BY ZenonT(20), <1>1, <1>2, <1>3, <1>4, <1>5, <1>6, <1>7, <1>8, <1>9, <1>10, <1>11, <1>12, <1>13, <1>14,
     <1>15, <1>16, <1>17, <1>18, <1>19, <1>20, <1>21 DEF Next, SeqStep

-----------------------------------------------------------------------------
(* Counting. *)

\* The empty set, and only it, counts zero.
LEMMA CountEmpty ==
  /\ IsFiniteSet({}) /\ Cardinality({}) = 0
  /\ \A S : IsFiniteSet(S) => (Cardinality(S) = 0 <=> S = {})
BY ZenonT(20), FS_EmptySet

\* A finite set counts a natural number.
LEMMA CountNat ==
  ASSUME NEW S, IsFiniteSet(S)
  PROVE  Cardinality(S) \in Nat
BY ZenonT(20), FS_CardinalityType

\* One element more.
LEMMA CountAdd ==
  ASSUME NEW S, NEW x, IsFiniteSet(S)
  PROVE  /\ IsFiniteSet(S \cup {x})
         /\ Cardinality(S \cup {x}) = IF x \in S THEN Cardinality(S) ELSE Cardinality(S) + 1
BY ZenonT(20), FS_AddElement

\* One element less.
LEMMA CountRemove ==
  ASSUME NEW S, NEW x, IsFiniteSet(S)
  PROVE  /\ IsFiniteSet(S \ {x})
         /\ Cardinality(S \ {x}) = IF x \in S THEN Cardinality(S) - 1 ELSE Cardinality(S)
BY ZenonT(20), FS_RemoveElement

\* A part of a finite set is finite.
LEMMA CountSubset ==
  ASSUME NEW S, IsFiniteSet(S), NEW T \in SUBSET S
  PROVE  IsFiniteSet(T)
BY ZenonT(20), FS_Subset

\* The numbers from 1 to n.
LEMMA CountInterval ==
  ASSUME NEW n \in Nat
  PROVE  IsFiniteSet(1 .. n) /\ Cardinality(1 .. n) = n
BY SMTT(30), FS_Interval

-----------------------------------------------------------------------------
(* The claims. *)

\* Counting one claim more and one claim less.
LEMMA HeldCount ==
  ASSUME ClaimInv
  PROVE  /\ IsFiniteSet(Held) /\ Held \subseteq Claimers
         /\ \A c \in Claimers \ Held : Cardinality(Held \cup {c}) = Cardinality(Held) + 1
         /\ \A c \in Held : Cardinality(Held \ {c}) = Cardinality(Held) - 1 /\ Cardinality(Held) > 0
         /\ release.closing = 0 => Held = {}
<1>1. IsFiniteSet(Claimers) BY ZenonT(20), ShutdownAssumption, CountAdd DEF Claimers
<1>2. IsFiniteSet(Held) /\ Held \subseteq Claimers
  <2>1. Held \in SUBSET Claimers BY ZenonT(20) DEF Held
  <2>2. QED BY ZenonT(20), <1>1, <2>1, CountSubset
<1>3. \A c \in Claimers \ Held : Cardinality(Held \cup {c}) = Cardinality(Held) + 1
  BY ZenonT(20), <1>2, CountAdd
<1>4. \A c \in Held : Cardinality(Held \ {c}) = Cardinality(Held) - 1 /\ Cardinality(Held) > 0
  <2>1. Cardinality(Held) \in Nat BY ZenonT(20), <1>2, CountNat
  <2>2. Held # {} => Cardinality(Held) # 0 BY ZenonT(20), <1>2, CountEmpty
  <2>3. \A c \in Held : Cardinality(Held \ {c}) = Cardinality(Held) - 1 BY ZenonT(20), <1>2, CountRemove
  <2>4. QED BY <2>1, <2>2, <2>3
<1>5. release.closing = 0 => Held = {} BY ZenonT(20), <1>2, CountEmpty DEF ClaimInv
<1>6. QED BY ZenonT(20), <1>2, <1>3, <1>4, <1>5

\* What Closing::claim does to the claim it takes, ...
LEMMA ClaimMarks ==
  ASSUME ClaimInv, NEW c \in Claimers, Claim(c)
  PROVE  /\ close'[c] \in {"claimed", "refused"} /\ \A d \in Claimers \ {c} : close'[d] = close[d]
         /\ close'[c] = "claimed" <=> ~(release.released /\ ~release.serversClosed)
BY ZenonT(20) DEF ClaimInv, Claim

\* ... and to the record the drops share.
LEMMA ClaimCounts ==
  ASSUME ClaimInv, NEW c \in Claimers, Claim(c)
  PROVE  /\ release'.closing = release.closing + 1 /\ release'.appDropped = release.appDropped
         /\ release'.released = release.released /\ release'.serversClosed = release.serversClosed
BY ZenonT(20) DEF ClaimInv, Claim

\* Both, with the types and the count of the claims held.
LEMMA ClaimKeeps ==
  ASSUME ClaimInv, NEW c \in Claimers, close[c] = "idle", Claim(c)
  PROVE  /\ close' \in [Claimers -> {"idle", "claimed", "refused", "fire", "join", "running", "done"}]
         /\ close'[c] \in {"claimed", "refused"} /\ \A d \in Claimers \ {c} : close'[d] = close[d]
         /\ close'[c] = "claimed" <=> ~(release.released /\ ~release.serversClosed)
         /\ release' \in [appDropped: BOOLEAN, closing: Nat, released: BOOLEAN, serversClosed: BOOLEAN]
         /\ release'.closing = release.closing + 1 /\ release'.appDropped = release.appDropped
         /\ release'.released = release.released /\ release'.serversClosed = release.serversClosed
         /\ Held' = Held \cup {c} /\ release'.closing = Cardinality(Held')
<1>1. /\ close' \in [Claimers -> {"idle", "claimed", "refused", "fire", "join", "running", "done"}]
      /\ close'[c] \in {"claimed", "refused"} /\ \A d \in Claimers \ {c} : close'[d] = close[d]
      /\ close'[c] = "claimed" <=> ~(release.released /\ ~release.serversClosed)
  BY ZenonT(20) DEF ClaimInv, Claim
<1>2. /\ release' \in [appDropped: BOOLEAN, closing: Nat, released: BOOLEAN, serversClosed: BOOLEAN]
      /\ release'.closing = release.closing + 1 /\ release'.appDropped = release.appDropped
      /\ release'.released = release.released /\ release'.serversClosed = release.serversClosed
  BY DEF ClaimInv, Claim
<1>3. Held' = Held \cup {c} BY ZenonT(20), <1>1 DEF Held, Claimers
<1>4. c \notin Held BY ZenonT(20) DEF Held
<1>5. release'.closing = Cardinality(Held') BY ZenonT(20), <1>2, <1>3, <1>4, HeldCount DEF ClaimInv
<1>6. QED BY ZenonT(20), <1>1, <1>2, <1>3, <1>5

\* What a drop of the claim c does to it.
LEMMA DropMarks ==
  ASSUME ClaimInv, NEW c \in Claimers, DropClaim(c)
  PROVE  close'[c] = "done" /\ \A d \in Claimers \ {c} : close'[d] = close[d]
BY ZenonT(20) DEF ClaimInv, DropClaim

\* What it does to all of them and to the record they share.
LEMMA DropKeeps ==
  ASSUME ClaimInv, NEW c \in Held, DropClaim(c)
  PROVE  /\ close' \in [Claimers -> {"idle", "claimed", "refused", "fire", "join", "running", "done"}]
         /\ close'[c] = "done" /\ \A d \in Claimers \ {c} : close'[d] = close[d]
         /\ release' \in [appDropped: BOOLEAN, closing: Nat, released: BOOLEAN, serversClosed: BOOLEAN]
         /\ release'.closing = release.closing - 1 /\ release'.appDropped = release.appDropped
         /\ release'.serversClosed = release.serversClosed
         /\ release'.released <=> release.released \/ (release'.appDropped /\ release'.closing = 0)
         /\ Held' = Held \ {c} /\ release'.closing = Cardinality(Held')
         /\ release'.closing = 0 => Held' = {}
         /\ dropping' \in [Claimers -> {"no", "fire", "release"}]
         /\ \A d \in Claimers \ {c} : dropping'[d] = dropping[d]
         /\ dropping'[c] = IF ~(release'.appDropped /\ release'.closing = 0) THEN "no"
                           ELSE IF release'.serversClosed THEN "release" ELSE "fire"
         /\ IF release'.appDropped /\ release'.closing = 0 /\ ~release'.serversClosed
              THEN Advance(Closed) ELSE UNCHANGED phase
<1>0. c \in Claimers BY ZenonT(20) DEF Held
<1>1. /\ close' \in [Claimers -> {"idle", "claimed", "refused", "fire", "join", "running", "done"}]
      /\ close'[c] = "done" /\ \A d \in Claimers \ {c} : close'[d] = close[d]
  BY ZenonT(20), <1>0 DEF ClaimInv, DropClaim
<1>2. Held' = Held \ {c} BY ZenonT(20), <1>0, <1>1 DEF Held, Claimers
<1>3. release.closing = Cardinality(Held) /\ release.closing - 1 \in Nat
  BY HeldCount DEF ClaimInv
<1> DEFINE r == [release EXCEPT !.closing = @ - 1]
<1>4. /\ r \in [appDropped: BOOLEAN, closing: Nat, released: BOOLEAN, serversClosed: BOOLEAN]
      /\ r.closing = release.closing - 1 /\ r.appDropped = release.appDropped
      /\ r.released = release.released /\ r.serversClosed = release.serversClosed
  BY ZenonT(20), <1>3 DEF ClaimInv
<1>5. ReleasedByDrop(r, c) BY ZenonT(20) DEF DropClaim
<1> HIDE DEF r
<1>6. /\ release' \in [appDropped: BOOLEAN, closing: Nat, released: BOOLEAN, serversClosed: BOOLEAN]
      /\ release'.closing = r.closing /\ release'.appDropped = r.appDropped
      /\ release'.serversClosed = r.serversClosed
      /\ release'.released <=> r.released \/ (r.appDropped /\ r.closing = 0)
  BY ZenonT(20), <1>4, <1>5 DEF ReleasedByDrop
<1>7. /\ dropping' \in [Claimers -> {"no", "fire", "release"}]
      /\ \A d \in Claimers \ {c} : dropping'[d] = dropping[d]
      /\ dropping'[c] = IF ~(r.appDropped /\ r.closing = 0) THEN "no"
                        ELSE IF r.serversClosed THEN "release" ELSE "fire"
      /\ IF r.appDropped /\ r.closing = 0 /\ ~r.serversClosed THEN Advance(Closed) ELSE UNCHANGED phase
  BY ZenonT(20), <1>0, <1>5 DEF ReleasedByDrop, ClaimInv
<1>8. release'.closing = Cardinality(Held') BY ZenonT(20), <1>2, <1>3, <1>4, <1>6, HeldCount
<1>9. release'.closing = 0 => Held' = {}
  <2>1. IsFiniteSet(Held') BY ZenonT(20), <1>2, HeldCount, CountRemove
  <2>2. QED BY ZenonT(20), <1>8, <2>1, CountEmpty
<1>10. QED BY ZenonT(20), <1>1, <1>2, <1>4, <1>6, <1>7, <1>8, <1>9

\* What the App value's drop does: no claim of its own is left.
LEMMA DropAppKeeps ==
  ASSUME ClaimInv, DropApp
  PROVE  /\ release' \in [appDropped: BOOLEAN, closing: Nat, released: BOOLEAN, serversClosed: BOOLEAN]
         /\ release'.closing = release.closing /\ release'.appDropped
         /\ release'.serversClosed = release.serversClosed
         /\ release'.released <=> release.released \/ release.closing = 0
         /\ close' = close /\ Held' = Held /\ Owner \notin Held /\ app' = "gone"
         /\ dropping' \in [Claimers -> {"no", "fire", "release"}]
         /\ dropping[Owner] = "no" /\ \A d \in Handles : dropping'[d] = dropping[d]
         /\ dropping'[Owner] = IF release.closing # 0 THEN "no"
                               ELSE IF release.serversClosed THEN "release" ELSE "fire"
         /\ IF release.closing = 0 /\ ~release.serversClosed THEN Advance(Closed) ELSE UNCHANGED phase
<1> DEFINE r == [release EXCEPT !.appDropped = TRUE]
<1>1. /\ r \in [appDropped: BOOLEAN, closing: Nat, released: BOOLEAN, serversClosed: BOOLEAN]
      /\ r.closing = release.closing /\ r.appDropped
      /\ r.released = release.released /\ r.serversClosed = release.serversClosed
  BY ZenonT(20) DEF ClaimInv
<1>2. /\ ReleasedByDrop(r, Owner) /\ close' = close /\ app' = "gone" /\ dropping[Owner] = "no"
      /\ app \in {"held", "serving", "returning"}
  BY ZenonT(20) DEF DropApp
<1> HIDE DEF r
<1>3. /\ release' \in [appDropped: BOOLEAN, closing: Nat, released: BOOLEAN, serversClosed: BOOLEAN]
      /\ release'.closing = r.closing /\ release'.appDropped
      /\ release'.serversClosed = r.serversClosed
      /\ release'.released <=> r.released \/ r.closing = 0
  BY ZenonT(20), <1>1, <1>2 DEF ReleasedByDrop
<1>4. /\ dropping' \in [Claimers -> {"no", "fire", "release"}]
      /\ \A d \in Handles : dropping'[d] = dropping[d]
      /\ dropping'[Owner] = IF r.closing # 0 THEN "no" ELSE IF r.serversClosed THEN "release" ELSE "fire"
      /\ IF r.closing = 0 /\ ~r.serversClosed THEN Advance(Closed) ELSE UNCHANGED phase
  BY ZenonT(20), <1>1, <1>2, ShutdownAssumption DEF ReleasedByDrop, ClaimInv, Claimers
<1>5. Held' = Held BY ZenonT(20), <1>2 DEF Held
<1>6. Owner \notin Held BY ZenonT(20), <1>2 DEF ClaimInv
<1>7. QED BY ZenonT(20), <1>1, <1>2, <1>3, <1>4, <1>5, <1>6

\* A step that leaves the claims and the runner alone keeps ClaimInv.
LEMMA ClaimInvStutter ==
  ASSUME ClaimInv, UNCHANGED <<claimVars, runner>>
  PROVE  ClaimInv'
BY ZenonT(20) DEF ClaimInv, claimVars, Held

\* ClaimInv holds initially.
LEMMA ClaimInvInit == Init => ClaimInv
<1> SUFFICES ASSUME Init PROVE ClaimInv BY ZenonT(20)
<1>1. Held = {} BY ZenonT(20) DEF Init, Held
<1>2. Cardinality(Held) = 0 BY ZenonT(20), <1>1, CountEmpty
<1>3. Owner \in Claimers BY ZenonT(20) DEF Claimers
<1>4. QED BY ZenonT(20), <1>1, <1>2, <1>3, NoneApart DEF Init, ClaimInv

\* A new claim keeps it, of a handle or of the App value.
LEMMA ClaimInvClaim ==
  ASSUME SeqInv, ClaimInv, NEW c \in Claimers, close[c] = "idle", Claim(c),
         UNCHANGED <<dropping, answer, runner>>,
         \/ c \in Handles /\ app' = app /\ dropping[c] = "no"
         \/ c = Owner /\ app' = "closing" /\ app # "gone"
  PROVE  ClaimInv'
<1> USE DEF ClaimInv
<1>1. PICK k \in {"claimed", "refused"} : close'[c] = k /\ close' \in [Claimers -> {"idle", "claimed", "refused", "fire", "join", "running", "done"}]
                  /\ \A d \in Claimers \ {c} : close'[d] = close[d]
  BY ZenonT(20), ClaimKeeps
<1>2. /\ release' \in [appDropped: BOOLEAN, closing: Nat, released: BOOLEAN, serversClosed: BOOLEAN]
      /\ release'.closing = Cardinality(Held') /\ release'.appDropped = release.appDropped
      /\ release'.released = release.released /\ Held' = Held \cup {c}
  BY ZenonT(20), ClaimKeeps
<1>3. Owner \in Claimers /\ Owner \notin Handles BY ZenonT(20), ShutdownAssumption DEF Claimers
<1>4. /\ app' \in {"held", "serving", "trigger", "closing", "returning", "gone"}
      /\ release'.appDropped <=> app' = "gone"
      /\ app' = "closing" <=> Owner \in Held'
      /\ app' \in {"held", "serving", "trigger"} => close'[Owner] = "idle"
  BY ZenonT(20), <1>1, <1>2, <1>3
<1>5. \A d \in Claimers : close'[d] = "running" <=> runner' = d BY ZenonT(20), <1>1
<1>6. \A d \in Claimers : dropping'[d] # "no" =>
        release'.released /\ d \notin Held' /\ (d \in Handles => close'[d] = "done")
  BY <1>1, <1>2, <1>3
<1>7. QED BY ZenonT(20), <1>1, <1>2, <1>4, <1>5, <1>6

\* So does a claim's drop, by a future that runs nothing or that leaves the
\* sequence to a successor.
LEMMA ClaimInvDrop ==
  ASSUME SeqInv, ClaimInv, NEW c \in Held, DropClaim(c), answer' \in [Claimers -> {"none", "outcome", "Dropped"}],
         runner' = IF runner = c THEN None ELSE runner
  PROVE  ClaimInv'
<1> USE DEF ClaimInv
<1>0. c \in Claimers /\ Owner \in Claimers /\ Owner \notin Handles BY ZenonT(20), ShutdownAssumption DEF Held, Claimers
<1>1. app' = IF c = Owner THEN "returning" ELSE app BY ZenonT(20) DEF DropClaim
<1>2. /\ close' \in [Claimers -> {"idle", "claimed", "refused", "fire", "join", "running", "done"}]
      /\ close'[c] = "done" /\ \A d \in Claimers \ {c} : close'[d] = close[d]
      /\ release' \in [appDropped: BOOLEAN, closing: Nat, released: BOOLEAN, serversClosed: BOOLEAN]
      /\ release'.appDropped = release.appDropped /\ release'.closing = Cardinality(Held')
      /\ release'.released <=> release.released \/ (release'.appDropped /\ release'.closing = 0)
      /\ Held' = Held \ {c}
      /\ dropping' \in [Claimers -> {"no", "fire", "release"}]
      /\ \A d \in Claimers \ {c} : dropping'[d] = dropping[d]
      /\ dropping'[c] # "no" => release'.appDropped /\ release'.closing = 0
  BY ZenonT(20), DropKeeps
<1>3. /\ app' \in {"held", "serving", "trigger", "closing", "returning", "gone"}
      /\ release'.appDropped <=> app' = "gone"
      /\ app' = "closing" <=> Owner \in Held'
      /\ app' \in {"held", "serving", "trigger"} => close'[Owner] = "idle"
  BY <1>0, <1>1, <1>2
<1>4. \A d \in Claimers : close'[d] = "running" <=> runner' = d
  BY <1>0, <1>2, NoneApart
<1>5. \A d \in Claimers : dropping'[d] # "no" =>
        release'.released /\ d \notin Held' /\ (d \in Handles => close'[d] = "done")
  BY <1>0, <1>2
<1>6. QED BY ZenonT(20), <1>2, <1>3, <1>4, <1>5

\* Every step keeps ClaimInv.
LEMMA ClaimInvStep ==
  ASSUME SeqInv, ClaimInv, [Next]_vars
  PROVE  ClaimInv'
<1> USE DEF claimVars, seqVars
<1>1. CASE SeqStep
  <2>1. CASE Finish
    <3>1. runner \in Claimers /\ close[runner] = "running" BY ZenonT(20), <2>1 DEF Finish, At, SeqInv, ClaimInv
    <3>2. /\ close' = [close EXCEPT ![runner] = "join"] /\ runner' = None
          /\ UNCHANGED <<release, app, dropping, answer>>
      BY ZenonT(20), <2>1 DEF Finish
    <3>3. Held' = Held BY ZenonT(20), <3>1, <3>2 DEF Held, ClaimInv
    <3>4. Owner \in Claimers BY ZenonT(20) DEF Claimers
    <3>5. QED BY ZenonT(20), <3>1, <3>2, <3>3, <3>4, NoneApart DEF ClaimInv, Held
  <2>2. CASE MarkClosed
    <3>1. /\ release' = [release EXCEPT !.serversClosed = TRUE]
          /\ UNCHANGED <<close, runner, app, dropping, answer>>
      BY ZenonT(20), <2>2 DEF MarkClosed
    <3>2. Held' = Held BY ZenonT(20), <3>1 DEF Held
    <3>3. QED BY ZenonT(20), <3>1, <3>2 DEF ClaimInv
  <2>3. CASE UNCHANGED <<claimVars, runner>> BY ZenonT(20), <2>3, ClaimInvStutter
  <2>4. QED
    BY ZenonT(20), <1>1, <2>1, <2>2, <2>3
       DEF SeqStep, SeqTrigger, BeginStep, StartHook, EndHook, EndStep, SeqStop, SeqFire, SeqDrains, SeqResumeDrain,
           ServerDrained, EndClose, SeqDrain, StartCloses, JoinCloses, ReleaseClosed
<1>2. CASE CapExpires \/ UNCHANGED vars BY ZenonT(20), <1>2, ClaimInvStutter DEF CapExpires, vars
<1>3. CASE AppStep
  <2>0. Owner \in Claimers BY ZenonT(20) DEF Claimers
  <2>1. CASE DropApp
    <3>1. /\ release' \in [appDropped: BOOLEAN, closing: Nat, released: BOOLEAN, serversClosed: BOOLEAN]
          /\ release'.closing = release.closing /\ release'.appDropped
          /\ release'.released <=> release.released \/ release.closing = 0
          /\ close' = close /\ Held' = Held /\ Owner \notin Held /\ app' = "gone"
          /\ dropping' \in [Claimers -> {"no", "fire", "release"}]
          /\ \A d \in Handles : dropping'[d] = dropping[d]
          /\ dropping'[Owner] # "no" => release.closing = 0
      BY ZenonT(20), <2>1, DropAppKeeps
    <3>2. answer' = answer /\ runner' = runner BY ZenonT(20), <2>1 DEF DropApp
    <3>3. \A c \in Claimers : c \in Handles \/ c = Owner BY ZenonT(20) DEF Claimers
    <3>4. QED BY ZenonT(20), <3>1, <3>2, <3>3, ShutdownAssumption DEF ClaimInv
  <2>2. CASE AppClose \/ ServeSignal \/ ServeTriggered \/ ServeFire
    BY ZenonT(20), <2>0, <2>2, ClaimInvClaim DEF AppClose, ServeSignal, ServeTriggered, ServeFire, ClaimInv
  <2>3. CASE Serve
    <3>1. Held' = Held BY ZenonT(20), <2>3 DEF Serve, Held
    <3>2. QED BY ZenonT(20), <2>3, <3>1 DEF Serve, ClaimInv
  <2>4. ASSUME NEW s \in Server, ServeEnds(s) PROVE ClaimInv'
    <3>1. CASE trigger = None
      <4>1. /\ app = "serving" /\ app' = "trigger"
            /\ UNCHANGED <<release, close, dropping, answer, runner>>
        BY ZenonT(20), <2>4, <3>1 DEF ServeEnds
      <4>2. Held' = Held BY ZenonT(20), <4>1 DEF Held
      <4>3. QED BY ZenonT(20), <4>1, <4>2 DEF ClaimInv
    <3>2. CASE trigger # None BY ZenonT(20), <2>0, <2>4, <3>2, ClaimInvClaim DEF ServeEnds, ClaimInv
    <3>3. QED BY ZenonT(20), <3>1, <3>2
  <2>5. QED BY ZenonT(20), <1>3, <2>1, <2>2, <2>3, <2>4 DEF AppStep
<1>4. ASSUME NEW c \in Claimers, ClaimStep(c) PROVE ClaimInv'
  <2>0. Owner \in Claimers BY ZenonT(20) DEF Claimers
  <2>1. CASE HandleClose(c)
    <3>1. dropping[c] = "no" BY ZenonT(20), <2>1 DEF HandleClose, ClaimInv
    <3>2. QED BY ZenonT(20), <2>1, <3>1, ClaimInvClaim DEF HandleClose
  <2>2. CASE AnswerDropped(c) \/ Answer(c)
    <3>1. c \in Held /\ runner # c BY ZenonT(20), <2>2 DEF AnswerDropped, Answer, Held, ClaimInv
    <3>2. DropClaim(c) /\ runner' = runner BY ZenonT(20), <2>2 DEF AnswerDropped, Answer
    <3>3. answer' \in [Claimers -> {"none", "outcome", "Dropped"}]
      BY ZenonT(20), <2>2 DEF AnswerDropped, Answer, ClaimInv
    <3>4. QED BY ZenonT(20), <3>1, <3>2, <3>3, ClaimInvDrop
  <2>3. CASE DropClose(c)
    <3>1. c \in Held /\ DropClaim(c) /\ answer' = answer BY ZenonT(20), <2>3 DEF DropClose, Held
    <3>2. runner' = IF runner = c THEN None ELSE runner BY ZenonT(20), <2>3 DEF DropClose, ClaimInv
    <3>3. answer' \in [Claimers -> {"none", "outcome", "Dropped"}] BY ZenonT(20), <3>1 DEF ClaimInv
    <3>4. QED BY ZenonT(20), <3>1, <3>2, <3>3, ClaimInvDrop
  <2>4. CASE PollTrigger(c) \/ PollFire(c)
    <3>1. PICK k \in {"fire", "join"} : close' = [close EXCEPT ![c] = k] /\ close[c] \in {"claimed", "fire"}
      BY ZenonT(20), <2>4 DEF PollTrigger, PollFire
    <3>2. UNCHANGED <<release, app, dropping, answer, runner>> BY ZenonT(20), <2>4 DEF PollTrigger, PollFire
    <3>3. Held' = Held BY ZenonT(20), <3>1 DEF Held, ClaimInv
    <3>4. QED BY SMTT(30), <2>0, <3>1, <3>2, <3>3 DEF ClaimInv, Held
  <2>5. CASE Join(c)
    <3>1. /\ close' = [close EXCEPT ![c] = "running"] /\ close[c] = "join" /\ runner = None /\ runner' = c
          /\ UNCHANGED <<release, app, dropping, answer>>
      BY ZenonT(20), <2>5 DEF Join
    <3>2. Held' = Held BY ZenonT(20), <3>1 DEF Held, ClaimInv
    <3>3. QED BY SMTT(30), <2>0, <3>1, <3>2, NoneApart DEF ClaimInv, Held
  <2>6. CASE ReleaseFire(c) \/ ReleaseServers(c)
    <3>1. PICK k \in {"no", "release"} : dropping' = [dropping EXCEPT ![c] = k] /\ dropping[c] # "no"
      BY ZenonT(20), <2>6 DEF ReleaseFire, ReleaseServers
    <3>2. UNCHANGED <<release, app, close, answer, runner>> BY ZenonT(20), <2>6 DEF ReleaseFire, ReleaseServers
    <3>3. Held' = Held BY ZenonT(20), <3>2 DEF Held
    <3>4. QED BY ZenonT(20), <3>1, <3>2, <3>3 DEF ClaimInv
  <2>7. QED BY ZenonT(20), <1>4, <2>1, <2>2, <2>3, <2>4, <2>5, <2>6 DEF ClaimStep
<1>5. ASSUME NEW e \in Execs, ExecutionStep(e) PROVE ClaimInv'
  BY ZenonT(20), <1>5, ClaimInvStutter DEF ExecutionStep
<1>6. QED BY ZenonT(20), <1>1, <1>2, <1>3, <1>4, <1>5 DEF Next

-----------------------------------------------------------------------------
(* The release by a drop. *)

\* The phase is a phase, and Closed is the last.
LEMMA PhaseSteps ==
  ASSUME phase \in Phases, [Next]_vars
  PROVE  phase' \in Phases /\ (phase = Closed => phase' = Closed)
<1> USE DEF liveVars, phaseVars
<1>1. ASSUME NEW to \in {Stopping, Draining, Destroying, Closed}, Advance(to)
      PROVE  phase' \in Phases /\ (phase = Closed => phase' = Closed)
  BY <1>1 DEF Advance, Phases, Wired, Stopping, Draining, Destroying, Closed
<1>2. ASSUME NEW r, NEW c, ReleasedByDrop(r, c)
      PROVE  phase' \in Phases /\ (phase = Closed => phase' = Closed)
  BY ZenonT(20), <1>1, <1>2 DEF ReleasedByDrop
<1>3. CASE UNCHANGED phase BY ZenonT(20), <1>3
<1>4. CASE SeqStep
  <2>1. CASE SeqTrigger BY ZenonT(20), <1>1, <2>1 DEF SeqTrigger
  <2>2. CASE BeginStep BY ZenonT(20), <1>1, <1>3, <2>2 DEF BeginStep
  <2>3. CASE EndStep BY ZenonT(20), <1>1, <1>3, <2>3 DEF EndStep
  <2>4. CASE SeqStop BY ZenonT(20), <1>1, <2>4 DEF SeqStop, StopAccepting
  <2>5. CASE SeqDrain
    BY ZenonT(20), <1>3, <2>5 DEF SeqDrain, PollUntilEmpty, WindowExpires, EndDrain, CollectLive, CancelLive
  <2>6. CASE SeqResumeDrain BY ZenonT(20), <1>3, <2>6 DEF SeqResumeDrain, ResumeWindow
  <2>7. QED
    BY ZenonT(20), <1>3, <1>4, <2>1, <2>2, <2>3, <2>4, <2>5, <2>6
       DEF SeqStep, StartHook, EndHook, SeqFire, SeqDrains, ServerDrained, EndClose, StartCloses, JoinCloses,
           MarkClosed, ReleaseClosed, Finish
<1>5. CASE CapExpires \/ UNCHANGED vars BY ZenonT(20), <1>3, <1>5 DEF CapExpires, vars
<1>6. CASE AppStep
  BY ZenonT(20), <1>2, <1>3, <1>6 DEF AppStep, DropApp, AppClose, Serve, ServeSignal, ServeTriggered, ServeFire, ServeEnds
<1>7. ASSUME NEW c \in Claimers, ClaimStep(c) PROVE phase' \in Phases /\ (phase = Closed => phase' = Closed)
  <2>1. CASE AnswerDropped(c) \/ Answer(c) \/ DropClose(c)
    BY ZenonT(20), <1>2, <2>1 DEF AnswerDropped, Answer, DropClose, DropClaim
  <2>2. QED
    BY ZenonT(20), <1>3, <1>7, <2>1 DEF ClaimStep, HandleClose, PollTrigger, PollFire, Join, ReleaseFire, ReleaseServers
<1>8. ASSUME NEW e \in Execs, ExecutionStep(e) PROVE phase' \in Phases /\ (phase = Closed => phase' = Closed)
  BY ZenonT(20), <1>3, <1>8 DEF ExecutionStep, ExecStep, Enter, CheckPhase, CheckDrainEnded, Attach, CancelLate,
                    CancelOther, EndExec, DropSlot
<1>9. QED BY ZenonT(20), <1>4, <1>5, <1>6, <1>7, <1>8 DEF Next

\* ReleaseInv holds initially.
LEMMA ReleaseInvInit == Init => ReleaseInv
BY DEF Init, ReleaseInv, LiveInit, PhaseInit, Phases, Wired, Running, Closed

\* The conjuncts of ReleaseInv other than the phase's type, in a step that
\* leaves the claims' record alone.
LEMMA ReleaseInvSeq ==
  ASSUME SeqInv, ClaimInv, ReleaseInv, SeqStep, phase' \in Phases, phase = Closed => phase' = Closed
  PROVE  ReleaseInv'
<1> USE DEF SeqInv, ReleaseInv, StageNames, Points, HookStages, At
<1> USE DEF claimVars, cellVars, liveVars, phaseVars
<1>0. runner \in Claimers /\ close[runner] = "running" /\ runner \in Active
  BY ZenonT(20) DEF SeqStep, SeqTrigger, BeginStep, StartHook, EndHook, EndStep, SeqStop, SeqFire, SeqDrains, SeqResumeDrain,
         ServerDrained, EndClose, SeqDrain, StartCloses, JoinCloses, MarkClosed, ReleaseClosed, Finish, ClaimInv, Active
<1>1. CASE EndStep
  BY ZenonT(20), <1>1, StageOrder DEF EndStep, Active
<1>2. CASE MarkClosed
  <2>1. ~release.released BY ZenonT(20), <1>0, <1>2 DEF MarkClosed
  <2>2. /\ release'.serversClosed /\ release'.released = release.released /\ at' = "release"
        /\ UNCHANGED <<close, answer, outcome, stage, runner>>
        /\ release'.closing = release.closing /\ release'.appDropped = release.appDropped
    BY ZenonT(20), <1>2 DEF MarkClosed, ClaimInv
  <2>3. QED BY ZenonT(20), <1>0, <1>2, <2>1, <2>2, NoneApart DEF MarkClosed
<1>3. CASE ReleaseClosed BY ZenonT(20), <1>3 DEF ReleaseClosed, Active
<1>4. CASE Finish
  <2>1. release.serversClosed BY ZenonT(20), <1>4 DEF Finish
  <2>2. UNCHANGED <<release, answer, stage>> /\ at' = "none" /\ runner' = None
    BY ZenonT(20), <1>4 DEF Finish
  <2>3. \A c \in Claimers : close'[c] = "refused" => close[c] = "refused"
    BY ZenonT(20), <1>4 DEF Finish, ClaimInv
  <2>4. QED BY ZenonT(20), <1>4, <2>1, <2>2, <2>3 DEF Finish
<1>5. CASE SeqDrain BY ZenonT(20), <1>5 DEF SeqDrain, Active
<1>6. CASE StartCloses \/ JoinCloses BY ZenonT(20), <1>6 DEF StartCloses, JoinCloses, Active
<1>7. CASE SeqTrigger \/ BeginStep \/ StartHook \/ EndHook
  BY ZenonT(20), <1>7 DEF SeqTrigger, BeginStep, StartHook, EndHook, Active
<1>8. CASE SeqStop \/ SeqFire \/ SeqDrains \/ SeqResumeDrain
  BY ZenonT(20), <1>8 DEF SeqStop, SeqFire, SeqDrains, SeqResumeDrain, Active
<1>9. CASE \E s \in Server : ServerDrained(s) \/ EndClose(s)
  BY ZenonT(60), <1>9 DEF ServerDrained, EndClose, Active
<1>10. QED BY ZenonT(20), <1>1, <1>2, <1>3, <1>4, <1>5, <1>6, <1>7, <1>8, <1>9 DEF SeqStep

\* A new claim finds out at once whether the servers have been released.
LEMMA ReleaseInvClaim ==
  ASSUME ClaimInv, ReleaseInv, NEW c \in Claimers, close[c] = "idle", Claim(c),
         UNCHANGED <<phase, answer, at, stage, outcome, runner>>
  PROVE  ReleaseInv'
<1>1. /\ close'[c] \in {"claimed", "refused"} /\ \A d \in Claimers \ {c} : close'[d] = close[d]
      /\ close'[c] = "claimed" <=> ~(release.released /\ ~release.serversClosed)
      /\ release'.closing = release.closing + 1 /\ release'.appDropped = release.appDropped
      /\ release'.released = release.released /\ release'.serversClosed = release.serversClosed
      /\ release.closing \in Nat
  BY ZenonT(20), ClaimMarks, ClaimCounts DEF ClaimInv
<1>2. release.released /\ ~release.serversClosed => Active' = {}
  BY ZenonT(30), <1>1 DEF ReleaseInv, Active
<1>3. /\ phase' \in Phases /\ (outcome' # NoOutcome => stage' = "Done" /\ runner' = None)
      /\ release'.serversClosed <=> (at' = "release" \/ stage' \in {"Shutdown", "Done"})
  BY ZenonT(20), <1>1 DEF ReleaseInv
<1>4. release'.closing # 0
  BY <1>1
<1>5. release'.released /\ ~release'.serversClosed => Active' = {} /\ phase' = Closed
  BY ZenonT(20), <1>1, <1>2 DEF ReleaseInv
<1>6. \A d \in Claimers : close'[d] = "refused" \/ answer'[d] = "Dropped"
        => release'.released /\ ~release'.serversClosed
  BY ZenonT(20), <1>1 DEF ReleaseInv
<1>7. QED BY ZenonT(30), <1>3, <1>4, <1>5, <1>6 DEF ReleaseInv

\* The last claim to go after the App value takes no one's servers.
LEMMA ReleaseInvDrop ==
  ASSUME ClaimInv, ReleaseInv, NEW c \in Held, DropClaim(c), phase' \in Phases,
         stage' = stage, outcome' = outcome, runner' = runner \/ runner' = None,
         at' = at \/ (at # "release" /\ at' = "none"),
         \A d \in Claimers : answer'[d] = "Dropped" => answer[d] = "Dropped" \/ close[d] = "refused"
  PROVE  ReleaseInv'
<1> USE DEF ReleaseInv
<1>1. /\ close'[c] = "done" /\ \A d \in Claimers \ {c} : close'[d] = close[d]
      /\ release'.appDropped = release.appDropped /\ release'.serversClosed = release.serversClosed
      /\ release'.released <=> release.released \/ (release'.appDropped /\ release'.closing = 0)
      /\ release'.closing = 0 => Held' = {}
      /\ IF release'.appDropped /\ release'.closing = 0 /\ ~release'.serversClosed
           THEN Advance(Closed) ELSE UNCHANGED phase
  BY ZenonT(30), DropKeeps
<1>2. Active' \subseteq Active /\ Active' \subseteq Held'
  BY ZenonT(20), <1>1 DEF Active, Held
<1>3. Advance(Closed) => phase' = Closed BY DEF Advance, Phases, Closed, Wired
<1>4. release'.serversClosed <=> (at' = "release" \/ stage' \in {"Shutdown", "Done"}) BY ZenonT(20), <1>1
<1>5. release'.released /\ ~release'.serversClosed => Active' = {} /\ phase' = Closed
  BY ZenonT(20), <1>1, <1>2, <1>3
<1>6. \A d \in Claimers : close'[d] = "refused" \/ answer'[d] = "Dropped"
        => release'.released /\ ~release'.serversClosed
  BY ZenonT(20), <1>1
<1>7. QED BY ZenonT(60), <1>1, <1>4, <1>5, <1>6

\* Every step keeps ReleaseInv.
LEMMA ReleaseInvStep ==
  ASSUME SeqInv, ClaimInv, ReleaseInv, [Next]_vars
  PROVE  ReleaseInv'
<1>0. phase' \in Phases /\ (phase = Closed => phase' = Closed) BY ZenonT(20), PhaseSteps DEF ReleaseInv
<1> USE DEF claimVars, cellVars, seqVars, liveVars, phaseVars
<1>1. CASE SeqStep BY ZenonT(20), <1>0, <1>1, ReleaseInvSeq
<1>2. CASE CapExpires \/ UNCHANGED vars BY ZenonT(20), <1>2 DEF CapExpires, vars, ReleaseInv, Active
<1>3. CASE AppStep
  <2>0. Owner \in Claimers BY ZenonT(20) DEF Claimers
  <2>1. CASE DropApp
    <3>1. /\ release'.closing = release.closing /\ release'.appDropped
          /\ release'.serversClosed = release.serversClosed /\ close' = close
          /\ release'.released <=> release.released \/ release.closing = 0
          /\ IF release.closing = 0 /\ ~release.serversClosed THEN Advance(Closed) ELSE UNCHANGED phase
      BY ZenonT(20), <2>1, DropAppKeeps
    <3>2. UNCHANGED <<answer, at, stage, outcome, runner>> BY ZenonT(20), <2>1 DEF DropApp
    <3>3. Advance(Closed) => phase' = Closed BY DEF Advance, Phases, Closed, Wired, ReleaseInv
    <3>4. Active' = Active /\ (release.closing = 0 => Active = {})
      <4>1. Active' = Active BY ZenonT(20), <3>1 DEF Active
      <4>2. Active \subseteq Held BY ZenonT(20) DEF Active, Held
      <4>3. QED BY ZenonT(20), <4>1, <4>2, HeldCount
    <3>5. QED BY ZenonT(20), <1>0, <3>1, <3>2, <3>3, <3>4 DEF ReleaseInv
  <2>2. CASE AppClose \/ ServeSignal \/ ServeTriggered \/ ServeFire
    BY ZenonT(30), <2>0, <2>2, ReleaseInvClaim DEF AppClose, ServeSignal, ServeTriggered, ServeFire, ClaimInv
  <2>3. CASE Serve BY ZenonT(20), <2>3 DEF Serve, ReleaseInv, Active
  <2>4. ASSUME NEW s \in Server, ServeEnds(s) PROVE ReleaseInv'
    <3>1. CASE trigger = None BY ZenonT(30), <2>4, <3>1 DEF ServeEnds, ReleaseInv, Active
    <3>2. CASE trigger # None BY ZenonT(20), <2>0, <2>4, <3>2, ReleaseInvClaim DEF ServeEnds, ClaimInv
    <3>3. QED BY ZenonT(20), <3>1, <3>2
  <2>5. QED BY ZenonT(20), <1>3, <2>1, <2>2, <2>3, <2>4 DEF AppStep
<1>4. ASSUME NEW c \in Claimers, ClaimStep(c) PROVE ReleaseInv'
  <2>1. CASE HandleClose(c) BY ZenonT(20), <2>1, ReleaseInvClaim DEF HandleClose
  <2>2. CASE AnswerDropped(c) \/ Answer(c)
    <3>1. c \in Held BY ZenonT(20), <2>2 DEF AnswerDropped, Answer, Held
    <3>2. \A d \in Claimers : answer'[d] = "Dropped" => answer[d] = "Dropped" \/ close[d] = "refused"
      BY ZenonT(20), <2>2 DEF AnswerDropped, Answer, ClaimInv
    <3>3. QED BY ZenonT(20), <1>0, <2>2, <3>1, <3>2, ReleaseInvDrop DEF AnswerDropped, Answer
  <2>3. CASE DropClose(c)
    <3>1. c \in Held BY ZenonT(20), <2>3 DEF DropClose, Held
    <3>2. at' = at \/ (at # "release" /\ at' = "none") BY ZenonT(20), <2>3 DEF DropClose, AtAwait
    <3>3. QED BY ZenonT(60), <1>0, <2>3, <3>1, <3>2, ReleaseInvDrop DEF DropClose
  <2>4. CASE PollTrigger(c) \/ PollFire(c)
    <3>1. PICK k \in {"fire", "join"} : close' = [close EXCEPT ![c] = k] /\ close[c] \in {"claimed", "fire"}
      BY ZenonT(20), <2>4 DEF PollTrigger, PollFire
    <3>2. UNCHANGED <<phase, release, answer, at, stage, outcome, runner>>
      BY ZenonT(20), <2>4 DEF PollTrigger, PollFire
    <3>3. QED BY ZenonT(20), <3>1, <3>2 DEF ReleaseInv, Active, ClaimInv
  <2>5. CASE Join(c)
    <3>1. /\ close' = [close EXCEPT ![c] = "running"] /\ close[c] = "join" /\ outcome = NoOutcome
          /\ at = "none" /\ at' = "enter" /\ UNCHANGED <<phase, release, answer, stage, outcome>>
      BY ZenonT(20), <2>5 DEF Join, SeqInv
    <3>2. QED BY ZenonT(20), <3>1 DEF ReleaseInv, Active, ClaimInv
  <2>6. CASE ReleaseFire(c) \/ ReleaseServers(c)
    BY ZenonT(20), <2>6 DEF ReleaseFire, ReleaseServers, ReleaseInv, Active
  <2>7. QED BY ZenonT(20), <1>4, <2>1, <2>2, <2>3, <2>4, <2>5, <2>6 DEF ClaimStep
<1>5. ASSUME NEW e \in Execs, ExecutionStep(e) PROVE ReleaseInv'
  <2>1. phase' = phase /\ UNCHANGED <<claimVars, seqVars>>
    BY ZenonT(20), <1>5 DEF ExecutionStep, ExecStep, Enter, CheckPhase, CheckDrainEnded, Attach, CancelLate,
                CancelOther, EndExec, DropSlot
  <2>2. QED BY ZenonT(20), <2>1 DEF ReleaseInv, Active
<1>6. QED BY ZenonT(20), <1>1, <1>2, <1>3, <1>4, <1>5 DEF Next

-----------------------------------------------------------------------------
(* The servers and the draining notice. *)

\* The bound servers are the same for good.
LEMMA ServerSame ==
  ASSUME [Next]_vars
  PROVE  Server' = Server
<1> USE DEF seqVars
<1>1. CASE UNCHANGED closeStarts BY ZenonT(20), <1>1 DEF Server
<1>2. CASE SeqStep
  <2>1. CASE StartCloses
    BY ZenonT(20), <1>1, <2>1 DEF StartCloses, Server
  <2>2. QED
    BY ZenonT(20), <1>1, <1>2, <2>1
       DEF SeqStep, SeqTrigger, BeginStep, StartHook, EndHook, EndStep, SeqStop, SeqFire, SeqDrains, SeqResumeDrain,
           ServerDrained, EndClose, SeqDrain, JoinCloses, MarkClosed, ReleaseClosed, Finish
<1>3. CASE CapExpires \/ UNCHANGED vars BY ZenonT(20), <1>1, <1>3 DEF CapExpires, vars
<1>4. CASE AppStep
  BY ZenonT(20), <1>1, <1>4 DEF AppStep, DropApp, AppClose, Serve, ServeSignal, ServeTriggered, ServeFire, ServeEnds
<1>5. ASSUME NEW c \in Claimers, ClaimStep(c) PROVE Server' = Server
  BY ZenonT(20), <1>1, <1>5 DEF ClaimStep, HandleClose, AnswerDropped, Answer, DropClose, PollTrigger, PollFire, Join,
                    ReleaseFire, ReleaseServers
<1>6. ASSUME NEW e \in Execs, ExecutionStep(e) PROVE Server' = Server BY ZenonT(20), <1>1, <1>6 DEF ExecutionStep
<1>7. QED BY ZenonT(20), <1>2, <1>3, <1>4, <1>5, <1>6 DEF Next

\* KeptInv holds initially.
LEMMA KeptInvInit == Init => KeptInv
<1> SUFFICES ASSUME Init PROVE KeptInv BY ZenonT(20)
<1>1. PICK n \in ServerCounts : closeStarts = [s \in 1 .. n |-> 0] BY ZenonT(20) DEF Init
<1>2. Server = 1 .. n BY ZenonT(20), <1>1 DEF Server
<1>3. QED BY ZenonT(20), <1>2 DEF Init, KeptInv, LiveInit, PhaseInit

\* Every step keeps KeptInv.
LEMMA KeptInvStep ==
  ASSUME SeqInv, ClaimInv, ReleaseInv, KeptInv, [Next]_vars
  PROVE  KeptInv'
<1>0. Server' = Server BY ZenonT(20), ServerSame
<1> USE DEF KeptInv, claimVars, cellVars, seqVars, liveVars, phaseVars, execVars, drainVars
<1>1. CASE SeqStep
  <2> USE DEF SeqInv, At, Points, HookStages, StageNames, DrainStates
  <2>1. CASE SeqFire BY ZenonT(20), <1>0, <2>1 DEF SeqFire
  <2>2. CASE SeqStop BY ZenonT(20), <1>0, <2>2 DEF SeqStop, StopAccepting
  <2>3. CASE MarkClosed
    <3>1. /\ release'.serversClosed /\ release'.released = release.released /\ at' = "release" /\ at = "closed"
          /\ UNCHANGED <<servers, draining, dropping, drainAt>>
      BY ZenonT(20), <2>3 DEF MarkClosed, ClaimInv
    <3>2. QED BY ZenonT(20), <1>0, <3>1
  <2>4. CASE ReleaseClosed
    <3>1. release.serversClosed /\ servers' = {} /\ at = "release" /\ stage = "Close"
          /\ UNCHANGED <<release, draining, dropping, drainAt>>
      BY ZenonT(20), <2>4 DEF ReleaseClosed, ReleaseInv
    <3>2. QED BY ZenonT(20), <1>0, <3>1
  <2>5. CASE SeqDrain
    BY ZenonT(20), <1>0, <2>5 DEF SeqDrain, PollUntilEmpty, WindowExpires, EndDrain, CollectLive, CancelLive
  <2>6. CASE SeqDrains \/ SeqResumeDrain BY ZenonT(20), <1>0, <2>6 DEF SeqDrains, SeqResumeDrain, ResumeWindow
  <2>7. CASE SeqTrigger \/ BeginStep \/ StartHook \/ EndHook \/ EndStep
    BY ZenonT(20), <1>0, <2>7 DEF SeqTrigger, BeginStep, StartHook, EndHook, EndStep
  <2>8. CASE StartCloses \/ JoinCloses \/ Finish BY ZenonT(20), <1>0, <2>8 DEF StartCloses, JoinCloses, Finish
  <2>9. CASE \E s \in Server : ServerDrained(s) \/ EndClose(s)
    <3>1. UNCHANGED <<servers, draining, release, dropping, drainAt, at>> BY ZenonT(20), <2>9 DEF ServerDrained, EndClose
    <3>2. QED BY ZenonT(20), <1>0, <3>1
  <2>10. QED BY ZenonT(20), <1>1, <2>1, <2>2, <2>3, <2>4, <2>5, <2>6, <2>7, <2>8, <2>9 DEF SeqStep
<1>2. CASE CapExpires \/ UNCHANGED vars BY ZenonT(20), <1>0, <1>2 DEF CapExpires, vars
<1>3. \* serversClosed means the drain is over, and draining() has fired.
      release.serversClosed => draining
  BY ZenonT(20) DEF SeqInv, ReleaseInv
<1>4. CASE AppStep
  <2>0. Owner \in Claimers BY ZenonT(20) DEF Claimers
  <2>1. CASE DropApp
    <3>1. /\ release'.serversClosed = release.serversClosed
          /\ release'.released <=> release.released \/ release.closing = 0
          /\ dropping[Owner] = "no" /\ \A d \in Handles : dropping'[d] = dropping[d]
          /\ dropping'[Owner] = IF release.closing # 0 THEN "no"
                                ELSE IF release.serversClosed THEN "release" ELSE "fire"
      BY ZenonT(20), <2>1, DropAppKeeps
    <3>2. UNCHANGED <<servers, draining, drainAt, at>> BY ZenonT(20), <2>1 DEF DropApp, ReleasedByDrop
    <3>3. release.closing = 0 => dropping'[Owner] # "no" /\ (draining \/ dropping'[Owner] = "fire")
      BY ZenonT(20), <1>3, <3>1
    <3>4. \A d \in Claimers : dropping[d] # "no" => dropping'[d] = dropping[d]
      BY ZenonT(20), <3>1 DEF Claimers
    <3>5. QED BY ZenonT(20), <1>0, <2>0, <3>1, <3>2, <3>3, <3>4
  <2>2. CASE AppClose \/ ServeSignal \/ ServeTriggered \/ ServeFire
    <3>1. Claim(Owner) /\ close[Owner] = "idle" /\ UNCHANGED <<servers, draining, drainAt, at, dropping>>
      BY ZenonT(20), <2>2 DEF AppClose, ServeSignal, ServeTriggered, ServeFire, ClaimInv
    <3>2. release'.released = release.released /\ release'.serversClosed = release.serversClosed
      BY ZenonT(20), <2>0, <3>1, ClaimCounts
    <3>3. QED BY ZenonT(20), <1>0, <3>1, <3>2
  <2>3. CASE Serve BY ZenonT(20), <1>0, <2>3 DEF Serve
  <2>4. ASSUME NEW s \in Server, ServeEnds(s) PROVE KeptInv'
    <3>1. UNCHANGED <<servers, draining, drainAt, at, dropping>> BY ZenonT(20), <2>4 DEF ServeEnds
    <3>2. release'.released = release.released /\ release'.serversClosed = release.serversClosed
      <4>1. release' = release \/ Claim(Owner) BY ZenonT(20), <2>4 DEF ServeEnds
      <4>2. QED BY ZenonT(20), <2>0, <4>1, ClaimCounts
    <3>3. QED BY ZenonT(20), <1>0, <3>1, <3>2
  <2>5. QED BY ZenonT(20), <1>4, <2>1, <2>2, <2>3, <2>4 DEF AppStep
<1>5. ASSUME NEW c \in Claimers, ClaimStep(c) PROVE KeptInv'
  <2>1. CASE HandleClose(c)
    <3>1. release'.released = release.released /\ release'.serversClosed = release.serversClosed
      BY ZenonT(20), <2>1, ClaimCounts DEF HandleClose
    <3>2. QED BY ZenonT(20), <1>0, <2>1, <3>1 DEF HandleClose
  <2>2. CASE AnswerDropped(c) \/ Answer(c) \/ DropClose(c)
    <3>1. c \in Held /\ DropClaim(c) BY ZenonT(60), <2>2 DEF AnswerDropped, Answer, DropClose, Held
    <3>2. /\ release'.serversClosed = release.serversClosed
          /\ release'.released <=> release.released \/ (release'.appDropped /\ release'.closing = 0)
          /\ \A d \in Claimers \ {c} : dropping'[d] = dropping[d]
          /\ dropping'[c] = IF ~(release'.appDropped /\ release'.closing = 0) THEN "no"
                            ELSE IF release'.serversClosed THEN "release" ELSE "fire"
      BY ZenonT(30), <3>1, DropKeeps
    <3>3. dropping[c] = "no" BY ZenonT(20), <3>1 DEF ClaimInv
    <3>4. UNCHANGED <<servers, draining, drainAt>> /\ (at' = at \/ (at # "fire" /\ at' = "none"))
      BY ZenonT(20), <2>2, <3>1 DEF AnswerDropped, Answer, DropClose, DropClaim, ReleasedByDrop, AtAwait
    <3>5. release'.appDropped /\ release'.closing = 0
            => dropping'[c] # "no" /\ (draining \/ dropping'[c] = "fire")
      BY ZenonT(30), <1>3, <3>2
    <3>6. \A d \in Claimers : dropping[d] # "no" => dropping'[d] = dropping[d] BY ZenonT(20), <3>2, <3>3
    <3>7. QED BY ZenonT(20), <1>0, <3>2, <3>4, <3>5, <3>6
  <2>3. CASE PollTrigger(c) \/ PollFire(c) BY ZenonT(60), <1>0, <2>3 DEF PollTrigger, PollFire
  <2>4. CASE Join(c) BY ZenonT(20), <1>0, <2>4 DEF Join, SeqInv
  <2>5. CASE ReleaseFire(c)
    <3>1. /\ draining' /\ dropping'[c] = "release" /\ \A d \in Claimers \ {c} : dropping'[d] = dropping[d]
          /\ dropping[c] = "fire" /\ UNCHANGED <<release, servers, drainAt, at>>
      BY ZenonT(20), <2>5 DEF ReleaseFire, ClaimInv
    <3>2. draining' = TRUE BY ZenonT(20), <2>5 DEF ReleaseFire
    <3>3. QED BY ZenonT(20), <1>0, <3>1, <3>2
  <2>6. CASE ReleaseServers(c)
    <3>1. /\ servers' = {} /\ dropping'[c] = "no" /\ \A d \in Claimers \ {c} : dropping'[d] = dropping[d]
          /\ dropping[c] = "release" /\ UNCHANGED <<release, draining, drainAt, at>>
      BY ZenonT(20), <2>6 DEF ReleaseServers, ClaimInv
    <3>2. release.released BY ZenonT(20), <3>1 DEF ClaimInv
    <3>3. QED BY ZenonT(20), <1>0, <3>1, <3>2
  <2>7. QED BY ZenonT(20), <1>5, <2>1, <2>2, <2>3, <2>4, <2>5, <2>6 DEF ClaimStep
<1>6. ASSUME NEW e \in Execs, ExecutionStep(e) PROVE KeptInv'
  <2>1. drainAt' = drainAt /\ UNCHANGED <<claimVars, seqVars, draining, servers>>
    BY ZenonT(20), <1>6 DEF ExecutionStep, ExecStep, Enter, CheckPhase, CheckDrainEnded, Attach, CancelLate,
                CancelOther, EndExec, DropSlot
  <2>2. QED BY ZenonT(20), <1>0, <2>1
<1>7. QED BY ZenonT(20), <1>1, <1>2, <1>4, <1>5, <1>6 DEF Next

-----------------------------------------------------------------------------
(* The steps of the sequence: each started once. *)

\* The runner before the end of the close step has every server.
LEMMA RunnerHasServers ==
  ASSUME SeqInv, ClaimInv, ReleaseInv, KeptInv, runner # None, ~release.serversClosed
  PROVE  servers = Server
<1>1. runner \in Claimers BY ZenonT(20) DEF SeqInv
<1>2. runner \in Active BY ZenonT(20), <1>1 DEF ClaimInv, Active
<1>3. QED BY ZenonT(20), <1>2 DEF ReleaseInv, KeptInv

\* HooksInv holds initially.
LEMMA HooksInvInit == Init => HooksInv
BY ShutdownAssumption DEF Init, HooksInv, Behind, HookStages, Hook

\* Every step keeps HooksInv.
LEMMA HooksInvStep ==
  ASSUME SeqInv, KeptInv, ClosesInv, HooksInv, [Next]_vars
  PROVE  HooksInv'
<1> USE DEF SeqInv, HooksInv, Points, StageNames, HookStages, Behind, At
<1>0. CASE UNCHANGED <<hookStarts, cursor, stage>> BY ZenonT(20), <1>0
<1>a. \A h \in Hook : h \in Nat /\ ~(h <= 0) BY ShutdownAssumption DEF Hook
<1>1. CASE SeqTrigger BY SMTT(30), <1>a, <1>1, ShutdownAssumption DEF SeqTrigger
<1>2. CASE StartHook
  <2>1. /\ stage \in HookStages /\ cursor < NHooks /\ cursor' = cursor + 1 /\ stage' = stage
        /\ hookStarts' = [hookStarts EXCEPT ![stage][cursor + 1] = @ + 1]
    BY ZenonT(20), <1>2 DEF StartHook
  <2>2. cursor + 1 \in Hook BY <2>1, ShutdownAssumption DEF Hook
  <2>3. /\ hookStarts' \in [HookStages -> [Hook -> Nat]]
        /\ \A s \in HookStages : \A h \in Hook :
             hookStarts'[s][h] = IF s = stage /\ h = cursor + 1 THEN hookStarts[s][h] + 1 ELSE hookStarts[s][h]
    BY <2>1, <2>2
  <2>4. \A h \in Hook : h \in Nat BY ShutdownAssumption DEF Hook
  <2>5. \A s \in HookStages : \A h \in Hook :
          hookStarts'[s][h] = IF stage \in Behind(s) \/ (stage = s /\ h <= cursor + 1) THEN 1 ELSE 0
    <3> SUFFICES ASSUME NEW s \in HookStages, NEW h \in Hook
                 PROVE  hookStarts'[s][h] = IF stage \in Behind(s) \/ (stage = s /\ h <= cursor + 1) THEN 1 ELSE 0
      BY ZenonT(20)
    <3>1. hookStarts[s][h] = IF stage \in Behind(s) \/ (stage = s /\ h <= cursor) THEN 1 ELSE 0 BY ZenonT(20)
    <3>2. s = stage => stage \notin Behind(s) BY ZenonT(20)
    <3>3. QED BY <2>3, <2>4, <3>1, <3>2
  <2>6. QED BY SMTT(30), <2>1, <2>2, <2>3, <2>5, ShutdownAssumption DEF Hook
<1>3. CASE EndStep
  <2>1. /\ stage \in HookStages /\ cursor = NHooks /\ cursor' = 0 /\ stage' = After(stage) /\ hookStarts' = hookStarts
    BY <1>3, ShutdownAssumption DEF EndStep
  <2>2. \A h \in Hook : h \in Nat /\ h <= NHooks /\ ~(h <= 0) BY ShutdownAssumption DEF Hook
  <2>3. \A s \in HookStages : stage' \in Behind(s) <=> stage \in Behind(s) \cup {s}
    BY ZenonT(20), <2>1, StageOrder
  <2>4. \A s \in HookStages : \A h \in Hook :
          hookStarts'[s][h] = IF stage' \in Behind(s) \/ (stage' = s /\ h <= cursor') THEN 1 ELSE 0
    <3> SUFFICES ASSUME NEW s \in HookStages, NEW h \in Hook
                 PROVE  hookStarts[s][h] = IF stage' \in Behind(s) \/ (stage' = s /\ h <= 0) THEN 1 ELSE 0
      BY ZenonT(20), <2>1
    <3>1. hookStarts[s][h] = IF stage \in Behind(s) \/ (stage = s /\ h <= NHooks) THEN 1 ELSE 0 BY ZenonT(20), <2>1
    <3>2. QED BY ZenonT(20), <2>2, <2>3, <3>1
  <2>5. QED BY ZenonT(20), <2>1, <2>4, StageOrder, ShutdownAssumption
<1>4. CASE SeqDrain
  <2>1. stage = "Drain" /\ stage' \in {"Drain", "Destroy"} /\ UNCHANGED <<hookStarts, cursor>>
    BY ZenonT(20), <1>4 DEF SeqDrain
  <2>2. QED BY SMTT(30), <1>a, <2>1, ShutdownAssumption
<1>5. CASE StartCloses \/ JoinCloses
  <2>1. stage = "Close" /\ stage' = "Close" /\ hookStarts' = hookStarts /\ cursor' \in Nat
    <3>1. PICK n \in Nat : servers \in SUBSET (1 .. n) BY ZenonT(20), ShutdownAssumption DEF KeptInv
    <3>a. IsFiniteSet(1 .. n) BY ZenonT(20), CountInterval
    <3>2. IsFiniteSet(servers) BY ZenonT(20), <3>1, <3>a, CountSubset
    <3>3. Cardinality(servers) \in Nat BY ZenonT(20), <3>2, CountNat
    <3>4. QED BY <1>5, <3>3 DEF StartCloses, JoinCloses
  <2>2. QED BY ZenonT(20), <2>1
<1>6. CASE ReleaseClosed BY SMTT(30), <1>a, <1>6, ShutdownAssumption DEF ReleaseClosed, ClosesInv
<1> USE DEF seqVars
<1>7. CASE SeqStep
  BY ZenonT(20), <1>0, <1>1, <1>2, <1>3, <1>4, <1>5, <1>6, <1>7
     DEF SeqStep, BeginStep, EndHook, SeqStop, SeqFire, SeqDrains, SeqResumeDrain, ServerDrained, EndClose,
         MarkClosed, Finish
<1>8. CASE CapExpires \/ UNCHANGED vars BY ZenonT(20), <1>0, <1>8 DEF CapExpires, vars
<1>9. CASE AppStep
  BY ZenonT(20), <1>0, <1>9 DEF AppStep, DropApp, AppClose, Serve, ServeSignal, ServeTriggered, ServeFire, ServeEnds
<1>10. ASSUME NEW c \in Claimers, ClaimStep(c) PROVE HooksInv'
  BY ZenonT(20), <1>0, <1>10 DEF ClaimStep, HandleClose, AnswerDropped, Answer, DropClose, PollTrigger, PollFire, Join,
                     ReleaseFire, ReleaseServers
<1>11. ASSUME NEW e \in Execs, ExecutionStep(e) PROVE HooksInv' BY ZenonT(20), <1>0, <1>11 DEF ExecutionStep
<1>12. QED BY ZenonT(20), <1>7, <1>8, <1>9, <1>10, <1>11 DEF Next

\* ClosesInv holds initially.
LEMMA ClosesInvInit == Init => ClosesInv
<1> SUFFICES ASSUME Init PROVE ClosesInv BY ZenonT(20)
<1>1. PICK n \in ServerCounts : closeStarts = [s \in 1 .. n |-> 0] BY ZenonT(20) DEF Init
<1>2. closeStarts \in [Server -> Nat] /\ \A s \in Server : closeStarts[s] = 0 BY ZenonT(20), <1>1 DEF Server
<1>3. stage = "Trigger" BY ZenonT(20) DEF Init
<1>4. QED BY ZenonT(20), <1>2, <1>3 DEF ClosesInv

\* Every step keeps ClosesInv.
LEMMA ClosesInvStep ==
  ASSUME SeqInv, ClaimInv, ReleaseInv, KeptInv, HooksInv, ClosesInv, [Next]_vars
  PROVE  ClosesInv'
<1>0. Server' = Server BY ZenonT(20), ServerSame
<1>a. PICK n \in Nat : Server = 1 .. n BY ZenonT(20), ShutdownAssumption DEF KeptInv
<1>b. Cardinality(Server) = n BY ZenonT(20), <1>a, CountInterval
<1> USE DEF SeqInv, ClosesInv, Points, StageNames, HookStages, At
<1>1. CASE UNCHANGED <<closeStarts, cursor, at, stage>> BY ZenonT(20), <1>0, <1>1
<1>2. CASE SeqTrigger BY ZenonT(20), <1>0, <1>2 DEF SeqTrigger
<1>3. CASE BeginStep \/ StartHook \/ EndHook BY ZenonT(20), <1>0, <1>3 DEF BeginStep, StartHook, EndHook
<1>4. CASE EndStep BY ZenonT(20), <1>0, <1>4, StageOrder DEF EndStep
<1>5. CASE SeqStop \/ SeqFire \/ SeqDrains \/ SeqResumeDrain
  BY ZenonT(20), <1>0, <1>5 DEF SeqStop, SeqFire, SeqDrains, SeqResumeDrain
<1>6. CASE SeqDrain BY ZenonT(20), <1>0, <1>6 DEF SeqDrain
<1>7. CASE StartCloses
  <2>1. ~release.serversClosed /\ runner # None /\ at = "enter" /\ stage = "Close" /\ stage' = "Close"
    BY ZenonT(20), <1>7 DEF StartCloses, ReleaseInv
  <2>2. servers = Server BY ZenonT(20), <2>1, RunnerHasServers
  <2>3. CASE cursor >= Cardinality(servers)
    <3>1. cursor' = 0 /\ at' = "closed" /\ closeStarts' = closeStarts BY ZenonT(20), <1>7, <2>3 DEF StartCloses
    <3>2. \A s \in Server : closeStarts[s] = 1 BY SMTT(30), <1>a, <1>b, <2>1, <2>2, <2>3
    <3>3. QED BY ZenonT(20), <1>0, <2>1, <3>1, <3>2
  <2>4. CASE ~(cursor >= Cardinality(servers))
    <3>1. /\ cursor' = Cardinality(servers) /\ at' = "closing"
          /\ closeStarts' = [s \in Server |-> IF s \in servers THEN closeStarts[s] + 1 ELSE closeStarts[s]]
      BY ZenonT(20), <1>7, <2>4 DEF StartCloses
    <3>2. \A s \in Server : closeStarts[s] = 0 BY SMTT(30), <1>a, <1>b, <2>1, <2>2, <2>4
    <3>3. closeStarts' \in [Server -> Nat] /\ \A s \in Server : closeStarts'[s] = 1 BY SMTT(30), <2>2, <3>1, <3>2
    <3>4. QED BY ZenonT(20), <1>0, <2>1, <2>2, <3>1, <3>3
  <2>5. QED BY ZenonT(20), <2>3, <2>4
<1>8. CASE JoinCloses BY ZenonT(20), <1>0, <1>8 DEF JoinCloses
<1>9. CASE MarkClosed BY ZenonT(20), <1>0, <1>9 DEF MarkClosed
<1>10. CASE ReleaseClosed BY ZenonT(20), <1>0, <1>10 DEF ReleaseClosed
<1>11. CASE Finish BY ZenonT(30), <1>0, <1>11 DEF Finish
<1> USE DEF seqVars
<1>12. CASE SeqStep
  BY ZenonT(20), <1>1, <1>2, <1>3, <1>4, <1>5, <1>6, <1>7, <1>8, <1>9, <1>10, <1>11, <1>12
     DEF SeqStep, ServerDrained, EndClose
<1>13. CASE CapExpires \/ UNCHANGED vars BY ZenonT(20), <1>1, <1>13 DEF CapExpires, vars
<1>14. CASE AppStep
  BY ZenonT(20), <1>1, <1>14 DEF AppStep, DropApp, AppClose, Serve, ServeSignal, ServeTriggered, ServeFire, ServeEnds
<1>15. ASSUME NEW c \in Claimers, ClaimStep(c) PROVE ClosesInv'
  <2>1. CASE Join(c) BY ZenonT(20), <1>0, <2>1 DEF Join
  <2>2. CASE DropClose(c)
    <3>1. /\ UNCHANGED <<closeStarts, cursor, stage>>
          /\ at' = at \/ (at' = "none" /\ at \notin {"closed", "release"})
      BY ZenonT(20), <2>2 DEF DropClose, AtAwait
    <3>2. QED BY ZenonT(20), <1>0, <3>1
  <2>3. QED
    BY ZenonT(20), <1>1, <1>15, <2>1, <2>2 DEF ClaimStep, HandleClose, AnswerDropped, Answer, PollTrigger, PollFire,
                                   ReleaseFire, ReleaseServers
<1>16. ASSUME NEW e \in Execs, ExecutionStep(e) PROVE ClosesInv' BY ZenonT(20), <1>1, <1>16 DEF ExecutionStep
<1>17. QED BY ZenonT(20), <1>12, <1>13, <1>14, <1>15, <1>16 DEF Next

\* DrainedInv holds initially.
LEMMA DrainedInvInit == Init => DrainedInv
BY ZenonT(20) DEF Init, LiveInit, DrainedInv

\* Every step keeps DrainedInv.
LEMMA DrainedInvStep ==
  ASSUME SeqInv, ClaimInv, ReleaseInv, KeptInv, DrainedInv, [Next]_vars
  PROVE  DrainedInv'
<1>0. Server' = Server BY ZenonT(20), ServerSame
<1> USE DEF SeqInv, DrainedInv, Points, StageNames, HookStages, DrainStates, At
<1>1. CASE UNCHANGED <<drained, at, drainAt>> BY ZenonT(20), <1>0, <1>1
<1> USE DEF liveVars, drainVars
<1>2. CASE SeqTrigger \/ BeginStep \/ StartHook \/ EndHook \/ EndStep
  BY ZenonT(20), <1>0, <1>2 DEF SeqTrigger, BeginStep, StartHook, EndHook, EndStep
<1>3. CASE SeqStop \/ SeqFire \/ SeqResumeDrain
  BY ZenonT(20), <1>0, <1>3 DEF SeqStop, SeqFire, SeqResumeDrain, StopAccepting, ResumeWindow
<1>4. CASE SeqDrains
  <2>1. ~release.serversClosed /\ runner # None BY ZenonT(20), <1>4 DEF SeqDrains, ReleaseInv
  <2>2. servers = Server BY ZenonT(20), <2>1, RunnerHasServers
  <2>3. QED BY ZenonT(20), <1>0, <1>4, <2>2 DEF SeqDrains
<1>5. CASE SeqDrain
  <2>1. drained' = drained /\ drainAt # "idle" /\ at \notin {"fire", "drains"} BY ZenonT(20), <1>5 DEF SeqDrain
  <2>2. QED BY ZenonT(20), <1>0, <2>1
<1>6. CASE StartCloses \/ JoinCloses \/ MarkClosed \/ ReleaseClosed \/ Finish
  BY ZenonT(20), <1>0, <1>6 DEF StartCloses, JoinCloses, MarkClosed, ReleaseClosed, Finish
<1> USE DEF seqVars
<1>7. CASE SeqStep
  BY ZenonT(60), <1>1, <1>2, <1>3, <1>4, <1>5, <1>6, <1>7 DEF SeqStep, ServerDrained, EndClose
<1>8. CASE CapExpires \/ UNCHANGED vars BY ZenonT(20), <1>1, <1>8 DEF CapExpires, vars
<1>9. CASE AppStep
  BY ZenonT(20), <1>1, <1>9 DEF AppStep, DropApp, ReleasedByDrop, AppClose, Serve, ServeSignal, ServeTriggered, ServeFire, ServeEnds
<1>10. ASSUME NEW c \in Claimers, ClaimStep(c) PROVE DrainedInv'
  <2>1. CASE Join(c) BY ZenonT(20), <1>0, <2>1 DEF Join
  <2>2. CASE DropClose(c)
    BY ZenonT(20), <1>0, <2>2 DEF DropClose, DropClaim, ReleasedByDrop, AtAwait
  <2>3. QED
    BY ZenonT(20), <1>1, <1>10, <2>1, <2>2 DEF ClaimStep, HandleClose, AnswerDropped, Answer, DropClaim, ReleasedByDrop,
                                   PollTrigger, PollFire, ReleaseFire, ReleaseServers
<1>11. ASSUME NEW e \in Execs, ExecutionStep(e) PROVE DrainedInv'
  BY ZenonT(20), <1>1, <1>11 DEF ExecutionStep, ExecStep, Enter, CheckPhase, CheckDrainEnded, Attach, CancelLate,
                     CancelOther, EndExec, DropSlot
<1>12. QED BY ZenonT(20), <1>7, <1>8, <1>9, <1>10, <1>11 DEF Next

-----------------------------------------------------------------------------
(* The cause and the failures. *)

\* Recording a failure that is no serve's keeps the first one's place.
LEMMA ServeFirstAppend ==
  ASSUME IsSeq(failures), ServeFirst(failures), NEW f, f.kind # "Serve"
  PROVE  /\ IsSeq(Append(failures, f)) /\ ServeFirst(Append(failures, f))
<1> DEFINE S == {failures[i] : i \in DOMAIN failures}
           T == S \cup {f}
           g == Append(failures, f)
<1>1. failures \in Seq(S) BY ZenonT(20) DEF IsSeq
<1>2. failures \in Seq(T) BY <1>1
<1>3. /\ g \in Seq(T) /\ Len(g) = Len(failures) + 1 /\ DOMAIN g = 1 .. Len(g)
      /\ \A i \in 1 .. Len(failures) : g[i] = failures[i]
      /\ g[Len(failures) + 1] = f /\ Len(failures) \in Nat
  BY <1>2
<1> HIDE DEF g
<1>4. IsSeq(g) BY <1>3 DEF IsSeq
<1>5. ServeFirst(g) BY <1>3 DEF ServeFirst
<1>6. QED BY ZenonT(20), <1>4, <1>5 DEF g

\* So does a list of them.
LEMMA ServeFirstConcat ==
  ASSUME IsSeq(failures), ServeFirst(failures), NEW n \in Nat, NEW t, t = [i \in 1 .. n |-> t[i]],
         \A i \in 1 .. n : t[i].kind # "Serve"
  PROVE  IsSeq(failures \o t) /\ ServeFirst(failures \o t)
<1> DEFINE S == {failures[i] : i \in DOMAIN failures}
           U == {t[i] : i \in 1 .. n}
           T == S \cup U
           g == failures \o t
<1>1. failures \in Seq(T)
  <2>1. failures \in Seq(S) BY ZenonT(20) DEF IsSeq
  <2> HIDE DEF S, U
  <2>2. QED BY <2>1
<1>2. t \in Seq(T) /\ Len(t) = n
  <2>1. \A i \in 1 .. n : t[i] \in T BY ZenonT(20)
  <2> HIDE DEF T
  <2>2. t \in [1 .. n -> T] BY ZenonT(20), <2>1
  <2>3. QED BY <2>2
<1> HIDE DEF T
<1>3. /\ g \in Seq(T) /\ Len(g) = Len(failures) + n /\ DOMAIN g = 1 .. Len(g)
  BY <1>1, <1>2
<1>a. Len(failures) \in Nat BY <1>1
<1>b. \A i \in 1 .. Len(failures) : g[i] = failures[i] BY <1>1, <1>2
<1>c. \A i \in 1 .. n : g[Len(failures) + i] = t[i] BY <1>1, <1>2
<1> HIDE DEF g
<1>4. IsSeq(g) BY SMTT(30), <1>3 DEF IsSeq
<1>5. \A i \in 1 .. Len(g) : i > Len(failures) => g[i].kind # "Serve"
  <2> SUFFICES ASSUME NEW i \in 1 .. Len(g), i > Len(failures) PROVE g[i].kind # "Serve" BY ZenonT(20)
  <2>1. PICK k \in 1 .. n : i = Len(failures) + k
    <3>1. i - Len(failures) \in 1 .. n /\ i = Len(failures) + (i - Len(failures)) BY <1>3, <1>a
    <3>2. QED BY ZenonT(20), <3>1
  <2>2. g[i] = t[k] BY ZenonT(20), <1>c, <2>1
  <2>3. QED BY ZenonT(20), <2>2
<1>6. ServeFirst(g)
  <2>1. Len(failures) > 0 => g[1] = failures[1] /\ Len(g) > 0 BY <1>3, <1>a, <1>b
  <2>2. Len(failures) = 0 /\ Len(g) > 0 => g[1].kind # "Serve" BY SMTT(30), <1>3, <1>a, <1>5
  <2>3. \A i \in 2 .. Len(g) : g[i].kind # "Serve"
    <3> SUFFICES ASSUME NEW i \in 2 .. Len(g) PROVE g[i].kind # "Serve" BY ZenonT(20)
    <3>1. CASE i <= Len(failures)
      <4>1. i \in 2 .. Len(failures) /\ i \in 1 .. Len(failures) BY <1>a, <3>1
      <4>2. QED BY ZenonT(20), <1>b, <4>1 DEF ServeFirst
    <3>2. CASE ~(i <= Len(failures)) BY SMTT(30), <1>3, <1>a, <1>5, <3>2
    <3>3. QED BY ZenonT(20), <3>1, <3>2
  <2>4. QED BY SMTT(30), <1>3, <1>a, <2>1, <2>2, <2>3 DEF ServeFirst
<1>7. QED BY ZenonT(20), <1>4, <1>6 DEF g

\* A step that records nothing keeps CauseInv.
LEMMA CauseInvStutter ==
  ASSUME CauseInv, Server' = Server, UNCHANGED <<trigger, cause, failures, outcome>>,
         stage' = "Trigger" <=> stage = "Trigger",
         \A c \in Claimers : close'[c] \in {"fire", "join", "running"} =>
           close[c] \in {"fire", "join", "running"} \/ trigger # None
  PROVE  CauseInv'
<1>1. IsSeq(failures)' <=> IsSeq(failures) BY ZenonT(20) DEF IsSeq
<1>2. ServeFirst(failures)' <=> ServeFirst(failures) BY ZenonT(20) DEF ServeFirst
<1>3. IsSeq(outcome.failures)' <=> IsSeq(outcome.failures) BY ZenonT(20) DEF IsSeq
<1>4. ServeFirst(outcome.failures)' <=> ServeFirst(outcome.failures) BY ZenonT(20) DEF ServeFirst
<1>5. QED BY ZenonT(20), <1>1, <1>2, <1>3, <1>4 DEF CauseInv

\* One that records failures which are no serve's keeps it too.
LEMMA CauseInvRecord ==
  ASSUME CauseInv, Server' = Server, UNCHANGED <<trigger, cause, outcome, close, stage>>,
         stage # "Trigger", outcome = NoOutcome,
         IsSeq(failures'), (trigger \in Server <=> Len(failures') > 0 /\ failures'[1].kind = "Serve"),
         \A i \in 2 .. Len(failures') : failures'[i].kind # "Serve"
  PROVE  CauseInv'
<1>1. IsSeq(failures)' /\ ServeFirst(failures)' BY ZenonT(20) DEF IsSeq, ServeFirst
<1>2. QED BY ZenonT(20), <1>1 DEF CauseInv

\* The servers are numbers, the claimers are not, and None is neither.
LEMMA ServersApart ==
  ASSUME KeptInv
  PROVE  None \notin Server /\ Claimers \cap Server = {}
BY ZenonT(20), ShutdownAssumption DEF KeptInv, Claimers

\* CauseInv holds initially.
LEMMA CauseInvInit == Init => CauseInv
<1> SUFFICES ASSUME Init PROVE CauseInv BY ZenonT(20)
<1>1. KeptInv BY ZenonT(20), KeptInvInit
<1>2. None \notin Server BY ZenonT(20), <1>1, ServersApart
<1>3. IsSeq(<<>>)
  <2>1. <<>> \in Seq({}) OBVIOUS
  <2>2. {<<>>[i] : i \in DOMAIN <<>>} = {} OBVIOUS
  <2>3. QED BY ZenonT(20), <2>1, <2>2 DEF IsSeq
<1>4. trigger = None /\ cause = None /\ stage = "Trigger" /\ failures = <<>> /\ outcome = NoOutcome
      /\ \A c \in Claimers : close[c] = "idle"
  BY ZenonT(20) DEF Init
<1>5. QED BY ZenonT(20), <1>2, <1>3, <1>4 DEF CauseInv

\* The steps of the sequence keep it.
LEMMA CauseInvSeq ==
  ASSUME SeqInv, ClaimInv, ReleaseInv, KeptInv, CauseInv, RestInv, SeqStep, Server' = Server
  PROVE  CauseInv'
<1>0. None \notin Server /\ Claimers \cap Server = {} BY ZenonT(20), ServersApart
<1> USE DEF cellVars, claimVars, At
<1>a. runner # None /\ runner \in Claimers /\ close[runner] = "running"
  BY ZenonT(20) DEF SeqStep, SeqTrigger, BeginStep, StartHook, EndHook, EndStep, SeqStop, SeqFire, SeqDrains, SeqResumeDrain,
         ServerDrained, EndClose, SeqDrain, StartCloses, JoinCloses, MarkClosed, ReleaseClosed, Finish, SeqInv, ClaimInv
<1>b. trigger # None /\ outcome = NoOutcome BY ZenonT(20), <1>a DEF CauseInv, ReleaseInv
<1>c. IsSeq(failures) /\ (stage # "Trigger" => ServeFirst(failures)) BY ZenonT(20), <1>b DEF CauseInv
<1>1. CASE SeqTrigger
  <2>a. stage = "Trigger" /\ stage' = "BeforeShutdown" /\ cause' = None /\ UNCHANGED <<trigger, outcome, close>>
    BY ZenonT(20), <1>1 DEF SeqTrigger
  <2>b. failures = <<>>
    BY ZenonT(20), <2>a DEF CauseInv
  <2>c. failures' = IF cause = None THEN failures ELSE Append(failures, Failure("Serve", cause, "ended"))
    BY ZenonT(20), <1>1 DEF SeqTrigger
  <2>d. Append(<<>>, Failure("Serve", cause, "ended")) = <<Failure("Serve", cause, "ended")>>
    <3> DEFINE f == Failure("Serve", cause, "ended")
    <3> HIDE DEF f
    <3>1. Append(<<>>, f) = <<f>> OBVIOUS
    <3>2. QED BY ZenonT(20), <3>1 DEF f
  <2>1. /\ stage = "Trigger" /\ stage' = "BeforeShutdown" /\ cause' = None /\ failures = <<>>
        /\ UNCHANGED <<trigger, outcome, close>>
        /\ failures' = IF cause = None THEN <<>> ELSE <<Failure("Serve", cause, "ended")>>
    BY ZenonT(20), <2>a, <2>b, <2>c, <2>d
  <2>2. trigger \in Server <=> cause # None BY ZenonT(20), <1>0, <2>1 DEF CauseInv
  <2>3. IsSeq(failures') /\ (Len(failures') > 0 /\ failures'[1].kind = "Serve" <=> cause # None)
        /\ 2 .. Len(failures') = {}
    <3>1. CASE cause = None
      <4>1. failures' = <<>> BY ZenonT(20), <2>1, <3>1
      <4>2. Len(<<>>) = 0 /\ 2 .. 0 = {} OBVIOUS
      <4>3. IsSeq(<<>>) BY ZenonT(20), <1>c, <2>1
      <4>4. QED BY <3>1, <4>1, <4>2, <4>3
    <3>2. CASE cause # None
      <4> DEFINE f == Failure("Serve", cause, "ended")
      <4>1. failures' = <<f>> /\ f.kind = "Serve" BY ZenonT(20), <2>1, <3>2 DEF Failure
      <4> HIDE DEF f
      <4>2. <<f>> \in Seq({f}) /\ Len(<<f>>) = 1 /\ <<f>>[1] = f /\ DOMAIN <<f>> = {1} OBVIOUS
      <4>3. {<<f>>[i] : i \in DOMAIN <<f>>} = {f} BY ZenonT(20), <4>2
      <4>4. IsSeq(<<f>>) BY ZenonT(20), <4>2, <4>3 DEF IsSeq
      <4>5. QED BY SMTT(30), <3>2, <4>1, <4>2, <4>4
    <3>3. QED BY ZenonT(60), <3>1, <3>2
  <2>4. IsSeq(failures)' /\ ServeFirst(failures)' BY ZenonT(20), <2>1, <2>2, <2>3 DEF IsSeq, ServeFirst
  <2>5. QED BY ZenonT(20), <1>b, <2>1, <2>4 DEF CauseInv
<1>2. CASE StartHook \/ EndHook
  <2>1. stage \in HookStages /\ UNCHANGED <<trigger, cause, outcome, close, stage>>
    BY ZenonT(20), <1>2 DEF StartHook, EndHook
  <2>2. ServeFirst(failures) BY ZenonT(20), <1>c, <2>1 DEF HookStages
  <2>3. CASE failures' = failures BY ZenonT(20), <2>1, <2>3, CauseInvStutter
  <2>4. ASSUME NEW who, NEW why, failures' = Append(failures, Failure(stage, who, why)) PROVE CauseInv'
    <3> DEFINE f == Failure(stage, who, why)
    <3>1. f.kind # "Serve" BY ZenonT(20), <2>1 DEF Failure, HookStages
    <3> HIDE DEF f
    <3>2. IsSeq(Append(failures, f)) /\ ServeFirst(Append(failures, f)) BY ZenonT(20), <1>c, <2>2, <3>1, ServeFirstAppend
    <3>3. failures' = Append(failures, f) BY ZenonT(20), <2>4 DEF f
    <3>4. IsSeq(failures') /\ (trigger \in Server <=> Len(failures') > 0 /\ failures'[1].kind = "Serve")
          /\ \A i \in 2 .. Len(failures') : failures'[i].kind # "Serve"
      BY ZenonT(20), <3>2, <3>3 DEF ServeFirst
    <3>5. stage # "Trigger" BY ZenonT(20), <2>1 DEF HookStages
    <3>6. QED BY ZenonT(20), <1>b, <2>1, <3>4, <3>5, CauseInvRecord
  <2>5. QED BY ZenonT(20), <1>2, <2>3, <2>4 DEF StartHook, EndHook
<1>3. CASE JoinCloses
  <2>1. stage = "Close" /\ UNCHANGED <<trigger, cause, outcome, close, stage>> BY ZenonT(20), <1>3 DEF JoinCloses
  <2> DEFINE n == Cardinality(closeErrs)
             t == [i \in 1 .. n |->
                     Failure("Close", CHOOSE s \in closeErrs : Cardinality({u \in closeErrs : u <= s}) = i, "close")]
  <2>2. failures' = failures \o t BY ZenonT(20), <1>3 DEF JoinCloses
  <2>3. \A i \in 1 .. n : t[i].kind # "Serve" BY ZenonT(20) DEF Failure
  <2>4. t = [i \in 1 .. n |-> t[i]] OBVIOUS
  <2>5. n \in Nat
    <3>1. PICK k \in Nat : closeErrs \in SUBSET (1 .. k) BY ZenonT(20), ShutdownAssumption DEF KeptInv, RestInv
    <3>2. IsFiniteSet(1 .. k) BY ZenonT(20), CountInterval
    <3>3. IsFiniteSet(closeErrs) BY ZenonT(20), <3>1, <3>2, CountSubset
    <3>4. QED BY ZenonT(20), <3>3, CountNat
  <2> HIDE DEF t, n
  <2>6. IsSeq(failures \o t) /\ ServeFirst(failures \o t)
    BY ZenonT(20), <1>c, <2>1, <2>3, <2>4, <2>5, ServeFirstConcat
  <2>7. IsSeq(failures') /\ (trigger \in Server <=> Len(failures') > 0 /\ failures'[1].kind = "Serve")
        /\ \A i \in 2 .. Len(failures') : failures'[i].kind # "Serve"
    BY ZenonT(20), <2>2, <2>6 DEF ServeFirst
  <2>8. QED BY ZenonT(20), <1>b, <2>1, <2>7, CauseInvRecord
<1>4. CASE Finish
  <2>1. /\ stage = "Done" /\ UNCHANGED <<trigger, cause, stage>> /\ failures' = <<>>
        /\ outcome'.signal = trigger /\ outcome'.failures = failures
        /\ close' = [close EXCEPT ![runner] = "join"]
    BY ZenonT(20), <1>4 DEF Finish
  <2>2. outcome' # NoOutcome BY <1>b, <2>1 DEF NoOutcome
  <2>3. IsSeq(failures)'
    <3>1. <<>> \in Seq({}) OBVIOUS
    <3>2. {<<>>[i] : i \in DOMAIN <<>>} = {} OBVIOUS
    <3>3. QED BY ZenonT(20), <2>1, <3>1, <3>2 DEF IsSeq
  <2>4. IsSeq(outcome.failures)' /\ ServeFirst(outcome.failures)'
    BY ZenonT(20), <1>c, <2>1 DEF IsSeq, ServeFirst
  <2>5. QED BY ZenonT(20), <1>b, <2>1, <2>2, <2>3, <2>4 DEF CauseInv
<1>5. CASE EndStep \/ SeqDrain \/ ReleaseClosed
  <2>1. UNCHANGED <<trigger, cause, failures, outcome, close>> BY ZenonT(20), <1>5 DEF EndStep, SeqDrain, ReleaseClosed
  <2>2. stage # "Trigger" /\ stage' # "Trigger"
    BY ZenonT(20), <1>5, StageOrder DEF EndStep, SeqDrain, ReleaseClosed, HookStages
  <2>3. QED BY ZenonT(20), <2>1, <2>2, CauseInvStutter
<1>6. CASE UNCHANGED <<trigger, cause, failures, outcome, close, stage>> BY ZenonT(20), <1>6, CauseInvStutter
<1>7. QED
  BY ZenonT(20), <1>1, <1>2, <1>3, <1>4, <1>5, <1>6
     DEF SeqStep, BeginStep, SeqStop, SeqFire, SeqDrains, SeqResumeDrain, ServerDrained, EndClose, StartCloses, MarkClosed

\* Every step keeps CauseInv.
LEMMA CauseInvStep ==
  ASSUME SeqInv, ClaimInv, ReleaseInv, KeptInv, CauseInv, RestInv, [Next]_vars
  PROVE  CauseInv'
<1>0. Server' = Server BY ZenonT(20), ServerSame
<1>a. None \notin Server /\ Claimers \cap Server = {} BY ZenonT(20), ServersApart
<1> USE DEF cellVars, claimVars, seqVars
<1>1. CASE SeqStep BY ZenonT(20), <1>0, <1>1, CauseInvSeq
<1>2. CASE CapExpires \/ UNCHANGED vars BY ZenonT(20), <1>0, <1>2, CauseInvStutter DEF CapExpires, vars
<1>3. CASE AppStep
  <2>0. Owner \in Claimers BY ZenonT(20) DEF Claimers
  <2>1. CASE DropApp \/ Serve BY ZenonT(20), <1>0, <2>1, CauseInvStutter DEF DropApp, Serve
  <2>2. CASE AppClose \/ ServeSignal \/ ServeTriggered \/ ServeFire
    <3>1. Claim(Owner) /\ close[Owner] = "idle" /\ UNCHANGED <<trigger, cause, failures, outcome, stage>>
      BY ZenonT(20), <2>2 DEF AppClose, ServeSignal, ServeTriggered, ServeFire, ClaimInv
    <3>2. close'[Owner] \in {"claimed", "refused"} /\ \A d \in Claimers \ {Owner} : close'[d] = close[d]
      BY ZenonT(20), <2>0, <3>1, ClaimMarks
    <3>3. QED BY ZenonT(20), <1>0, <3>1, <3>2, CauseInvStutter
  <2>3. ASSUME NEW s \in Server, ServeEnds(s) PROVE CauseInv'
    <3>1. CASE trigger = None
      <4>1. trigger' = s /\ cause' = s /\ UNCHANGED <<failures, outcome, stage, close>>
        BY ZenonT(20), <2>3, <3>1 DEF ServeEnds
      <4>2. stage = "Trigger" BY ZenonT(20), <3>1 DEF CauseInv
      <4>3. outcome = NoOutcome BY ZenonT(20), <4>2 DEF ReleaseInv
      <4>4. IsSeq(failures)' BY ZenonT(20), <4>1 DEF CauseInv, IsSeq
      <4>5. QED BY ZenonT(60), <1>0, <1>a, <2>3, <4>1, <4>2, <4>3, <4>4 DEF CauseInv
    <3>2. CASE trigger # None
      <4>1. Claim(Owner) /\ close[Owner] = "idle" /\ UNCHANGED <<trigger, cause, failures, outcome, stage>>
        BY ZenonT(20), <2>3, <3>2 DEF ServeEnds, ClaimInv
      <4>2. close'[Owner] \in {"claimed", "refused"} /\ \A d \in Claimers \ {Owner} : close'[d] = close[d]
        BY ZenonT(20), <2>0, <4>1, ClaimMarks
      <4>3. QED BY ZenonT(20), <1>0, <4>1, <4>2, CauseInvStutter
    <3>3. QED BY ZenonT(20), <3>1, <3>2
  <2>4. QED BY ZenonT(20), <1>3, <2>1, <2>2, <2>3 DEF AppStep
<1>4. ASSUME NEW c \in Claimers, ClaimStep(c) PROVE CauseInv'
  <2>1. CASE HandleClose(c)
    <3>1. close'[c] \in {"claimed", "refused"} /\ \A d \in Claimers \ {c} : close'[d] = close[d]
      BY ZenonT(20), <2>1, ClaimMarks DEF HandleClose
    <3>2. QED BY ZenonT(60), <1>0, <2>1, <3>1, CauseInvStutter DEF HandleClose
  <2>2. CASE AnswerDropped(c) \/ Answer(c) \/ DropClose(c)
    <3>1. c \in Held /\ DropClaim(c) BY ZenonT(20), <2>2 DEF AnswerDropped, Answer, DropClose, Held
    <3>2. close'[c] = "done" /\ \A d \in Claimers \ {c} : close'[d] = close[d] BY ZenonT(20), <3>1, DropMarks
    <3>3. UNCHANGED <<trigger, cause, failures, outcome, stage>> BY ZenonT(20), <2>2 DEF AnswerDropped, Answer, DropClose
    <3>4. QED BY ZenonT(30), <1>0, <3>2, <3>3, CauseInvStutter
  <2>3. CASE PollTrigger(c)
    <3>1. CASE trigger = None
      <4>1. trigger' = c /\ UNCHANGED <<cause, failures, outcome, stage>> BY ZenonT(20), <2>3, <3>1 DEF PollTrigger
      <4>2. stage = "Trigger" BY ZenonT(20), <3>1 DEF CauseInv
      <4>3. outcome = NoOutcome BY ZenonT(20), <4>2 DEF ReleaseInv
      <4>4. IsSeq(failures)' BY ZenonT(20), <4>1 DEF CauseInv, IsSeq
      <4>5. trigger' # None BY ZenonT(20), <4>1, NoneApart
      <4>6. QED BY ZenonT(30), <1>0, <1>a, <3>1, <4>1, <4>2, <4>3, <4>4, <4>5 DEF CauseInv
    <3>2. CASE trigger # None BY ZenonT(20), <1>0, <2>3, <3>2, CauseInvStutter DEF PollTrigger
    <3>3. QED BY ZenonT(20), <3>1, <3>2
  <2>4. CASE PollFire(c) \/ Join(c)
    <3>1. trigger # None BY ZenonT(20), <2>4 DEF PollFire, Join, CauseInv
    <3>2. QED BY ZenonT(20), <1>0, <2>4, <3>1, CauseInvStutter DEF PollFire, Join
  <2>5. CASE ReleaseFire(c) \/ ReleaseServers(c)
    BY ZenonT(60), <1>0, <2>5, CauseInvStutter DEF ReleaseFire, ReleaseServers
  <2>6. QED BY ZenonT(20), <1>4, <2>1, <2>2, <2>3, <2>4, <2>5 DEF ClaimStep
<1>5. ASSUME NEW e \in Execs, ExecutionStep(e) PROVE CauseInv'
  BY ZenonT(20), <1>0, <1>5, CauseInvStutter DEF ExecutionStep
<1>6. QED BY ZenonT(20), <1>1, <1>2, <1>3, <1>4, <1>5 DEF Next

\* RestInv holds initially.
LEMMA RestInvInit == Init => RestInv
BY ZenonT(20) DEF Init, RestInv

\* And every step keeps the types left.
LEMMA RestInvStep ==
  ASSUME KeptInv, RestInv, [Next]_vars
  PROVE  RestInv'
<1>0. Server' = Server BY ZenonT(20), ServerSame
<1> USE DEF RestInv, cellVars, seqVars
<1>1. CASE SeqStep
  <2>1. CASE SeqTrigger \/ BeginStep \/ StartHook \/ EndHook \/ EndStep
    BY ZenonT(20), <1>0, <2>1 DEF SeqTrigger, BeginStep, StartHook, EndHook, EndStep
  <2>2. CASE SeqStop \/ SeqFire \/ SeqDrains \/ SeqResumeDrain
    BY ZenonT(20), <1>0, <2>2 DEF SeqStop, SeqFire, SeqDrains, SeqResumeDrain, KeptInv
  <2>3. CASE SeqDrain BY ZenonT(20), <1>0, <2>3 DEF SeqDrain
  <2>4. CASE StartCloses \/ JoinCloses BY ZenonT(20), <1>0, <2>4 DEF StartCloses, JoinCloses, KeptInv
  <2>5. CASE MarkClosed \/ ReleaseClosed \/ Finish BY ZenonT(20), <1>0, <2>5 DEF MarkClosed, ReleaseClosed, Finish
  <2>6. CASE \E s \in Server : ServerDrained(s) \/ EndClose(s) BY ZenonT(20), <1>0, <2>6 DEF ServerDrained, EndClose
  <2>7. QED BY ZenonT(20), <1>1, <2>1, <2>2, <2>3, <2>4, <2>5, <2>6 DEF SeqStep
<1>2. CASE CapExpires \/ UNCHANGED vars BY ZenonT(20), <1>0, <1>2 DEF CapExpires, vars
<1>3. CASE AppStep
  BY ZenonT(20), <1>0, <1>3 DEF AppStep, DropApp, AppClose, Serve, ServeSignal, ServeTriggered, ServeFire, ServeEnds
<1>4. ASSUME NEW c \in Claimers, ClaimStep(c) PROVE RestInv'
  BY ZenonT(60), <1>0, <1>4 DEF ClaimStep, HandleClose, AnswerDropped, Answer, DropClose, PollTrigger, PollFire, Join,
                    ReleaseFire, ReleaseServers
<1>5. ASSUME NEW e \in Execs, ExecutionStep(e) PROVE RestInv' BY ZenonT(20), <1>0, <1>5 DEF ExecutionStep
<1>6. QED BY ZenonT(20), <1>1, <1>2, <1>3, <1>4, <1>5 DEF Next

-----------------------------------------------------------------------------
(* The theorems. *)

\* The inductive invariant holds initially, ...
LEMMA IInvInit == Init => IInv
BY ZenonT(20), SeqInvInit, ClaimInvInit, ReleaseInvInit, KeptInvInit, HooksInvInit, ClosesInvInit, DrainedInvInit,
   CauseInvInit, RestInvInit DEF IInv

\* ... and every step keeps it.
LEMMA IInvStep == IInv /\ [Next]_vars => IInv'
<1> SUFFICES ASSUME IInv, [Next]_vars PROVE IInv' BY ZenonT(20)
<1>1. /\ SeqInv /\ ClaimInv /\ ReleaseInv /\ KeptInv /\ HooksInv /\ ClosesInv /\ DrainedInv
      /\ CauseInv /\ RestInv
  BY ZenonT(20) DEF IInv
<1>2. SeqInv' BY ZenonT(20), <1>1, SeqInvStep
<1>3. ClaimInv' BY ZenonT(20), <1>1, ClaimInvStep
<1>4. ReleaseInv' BY ZenonT(20), <1>1, ReleaseInvStep
<1>5. KeptInv' BY ZenonT(20), <1>1, KeptInvStep
<1>6. HooksInv' BY ZenonT(20), <1>1, HooksInvStep
<1>7. ClosesInv' BY ZenonT(20), <1>1, ClosesInvStep
<1>8. DrainedInv' BY ZenonT(20), <1>1, DrainedInvStep
<1>9. CauseInv' BY ZenonT(20), <1>1, CauseInvStep
<1>10. RestInv' BY ZenonT(20), <1>1, RestInvStep
<1>11. QED BY ZenonT(20), <1>2, <1>3, <1>4, <1>5, <1>6, <1>7, <1>8, <1>9, <1>10 DEF IInv

\* Every step of the shutdown is a step of LiveSet or leaves its state alone.
LEMMA LiveStep == IInv /\ [Next]_vars => [LiveNext]_liveVars
<1> SUFFICES ASSUME IInv, [Next]_vars PROVE [LiveNext]_liveVars BY ZenonT(20)
<1>0. SeqInv /\ ClaimInv /\ ReleaseInv BY ZenonT(20) DEF IInv
<1>1. CASE UNCHANGED liveVars BY ZenonT(20), <1>1
<1>2. ASSUME NEW to \in {Stopping, Destroying, Closed}, Advance(to),
             UNCHANGED <<drainEnded, terminalRefused, execVars, drainVars>>,
             to = Stopping => drainAt = "idle", to = Destroying => drainAt = "done",
             to = Closed => drainAt \in {"idle", "window", "done"}
      PROVE  LiveNext
  BY ZenonT(20), <1>2 DEF LiveNext, MovePhase
<1>3. ASSUME UNCHANGED <<phase, drainEnded, terminalRefused, execVars, drainVars>> PROVE UNCHANGED liveVars
  BY ZenonT(20), <1>3 DEF liveVars, phaseVars
<1>a. Stopping = 3 /\ Destroying = 5 /\ Closed = 6 BY ZenonT(20) DEF Stopping, Destroying, Closed
<1>4. CASE SeqStep
  <2>1. CASE SeqTrigger
    <3>1. drainAt = "idle" BY ZenonT(20), <1>0, <2>1 DEF SeqTrigger, At, SeqInv
    <3>2. QED BY SMTT(30), <1>2, <1>a, <2>1, <3>1 DEF SeqTrigger
  <2>2. CASE BeginStep
    <3>1. stage = "Destroy" => drainAt = "done" BY ZenonT(20), <1>0 DEF SeqInv
    <3>2. QED BY SMTT(30), <1>2, <1>3, <1>a, <2>2, <3>1 DEF BeginStep
  <2>3. CASE EndStep
    <3>1. stage = "Shutdown" => drainAt = "done" BY ZenonT(20), <1>0 DEF SeqInv
    <3>2. QED BY SMTT(30), <1>2, <1>3, <1>a, <2>3, <3>1 DEF EndStep
  <2>4. CASE SeqStop \/ SeqResumeDrain \/ SeqDrain
    BY ZenonT(20), <2>4 DEF SeqStop, SeqResumeDrain, SeqDrain, LiveNext, DrainStep
  <2>5. QED
    BY ZenonT(20), <1>1, <1>4, <2>1, <2>2, <2>3, <2>4
       DEF SeqStep, StartHook, EndHook, SeqFire, SeqDrains, ServerDrained, EndClose, StartCloses, JoinCloses,
           MarkClosed, ReleaseClosed, Finish
<1>5. CASE CapExpires \/ UNCHANGED vars BY ZenonT(20), <1>1, <1>5 DEF CapExpires, vars
<1>6. ASSUME NEW r, NEW c, ReleasedByDrop(r, c), r.closing = 0 => Held \subseteq {c}, ~AtAwait => runner # c
      PROVE  [LiveNext]_liveVars
  <2>1. CASE r.appDropped /\ r.closing = 0 /\ ~r.serversClosed
    <3>1. runner = None \/ (runner = c /\ AtAwait)
      BY ZenonT(20), <1>0, <1>6, <2>1 DEF SeqInv, ClaimInv, Held
    <3>2. drainAt \in {"idle", "window", "done"}
      BY ZenonT(20), <1>0, <3>1 DEF SeqInv, AtAwait, DrainStates, Points
    <3>3. QED BY SMTT(30), <1>2, <1>6, <1>a, <2>1, <3>2 DEF ReleasedByDrop
  <2>2. CASE ~(r.appDropped /\ r.closing = 0 /\ ~r.serversClosed)
    BY ZenonT(20), <1>3, <1>6, <2>2 DEF ReleasedByDrop
  <2>3. QED BY ZenonT(20), <2>1, <2>2
<1>7. CASE AppStep
  <2>1. CASE DropApp
    <3> DEFINE r == [release EXCEPT !.appDropped = TRUE]
    <3>1. ReleasedByDrop(r, Owner) BY ZenonT(20), <2>1 DEF DropApp
    <3>2. r.closing = release.closing BY ZenonT(20), <1>0 DEF ClaimInv
    <3> HIDE DEF r
    <3>3. r.closing = 0 => Held = {} BY ZenonT(20), <1>0, <3>2, HeldCount
    <3>4. runner # Owner
      <4>1. Owner \notin Held BY ZenonT(20), <1>0, <2>1, DropAppKeeps
      <4>2. Owner \in Claimers BY ZenonT(20) DEF Claimers
      <4>3. QED BY ZenonT(20), <1>0, <4>1, <4>2 DEF ClaimInv, Held
    <3>5. QED BY ZenonT(20), <1>6, <3>1, <3>3, <3>4
  <2>2. QED
    BY ZenonT(20), <1>1, <1>7, <2>1 DEF AppStep, AppClose, Serve, ServeSignal, ServeTriggered, ServeFire, ServeEnds
<1>8. ASSUME NEW c \in Claimers, ClaimStep(c) PROVE [LiveNext]_liveVars
  <2>1. CASE AnswerDropped(c) \/ Answer(c) \/ DropClose(c)
    <3> DEFINE r == [release EXCEPT !.closing = @ - 1]
    <3>1. ReleasedByDrop(r, c) /\ c \in Held
      BY ZenonT(20), <2>1 DEF AnswerDropped, Answer, DropClose, DropClaim, Held
    <3>2. r.closing = release.closing - 1 /\ release.closing \in Nat BY ZenonT(20), <1>0 DEF ClaimInv
    <3> HIDE DEF r
    <3>3. r.closing = 0 => Held \subseteq {c}
      <4>1. Cardinality(Held \ {c}) = release.closing - 1 /\ IsFiniteSet(Held)
        BY ZenonT(20), <1>0, <3>1, HeldCount DEF ClaimInv
      <4>2. IsFiniteSet(Held \ {c}) BY ZenonT(20), <4>1, CountRemove
      <4>3. r.closing = 0 => Held \ {c} = {} BY ZenonT(20), <3>2, <4>1, <4>2, CountEmpty
      <4>4. QED BY ZenonT(20), <4>3
    <3>4. ~AtAwait => runner # c
      BY ZenonT(20), <1>0, <2>1 DEF AnswerDropped, Answer, DropClose, ClaimInv
    <3>5. QED BY ZenonT(20), <1>6, <3>1, <3>3, <3>4
  <2>2. QED
    BY ZenonT(20), <1>1, <1>8, <2>1 DEF ClaimStep, HandleClose, PollTrigger, PollFire, Join, ReleaseFire, ReleaseServers
<1>9. ASSUME NEW e \in Execs, ExecutionStep(e) PROVE LiveNext BY ZenonT(20), <1>9 DEF ExecutionStep, LiveNext
<1>10. QED BY ZenonT(20), <1>4, <1>5, <1>7, <1>8, <1>9 DEF Next

-----------------------------------------------------------------------------
(* The theorems. *)

\* The invariant of the shutdown, for any number of handles, servers and hooks.
THEOREM ShutdownInvariance == Spec => []IInv
<1>1. Init => IInv BY ZenonT(20), IInvInit
<1>2. IInv /\ [Next]_vars => IInv' BY IInvStep
<1>3. QED BY <1>1, <1>2, PTL DEF Spec

\* No hook and no close of a server is started twice or passed over, however
\* often the future running the sequence is dropped and resumed.
THEOREM ShutdownStepsOnce == Spec => []StepsOnce
<1>1. IInv => StepsOnce
  <2> SUFFICES ASSUME IInv PROVE StepsOnce BY ZenonT(20)
  <2>1. HooksInv /\ ClosesInv /\ DrainedInv /\ SeqInv /\ ReleaseInv BY ZenonT(20) DEF IInv
  <2>2. \A s \in HookStages : DOMAIN hookStarts[s] = Hook BY ZenonT(20), <2>1 DEF HooksInv
  <2>3. \A s \in HookStages : \A h \in Hook : hookStarts[s][h] \in {0, 1} BY ZenonT(20), <2>1 DEF HooksInv
  <2>4. stage = "Done" => \A s \in HookStages : \A h \in Hook : hookStarts[s][h] = 1
    BY ZenonT(20), <2>1 DEF HooksInv, Behind, HookStages
  <2>5. \A s \in Server : closeStarts[s] \in {0, 1} BY ZenonT(20), <2>1 DEF ClosesInv, SeqInv, StageNames
  <2>6. release.serversClosed => \A s \in Server : closeStarts[s] = 1
    BY ZenonT(20), <2>1 DEF ReleaseInv, ClosesInv, SeqInv
  <2>7. drainEnded => drained = Server BY ZenonT(20), <2>1 DEF SeqInv, DrainedInv
  <2>8. outcome # NoOutcome => stage = "Done" BY ZenonT(20), <2>1 DEF ReleaseInv
  <2>9. \A s \in HookStages : \A h \in DOMAIN hookStarts[s] : hookStarts[s][h] <= 1 BY <2>2, <2>3
  <2>10. \A s \in Server : closeStarts[s] <= 1 BY <2>5
  <2>11. outcome # NoOutcome => \A s \in HookStages : \A h \in DOMAIN hookStarts[s] : hookStarts[s][h] = 1
    BY ZenonT(20), <2>2, <2>4, <2>8
  <2>12. QED BY SMTT(30), <2>6, <2>7, <2>9, <2>10, <2>11 DEF StepsOnce
<1>2. QED BY <1>1, ShutdownInvariance, PTL

\* A close that was not refused finds every server until the close step ends.
THEOREM ShutdownClaimKeepsServers == Spec => []ClaimKeepsServers
<1>1. IInv => ClaimKeepsServers
  BY ZenonT(60) DEF IInv, ReleaseInv, KeptInv, ClaimKeepsServers, Active
<1>2. QED BY <1>1, ShutdownInvariance, PTL

\* After a close has answered Dropped there is never an outcome or a runner.
THEOREM ShutdownDroppedIsFinal == Spec => []DroppedIsFinal
<1>1. IInv => DroppedIsFinal
  <2> SUFFICES ASSUME IInv, NEW c \in Claimers, answer[c] = "Dropped" \/ close[c] = "refused"
               PROVE  outcome = NoOutcome /\ runner = None /\ phase = Closed
    BY ZenonT(20) DEF DroppedIsFinal
  <2>1. SeqInv /\ ClaimInv /\ ReleaseInv BY ZenonT(20) DEF IInv
  <2>2. release.released /\ ~release.serversClosed BY ZenonT(20), <2>1 DEF ReleaseInv
  <2>3. Active = {} /\ phase = Closed /\ stage # "Done" BY ZenonT(20), <2>1, <2>2 DEF ReleaseInv
  <2>4. runner = None BY ZenonT(20), <2>1, <2>3 DEF SeqInv, ClaimInv, Active
  <2>5. QED BY SMTT(30), <2>1, <2>3, <2>4 DEF ReleaseInv
<1>2. QED BY <1>1, ShutdownInvariance, PTL

\* Whichever drop comes last lets the servers go and fires draining().
THEOREM ShutdownNothingKept == Spec => []NothingKept
<1>1. IInv => NothingKept
  <2> SUFFICES ASSUME IInv, app = "gone", \A c \in Claimers : close[c] \in {"idle", "done"} /\ dropping[c] = "no"
               PROVE  servers = {} /\ draining
    BY ZenonT(20) DEF NothingKept
  <2>1. ClaimInv /\ ReleaseInv /\ KeptInv BY ZenonT(20) DEF IInv
  <2>2. Held = {} BY ZenonT(20) DEF Held
  <2>3. release.closing = 0 BY ZenonT(20), <2>1, <2>2, CountEmpty DEF ClaimInv
  <2>4. release.released BY ZenonT(20), <2>1, <2>3 DEF ClaimInv, ReleaseInv
  <2>5. QED BY <2>1, <2>4 DEF KeptInv
<1>2. QED BY <1>1, ShutdownInvariance, PTL

\* The outcome names a serve that ended exactly when that end was the trigger.
THEOREM ShutdownCauseReported == Spec => []CauseReported
<1>1. IInv => CauseReported
  <2> SUFFICES ASSUME IInv, outcome # NoOutcome
               PROVE  /\ outcome.signal = trigger
                      /\ trigger \in Server <=> outcome.failures # <<>> /\ outcome.failures[1].kind = "Serve"
                      /\ \A i \in 2 .. Len(outcome.failures) : outcome.failures[i].kind # "Serve"
    BY ZenonT(20) DEF CauseReported
  <2>1. outcome.signal = trigger /\ IsSeq(outcome.failures) /\ ServeFirst(outcome.failures)
    BY ZenonT(20) DEF IInv, CauseInv
  <2>2. Len(outcome.failures) > 0 <=> outcome.failures # <<>>
    <3> DEFINE S == {outcome.failures[i] : i \in DOMAIN outcome.failures}
    <3>1. outcome.failures \in Seq(S) BY ZenonT(20), <2>1 DEF IsSeq
    <3> HIDE DEF S
    <3>2. QED BY <3>1
  <2>3. QED BY ZenonT(20), <2>1, <2>2 DEF ServeFirst
<1>2. QED BY <1>1, ShutdownInvariance, PTL

\* The shutdown implements LiveSet: its drain, its phases and the executions
\* beside it take the steps of LiveSet.tla and no others.
THEOREM ShutdownImplementsLiveSet == Spec => ImplementsLiveSet
<1>1. Init => LiveInit BY ZenonT(20) DEF Init
<1>2. IInv /\ [Next]_vars => [LiveNext]_liveVars BY LiveStep
<1>3. QED BY <1>1, <1>2, ShutdownInvariance, PTL DEF Spec, LiveSpec, ImplementsLiveSet

\* So what LiveSet guarantees holds of the shutdown: an execution still held
\* once the drain is done has been cancelled.
THEOREM ShutdownSurvivorsCancelled == Spec => []SurvivorsCancelled
BY ShutdownImplementsLiveSet, LiveSurvivorsCancelled, PTL DEF ImplementsLiveSet

\* And a drain that saw the live set empty leaves no ordinary execution behind.
THEOREM ShutdownSettledMeansNone == Spec => []SettledMeansNone
BY ShutdownImplementsLiveSet, LiveSettledMeansNone, PTL DEF ImplementsLiveSet

\* The types.
THEOREM ShutdownTypes == Spec => []TypeOK
<1>1. IInv /\ LiveTypeOK => TypeOK
  BY ZenonT(20), StageOrder DEF IInv, SeqInv, ClaimInv, ReleaseInv, KeptInv, HooksInv, ClosesInv, DrainedInv, CauseInv, RestInv,
                    Points, TypeOK
<1>2. Spec => []LiveTypeOK BY ShutdownImplementsLiveSet, LiveTypes, PTL DEF ImplementsLiveSet
<1>3. QED BY <1>1, <1>2, ShutdownInvariance, PTL

\* One outcome for every receiver: once stored it never changes (run_sequence).
OutcomeStays == [][outcome # NoOutcome => outcome' = outcome]_vars

\* The outcome is stored once.
THEOREM ShutdownOutcomeStays == Spec => OutcomeStays
<1>1. IInv /\ [Next]_vars => [outcome # NoOutcome => outcome' = outcome]_vars
  <2> SUFFICES ASSUME IInv, [Next]_vars, outcome # NoOutcome PROVE outcome' = outcome BY ZenonT(20)
  <2>1. runner = None BY ZenonT(20) DEF IInv, ReleaseInv
  <2>2. CASE SeqStep
    BY ZenonT(20), <2>1, <2>2 DEF SeqStep, At, SeqTrigger, BeginStep, StartHook, EndHook, EndStep, SeqStop, SeqFire, SeqDrains,
                      SeqResumeDrain, ServerDrained, EndClose, SeqDrain, StartCloses, JoinCloses, MarkClosed,
                      ReleaseClosed, Finish
  <2> USE DEF seqVars
  <2>3. CASE CapExpires \/ UNCHANGED vars BY ZenonT(20), <2>3 DEF CapExpires, vars
  <2>4. CASE AppStep
    BY ZenonT(20), <2>4 DEF AppStep, DropApp, AppClose, Serve, ServeSignal, ServeTriggered, ServeFire, ServeEnds
  <2>5. ASSUME NEW c \in Claimers, ClaimStep(c) PROVE outcome' = outcome
    BY ZenonT(20), <2>5 DEF ClaimStep, HandleClose, AnswerDropped, Answer, DropClose, PollTrigger, PollFire, Join,
                ReleaseFire, ReleaseServers
  <2>6. ASSUME NEW e \in Execs, ExecutionStep(e) PROVE outcome' = outcome BY ZenonT(20), <2>6 DEF ExecutionStep
  <2>7. QED BY SMTT(30), <2>2, <2>3, <2>4, <2>5, <2>6 DEF Next
<1>2. QED BY <1>1, ShutdownInvariance, PTL DEF Spec, OutcomeStays

=============================================================================
