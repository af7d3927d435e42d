----------------------------- MODULE Primitives ------------------------------
(***************************************************************************)
(* The primitives: the notification, the ordered queue and the turns.      *)
(* Each part below has its own constants, variables, Init and Next, and    *)
(* shares no state with the others.                                        *)
(***************************************************************************)
EXTENDS Naturals, Sequences, FiniteSets

-------------------------------------------------------------------------------
(***************************************************************************)
(* The one-shot notification of ulo/src/execution/notify.rs: what every    *)
(* execution's cancellation and the app's stop-accepting notice are made   *)
(* of.  Listeners are polled, polled again, dropped and made anew on any   *)
(* thread while any thread fires.                                          *)
(*                                                                         *)
(* A step runs to the next atomic or lock.  A listener is polled by one of *)
(* several tasks, each with its own waker; a wake reaches the task of the  *)
(* waker in the slot.                                                      *)
(***************************************************************************)

CONSTANTS Listeners, Pollers, Firers

ASSUME NotifyAssumption == IsFiniteSet(Listeners)

VARIABLES
    fired,    \* Notify::fired
    slots,    \* Waiters::slots, each a listener's waker or Empty
    free,     \* Waiters::free, a stack of indices
    listen,   \* each Listen: where its poll is, its slot (0 for none), the task that polled it last
    firer,    \* where each fire() is
    waking    \* the wakers fire() took and has not woken yet

notifyVars == <<fired, slots, free, listen, firer, waking>>

Empty == <<>>
Waker(l, t) == <<l, t>>
Wakers == Listeners \X Pollers

\* A Listen: "new" before its first poll and once woken, "polled" between the two checks of a poll,
\* "waiting" at Pending, "ready", or "dropped".
ListenStates == {"new", "polled", "waiting", "ready", "dropped"}
FreshListen(t) == [at |-> "new", slot |-> 0, task |-> t]

NotifyInit ==
    /\ fired = FALSE /\ slots = <<>> /\ free = <<>> /\ waking = {}
    /\ \E t \in Pollers : listen = [l \in Listeners |-> FreshListen(t)]
    /\ firer = [f \in Firers |-> "idle"]

\* fire(): the flag, then the slots under the lock, then the wakes outside it.
Fire(f) ==
    /\ firer[f] = "idle"
    /\ fired' = TRUE
    /\ firer' = [firer EXCEPT ![f] = IF fired THEN "done" ELSE "take"]
    /\ UNCHANGED <<slots, free, listen, waking>>

FireTake(f) ==
    /\ firer[f] = "take"
    /\ waking' = waking \cup {slots[i] : i \in {j \in DOMAIN slots : slots[j] # Empty}}
    /\ slots' = <<>> /\ free' = <<>>
    /\ firer' = [firer EXCEPT ![f] = "wake"]
    /\ UNCHANGED <<fired, listen>>

\* One wake: the listener's task is scheduled to poll it, if it still waits there.
Woken(w) ==
    [listen EXCEPT ![w[1]].at = IF @ = "waiting" /\ listen[w[1]].task = w[2] THEN "new" ELSE @]

FireWake(f) ==
    /\ firer[f] = "wake"
    /\ IF waking = {} THEN firer' = [firer EXCEPT ![f] = "done"] /\ UNCHANGED <<listen, waking>>
       ELSE \E w \in waking : waking' = waking \ {w} /\ listen' = Woken(w) /\ UNCHANGED firer
    /\ UNCHANGED <<fired, slots, free>>

\* Listen::poll by task t, of a listener not polled yet, woken, or polled again unasked.
Poll(l, t) ==
    /\ listen[l].at \in {"new", "waiting"}
    /\ listen' = [listen EXCEPT ![l].at = IF fired THEN "ready" ELSE "polled", ![l].task = t]
    /\ UNCHANGED <<fired, slots, free, firer, waking>>

\* Mutant of PollLocked: `fired` is not read again under the lock.
PollUnchecked(l) ==
    /\ listen[l].at = "polled"
    /\ slots' = Append(slots, Waker(l, listen[l].task))
    /\ listen' = [listen EXCEPT ![l].at = "waiting", ![l].slot = Len(slots) + 1]
    /\ UNCHANGED <<fired, free, firer, waking>>

\* The rest of the poll, under the lock: its own slot again, a free one, or a new one.
PollLocked(l) ==
    /\ listen[l].at = "polled"
    /\ LET mine == listen[l].slot  waker == Waker(l, listen[l].task)
           put(i) == slots' = [slots EXCEPT ![i] = waker]
           waits(i) == listen' = [listen EXCEPT ![l].at = "waiting", ![l].slot = i]
       IN \/ fired /\ listen' = [listen EXCEPT ![l].at = "ready"] /\ UNCHANGED <<slots, free>>
          \/ ~fired /\ mine \in DOMAIN slots /\ put(mine) /\ waits(mine) /\ UNCHANGED free
          \/ /\ ~fired /\ mine \notin DOMAIN slots /\ free # <<>>
             /\ put(free[Len(free)]) /\ waits(free[Len(free)])
             /\ free' = SubSeq(free, 1, Len(free) - 1)
          \/ /\ ~fired /\ mine \notin DOMAIN slots /\ free = <<>>
             /\ slots' = Append(slots, waker) /\ waits(Len(slots) + 1) /\ UNCHANGED free
    /\ UNCHANGED <<fired, firer, waking>>

\* Drop for Listen, between polls.
DropListen(l) ==
    /\ listen[l].at \in {"new", "waiting", "ready"}
    /\ listen' = [listen EXCEPT ![l].at = "dropped", ![l].slot = 0]
    /\ IF fired \/ listen[l].slot \notin DOMAIN slots THEN UNCHANGED <<slots, free>>
       ELSE /\ slots' = [slots EXCEPT ![listen[l].slot] = Empty]
            /\ free' = Append(free, listen[l].slot)
    /\ UNCHANGED <<fired, firer, waking>>

\* Notify::listen: another listener in the dropped one's place.
NewListen(l, t) ==
    /\ listen[l].at = "dropped"
    /\ listen' = [listen EXCEPT ![l] = FreshListen(t)]
    /\ UNCHANGED <<fired, slots, free, firer, waking>>

FireStep(f) == Fire(f) \/ FireTake(f) \/ FireWake(f)
NotifyNext ==
    \/ \E f \in Firers : FireStep(f)
    \/ \E l \in Listeners : PollLocked(l) \/ DropListen(l)
    \/ \E l \in Listeners, t \in Pollers : Poll(l, t) \/ NewListen(l, t)

NotifySpec == NotifyInit /\ [][NotifyNext]_notifyVars

---------------------------------------------------------------------------
\* Notify's state is well formed.
NotifyTypeOK ==
    /\ fired \in BOOLEAN /\ slots \in Seq(Wakers \cup {Empty}) /\ free \in Seq(Nat \ {0})
    /\ listen \in [Listeners -> [at : ListenStates, slot : Nat, task : Pollers]]
    /\ firer \in [Firers -> {"idle", "take", "wake", "done"}]
    /\ waking \subseteq Wakers

\* While nothing has fired, a slot belongs to one listener or is free and empty: a dropped
\* listener's slot is reused by no two, a waiting listener's waker, its last poll's, is there, and
\* the list never grows past the listeners alive at once, however often they are polled.
SlotsOwned ==
    ~fired =>
      /\ Len(slots) <= Cardinality(Listeners)
      /\ \A l \in Listeners : listen[l].slot # 0 => listen[l].slot \in DOMAIN slots
      /\ \A l \in Listeners : listen[l].at = "waiting" => slots[listen[l].slot] = Waker(l, listen[l].task)
      /\ \A l, k \in Listeners : l # k /\ listen[l].slot # 0 => listen[l].slot # listen[k].slot
      /\ \A i \in DOMAIN free : free[i] \in DOMAIN slots /\ slots[free[i]] = Empty
      /\ \A i, j \in DOMAIN free : free[i] = free[j] => i = j

\* No wake-up is lost: a listener at Pending when the notification has fired is still in the slots
\* a fire will take, or among the wakers it took, under the waker of its last poll.
WakeupOwed ==
    \A l \in Listeners : fired /\ listen[l].at = "waiting" =>
      LET w == Waker(l, listen[l].task) IN
        \/ w \in waking /\ \E f \in Firers : firer[f] = "wake"
        \/ (\E i \in DOMAIN slots : slots[i] = w) /\ \E f \in Firers : firer[f] = "take"

\* A listener is neither forgotten nor taken for another, before the fire, during it or after it
\* (Listen::poll, Drop for Listen, Notify::fire).
ListenersKept == SlotsOwned /\ WakeupOwed

-------------------------------------------------------------------------------
(***************************************************************************)
(* The bounded queue of ulo-transport/src/sync/ordered.rs, which the links *)
(* feed their writers through: a send's place is fixed when it is called,  *)
(* and its Room resolves once the item is among the first `bound` the      *)
(* receiver has not taken.                                                 *)
(*                                                                         *)
(* An item is its place, the number of items pushed before it.  A step     *)
(* runs to the next lock or to the next use of an Event; an Event (of the  *)
(* event-listener crate, external) wakes the listeners registered when it  *)
(* is notified and keeps nothing for a later one.                          *)
(***************************************************************************)

CONSTANTS
    Senders,    \* the handles that may exist, clones of the first
    First,      \* the handle channel() made
    Bound,      \* channel's bound
    MaxSends    \* bound: items pushed in a behaviour

ASSUME QueueAssumption == First \in Senders /\ Bound \in Nat \ {0} /\ MaxSends \in Nat

VARIABLES
    queue,      \* State::queue, the places of the items
    pushed, taken,
    senders,    \* the handles alive, State::senders
    receiving,
    sender,     \* each handle: idle, or between its push and the notification
    room,       \* the Room of each place
    rx          \* the receiver

queueVars == <<queue, pushed, taken, senders, receiving, sender, room, rx>>

Places == 0 .. MaxSends - 1

\* A wait: where its poll is, and what its listener has heard.
WaitAts == {"read", "listen", "asleep"}
Listens == {"none", "waiting", "notified"}
Reading == [at |-> "read", listener |-> "none"]
Over(how) == [at |-> how, listener |-> "none"]
Live(w) == w.at \in WaitAts

QueueInit ==
    /\ queue = <<>> /\ pushed = 0 /\ taken = 0 /\ senders = {First} /\ receiving = TRUE
    /\ sender = [s \in Senders |-> "idle"]
    /\ room = [p \in Places |-> Over("unused")]
    /\ rx = Reading

\* Event::notify, and what a wait does with its listener: registers one, consumes one that heard,
\* or goes to sleep until it does.
Heard(w) == IF w.listener = "waiting" THEN [w EXCEPT !.listener = "notified"] ELSE w
Listened(w) ==
    CASE w.listener = "none"     -> [at |-> "read", listener |-> "waiting"]
      [] w.listener = "notified" -> Reading
      [] w.listener = "waiting"  -> [w EXCEPT !.at = "asleep"]
Awake(w) == w.at = "asleep" /\ w.listener = "notified"

NotifyRooms == room' = [p \in Places |-> Heard(room[p])]
NotifyReceiver == rx' = Heard(rx)

---------------------------------------------------------------------------
\* Mutant of Send: a send waiting for room takes its place only once it has it.
SendPlacedLater(s) ==
    /\ s \in senders /\ sender[s] = "idle" /\ pushed < MaxSends
    /\ receiving
    /\ pushed' = pushed + 1
    /\ queue' = IF Len(queue) < Bound \/ queue = <<>> THEN Append(queue, pushed)
                ELSE SubSeq(queue, 1, Len(queue) - 1) \o <<pushed, queue[Len(queue)]>>
    /\ room' = [room EXCEPT ![pushed] = Reading]
    /\ sender' = [sender EXCEPT ![s] = "notify"]
    /\ UNCHANGED <<taken, senders, receiving, rx>>

\* Sender::send: the push under the lock, then the receiver's wake-up.  With the receiver gone it
\* changes nothing: its Room is Closed from the start.
Send(s) ==
    /\ s \in senders /\ sender[s] = "idle" /\ pushed < MaxSends
    /\ receiving
    /\ pushed' = pushed + 1 /\ queue' = Append(queue, pushed)
    /\ room' = [room EXCEPT ![pushed] = Reading]
    /\ sender' = [sender EXCEPT ![s] = "notify"]
    /\ UNCHANGED <<taken, senders, receiving, rx>>

\* Sender::try_send where it fits; where it does not nothing changes.
TrySend(s) ==
    /\ s \in senders /\ sender[s] = "idle" /\ pushed < MaxSends
    /\ receiving /\ Len(queue) < Bound
    /\ pushed' = pushed + 1 /\ queue' = Append(queue, pushed)
    /\ sender' = [sender EXCEPT ![s] = "notify"]
    /\ UNCHANGED <<taken, senders, receiving, room, rx>>

SendNotify(s) ==
    /\ sender[s] = "notify"
    /\ NotifyReceiver
    /\ sender' = [sender EXCEPT ![s] = "idle"]
    /\ UNCHANGED <<queue, pushed, taken, senders, receiving, room>>

Clone(s, t) ==
    /\ s \in senders /\ t \notin senders /\ sender[t] = "idle" /\ senders' = senders \cup {t}
    /\ UNCHANGED <<queue, pushed, taken, receiving, sender, room, rx>>

DropSender(s) ==
    /\ s \in senders /\ sender[s] = "idle"
    /\ senders' = senders \ {s}
    /\ sender' = [sender EXCEPT ![s] = IF senders = {s} THEN "notify" ELSE "idle"]
    /\ UNCHANGED <<queue, pushed, taken, receiving, room, rx>>

\* Mutant of RoomRead: one item too many has room.
RoomReadOneMore(p) ==
    /\ room[p].at = "read" \/ Awake(room[p])
    /\ room' = [room EXCEPT ![p] =
         CASE p < taken -> Over("ok")
           [] p >= taken /\ ~receiving -> Over("closed")
           [] p >= taken /\ receiving /\ p <= taken + Bound -> Over("ok")
           [] OTHER -> [@ EXCEPT !.at = "listen"]]
    /\ UNCHANGED <<queue, pushed, taken, senders, receiving, sender, rx>>

\* Room::poll: the state, then the listener, and round again.
RoomRead(p) ==
    /\ room[p].at = "read" \/ Awake(room[p])
    /\ room' = [room EXCEPT ![p] =
         CASE p < taken -> Over("ok")
           [] p >= taken /\ ~receiving -> Over("closed")
           [] p >= taken /\ receiving /\ p < taken + Bound -> Over("ok")
           [] OTHER -> [@ EXCEPT !.at = "listen"]]
    /\ UNCHANGED <<queue, pushed, taken, senders, receiving, sender, rx>>

RoomListen(p) ==
    /\ room[p].at = "listen"
    /\ room' = [room EXCEPT ![p] = Listened(@)]
    /\ UNCHANGED <<queue, pushed, taken, senders, receiving, sender, rx>>

DropRoom(p) ==
    /\ Live(room[p]) /\ room' = [room EXCEPT ![p] = Over("dropped")]
    /\ UNCHANGED <<queue, pushed, taken, senders, receiving, sender, rx>>

\* Receiver::poll_recv: an item taken under the lock, then the waiting sends woken; or the end.
RecvRead ==
    /\ receiving /\ (rx.at = "read" \/ Awake(rx))
    /\ IF queue # <<>>
         THEN queue' = Tail(queue) /\ taken' = taken + 1 /\ rx' = Over("notify")
         ELSE /\ rx' = IF senders = {} THEN Over("ended") ELSE [rx EXCEPT !.at = "listen"]
              /\ UNCHANGED <<queue, taken>>
    /\ UNCHANGED <<pushed, senders, receiving, sender, room>>

RecvNotify ==
    /\ rx.at = "notify" /\ rx' = Reading /\ NotifyRooms
    /\ UNCHANGED <<queue, pushed, taken, senders, receiving, sender>>

RecvListen ==
    /\ rx.at = "listen" /\ rx' = Listened(rx)
    /\ UNCHANGED <<queue, pushed, taken, senders, receiving, sender, room>>

\* Drop for Receiver: the queue emptied under the lock, then the waiting sends woken.
DropReceiver ==
    /\ receiving /\ rx.at # "notify"
    /\ receiving' = FALSE /\ queue' = <<>> /\ rx' = Over("gone")
    /\ UNCHANGED <<pushed, taken, senders, sender, room>>

\* Mutant of GoneNotify: the sends waiting for room are not woken.
GoneSilent ==
    /\ rx.at = "gone" /\ rx' = Over("dropped")
    /\ UNCHANGED <<queue, pushed, taken, senders, receiving, sender, room>>

GoneNotify ==
    /\ rx.at = "gone" /\ rx' = Over("dropped") /\ NotifyRooms
    /\ UNCHANGED <<queue, pushed, taken, senders, receiving, sender>>

\* What runs by itself, with SendNotify: a task that is woken polls and a writer goes on receiving.
RoomStep(p) == RoomRead(p) \/ RoomListen(p)
RecvStep == RecvRead \/ RecvNotify \/ RecvListen \/ GoneNotify
QueueNext ==
    \/ \E s \in Senders : Send(s) \/ TrySend(s) \/ SendNotify(s) \/ DropSender(s)
    \/ \E s, t \in Senders : Clone(s, t)
    \/ \E p \in Places : RoomStep(p) \/ DropRoom(p)
    \/ RecvStep \/ DropReceiver

QueueSpec == QueueInit /\ [][QueueNext]_queueVars

---------------------------------------------------------------------------

\* The receiver takes the items in the order their sends were called: the queue is the places from
\* `taken` to `pushed`, none missing and none overtaken, whichever sends wait for room.
InCallOrder ==
    /\ receiving => pushed = taken + Len(queue)
    /\ \A i \in DOMAIN queue : queue[i] = taken + i - 1

\* A send that resolved is among the first `bound` items not taken, so the sends told to go on are
\* never more than `bound` ahead of the receiver.
RoomIsWithinBound ==
    \A p \in Places : room[p].at = "ok" => p < taken + Bound

\* A send told Closed is one whose item the receiver never took.
ClosedMeansUntaken == \A p \in Places : room[p].at = "closed" => ~receiving /\ p >= taken

\* What a Room resolved to stays true whatever follows: one that went on is within the bound, and
\* one told Closed lost its item.
RoomAnswersHold == RoomIsWithinBound /\ ClosedMeansUntaken

\* The types of what the order depends on.
CountsOK == queue \in Seq(Nat) /\ pushed \in Nat /\ taken \in Nat /\ receiving \in BOOLEAN

RoomFunction == room \in [Places -> [at : WaitAts \cup {"unused", "ok", "closed", "dropped"}, listener : Listens]]

\* The inductive invariant: the order, with the types it reads, and what each Room was told, which
\* stays true because `taken` never falls and the receiver never comes back.
QueueInv == CountsOK /\ InCallOrder /\ RoomFunction /\ RoomIsWithinBound /\ ClosedMeansUntaken

\* No wake-up is lost on either side: a send waiting for room is told, as long as the receiver goes
\* on or is dropped; an item queued is taken, and the last sender's drop is seen.
QueueWakes ==
    /\ \A p \in Places : Live(room[p]) ~> ~Live(room[p])
    /\ queue # <<>> ~> queue = <<>>
    /\ (senders = {} /\ receiving) ~> rx.at \in {"ended", "dropped"}

-------------------------------------------------------------------------------
(***************************************************************************)
(* ulo-transport/src/turns.rs: a server's close gives every task it tracks *)
(* one more poll, on the closing thread, before it aborts them.  The task  *)
(* may be polling the future itself at that moment, on another thread or   *)
(* as the caller of give().                                                *)
(*                                                                         *)
(* A step runs to the next lock, try_lock or atomic.  A poll of the        *)
(* future is one step that begins with the lock taken and one that ends    *)
(* it: Pending, Ready, or a panic.                                         *)
(***************************************************************************)

CONSTANTS Order   \* the tracked tasks, in the order they were tracked

ASSUME TurnsAssumption == DOMAIN Order = 1 .. Len(Order) /\ Len(Order) \in Nat

VARIABLES
    run,      \* State::run of each slot
    lock,     \* who holds Slot::state: "none", "task" or "give"
    again,    \* Slot::again
    task,     \* where the runtime's Turn::poll is
    more,     \* once_more, of the Turn::poll under way
    giver,    \* where give() is with the slot it is at
    left,     \* the places in Order of the slots give() has not turned to yet
    since,    \* the tasks whose future began a poll after give() did
    awake,    \* the tasks woken and not polled since
    resumed   \* how often each task resumed its future's panic

turnVars == <<run, lock, again, task, more, giver, left, since, awake, resumed>>

Tasks == {Order[i] : i \in DOMAIN Order}
Runs == {"running", "done", "panicked"}

TurnsInit ==
    /\ run = [t \in Tasks |-> "running"] /\ lock = [t \in Tasks |-> "none"]
    /\ again = [t \in Tasks |-> FALSE]
    /\ task = [t \in Tasks |-> "idle"] /\ more = [t \in Tasks |-> TRUE]
    /\ giver = "idle" /\ left = {} /\ since = {}
    /\ awake = Tasks /\ resumed = [t \in Tasks |-> 0]

Began(t) == since' = IF giver = "idle" THEN since ELSE since \cup {t}

---------------------------------------------------------------------------
\* Turn::poll by the runtime, of a task awake: the lock, and the future's poll begun if it runs.
\* A future that ended in a turn ends the task here, its panic resumed.
TaskPoll(t) ==
    /\ task[t] = "idle" /\ t \in awake
    /\ awake' = awake \ {t} /\ more' = [more EXCEPT ![t] = TRUE]
    /\ task' = [task EXCEPT ![t] = "lock"]
    /\ UNCHANGED <<run, lock, again, giver, left, since, resumed>>

TaskLock(t) ==
    /\ task[t] = "lock" /\ lock[t] = "none"
    /\ \/ /\ run[t] = "running" /\ Began(t) /\ UNCHANGED <<run, resumed>>
          /\ lock' = [lock EXCEPT ![t] = "task"] /\ task' = [task EXCEPT ![t] = "polling"]
       \/ /\ run[t] = "done" /\ UNCHANGED <<run, lock, since, resumed>>
          /\ task' = [task EXCEPT ![t] = "ended"]
       \/ /\ run[t] = "panicked" /\ run' = [run EXCEPT ![t] = "done"] /\ UNCHANGED <<lock, since>>
          /\ task' = [task EXCEPT ![t] = "ended"] /\ resumed' = [resumed EXCEPT ![t] = @ + 1]
    /\ UNCHANGED <<again, more, giver, left, awake>>

\* The future's poll ends.  A panic leaves through the task, the lock poisoned and let go: nothing
\* polls the task again, and its Turn is dropped.
TaskPolled(t) ==
    /\ task[t] = "polling"
    /\ lock' = [lock EXCEPT ![t] = "none"]
    /\ \/ task' = [task EXCEPT ![t] = "check"] /\ UNCHANGED run
       \/ task' = [task EXCEPT ![t] = "ended"] /\ run' = [run EXCEPT ![t] = "done"]
       \/ task' = [task EXCEPT ![t] = "unwound"] /\ UNCHANGED run
    /\ UNCHANGED <<again, more, giver, left, since, awake, resumed>>

\* A turn found this poll under way: once more.
TaskCheck(t) ==
    /\ task[t] = "check"
    /\ IF more[t] /\ again[t]
         THEN /\ again' = [again EXCEPT ![t] = FALSE] /\ more' = [more EXCEPT ![t] = FALSE]
              /\ task' = [task EXCEPT ![t] = "lock"]
         ELSE /\ again' = IF more[t] THEN [again EXCEPT ![t] = FALSE] ELSE again
              /\ task' = [task EXCEPT ![t] = "idle"] /\ UNCHANGED more
    /\ UNCHANGED <<run, lock, giver, left, since, awake, resumed>>

\* Drop for Turn: of a task that ended, unwound, or was aborted between its polls.  It waits for a
\* turn's poll under way, and drops a future still there.
DropTurn(t) ==
    /\ task[t] \in {"idle", "ended", "unwound"} /\ lock[t] = "none"
    /\ task' = [task EXCEPT ![t] = "dropped"] /\ run' = [run EXCEPT ![t] = "done"]
    /\ awake' = awake \ {t}
    /\ UNCHANGED <<lock, again, more, giver, left, since, resumed>>

\* What the future waits on wakes its task.
Wake(t) ==
    /\ t \notin awake /\ task[t] \notin {"ended", "unwound", "dropped"} /\ awake' = awake \cup {t}
    /\ UNCHANGED <<run, lock, again, task, more, giver, left, since, resumed>>

---------------------------------------------------------------------------
\* Turns::give: the slots still tracked, collected under the registry's lock and turned to in order,
\* the latest tracked first.
Give ==
    /\ giver = "idle"
    /\ left' = {i \in DOMAIN Order : task[Order[i]] # "dropped"}
    /\ giver' = "next" /\ since' = {}
    /\ UNCHANGED <<run, lock, again, task, more, awake, resumed>>

Latest == {i \in left : \A j \in left : j <= i}
GiveEnds(next, i) == giver' = next /\ left' = IF next = "next" THEN left \ {i} ELSE left

GiveDone ==
    /\ giver = "next" /\ left = {} /\ giver' = "done"
    /\ UNCHANGED <<run, lock, again, task, more, left, since, awake, resumed>>

\* Slot::turn, its first try_lock and its second: the lock taken, and the poll begun if the future
\* runs.
TurnTakes(i) ==
    /\ lock[Order[i]] = "none"
    /\ again' = [again EXCEPT ![Order[i]] = FALSE]
    /\ IF run[Order[i]] = "running"
         THEN lock' = [lock EXCEPT ![Order[i]] = "give"] /\ Began(Order[i]) /\ GiveEnds("polling", i)
         ELSE GiveEnds("next", i) /\ UNCHANGED <<lock, since>>
TurnBlocked(i, next) == lock[Order[i]] # "none" /\ GiveEnds(next, i) /\ UNCHANGED <<lock, again, since>>

TurnTry ==
    /\ giver = "next" /\ \E i \in Latest : TurnTakes(i) \/ TurnBlocked(i, "mark")
    /\ UNCHANGED <<run, task, more, awake, resumed>>

TurnMark ==
    /\ giver = "mark"
    /\ \E i \in Latest : again' = [again EXCEPT ![Order[i]] = TRUE] /\ GiveEnds("retry", i)
    /\ UNCHANGED <<run, lock, task, more, since, awake, resumed>>

\* Mutant of TurnRetry: the lock is not tried again once `again` is set.
TurnNoRetry ==
    /\ giver = "retry" /\ \E i \in Latest : GiveEnds("next", i)
    /\ UNCHANGED <<run, lock, again, task, more, since, awake, resumed>>

TurnRetry ==
    /\ giver = "retry" /\ \E i \in Latest : TurnTakes(i) \/ TurnBlocked(i, "next")
    /\ UNCHANGED <<run, task, more, awake, resumed>>

\* The future's poll in the turn ends: still pending, ended, or panicked; ended, its task is awake.
TurnPolled ==
    /\ giver = "polling"
    /\ \E i \in Latest, end \in Runs :
         /\ lock' = [lock EXCEPT ![Order[i]] = "none"] /\ GiveEnds("next", i)
         /\ run' = [run EXCEPT ![Order[i]] = end]
         /\ awake' = IF end = "running" \/ task[Order[i]] \in {"ended", "unwound", "dropped"} THEN awake
                     ELSE awake \cup {Order[i]}
    /\ UNCHANGED <<again, task, more, since, resumed>>

\* What runs by itself: the runtime polls a task that is awake, a future's poll returns, and give()
\* goes to its end.
TaskStep(t) == TaskPoll(t) \/ TaskLock(t) \/ TaskPolled(t) \/ TaskCheck(t)
GiveStep == GiveDone \/ TurnTry \/ TurnMark \/ TurnRetry \/ TurnPolled
TurnsNext == (\E t \in Tasks : TaskStep(t) \/ DropTurn(t) \/ Wake(t)) \/ Give \/ GiveStep

TurnsSpec == TurnsInit /\ [][TurnsNext]_turnVars

---------------------------------------------------------------------------
\* The slots' state is well formed: a lock is held by the poll that took it.
TurnsTypeOK ==
    /\ run \in [Tasks -> Runs] /\ lock \in [Tasks -> {"none", "task", "give"}] /\ again \in [Tasks -> BOOLEAN]
    /\ task \in [Tasks -> {"idle", "lock", "polling", "check", "ended", "unwound", "dropped"}]
    /\ more \in [Tasks -> BOOLEAN] /\ giver \in {"idle", "next", "mark", "retry", "polling", "done"}
    /\ left \subseteq DOMAIN Order /\ since \subseteq Tasks /\ awake \subseteq Tasks /\ resumed \in [Tasks -> 0 .. 1]
    /\ \A t \in Tasks : lock[t] = "task" <=> task[t] = "polling"

\* Once give() has returned, a future still running has begun a poll since give() began, and so has
\* seen the cancellation it was given for, or its task is in a poll that will begin one as it ends.
TurnGiven ==
    giver = "done" =>
      \A t \in Tasks :
        run[t] = "running" /\ t \notin since =>
          \/ task[t] \in {"unwound", "dropped"}
          \/ task[t] \in {"polling", "check"} /\ more[t] /\ again[t]
          \/ task[t] = "lock"

\* A future that ends or panics in a turn ends its task: the task is awake and sees it, unless it is
\* dropped.
TurnEndsTask == \A t \in Tasks : run[t] # "running" ~> task[t] \in {"ended", "unwound", "dropped"}
===============================================================================
