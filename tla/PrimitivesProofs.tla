--------------------------- MODULE PrimitivesProofs ---------------------------
(***************************************************************************)
(* The primitives, for every value of their constants: each part's         *)
(* inductive invariant, its proof, and the theorems that follow from it.   *)
(***************************************************************************)
EXTENDS Primitives, FiniteSetTheorems, TLAPS

-------------------------------------------------------------------------------
(***************************************************************************)
(* Notify for any listeners, tasks and callers of fire(): a slot is never  *)
(* shared, and no listener at Pending is forgotten by the fire.  Until the *)
(* flag is set each slot is free and empty or one listener's; that every   *)
(* slot is one or the other bounds the list by the listeners.              *)
(***************************************************************************)

\* Only a fire() that won the swap goes on to take the slots, and it has set the flag.
FirersInv == \A f \in Firers : firer[f] # "idle" => fired

\* Until the flag is set: a listener's slot holds a waker, no two listeners share one, the free ones
\* are empty and listed once, and a slot is free or some listener's.
OwnersInv ==
    ~fired =>
      /\ \A l \in Listeners : listen[l].slot # 0 =>
           listen[l].slot \in DOMAIN slots /\ slots[listen[l].slot] # Empty
      /\ \A l \in Listeners : listen[l].at = "waiting" =>
           listen[l].slot # 0 /\ slots[listen[l].slot] = Waker(l, listen[l].task)
      /\ \A l \in Listeners : listen[l].at = "dropped" => listen[l].slot = 0
      /\ \A l, k \in Listeners : l # k /\ listen[l].slot # 0 => listen[l].slot # listen[k].slot

FreeInv ==
    ~fired =>
      /\ \A i \in DOMAIN free : free[i] \in DOMAIN slots /\ slots[free[i]] = Empty
      /\ \A i, j \in DOMAIN free : free[i] = free[j] => i = j
      /\ \A i \in DOMAIN slots : slots[i] # Empty => \E l \in Listeners : listen[l].slot = i
      /\ \A i \in DOMAIN slots : slots[i] = Empty => \E j \in DOMAIN free : free[j] = i

LengthInv == ~fired => Len(slots) <= Cardinality(Listeners)

NotifyInv ==
    /\ NotifyTypeOK /\ FirersInv /\ OwnersInv /\ FreeInv /\ LengthInv /\ WakeupOwed

\* What a poll and a drop do to the lists: a slot overwritten, a slot pushed, a free index popped or
\* pushed.
LEMMA Put ==
    ASSUME NEW S, NEW s \in Seq(S), NEW i \in DOMAIN s, NEW w \in S
    PROVE  LET q == [s EXCEPT ![i] = w] IN
             /\ q \in Seq(S) /\ Len(q) = Len(s) /\ DOMAIN q = DOMAIN s
             /\ q[i] = w
             /\ \A j \in DOMAIN s : j # i => q[j] = s[j]
OBVIOUS

\* What appending one element does to a sequence.
LEMMA Push ==
    ASSUME NEW S, NEW s \in Seq(S), NEW w \in S
    PROVE  LET q == Append(s, w) IN
             /\ q \in Seq(S) /\ Len(q) = Len(s) + 1 /\ Len(s) \in Nat
             /\ DOMAIN q = DOMAIN s \cup {Len(s) + 1} /\ Len(s) + 1 \notin DOMAIN s
             /\ q[Len(s) + 1] = w
             /\ \A j \in DOMAIN s : q[j] = s[j]
OBVIOUS

\* What taking the last element off a sequence does.
LEMMA Pop ==
    ASSUME NEW S, NEW s \in Seq(S), s # <<>>
    PROVE  LET q == SubSeq(s, 1, Len(s) - 1) IN
             /\ q \in Seq(S) /\ Len(s) \in DOMAIN s
             /\ DOMAIN q = DOMAIN s \ {Len(s)}
             /\ \A j \in DOMAIN q : q[j] = s[j]
<1>1. Len(s) \in Nat \ {0}
  OBVIOUS
<1> QED BY <1>1

\* An empty slot is no waker.
LEMMA WakerNotEmpty == \A l \in Listeners, t \in Pollers : Waker(l, t) \in Wakers /\ Waker(l, t) # Empty
BY ZenonT(20) DEF Waker, Wakers, Empty

\* The first state.
LEMMA NotifyInvInit == NotifyInit => NotifyInv
<1> SUFFICES ASSUME NotifyInit PROVE NotifyInv
  BY ZenonT(20)
<1>0. PICK t \in Pollers : listen = [l \in Listeners |-> FreshListen(t)]
  BY ZenonT(20) DEF NotifyInit
<1>1. NotifyTypeOK
  <2>1. FreshListen(t) \in [at : ListenStates, slot : Nat, task : Pollers]
    BY ZenonT(20) DEF FreshListen, ListenStates
  <2>2. listen \in [Listeners -> [at : ListenStates, slot : Nat, task : Pollers]]
    BY ZenonT(20), <1>0, <2>1
  <2>3. slots \in Seq(Wakers \cup {Empty}) /\ free \in Seq(Nat \ {0}) /\ waking \subseteq Wakers
    BY DEF NotifyInit
  <2>4. fired \in BOOLEAN /\ firer \in [Firers -> {"idle", "take", "wake", "done"}]
    BY ZenonT(20) DEF NotifyInit
  <2> QED BY ZenonT(20), <2>2, <2>3, <2>4 DEF NotifyTypeOK
<1>2. FirersInv /\ OwnersInv /\ FreeInv
  BY DEF NotifyInit, FirersInv, OwnersInv, FreeInv, FreshListen
<1>3. LengthInv
  BY NotifyAssumption, FS_CardinalityType DEF NotifyInit, LengthInv
<1>4. WakeupOwed
  BY ZenonT(20) DEF NotifyInit, WakeupOwed
<1> QED BY ZenonT(20), <1>1, <1>2, <1>3, <1>4 DEF NotifyInv

\* fire(): the winner of the swap finds every waiting listener's waker in its slot.
LEMMA NotifyInvFire == ASSUME NotifyInv, NEW f \in Firers, Fire(f) PROVE NotifyInv'
<1> USE DEF NotifyInv
<1>1. NotifyTypeOK'
  BY ZenonT(20) DEF Fire, NotifyTypeOK
<1>2. FirersInv' /\ OwnersInv' /\ FreeInv' /\ LengthInv'
  BY ZenonT(20) DEF Fire, FirersInv, OwnersInv, FreeInv, LengthInv
<1>3. WakeupOwed'
  <2> SUFFICES ASSUME NEW l \in Listeners, listen[l].at = "waiting"
               PROVE  LET w == Waker(l, listen[l].task) IN
                        \/ w \in waking /\ \E g \in Firers : firer'[g] = "wake"
                        \/ (\E i \in DOMAIN slots : slots[i] = w) /\ \E g \in Firers : firer'[g] = "take"
    BY ZenonT(20) DEF Fire, WakeupOwed
  <2>1. \A g \in Firers : firer[g] \in {"wake", "take"} => firer'[g] = firer[g]
    BY ZenonT(20) DEF Fire, NotifyTypeOK
  <2>2. CASE fired
    BY ZenonT(20), <2>1, <2>2 DEF WakeupOwed
  <2>3. CASE ~fired
    <3>1. firer'[f] = "take"
      BY ZenonT(20), <2>3 DEF Fire, NotifyTypeOK
    <3>2. listen[l].slot \in DOMAIN slots /\ slots[listen[l].slot] = Waker(l, listen[l].task)
      BY ZenonT(20), <2>3 DEF OwnersInv
    <3> QED BY ZenonT(20), <3>1, <3>2
  <2> QED BY ZenonT(20), <2>2, <2>3
<1> QED BY ZenonT(20), <1>1, <1>2, <1>3

\* The take: what was in the slots is in the hands of the fire that wakes it.
LEMMA NotifyInvFireTake == ASSUME NotifyInv, NEW f \in Firers, FireTake(f) PROVE NotifyInv'
<1> USE DEF NotifyInv
<1>0. fired /\ fired'
  BY ZenonT(20) DEF FireTake, FirersInv
<1>1. NotifyTypeOK'
  <2>1. \A i \in DOMAIN slots : slots[i] # Empty => slots[i] \in Wakers
    BY DEF NotifyTypeOK
  <2>2. waking' \subseteq Wakers
    BY ZenonT(20), <2>1 DEF FireTake, NotifyTypeOK
  <2> QED BY <2>2 DEF FireTake, NotifyTypeOK
<1>2. FirersInv' /\ OwnersInv' /\ FreeInv' /\ LengthInv'
  BY ZenonT(20), <1>0 DEF FirersInv, OwnersInv, FreeInv, LengthInv
<1>3. WakeupOwed'
  <2>1. firer'[f] = "wake" /\ listen' = listen
    BY ZenonT(20) DEF FireTake, NotifyTypeOK
  <2>2. ASSUME NEW l \in Listeners, listen[l].at = "waiting"
        PROVE  Waker(l, listen[l].task) \in waking'
    <3>1. Waker(l, listen[l].task) # Empty
      BY ZenonT(20), WakerNotEmpty DEF NotifyTypeOK
    <3>2. \/ Waker(l, listen[l].task) \in waking
          \/ \E i \in DOMAIN slots : slots[i] = Waker(l, listen[l].task)
      BY ZenonT(20), <1>0, <2>2 DEF WakeupOwed
    <3> QED BY ZenonT(20), <3>1, <3>2 DEF FireTake
  <2> QED BY ZenonT(20), <2>1, <2>2 DEF WakeupOwed
<1> QED BY ZenonT(20), <1>1, <1>2, <1>3

\* One wake, or the end of the fire once there is none left.
LEMMA NotifyInvFireWake == ASSUME NotifyInv, NEW f \in Firers, FireWake(f) PROVE NotifyInv'
<1> USE DEF NotifyInv
<1>0. fired /\ fired' /\ firer[f] = "wake" /\ slots' = slots /\ free' = free
  BY ZenonT(20) DEF FireWake, FirersInv
<1>2. FirersInv' /\ OwnersInv' /\ FreeInv' /\ LengthInv'
  BY ZenonT(20), <1>0 DEF FirersInv, OwnersInv, FreeInv, LengthInv
<1>3. CASE waking = {}
  <2>1. listen' = listen /\ waking' = waking /\ firer' = [firer EXCEPT ![f] = "done"]
    BY ZenonT(20), <1>3 DEF FireWake
  <2>2. NotifyTypeOK'
    BY ZenonT(20), <1>0, <2>1 DEF NotifyTypeOK
  <2>3. \A g \in Firers : firer[g] = "take" => firer'[g] = "take"
    BY ZenonT(20), <1>0, <2>1 DEF NotifyTypeOK
  <2>4. WakeupOwed'
    BY ZenonT(20), <1>0, <1>3, <2>1, <2>3 DEF WakeupOwed
  <2> QED BY ZenonT(20), <1>2, <2>2, <2>4
<1>4. CASE waking # {}
  <2>1. PICK w \in waking : waking' = waking \ {w} /\ listen' = Woken(w) /\ firer' = firer
    BY ZenonT(20), <1>4 DEF FireWake
  <2>2. PICK k \in Listeners, t \in Pollers : w = <<k, t>>
    BY <2>1 DEF NotifyTypeOK, Wakers
  <2>3. CASE listen[k].at = "waiting" /\ listen[k].task = t
    <3>1. listen' = [listen EXCEPT ![k].at = "new"]
      BY ZenonT(20), <2>1, <2>2, <2>3 DEF Woken, NotifyTypeOK
    <3>2. NotifyTypeOK'
      BY ZenonT(20), <1>0, <2>1, <3>1 DEF NotifyTypeOK, ListenStates
    <3>3. \A l \in Listeners : listen'[l].at = "waiting" => l # k /\ listen'[l] = listen[l]
      BY ZenonT(20), <3>1 DEF NotifyTypeOK
    <3>4. \A l \in Listeners : l # k => Waker(l, listen[l].task) # w
      BY ZenonT(20), <2>2 DEF Waker
    <3>5. WakeupOwed'
      BY ZenonT(20), <1>0, <2>1, <3>3, <3>4 DEF WakeupOwed
    <3> QED BY ZenonT(20), <1>2, <3>2, <3>5
  <2>4. CASE ~(listen[k].at = "waiting" /\ listen[k].task = t)
    <3>1. listen' = listen
      <4>1. listen' = [listen EXCEPT ![k].at = @]
        BY ZenonT(20), <2>1, <2>2, <2>4 DEF Woken
      <4> QED BY ZenonT(20), <4>1 DEF NotifyTypeOK
    <3>2. NotifyTypeOK'
      BY ZenonT(20), <1>0, <2>1, <3>1 DEF NotifyTypeOK
    <3>3. \A l \in Listeners : listen[l].at = "waiting" => Waker(l, listen[l].task) # w
      BY ZenonT(20), <2>2, <2>4 DEF Waker
    <3>5. WakeupOwed'
      BY ZenonT(20), <1>0, <2>1, <3>1, <3>3 DEF WakeupOwed
    <3> QED BY ZenonT(20), <1>2, <3>2, <3>5
  <2> QED BY ZenonT(20), <2>3, <2>4
<1> QED BY ZenonT(20), <1>3, <1>4

\* A poll's first read, and a listener made anew: the slots stay, and so does the listener's own.
LEMMA NotifyInvPoll == ASSUME NotifyInv, NEW l \in Listeners, NEW t \in Pollers, Poll(l, t) PROVE NotifyInv'
<1> USE DEF NotifyInv
<1>1. UNCHANGED <<fired, slots, free, firer, waking>>
  BY ZenonT(20) DEF Poll
<1>2. PICK a \in {"ready", "polled"} : listen' = [listen EXCEPT ![l].at = a, ![l].task = t]
  BY ZenonT(20) DEF Poll
<1>3. listen' \in [Listeners -> [at : ListenStates, slot : Nat, task : Pollers]]
  BY ZenonT(20), <1>2 DEF NotifyTypeOK, ListenStates
<1>4. \A k \in Listeners : k # l => listen'[k] = listen[k]
  BY ZenonT(20), <1>2 DEF NotifyTypeOK
<1>5. listen'[l].at = a /\ listen'[l].slot = listen[l].slot
  BY ZenonT(20), <1>2 DEF NotifyTypeOK
<1>6. NotifyTypeOK'
  BY ZenonT(20), <1>1, <1>3 DEF NotifyTypeOK
<1>7. FirersInv' /\ LengthInv'
  BY ZenonT(20), <1>1 DEF FirersInv, LengthInv
<1>8. OwnersInv'
  BY <1>1, <1>4, <1>5 DEF OwnersInv
<1>9. FreeInv'
  BY <1>1, <1>4, <1>5 DEF FreeInv
<1>10. WakeupOwed'
  BY ZenonT(20), <1>1, <1>4, <1>5 DEF WakeupOwed
<1> QED BY ZenonT(20), <1>6, <1>7, <1>8, <1>9, <1>10

\* A new listener keeps NotifyInv.
LEMMA NotifyInvNewListen == ASSUME NotifyInv, NEW l \in Listeners, NEW t \in Pollers, NewListen(l, t) PROVE NotifyInv'
<1> USE DEF NotifyInv
<1>0. ~fired => listen[l].slot = 0
  BY ZenonT(20) DEF NewListen, OwnersInv
<1>1. UNCHANGED <<fired, slots, free, firer, waking>> /\ listen' = [listen EXCEPT ![l] = FreshListen(t)]
  BY ZenonT(20) DEF NewListen
<1>2. FreshListen(t) \in [at : ListenStates, slot : Nat, task : Pollers]
  BY ZenonT(20) DEF FreshListen, ListenStates
<1>3. listen' \in [Listeners -> [at : ListenStates, slot : Nat, task : Pollers]]
  BY ZenonT(20), <1>1, <1>2 DEF NotifyTypeOK
<1>4. \A k \in Listeners : k # l => listen'[k] = listen[k]
  BY ZenonT(20), <1>1 DEF NotifyTypeOK
<1>5. listen'[l].at = "new" /\ listen'[l].slot = 0
  BY ZenonT(20), <1>1 DEF NotifyTypeOK, FreshListen
<1>6. NotifyTypeOK'
  BY ZenonT(20), <1>1, <1>3 DEF NotifyTypeOK
<1>7. FirersInv' /\ LengthInv'
  BY ZenonT(20), <1>1 DEF FirersInv, LengthInv
<1>8. OwnersInv'
  BY <1>0, <1>1, <1>4, <1>5 DEF OwnersInv
<1>9. FreeInv'
  <2> SUFFICES ASSUME ~fired PROVE FreeInv'
    BY ZenonT(20), <1>1 DEF FreeInv
  <2>1. \A k \in Listeners : listen'[k].slot = listen[k].slot
    BY ZenonT(20), <1>0, <1>4, <1>5
  <2> QED BY <1>1, <2>1 DEF FreeInv
<1>10. WakeupOwed'
  BY <1>1, <1>4, <1>5 DEF WakeupOwed
<1> QED BY ZenonT(20), <1>6, <1>7, <1>8, <1>9, <1>10

\* A drop empties its slot and lists it as free; after the fire the slots are the fire's.
LEMMA NotifyInvDropListen == ASSUME NotifyInv, NEW l \in Listeners, DropListen(l) PROVE NotifyInv'
<1> USE DEF NotifyInv
<1> DEFINE i == listen[l].slot
<1>1. fired' = fired /\ firer' = firer /\ waking' = waking
  BY ZenonT(20) DEF DropListen
<1>2. listen' \in [Listeners -> [at : ListenStates, slot : Nat, task : Pollers]]
  BY DEF DropListen, NotifyTypeOK, ListenStates
<1>3. \A k \in Listeners : k # l => listen'[k] = listen[k]
  BY ZenonT(20) DEF DropListen, NotifyTypeOK
<1>4. listen'[l].at = "dropped" /\ listen'[l].slot = 0
  BY ZenonT(20) DEF DropListen, NotifyTypeOK
<1>5. FirersInv'
  BY ZenonT(20), <1>1 DEF FirersInv
<1>6. CASE fired \/ i \notin DOMAIN slots
  <2>1. slots' = slots /\ free' = free
    BY ZenonT(20), <1>6 DEF DropListen
  <2>2. NotifyTypeOK'
    BY ZenonT(20), <1>1, <1>2, <2>1 DEF NotifyTypeOK
  <2>3. LengthInv'
    BY ZenonT(20), <1>1, <2>1 DEF LengthInv
  <2>4. OwnersInv'
    BY <1>1, <1>3, <1>4, <2>1 DEF OwnersInv
  <2>5. FreeInv'
    <3> SUFFICES ASSUME ~fired PROVE FreeInv'
      BY ZenonT(20), <1>1 DEF FreeInv
    <3>1. listen[l].slot = 0
      BY ZenonT(20), <1>6 DEF OwnersInv
    <3>2. \A k \in Listeners : listen'[k].slot = listen[k].slot
      BY ZenonT(20), <1>3, <1>4, <3>1
    <3> QED BY <1>1, <2>1, <3>2 DEF FreeInv
  <2>6. WakeupOwed'
    BY ZenonT(20), <1>1, <1>3, <1>4, <2>1 DEF WakeupOwed
  <2> QED BY ZenonT(20), <1>5, <2>2, <2>3, <2>4, <2>5, <2>6
<1>7. CASE ~fired /\ i \in DOMAIN slots
  <2> DEFINE j == Len(free) + 1
  <2>1. slots' = [slots EXCEPT ![i] = Empty] /\ free' = Append(free, i)
    BY ZenonT(20), <1>7 DEF DropListen
  <2>2. slots \in Seq(Wakers \cup {Empty}) /\ free \in Seq(Nat \ {0}) /\ i \in Nat \ {0}
    BY <1>7 DEF NotifyTypeOK
  <2>3. /\ slots' \in Seq(Wakers \cup {Empty}) /\ Len(slots') = Len(slots) /\ DOMAIN slots' = DOMAIN slots
        /\ slots'[i] = Empty /\ \A n \in DOMAIN slots : n # i => slots'[n] = slots[n]
    BY <1>7, <2>1, <2>2, Put
  <2>4. /\ free' \in Seq(Nat \ {0}) /\ DOMAIN free' = DOMAIN free \cup {j} /\ j \notin DOMAIN free
        /\ free'[j] = i /\ \A n \in DOMAIN free : free'[n] = free[n]
    BY <2>1, <2>2, Push
  <2> HIDE DEF i, j
  <2>5. NotifyTypeOK'
    BY ZenonT(20), <1>1, <1>2, <2>3, <2>4 DEF NotifyTypeOK
  <2>6. LengthInv'
    BY ZenonT(20), <1>1, <2>3 DEF LengthInv
  <2>7. slots[i] # Empty /\ \A k \in Listeners : k # l => listen[k].slot # i
    BY ZenonT(20), <1>7, <2>2 DEF OwnersInv, i
  <2>8. OwnersInv'
    <3>1. \A k \in Listeners : listen'[k].slot # 0 =>
            k # l /\ listen'[k] = listen[k] /\ listen[k].slot # i /\ listen[k].slot \in DOMAIN slots
      BY ZenonT(20), <1>3, <1>4, <1>7, <2>7 DEF OwnersInv
    <3>2. \A k \in Listeners : listen'[k].slot # 0 => slots'[listen[k].slot] = slots[listen[k].slot]
      BY ZenonT(20), <2>3, <3>1
    <3>3. \A k \in Listeners : listen'[k].at = "waiting" => listen'[k].slot # 0
      BY ZenonT(20), <1>3, <1>4, <1>7 DEF OwnersInv
    <3> QED BY <1>1, <1>4, <1>7, <2>3, <3>1, <3>2, <3>3, <1>3 DEF OwnersInv
  <2>9. FreeInv'
    <3>1. \A n \in DOMAIN free : free[n] # i /\ free[n] \in DOMAIN slots /\ slots[free[n]] = Empty
      BY ZenonT(20), <1>7, <2>7 DEF FreeInv
    <3>2. \A n \in DOMAIN free' : free'[n] \in DOMAIN slots' /\ slots'[free'[n]] = Empty
      BY ZenonT(20), <1>7, <2>3, <2>4, <3>1
    <3>3. \A n, m \in DOMAIN free' : free'[n] = free'[m] => n = m
      BY ZenonT(20), <1>7, <2>4, <3>1 DEF FreeInv
    <3>4. ASSUME NEW n \in DOMAIN slots', slots'[n] # Empty PROVE \E k \in Listeners : listen'[k].slot = n
      <4>1. n # i /\ slots[n] # Empty /\ n \in DOMAIN slots
        BY ZenonT(20), <2>3, <3>4
      <4>2. PICK k \in Listeners : listen[k].slot = n
        BY ZenonT(20), <1>7, <4>1 DEF FreeInv
      <4> QED BY ZenonT(20), <1>3, <4>1, <4>2 DEF i
    <3>5. ASSUME NEW n \in DOMAIN slots', slots'[n] = Empty PROVE \E m \in DOMAIN free' : free'[m] = n
      <4>1. CASE n = i
        BY ZenonT(20), <2>4, <4>1
      <4>2. CASE n # i
        BY ZenonT(20), <1>7, <2>3, <2>4, <3>5, <4>2 DEF FreeInv
      <4> QED BY ZenonT(20), <4>1, <4>2
    <3> QED BY ZenonT(20), <3>2, <3>3, <3>4, <3>5 DEF FreeInv
  <2>10. WakeupOwed'
    BY ZenonT(20), <1>1, <1>7 DEF WakeupOwed
  <2> QED BY ZenonT(20), <1>5, <2>5, <2>6, <2>8, <2>9, <2>10
<1> QED BY ZenonT(20), <1>6, <1>7

\* A list with no free slot holds one slot for each of as many listeners, none of them the one that
\* is about to push.
LEMMA RoomForOneMore ==
    ASSUME NotifyInv, ~fired, NEW l \in Listeners, listen[l].slot \notin DOMAIN slots, free = <<>>
    PROVE  Len(slots) + 1 <= Cardinality(Listeners)
<1> USE DEF NotifyInv
<1> DEFINE n == Len(slots)
           others == Listeners \ {l}
           owner == [i \in 1 .. n |-> CHOOSE k \in Listeners : listen[k].slot = i]
<1>1. n \in Nat /\ DOMAIN slots = 1 .. n
  BY DEF NotifyTypeOK
<1>2. \A i \in 1 .. n : \E k \in Listeners : listen[k].slot = i
  BY <1>1 DEF FreeInv
<1>3. \A i \in 1 .. n : owner[i] \in Listeners /\ listen[owner[i]].slot = i
  BY ZenonT(20), <1>2
<1> HIDE DEF owner
<1>4. \A i \in 1 .. n : owner[i] # l
  BY ZenonT(20), <1>1, <1>3
<1>5. owner \in [1 .. n -> others]
  BY ZenonT(20), <1>3, <1>4 DEF owner
<1>6. \A i, j \in 1 .. n : i # j => owner[i] # owner[j]
  BY ZenonT(20), <1>3
<1>7. IsFiniteSet(others) /\ Cardinality(others) = Cardinality(Listeners) - 1
  BY ZenonT(20), NotifyAssumption, FS_RemoveElement
<1>8. IsFiniteSet(1 .. n) /\ Cardinality(1 .. n) = n
  BY <1>1, FS_Interval
<1>9. owner \in Injection(1 .. n, others)
  BY ZenonT(20), <1>5, <1>6 DEF Injection, IsInjective
<1>10. Cardinality(1 .. n) <= Cardinality(others)
  BY ZenonT(20), <1>7, <1>8, <1>9, FS_Injection
<1>11. Cardinality(Listeners) \in Nat
  BY ZenonT(20), NotifyAssumption, FS_CardinalityType
<1> QED BY <1>1, <1>7, <1>8, <1>10, <1>11

\* A registration in slot i, by whatever way the poll came to it: nobody else's slot, no longer free.
LEMMA Registers ==
    ASSUME NotifyInv, ~fired, ~fired', NEW l \in Listeners, NEW i \in DOMAIN slots', i \in Nat \ {0},
           slots'[i] = Waker(l, listen[l].task),
           DOMAIN slots \subseteq DOMAIN slots',
           \A j \in DOMAIN slots' : j # i => j \in DOMAIN slots /\ slots'[j] = slots[j],
           \A k \in Listeners : k # l => listen'[k] = listen[k] /\ listen[k].slot # i,
           listen'[l].at = "waiting", listen'[l].slot = i, listen'[l].task = listen[l].task,
           listen[l].slot \in {0, i},
           DOMAIN free' \subseteq DOMAIN free,
           \A j \in DOMAIN free' : free'[j] = free[j] /\ free[j] # i,
           \A j \in DOMAIN free : free[j] # i => j \in DOMAIN free'
    PROVE  OwnersInv' /\ FreeInv'
<1> USE DEF NotifyInv
<1>0. slots'[i] # Empty
  BY WakerNotEmpty DEF NotifyTypeOK
<1>1. OwnersInv'
  <2>1. \A k \in Listeners : k # l /\ listen[k].slot # 0 =>
          listen[k].slot \in DOMAIN slots' /\ slots'[listen[k].slot] = slots[listen[k].slot]
    BY ZenonT(20) DEF OwnersInv
  <2>2. \A k \in Listeners : listen'[k].slot # 0 =>
          listen'[k].slot \in DOMAIN slots' /\ slots'[listen'[k].slot] # Empty
    BY <1>0, <2>1 DEF OwnersInv
  <2>3. \A k \in Listeners : listen'[k].at = "waiting" =>
          listen'[k].slot # 0 /\ slots'[listen'[k].slot] = Waker(k, listen'[k].task)
    BY <2>1 DEF OwnersInv
  <2>4. \A k \in Listeners : listen'[k].at = "dropped" => listen'[k].slot = 0
    BY ZenonT(20) DEF OwnersInv
  <2>5. \A k, m \in Listeners : k # m /\ listen'[k].slot # 0 => listen'[k].slot # listen'[m].slot
    BY DEF OwnersInv
  <2> QED BY ZenonT(20), <2>2, <2>3, <2>4, <2>5 DEF OwnersInv
<1>2. FreeInv'
  <2>1. \A j \in DOMAIN free' : free'[j] \in DOMAIN slots' /\ slots'[free'[j]] = Empty
    BY DEF FreeInv
  <2>2. \A j, m \in DOMAIN free' : free'[j] = free'[m] => j = m
    BY ZenonT(20) DEF FreeInv
  <2>3. ASSUME NEW j \in DOMAIN slots', slots'[j] # Empty PROVE \E k \in Listeners : listen'[k].slot = j
    <3>1. CASE j = i
      BY ZenonT(20), <3>1
    <3>2. CASE j # i
      <4>1. PICK k \in Listeners : listen[k].slot = j
        BY ZenonT(20), <2>3, <3>2 DEF FreeInv
      <4>2. j # 0
        BY <3>2 DEF NotifyTypeOK
      <4> QED BY ZenonT(20), <3>2, <4>1, <4>2
    <3> QED BY ZenonT(20), <3>1, <3>2
  <2>4. ASSUME NEW j \in DOMAIN slots', slots'[j] = Empty PROVE \E m \in DOMAIN free' : free'[m] = j
    <3>1. j # i /\ slots[j] = Empty /\ j \in DOMAIN slots
      BY ZenonT(20), <1>0, <2>4
    <3>2. PICK m \in DOMAIN free : free[m] = j
      BY ZenonT(20), <3>1 DEF FreeInv
    <3> QED BY ZenonT(20), <3>1, <3>2
  <2> QED BY ZenonT(20), <2>1, <2>2, <2>3, <2>4 DEF FreeInv
<1> QED BY ZenonT(20), <1>1, <1>2

\* The rest of a poll, in its own slot, a free one, or a new one.
LEMMA NotifyInvPollLocked == ASSUME NotifyInv, NEW l \in Listeners, PollLocked(l) PROVE NotifyInv'
<1> USE DEF NotifyInv
<1> DEFINE mine == listen[l].slot
           waker == Waker(l, listen[l].task)
<1>1. fired' = fired /\ firer' = firer /\ waking' = waking
  BY ZenonT(20) DEF PollLocked
<1>2. FirersInv'
  BY ZenonT(20), <1>1 DEF FirersInv
<1>3. waker \in Wakers \cup {Empty}
  BY ZenonT(20), WakerNotEmpty DEF NotifyTypeOK
<1>4. CASE fired
  <2>1. listen' = [listen EXCEPT ![l].at = "ready"] /\ slots' = slots /\ free' = free
    BY ZenonT(20), <1>4 DEF PollLocked
  <2>2. listen' \in [Listeners -> [at : ListenStates, slot : Nat, task : Pollers]]
    BY ZenonT(20), <2>1 DEF NotifyTypeOK, ListenStates
  <2>3. \A k \in Listeners : listen'[k].at = "waiting" => listen'[k] = listen[k]
    BY ZenonT(20), <2>1 DEF NotifyTypeOK
  <2>4. NotifyTypeOK'
    BY ZenonT(20), <1>1, <2>1, <2>2 DEF NotifyTypeOK
  <2>5. OwnersInv' /\ FreeInv' /\ LengthInv'
    BY ZenonT(20), <1>1, <1>4 DEF OwnersInv, FreeInv, LengthInv
  <2>6. slots' = slots
    BY ZenonT(20), <2>1
  <2>7. WakeupOwed'
    BY ZenonT(20), <1>1, <2>3, <2>6 DEF WakeupOwed
  <2> QED BY ZenonT(20), <1>2, <2>4, <2>5, <2>7
<1>5. CASE ~fired
  <2>0. slots \in Seq(Wakers \cup {Empty}) /\ free \in Seq(Nat \ {0}) /\ DOMAIN slots \subseteq Nat \ {0}
    BY DEF NotifyTypeOK
  <2>1. WakeupOwed'
    BY ZenonT(20), <1>1, <1>5 DEF WakeupOwed
  <2>2. ASSUME NEW i \in Nat \ {0}, listen' = [listen EXCEPT ![l].at = "waiting", ![l].slot = i]
        PROVE  /\ listen' \in [Listeners -> [at : ListenStates, slot : Nat, task : Pollers]]
               /\ \A k \in Listeners : k # l => listen'[k] = listen[k]
               /\ listen'[l].at = "waiting" /\ listen'[l].slot = i /\ listen'[l].task = listen[l].task
    BY ZenonT(20), <2>2 DEF NotifyTypeOK, ListenStates
  <2>3. CASE mine \in DOMAIN slots
    <3>1. slots' = [slots EXCEPT ![mine] = waker] /\ free' = free
      BY ZenonT(20), <1>5, <2>3 DEF PollLocked
    <3>2. listen' = [listen EXCEPT ![l].at = "waiting", ![l].slot = mine]
      BY ZenonT(20), <1>5, <2>3 DEF PollLocked
    <3> HIDE DEF waker, mine
    <3>3. /\ slots' \in Seq(Wakers \cup {Empty}) /\ Len(slots') = Len(slots) /\ DOMAIN slots' = DOMAIN slots
          /\ slots'[mine] = waker /\ \A j \in DOMAIN slots : j # mine => slots'[j] = slots[j]
      BY <1>3, <2>0, <2>3, <3>1, Put
    <3>4. mine \in Nat \ {0}
      BY ZenonT(20), <2>0, <2>3
    <3>5. /\ listen' \in [Listeners -> [at : ListenStates, slot : Nat, task : Pollers]]
          /\ \A k \in Listeners : k # l => listen'[k] = listen[k]
          /\ listen'[l].at = "waiting" /\ listen'[l].slot = mine /\ listen'[l].task = listen[l].task
      BY ZenonT(20), <2>2, <3>2, <3>4
    <3>6. slots[mine] # Empty /\ \A k \in Listeners : k # l => listen[k].slot # mine
      BY ZenonT(20), <1>5, <3>4 DEF OwnersInv, mine
    <3>7. \A j \in DOMAIN free : free[j] # mine
      BY ZenonT(20), <1>5, <3>6 DEF FreeInv
    <3>8. OwnersInv' /\ FreeInv'
      BY <1>1, <1>5, <2>3, <3>1, <3>3, <3>4, <3>5, <3>6, <3>7, Registers DEF mine, waker
    <3>9. NotifyTypeOK'
      BY ZenonT(20), <1>1, <2>0, <3>1, <3>3, <3>5 DEF NotifyTypeOK
    <3>10. LengthInv'
      BY ZenonT(20), <1>1, <3>3 DEF LengthInv
    <3> QED BY ZenonT(20), <1>2, <2>1, <3>8, <3>9, <3>10
  <2>4. CASE mine \notin DOMAIN slots /\ free # <<>>
    <3> DEFINE i == free[Len(free)]
    <3>1. slots' = [slots EXCEPT ![i] = waker] /\ free' = SubSeq(free, 1, Len(free) - 1)
      BY ZenonT(20), <1>5, <2>4 DEF PollLocked
    <3>2. listen' = [listen EXCEPT ![l].at = "waiting", ![l].slot = i]
      BY ZenonT(20), <1>5, <2>4 DEF PollLocked
    <3>a. mine = 0
      BY ZenonT(20), <1>5, <2>4 DEF OwnersInv
    <3> HIDE DEF waker, mine
    <3>3. /\ free' \in Seq(Nat \ {0}) /\ Len(free) \in DOMAIN free
          /\ DOMAIN free' = DOMAIN free \ {Len(free)} /\ \A j \in DOMAIN free' : free'[j] = free[j]
      BY ZenonT(20), <2>0, <2>4, <3>1, Pop
    <3>4. i \in DOMAIN slots /\ slots[i] = Empty
      BY ZenonT(20), <1>5, <3>3 DEF FreeInv
    <3>5. \A j \in DOMAIN free : free[j] = i => j = Len(free)
      BY ZenonT(20), <1>5, <3>3 DEF FreeInv
    <3> HIDE DEF i
    <3>6. /\ slots' \in Seq(Wakers \cup {Empty}) /\ Len(slots') = Len(slots) /\ DOMAIN slots' = DOMAIN slots
          /\ slots'[i] = waker /\ \A j \in DOMAIN slots : j # i => slots'[j] = slots[j]
      BY <1>3, <2>0, <3>1, <3>4, Put
    <3>7. i \in Nat \ {0}
      BY ZenonT(20), <2>0, <3>4
    <3>8. /\ listen' \in [Listeners -> [at : ListenStates, slot : Nat, task : Pollers]]
          /\ \A k \in Listeners : k # l => listen'[k] = listen[k]
          /\ listen'[l].at = "waiting" /\ listen'[l].slot = i /\ listen'[l].task = listen[l].task
      BY ZenonT(20), <2>2, <3>2, <3>7
    <3>9. \A k \in Listeners : listen[k].slot # i
      BY ZenonT(20), <1>5, <3>4, <3>7 DEF OwnersInv
    <3>b. free[Len(free)] = i
      BY ZenonT(20) DEF i
    <3>10. /\ DOMAIN free' \subseteq DOMAIN free
           /\ \A j \in DOMAIN free' : free'[j] = free[j] /\ free[j] # i
           /\ \A j \in DOMAIN free : free[j] # i => j \in DOMAIN free'
      BY ZenonT(20), <3>3, <3>5, <3>b
    <3>11. OwnersInv' /\ FreeInv'
      BY <1>1, <1>5, <3>a, <3>4, <3>6, <3>7, <3>8, <3>9, <3>10, Registers DEF mine, waker
    <3>12. NotifyTypeOK'
      BY ZenonT(20), <1>1, <3>3, <3>6, <3>8 DEF NotifyTypeOK
    <3>13. LengthInv'
      BY ZenonT(20), <1>1, <3>6 DEF LengthInv
    <3> QED BY ZenonT(20), <1>2, <2>1, <3>11, <3>12, <3>13
  <2>5. CASE mine \notin DOMAIN slots /\ free = <<>>
    <3> DEFINE i == Len(slots) + 1
    <3>1. slots' = Append(slots, waker) /\ free' = free
      BY ZenonT(20), <1>5, <2>5 DEF PollLocked
    <3>2. listen' = [listen EXCEPT ![l].at = "waiting", ![l].slot = i]
      BY ZenonT(20), <1>5, <2>5 DEF PollLocked
    <3>a. mine = 0
      BY ZenonT(20), <1>5, <2>5 DEF OwnersInv
    <3>b. Len(slots) + 1 <= Cardinality(Listeners)
      BY ZenonT(20), <1>5, <2>5, RoomForOneMore
    <3> HIDE DEF waker, mine
    <3>3. /\ slots' \in Seq(Wakers \cup {Empty}) /\ Len(slots') = i /\ Len(slots) \in Nat
          /\ DOMAIN slots' = DOMAIN slots \cup {i} /\ i \notin DOMAIN slots
          /\ slots'[i] = waker /\ \A j \in DOMAIN slots : slots'[j] = slots[j]
      BY <1>3, <2>0, <3>1, Push
    <3>4. i \in Nat \ {0}
      BY <3>3
    <3>5. LengthInv'
      BY ZenonT(20), <3>3, <3>b DEF LengthInv
    <3> HIDE DEF i
    <3>6. /\ listen' \in [Listeners -> [at : ListenStates, slot : Nat, task : Pollers]]
          /\ \A k \in Listeners : k # l => listen'[k] = listen[k]
          /\ listen'[l].at = "waiting" /\ listen'[l].slot = i /\ listen'[l].task = listen[l].task
      BY ZenonT(20), <2>2, <3>2, <3>4
    <3>7. \A k \in Listeners : listen[k].slot # i
      BY ZenonT(20), <1>5, <3>3, <3>4 DEF OwnersInv
    <3>8. DOMAIN free' = {} /\ DOMAIN free = {}
      BY <2>5, <3>1
    <3>9. OwnersInv' /\ FreeInv'
      BY <1>1, <1>5, <3>a, <3>3, <3>4, <3>6, <3>7, <3>8, Registers DEF mine, waker
    <3>10. NotifyTypeOK'
      BY ZenonT(20), <1>1, <2>0, <3>1, <3>3, <3>6 DEF NotifyTypeOK
    <3> QED BY ZenonT(20), <1>2, <2>1, <3>5, <3>9, <3>10
  <2> QED BY ZenonT(20), <2>3, <2>4, <2>5
<1> QED BY ZenonT(20), <1>4, <1>5

\* Every step of the notifier keeps NotifyInv.
LEMMA NotifyInvStep == NotifyInv /\ [NotifyNext]_notifyVars => NotifyInv'
<1> SUFFICES ASSUME NotifyInv, [NotifyNext]_notifyVars PROVE NotifyInv'
  BY ZenonT(20)
<1>1. ASSUME NEW f \in Firers, FireStep(f) PROVE NotifyInv'
  BY ZenonT(20), <1>1, NotifyInvFire, NotifyInvFireTake, NotifyInvFireWake DEF FireStep
<1>2. ASSUME NEW l \in Listeners, PollLocked(l) \/ DropListen(l) PROVE NotifyInv'
  BY ZenonT(20), <1>2, NotifyInvPollLocked, NotifyInvDropListen
<1>3. ASSUME NEW l \in Listeners, NEW t \in Pollers, Poll(l, t) \/ NewListen(l, t) PROVE NotifyInv'
  BY ZenonT(20), <1>3, NotifyInvPoll, NotifyInvNewListen
<1>4. CASE UNCHANGED notifyVars
  BY ZenonT(20), <1>4 DEF notifyVars, NotifyInv, NotifyTypeOK, FirersInv, OwnersInv, FreeInv, LengthInv, WakeupOwed
<1> QED BY ZenonT(20), <1>1, <1>2, <1>3, <1>4 DEF NotifyNext

\* The invariant of Notify, for any number of listeners, tasks and callers of fire().
THEOREM NotifyInvariance == NotifySpec => []NotifyInv
BY NotifyInvInit, NotifyInvStep, PTL DEF NotifySpec

\* Notify's state stays well formed.
THEOREM NotifyTypes == NotifySpec => []NotifyTypeOK
<1>1. NotifyInv => NotifyTypeOK
  BY DEF NotifyInv
<1> QED BY <1>1, NotifyInvariance, PTL

\* No listener is taken for another and none is forgotten, whatever the polls, drops and fires and
\* however they interleave: a slot belongs to one listener, the list never outgrows the listeners
\* alive at once, and a listener at Pending when fire() has set the flag is woken by it.
THEOREM NotifyListenersKept == NotifySpec => []ListenersKept
<1>1. NotifyInv => SlotsOwned
  <2> SUFFICES ASSUME NotifyInv, ~fired PROVE SlotsOwned
    BY ZenonT(20) DEF SlotsOwned
  <2> USE DEF NotifyInv
  <2>1. Len(slots) <= Cardinality(Listeners)
    BY ZenonT(20) DEF LengthInv
  <2> QED BY ZenonT(20), <2>1 DEF SlotsOwned, OwnersInv, FreeInv
<1>2. NotifyInv => ListenersKept
  BY <1>1 DEF NotifyInv, ListenersKept
<1> QED BY <1>2, NotifyInvariance, PTL

-------------------------------------------------------------------------------
(***************************************************************************)
(* The ordered queue for any senders, any bound and any number of sends:   *)
(* the queue keeps call order, a room is granted within the bound, and a   *)
(* send told Closed is one whose item was never taken.                     *)
(***************************************************************************)

\* What the order needs of a step on the queue: an item appended or taken keeps every place where
\* InCallOrder says it is.
LEMMA AppendKeepsOrder ==
    ASSUME CountsOK, InCallOrder, receiving
    PROVE  LET q == Append(queue, pushed) IN
             /\ q \in Seq(Nat)
             /\ pushed + 1 = taken + Len(q)
             /\ \A i \in DOMAIN q : q[i] = taken + i - 1
BY DEF CountsOK, InCallOrder

\* What is left of the queue stays in call order when its first element is taken.
LEMMA TailKeepsOrder ==
    ASSUME CountsOK, InCallOrder, receiving, queue # <<>>
    PROVE  LET q == Tail(queue) IN
             /\ q \in Seq(Nat)
             /\ pushed = taken + 1 + Len(q)
             /\ \A i \in DOMAIN q : q[i] = taken + 1 + i - 1
<1> DEFINE q == Tail(queue)
<1>1. q \in Seq(Nat) /\ Len(q) = Len(queue) - 1 /\ Len(queue) \in Nat
  BY DEF CountsOK
<1>2. \A i \in DOMAIN q : i \in Nat /\ i + 1 \in DOMAIN queue /\ q[i] = queue[i + 1]
  BY <1>1 DEF CountsOK
<1>3. \A i \in DOMAIN q : q[i] = taken + 1 + i - 1
  BY <1>2 DEF InCallOrder, CountsOK
<1> QED BY <1>1, <1>3 DEF InCallOrder, CountsOK

\* The waits of the rooms keep what they were told when an Event is notified.
LEMMA HeardKeepsTold ==
    ASSUME RoomFunction, NotifyRooms
    PROVE  /\ room' \in [Places -> [at : WaitAts \cup {"unused", "ok", "closed", "dropped"}, listener : Listens]]
           /\ \A p \in Places : room'[p].at = room[p].at
BY ZenonT(20) DEF RoomFunction, NotifyRooms, Heard, Listens

\* QueueInv holds initially.
LEMMA QueueInitial == QueueInit => QueueInv
BY QueueAssumption DEF QueueInit, QueueInv, CountsOK, InCallOrder, RoomFunction, RoomIsWithinBound,
   ClosedMeansUntaken, Over, WaitAts, Listens, Places

\* Every step of the ordered queue keeps QueueInv.
LEMMA QueueStep == QueueInv /\ [QueueNext]_queueVars => QueueInv'
<1> SUFFICES ASSUME QueueInv, [QueueNext]_queueVars PROVE QueueInv'
  BY ZenonT(20)
<1> USE QueueAssumption
<1>a. CountsOK /\ InCallOrder /\ RoomFunction /\ RoomIsWithinBound /\ ClosedMeansUntaken
  BY ZenonT(20) DEF QueueInv
<1>1. ASSUME NEW s \in Senders, Send(s) PROVE QueueInv'
  <2>1. pushed \in Places /\ pushed >= taken /\ Reading.at = "read" /\ Reading \in [at : WaitAts, listener : Listens]
    BY <1>1, <1>a DEF Send, CountsOK, InCallOrder, Places, Reading, WaitAts, Listens
  <2>2. CountsOK' /\ InCallOrder'
    BY <1>1, <1>a, AppendKeepsOrder DEF Send, CountsOK, InCallOrder
  <2>3. RoomFunction'
    BY ZenonT(20), <1>1, <1>a, <2>1 DEF Send, RoomFunction, WaitAts
  <2>4. \A p \in Places : room'[p].at \in {"ok", "closed"} => room'[p] = room[p]
    BY ZenonT(20), <1>1, <1>a, <2>1 DEF Send, RoomFunction
  <2>5. RoomIsWithinBound' /\ ClosedMeansUntaken'
    BY ZenonT(20), <1>1, <1>a, <2>4 DEF Send, RoomIsWithinBound, ClosedMeansUntaken
  <2> QED BY ZenonT(20), <2>2, <2>3, <2>5 DEF QueueInv
<1>2. ASSUME NEW s \in Senders, TrySend(s) PROVE QueueInv'
  <2>1. CountsOK' /\ InCallOrder'
    BY <1>2, <1>a, AppendKeepsOrder DEF TrySend, CountsOK, InCallOrder
  <2> QED BY ZenonT(20), <1>2, <1>a, <2>1 DEF TrySend, QueueInv, RoomFunction, RoomIsWithinBound, ClosedMeansUntaken
<1>3. ASSUME NEW s \in Senders, SendNotify(s) \/ DropSender(s) \/ \E t \in Senders : Clone(s, t)
      PROVE QueueInv'
  <2>1. UNCHANGED <<queue, pushed, taken, receiving, room>>
    BY ZenonT(20), <1>3 DEF SendNotify, DropSender, Clone
  <2> QED BY ZenonT(20), <1>a, <2>1 DEF QueueInv, CountsOK, InCallOrder, RoomFunction, RoomIsWithinBound, ClosedMeansUntaken
<1>4. ASSUME NEW p \in Places, RoomRead(p) PROVE QueueInv'
  <2>1. UNCHANGED <<queue, pushed, taken, receiving>> /\ taken \in Nat /\ p \in Nat /\ Bound \in Nat
    BY <1>4, <1>a DEF RoomRead, CountsOK, Places
  <2>2. \A r \in Places \ {p} : room'[r] = room[r]
    BY ZenonT(20), <1>4, <1>a DEF RoomRead, RoomFunction
  <2>3. /\ room'[p].at = "ok" => p < taken + Bound
        /\ room'[p].at = "closed" => ~receiving /\ p >= taken
    BY <1>4, <1>a, <2>1 DEF RoomRead, RoomFunction, Over
  <2>4. RoomFunction'
    BY ZenonT(20), <1>4, <1>a DEF RoomRead, RoomFunction, Over, WaitAts, Listens
  <2>5. RoomIsWithinBound' /\ ClosedMeansUntaken'
    BY ZenonT(20), <1>a, <2>1, <2>2, <2>3 DEF RoomIsWithinBound, ClosedMeansUntaken
  <2> QED BY ZenonT(20), <1>a, <2>1, <2>4, <2>5 DEF QueueInv, CountsOK, InCallOrder
<1>5. ASSUME NEW p \in Places, RoomListen(p) \/ DropRoom(p) PROVE QueueInv'
  <2>1. UNCHANGED <<queue, pushed, taken, receiving>>
    BY ZenonT(20), <1>5 DEF RoomListen, DropRoom
  <2>2. RoomFunction' /\ \A r \in Places : room'[r].at \in {"ok", "closed"} => room'[r] = room[r]
    BY <1>5, <1>a DEF RoomListen, DropRoom, RoomFunction, Listened, Reading, Over, WaitAts, Listens
  <2>3. RoomIsWithinBound' /\ ClosedMeansUntaken'
    BY ZenonT(20), <1>a, <2>1, <2>2 DEF RoomIsWithinBound, ClosedMeansUntaken
  <2> QED BY ZenonT(20), <1>a, <2>1, <2>2, <2>3 DEF QueueInv, CountsOK, InCallOrder
<1>6. CASE RecvRead /\ queue # <<>>
  <2>1. UNCHANGED <<pushed, receiving, room>> /\ taken' = taken + 1 /\ queue' = Tail(queue) /\ receiving
    BY ZenonT(20), <1>6 DEF RecvRead
  <2>2. CountsOK' /\ InCallOrder'
    BY <1>6, <1>a, <2>1, TailKeepsOrder DEF CountsOK, InCallOrder
  <2>3. RoomIsWithinBound' /\ ClosedMeansUntaken'
    BY <1>a, <2>1 DEF RoomIsWithinBound, ClosedMeansUntaken, CountsOK, Places
  <2> QED BY ZenonT(20), <1>a, <2>1, <2>2, <2>3 DEF QueueInv, RoomFunction
<1>7. CASE (RecvRead /\ queue = <<>>) \/ RecvListen
  <2>1. UNCHANGED <<queue, pushed, taken, receiving, room>>
    BY ZenonT(20), <1>7 DEF RecvRead, RecvListen
  <2> QED BY ZenonT(20), <1>a, <2>1 DEF QueueInv, CountsOK, InCallOrder, RoomFunction, RoomIsWithinBound, ClosedMeansUntaken
<1>8. CASE RecvNotify \/ GoneNotify
  <2>1. UNCHANGED <<queue, pushed, taken, receiving>> /\ NotifyRooms
    BY ZenonT(20), <1>8 DEF RecvNotify, GoneNotify
  <2>2. RoomFunction' /\ \A p \in Places : room'[p].at = room[p].at
    BY ZenonT(20), <1>a, <2>1, HeardKeepsTold DEF RoomFunction
  <2>3. RoomIsWithinBound' /\ ClosedMeansUntaken'
    BY ZenonT(20), <1>a, <2>1, <2>2 DEF RoomIsWithinBound, ClosedMeansUntaken
  <2> QED BY ZenonT(20), <1>a, <2>1, <2>2, <2>3 DEF QueueInv, CountsOK, InCallOrder
<1>9. CASE DropReceiver
  <2>1. UNCHANGED <<pushed, taken, room>> /\ receiving' = FALSE /\ queue' = <<>> /\ receiving
    BY ZenonT(20), <1>9 DEF DropReceiver
  <2>6. pushed' \in Nat /\ taken' \in Nat /\ queue' \in Seq(Nat)
    BY <1>a, <2>1 DEF CountsOK
  <2>2. CountsOK'
    BY ZenonT(20), <2>1, <2>6, Zenon DEF CountsOK
  <2>4. ~receiving' /\ DOMAIN queue' = {}
    BY <2>1
  <2>5. InCallOrder'
    BY ZenonT(20), <2>4 DEF InCallOrder
  <2>3. RoomIsWithinBound' /\ ClosedMeansUntaken'
    BY ZenonT(20), <1>a, <2>1 DEF RoomIsWithinBound, ClosedMeansUntaken
  <2> QED BY ZenonT(20), <1>a, <2>1, <2>2, <2>3, <2>5 DEF QueueInv, RoomFunction
<1>10. CASE UNCHANGED queueVars
  BY ZenonT(20), <1>a, <1>10 DEF queueVars, QueueInv, CountsOK, InCallOrder, RoomFunction, RoomIsWithinBound, ClosedMeansUntaken
<1> QED
  BY ZenonT(20), <1>1, <1>2, <1>3, <1>4, <1>5, <1>6, <1>7, <1>8, <1>9, <1>10 DEF QueueNext, RoomStep, RecvStep

\* The invariant holds in every reachable state, for any senders, bound and number of sends.
THEOREM QueueInvariance == QueueSpec => []QueueInv
<1>1. QueueInit => QueueInv
  BY ZenonT(20), QueueInitial
<1>2. QueueInv /\ [QueueNext]_queueVars => QueueInv'
  BY QueueStep
<1> QED BY <1>1, <1>2, PTL DEF QueueSpec

\* Receiver::recv answers the items in the order Sender::send was called, however many sends wait.
THEOREM QueueInCallOrder == QueueSpec => []InCallOrder
<1>1. QueueInv => InCallOrder
  BY DEF QueueInv
<1> QED BY <1>1, QueueInvariance, PTL

\* A Room resolves Ok only within the bound of the items not taken, and Closed only for an item the
\* receiver never took; neither is ever made false.
THEOREM QueueRoomAnswersHold == QueueSpec => []RoomAnswersHold
<1>1. QueueInv => RoomAnswersHold
  BY DEF QueueInv, RoomAnswersHold
<1> QED BY <1>1, QueueInvariance, PTL

-------------------------------------------------------------------------------
(***************************************************************************)
(* The turns for any number of tracked tasks: each gets a poll that began  *)
(* after give() did, whichever of them the runtime polls meanwhile.        *)
(***************************************************************************)

\* The lock is give()'s exactly for the slot it polls, whose poll began since give() did.
GiverInv ==
    /\ \A t \in Tasks : lock[t] = "give" => giver = "polling" /\ \E i \in Latest : t = Order[i]
    /\ giver = "polling" => \A i \in Latest : Order[i] \in since /\ lock[Order[i]] = "give"
    /\ giver = "done" => left = {}

\* `again` is a mark of give()'s, and the poll it causes begins after it.
AgainInv ==
    \A t \in Tasks :
      /\ again[t] \/ ~more[t] => giver # "idle"
      /\ ~more[t] /\ task[t] \in {"polling", "check"} => t \in since

\* A panic is resumed by the poll that ends the task.
ResumedInv == \A t \in Tasks : resumed[t] # 0 => task[t] \in {"ended", "dropped"}

\* What give() owes to a task it has turned to: what TurnGiven says of it.
Given(t) ==
    run[t] = "running" /\ t \notin since =>
      \/ task[t] \in {"unwound", "dropped"}
      \/ task[t] \in {"polling", "check"} /\ more[t] /\ again[t]
      \/ task[t] = "lock"

\* The task marked and not tried again yet: its mark stands, or its poll has read it and goes round.
MarkInv ==
    giver = "retry" =>
      \A i \in Latest : run[Order[i]] = "running" /\ Order[i] \notin since =>
        again[Order[i]] \/ task[Order[i]] = "lock"

GivenInv == giver # "idle" => \A t \in Tasks : (\A i \in left : Order[i] # t) => Given(t)

TurnsInv == TurnsTypeOK /\ GiverInv /\ AgainInv /\ ResumedInv /\ MarkInv /\ GivenInv

\* Of the turns left at most one is the latest.
LEMMA LatestOnce == ASSUME left \subseteq DOMAIN Order PROVE /\ \A i \in Latest : i \in left /\ Order[i] \in Tasks
                                                           /\ \A i, j \in Latest : i = j
BY TurnsAssumption DEF Latest, Tasks

\* TurnsInv holds initially.
LEMMA TurnsInvInit == TurnsInit => TurnsInv
<1> SUFFICES ASSUME TurnsInit PROVE TurnsInv
  BY ZenonT(20)
<1>1. TurnsTypeOK
  BY DEF TurnsInit, TurnsTypeOK, Runs
<1>2. GiverInv /\ AgainInv /\ ResumedInv
  BY ZenonT(20) DEF TurnsInit, GiverInv, AgainInv, ResumedInv
<1>3. MarkInv /\ GivenInv
  BY ZenonT(20) DEF TurnsInit, MarkInv, GivenInv
<1> QED BY ZenonT(20), <1>1, <1>2, <1>3 DEF TurnsInv

\* TurnsInv over TaskPoll.
LEMMA TurnsInvTaskPoll == ASSUME TurnsInv, NEW t \in Tasks, TaskPoll(t) PROVE TurnsInv'
<1> USE DEF TurnsInv
<1>1. giver' = giver /\ left' = left /\ Latest' = Latest
  BY ZenonT(20) DEF TaskPoll, Latest
<1>2. \A u \in Tasks : u # t =>
        /\ run'[u] = run[u] /\ lock'[u] = lock[u] /\ again'[u] = again[u] /\ task'[u] = task[u]
        /\ more'[u] = more[u] /\ resumed'[u] = resumed[u] /\ (u \in since' <=> u \in since)
  BY ZenonT(20) DEF TaskPoll, TurnsTypeOK, Began
<1>3. TurnsTypeOK'
  BY ZenonT(20) DEF TaskPoll, TurnsTypeOK, Runs, Began, ResumedInv
<1>4. \A i \in Latest : Order[i] \in Tasks
  BY ZenonT(20), LatestOnce DEF TurnsTypeOK
<1>5. GiverInv'
  BY ZenonT(20), <1>1, <1>2, <1>4 DEF TaskPoll, GiverInv, TurnsTypeOK, Began
<1>6. AgainInv'
  BY ZenonT(20), <1>1, <1>2 DEF TaskPoll, AgainInv, TurnsTypeOK, Began
<1>7. ResumedInv'
  BY ZenonT(20), <1>2 DEF TaskPoll, ResumedInv, TurnsTypeOK
<1>8. MarkInv'
  BY ZenonT(20), <1>1, <1>2, <1>4 DEF TaskPoll, MarkInv, TurnsTypeOK, Began
<1>9. GivenInv'
  BY <1>1, <1>2 DEF TaskPoll, GivenInv, Given, TurnsTypeOK, Began
<1> QED BY ZenonT(20), <1>3, <1>5, <1>6, <1>7, <1>8, <1>9

\* TurnsInv over TaskLock.
LEMMA TurnsInvTaskLock == ASSUME TurnsInv, NEW t \in Tasks, TaskLock(t) PROVE TurnsInv'
<1> USE DEF TurnsInv
<1>1. giver' = giver /\ left' = left /\ Latest' = Latest
  BY ZenonT(20) DEF TaskLock, Latest
<1>2. \A u \in Tasks : u # t =>
        /\ run'[u] = run[u] /\ lock'[u] = lock[u] /\ again'[u] = again[u] /\ task'[u] = task[u]
        /\ more'[u] = more[u] /\ resumed'[u] = resumed[u] /\ (u \in since' <=> u \in since)
  BY DEF TaskLock, TurnsTypeOK, Began
<1>3. TurnsTypeOK'
  BY DEF TaskLock, TurnsTypeOK, Runs, Began, ResumedInv
<1>4. \A i \in Latest : Order[i] \in Tasks
  BY ZenonT(20), LatestOnce DEF TurnsTypeOK
<1>5. GiverInv'
  BY <1>1, <1>2, <1>4 DEF TaskLock, GiverInv, TurnsTypeOK, Began
<1>6. AgainInv'
  BY <1>1, <1>2 DEF TaskLock, AgainInv, TurnsTypeOK, Began
<1>7. ResumedInv'
  BY ZenonT(20), <1>2 DEF TaskLock, ResumedInv, TurnsTypeOK
<1>8. MarkInv'
  BY <1>1, <1>2, <1>4 DEF TaskLock, MarkInv, TurnsTypeOK, Began
<1>9. GivenInv'
  BY <1>1, <1>2 DEF TaskLock, GivenInv, Given, TurnsTypeOK, Began
<1> QED BY ZenonT(20), <1>3, <1>5, <1>6, <1>7, <1>8, <1>9

\* TurnsInv over TaskPolled.
LEMMA TurnsInvTaskPolled == ASSUME TurnsInv, NEW t \in Tasks, TaskPolled(t) PROVE TurnsInv'
<1> USE DEF TurnsInv
<1>1. giver' = giver /\ left' = left /\ Latest' = Latest
  BY ZenonT(20) DEF TaskPolled, Latest
<1>2. \A u \in Tasks : u # t =>
        /\ run'[u] = run[u] /\ lock'[u] = lock[u] /\ again'[u] = again[u] /\ task'[u] = task[u]
        /\ more'[u] = more[u] /\ resumed'[u] = resumed[u] /\ (u \in since' <=> u \in since)
  BY ZenonT(20) DEF TaskPolled, TurnsTypeOK, Began
<1>3. TurnsTypeOK'
  BY ZenonT(20) DEF TaskPolled, TurnsTypeOK, Runs, Began, ResumedInv
<1>4. \A i \in Latest : Order[i] \in Tasks
  BY ZenonT(20), LatestOnce DEF TurnsTypeOK
<1>5. GiverInv'
  BY ZenonT(20), <1>1, <1>2, <1>4 DEF TaskPolled, GiverInv, TurnsTypeOK, Began
<1>6. AgainInv'
  BY ZenonT(20), <1>1, <1>2 DEF TaskPolled, AgainInv, TurnsTypeOK, Began
<1>7. ResumedInv'
  BY ZenonT(20), <1>2 DEF TaskPolled, ResumedInv, TurnsTypeOK
<1>8. MarkInv'
  BY <1>1, <1>2, <1>4 DEF TaskPolled, MarkInv, TurnsTypeOK, Began
<1>9. GivenInv'
  BY <1>1, <1>2 DEF TaskPolled, GivenInv, Given, TurnsTypeOK, Began
<1> QED BY ZenonT(20), <1>3, <1>5, <1>6, <1>7, <1>8, <1>9

\* TurnsInv over TaskCheck.
LEMMA TurnsInvTaskCheck == ASSUME TurnsInv, NEW t \in Tasks, TaskCheck(t) PROVE TurnsInv'
<1> USE DEF TurnsInv
<1>1. giver' = giver /\ left' = left /\ Latest' = Latest
  BY ZenonT(20) DEF TaskCheck, Latest
<1>2. \A u \in Tasks : u # t =>
        /\ run'[u] = run[u] /\ lock'[u] = lock[u] /\ again'[u] = again[u] /\ task'[u] = task[u]
        /\ more'[u] = more[u] /\ resumed'[u] = resumed[u] /\ (u \in since' <=> u \in since)
  BY ZenonT(20) DEF TaskCheck, TurnsTypeOK, Began
<1>3. TurnsTypeOK'
  BY ZenonT(20) DEF TaskCheck, TurnsTypeOK, Runs, Began, ResumedInv
<1>4. \A i \in Latest : Order[i] \in Tasks
  BY ZenonT(20), LatestOnce DEF TurnsTypeOK
<1>5. GiverInv'
  BY ZenonT(20), <1>1, <1>2, <1>4 DEF TaskCheck, GiverInv, TurnsTypeOK, Began
<1>6. AgainInv'
  BY <1>1, <1>2 DEF TaskCheck, AgainInv, TurnsTypeOK, Began
<1>7. ResumedInv'
  BY ZenonT(20), <1>2 DEF TaskCheck, ResumedInv, TurnsTypeOK
<1>8. MarkInv'
  BY <1>1, <1>2, <1>4 DEF TaskCheck, MarkInv, TurnsTypeOK, Began
<1>9. GivenInv'
  BY <1>1, <1>2 DEF TaskCheck, GivenInv, Given, TurnsTypeOK, Began
<1> QED BY ZenonT(20), <1>3, <1>5, <1>6, <1>7, <1>8, <1>9

\* TurnsInv over DropTurn.
LEMMA TurnsInvDropTurn == ASSUME TurnsInv, NEW t \in Tasks, DropTurn(t) PROVE TurnsInv'
<1> USE DEF TurnsInv
<1>1. giver' = giver /\ left' = left /\ Latest' = Latest
  BY ZenonT(20) DEF DropTurn, Latest
<1>2. \A u \in Tasks : u # t =>
        /\ run'[u] = run[u] /\ lock'[u] = lock[u] /\ again'[u] = again[u] /\ task'[u] = task[u]
        /\ more'[u] = more[u] /\ resumed'[u] = resumed[u] /\ (u \in since' <=> u \in since)
  BY ZenonT(20) DEF DropTurn, TurnsTypeOK, Began
<1>3. TurnsTypeOK'
  BY ZenonT(20) DEF DropTurn, TurnsTypeOK, Runs, Began, ResumedInv
<1>4. \A i \in Latest : Order[i] \in Tasks
  BY ZenonT(20), LatestOnce DEF TurnsTypeOK
<1>5. GiverInv'
  BY ZenonT(20), <1>1, <1>2, <1>4 DEF DropTurn, GiverInv, TurnsTypeOK, Began
<1>6. AgainInv'
  BY ZenonT(20), <1>1, <1>2 DEF DropTurn, AgainInv, TurnsTypeOK, Began
<1>7. ResumedInv'
  BY ZenonT(20), <1>2 DEF DropTurn, ResumedInv, TurnsTypeOK
<1>8. MarkInv'
  BY ZenonT(20), <1>1, <1>2, <1>4 DEF DropTurn, MarkInv, TurnsTypeOK, Began
<1>9. GivenInv'
  BY <1>1, <1>2 DEF DropTurn, GivenInv, Given, TurnsTypeOK, Began
<1> QED BY ZenonT(20), <1>3, <1>5, <1>6, <1>7, <1>8, <1>9

\* TurnsInv over Wake.
LEMMA TurnsInvWake == ASSUME TurnsInv, NEW t \in Tasks, Wake(t) PROVE TurnsInv'
<1> USE DEF TurnsInv
<1>1. giver' = giver /\ left' = left /\ Latest' = Latest
  BY ZenonT(20) DEF Wake, Latest
<1>2. \A u \in Tasks : u # t =>
        /\ run'[u] = run[u] /\ lock'[u] = lock[u] /\ again'[u] = again[u] /\ task'[u] = task[u]
        /\ more'[u] = more[u] /\ resumed'[u] = resumed[u] /\ (u \in since' <=> u \in since)
  BY ZenonT(20) DEF Wake, TurnsTypeOK, Began
<1>3. TurnsTypeOK'
  BY ZenonT(20) DEF Wake, TurnsTypeOK, Runs, Began, ResumedInv
<1>4. \A i \in Latest : Order[i] \in Tasks
  BY ZenonT(20), LatestOnce DEF TurnsTypeOK
<1>5. GiverInv'
  BY ZenonT(20), <1>1, <1>2, <1>4 DEF Wake, GiverInv, TurnsTypeOK, Began
<1>6. AgainInv'
  BY ZenonT(20), <1>1, <1>2 DEF Wake, AgainInv, TurnsTypeOK, Began
<1>7. ResumedInv'
  BY ZenonT(20), <1>2 DEF Wake, ResumedInv, TurnsTypeOK
<1>8. MarkInv'
  BY ZenonT(20), <1>1, <1>2, <1>4 DEF Wake, MarkInv, TurnsTypeOK, Began
<1>9. GivenInv'
  BY ZenonT(20), <1>1, <1>2 DEF Wake, GivenInv, Given, TurnsTypeOK, Began
<1> QED BY ZenonT(20), <1>3, <1>5, <1>6, <1>7, <1>8, <1>9

\* give() begins: it turns to every task not dropped.
LEMMA TurnsInvGive == ASSUME TurnsInv, Give PROVE TurnsInv'
<1> USE DEF TurnsInv
<1>1. /\ giver = "idle" /\ giver' = "next" /\ since' = {}
      /\ run' = run /\ lock' = lock /\ again' = again /\ task' = task /\ more' = more
      /\ awake' = awake /\ resumed' = resumed
  BY ZenonT(20) DEF Give
<1>2. left' \subseteq DOMAIN Order /\ \A t \in Tasks : (\A i \in left' : Order[i] # t) => task[t] = "dropped"
  BY ZenonT(20) DEF Give, Tasks
<1>3. TurnsTypeOK'
  BY ZenonT(20), <1>1, <1>2 DEF TurnsTypeOK
<1>4. GiverInv' /\ AgainInv' /\ ResumedInv' /\ MarkInv'
  BY ZenonT(20), <1>1 DEF GiverInv, AgainInv, ResumedInv, MarkInv
<1>5. GivenInv'
  BY ZenonT(20), <1>1, <1>2 DEF GivenInv, Given
<1> QED BY ZenonT(20), <1>3, <1>4, <1>5

\* TurnsInv over GiveDone.
LEMMA TurnsInvGiveDone == ASSUME TurnsInv, GiveDone PROVE TurnsInv'
<1> USE DEF TurnsInv
<1>1. TurnsTypeOK'
  BY ZenonT(20) DEF GiveDone, TurnsTypeOK
<1>2. GiverInv' /\ AgainInv' /\ ResumedInv' /\ MarkInv' /\ GivenInv'
  BY ZenonT(20) DEF GiveDone, GiverInv, AgainInv, ResumedInv, MarkInv, GivenInv, Given
<1> QED BY ZenonT(20), <1>1, <1>2

\* The lock taken, at the first try or the second: the future's poll begins, or there is none to begin.
LEMMA TurnsInvTakes ==
    ASSUME TurnsInv, giver \in {"next", "retry"}, NEW i \in Latest, TurnTakes(i),
           UNCHANGED <<run, task, more, awake, resumed>>
    PROVE  TurnsInv'
<1> USE DEF TurnsInv
<1> DEFINE t == Order[i]
<1>0. i \in left /\ t \in Tasks /\ \A j \in Latest : j = i
  BY ZenonT(20), LatestOnce DEF TurnsTypeOK
<1>1. /\ again' \in [Tasks -> BOOLEAN] /\ again'[t] = FALSE
      /\ \A u \in Tasks : u # t => again'[u] = again[u]
      /\ run' = run /\ task' = task /\ more' = more /\ awake' = awake /\ resumed' = resumed
  BY ZenonT(20), <1>0 DEF TurnTakes, TurnsTypeOK
<1>2. \A u \in Tasks : lock[u] # "give"
  BY ZenonT(20) DEF GiverInv
<1>3. lock[t] = "none" /\ task[t] # "polling"
  BY ZenonT(20), <1>0 DEF TurnTakes, TurnsTypeOK
<1>4. CASE run[t] = "running"
  <2>1. lock' = [lock EXCEPT ![t] = "give"] /\ since' = since \cup {t} /\ giver' = "polling" /\ left' = left
    BY ZenonT(20), <1>4 DEF TurnTakes, Began, GiveEnds
  <2>2. Latest' = Latest
    BY ZenonT(20), <2>1 DEF Latest
  <2> HIDE DEF t
  <2>3. TurnsTypeOK'
    BY ZenonT(20), <1>0, <1>1, <1>3, <2>1 DEF TurnsTypeOK
  <2>4. GiverInv'
    BY ZenonT(20), <1>0, <1>1, <1>2, <2>1, <2>2 DEF GiverInv, TurnsTypeOK, t
  <2>5. AgainInv' /\ ResumedInv' /\ MarkInv'
    BY <1>0, <1>1, <2>1 DEF AgainInv, ResumedInv, MarkInv
  <2>6. GivenInv'
    BY ZenonT(20), <1>0, <1>1, <2>1 DEF GivenInv, Given
  <2> QED BY ZenonT(20), <2>3, <2>4, <2>5, <2>6
<1>5. CASE run[t] # "running"
  <2>1. lock' = lock /\ since' = since /\ giver' = "next" /\ left' = left \ {i}
    BY ZenonT(20), <1>5 DEF TurnTakes, GiveEnds
  <2> HIDE DEF t
  <2>3. TurnsTypeOK'
    BY ZenonT(20), <1>0, <1>1, <2>1 DEF TurnsTypeOK
  <2>4. GiverInv' /\ AgainInv' /\ ResumedInv' /\ MarkInv'
    BY ZenonT(20), <1>0, <1>1, <1>2, <2>1 DEF GiverInv, AgainInv, ResumedInv, MarkInv
  <2>5. \A u \in Tasks : (\A j \in left' : Order[j] # u) => u = t \/ \A j \in left : Order[j] # u
    BY ZenonT(20), <2>1 DEF t
  <2>6. GivenInv'
    BY ZenonT(20), <1>0, <1>1, <1>5, <2>1, <2>5 DEF GivenInv, Given
  <2> QED BY ZenonT(20), <2>3, <2>4, <2>6
<1> QED BY ZenonT(20), <1>4, <1>5

\* TurnsInv over Try.
LEMMA TurnsInvTry == ASSUME TurnsInv, TurnTry PROVE TurnsInv'
<1> USE DEF TurnsInv
<1>1. PICK i \in Latest : TurnTakes(i) \/ TurnBlocked(i, "mark")
  BY ZenonT(20) DEF TurnTry
<1>2. giver = "next" /\ UNCHANGED <<run, task, more, awake, resumed>>
  BY ZenonT(20) DEF TurnTry
<1>3. CASE TurnTakes(i)
  BY ZenonT(20), <1>2, <1>3, TurnsInvTakes
<1>4. CASE TurnBlocked(i, "mark")
  <2>1. giver' = "mark" /\ left' = left /\ lock' = lock /\ again' = again /\ since' = since
    BY ZenonT(20), <1>4 DEF TurnBlocked, GiveEnds
  <2>2. TurnsTypeOK'
    BY ZenonT(20), <1>2, <2>1 DEF TurnsTypeOK
  <2>3. GiverInv' /\ AgainInv' /\ ResumedInv' /\ MarkInv' /\ GivenInv'
    BY ZenonT(20), <1>2, <2>1 DEF GiverInv, AgainInv, ResumedInv, MarkInv, GivenInv, Given
  <2> QED BY ZenonT(20), <2>2, <2>3
<1> QED BY ZenonT(20), <1>1, <1>3, <1>4

\* TurnsInv over Mark.
LEMMA TurnsInvMark == ASSUME TurnsInv, TurnMark PROVE TurnsInv'
<1> USE DEF TurnsInv
<1>1. PICK i \in Latest : again' = [again EXCEPT ![Order[i]] = TRUE] /\ GiveEnds("retry", i)
  BY ZenonT(20) DEF TurnMark
<1>2. /\ giver = "mark" /\ giver' = "retry" /\ left' = left /\ run' = run /\ lock' = lock /\ task' = task
      /\ more' = more /\ since' = since /\ awake' = awake /\ resumed' = resumed
  BY ZenonT(20), <1>1 DEF TurnMark, GiveEnds
<1>3. Order[i] \in Tasks /\ \A j \in Latest : j = i
  BY ZenonT(20), LatestOnce DEF TurnsTypeOK
<1>4. Latest' = Latest
  BY ZenonT(20), <1>2 DEF Latest
<1>5. /\ again' \in [Tasks -> BOOLEAN] /\ again'[Order[i]] = TRUE
      /\ \A u \in Tasks : again[u] => again'[u]
  BY ZenonT(20), <1>1, <1>3 DEF TurnsTypeOK
<1>6. TurnsTypeOK'
  BY ZenonT(20), <1>2, <1>5 DEF TurnsTypeOK
<1>7. GiverInv' /\ AgainInv' /\ ResumedInv'
  BY ZenonT(20), <1>2, <1>4 DEF GiverInv, AgainInv, ResumedInv
<1>8. MarkInv'
  BY ZenonT(20), <1>2, <1>3, <1>4, <1>5 DEF MarkInv
<1>9. GivenInv'
  BY ZenonT(20), <1>2, <1>5 DEF GivenInv, Given
<1> QED BY ZenonT(20), <1>6, <1>7, <1>8, <1>9

\* Blocked at the second try too: the poll under way began before the mark and reads it as it ends,
\* or began since give() did.
LEMMA TurnsInvRetry == ASSUME TurnsInv, TurnRetry PROVE TurnsInv'
<1> USE DEF TurnsInv
<1>1. PICK i \in Latest : TurnTakes(i) \/ TurnBlocked(i, "next")
  BY ZenonT(20) DEF TurnRetry
<1>2. giver = "retry" /\ UNCHANGED <<run, task, more, awake, resumed>>
  BY ZenonT(20) DEF TurnRetry
<1>3. CASE TurnTakes(i)
  BY ZenonT(20), <1>2, <1>3, TurnsInvTakes
<1>4. CASE TurnBlocked(i, "next")
  <2> DEFINE t == Order[i]
  <2>1. giver' = "next" /\ left' = left \ {i} /\ lock' = lock /\ again' = again /\ since' = since /\ lock[t] # "none"
    BY ZenonT(20), <1>4 DEF TurnBlocked, GiveEnds
  <2>2. t \in Tasks
    BY ZenonT(20), LatestOnce DEF TurnsTypeOK
  <2>3. lock[t] # "give" /\ lock[t] \in {"none", "task", "give"}
    BY ZenonT(20), <1>2, <2>2 DEF GiverInv, TurnsTypeOK
  <2>4. task[t] = "polling"
    BY ZenonT(20), <2>1, <2>2, <2>3 DEF TurnsTypeOK
  <2>5. run[t] = "running" /\ t \notin since => again[t]
    BY ZenonT(20), <1>2, <2>4 DEF MarkInv
  <2>6. more[t] \/ t \in since
    BY ZenonT(20), <2>2, <2>4 DEF AgainInv
  <2>7. Given(t)
    BY ZenonT(20), <2>4, <2>5, <2>6 DEF Given
  <2>8. \A u \in Tasks : (\A j \in left' : Order[j] # u) => u = t \/ \A j \in left : Order[j] # u
    BY ZenonT(20), <2>1
  <2>9. TurnsTypeOK'
    BY ZenonT(20), <1>2, <2>1 DEF TurnsTypeOK
  <2> HIDE DEF t
  <2>10. GiverInv' /\ AgainInv' /\ ResumedInv' /\ MarkInv'
    BY ZenonT(20), <1>2, <2>1 DEF GiverInv, AgainInv, ResumedInv, MarkInv
  <2>11. GivenInv'
    BY ZenonT(20), <1>2, <2>1, <2>7, <2>8 DEF GivenInv, Given
  <2> QED BY ZenonT(20), <2>9, <2>10, <2>11
<1> QED BY ZenonT(20), <1>1, <1>3, <1>4

\* The poll in the turn ends: the future has been polled since give() began.
LEMMA TurnsInvPolled == ASSUME TurnsInv, TurnPolled PROVE TurnsInv'
<1> USE DEF TurnsInv
<1>1. PICK i \in Latest, end \in Runs :
        /\ lock' = [lock EXCEPT ![Order[i]] = "none"] /\ GiveEnds("next", i)
        /\ run' = [run EXCEPT ![Order[i]] = end]
        /\ awake' \in {awake, awake \cup {Order[i]}}
  BY ZenonT(20) DEF TurnPolled
<1> DEFINE t == Order[i]
<1>2. /\ giver = "polling" /\ giver' = "next" /\ left' = left \ {i}
      /\ again' = again /\ task' = task /\ more' = more /\ since' = since /\ resumed' = resumed
  BY ZenonT(20), <1>1 DEF TurnPolled, GiveEnds
<1>3. t \in Tasks /\ t \in since /\ lock[t] = "give" /\ \A j \in Latest : j = i
  BY ZenonT(20), <1>2, LatestOnce DEF TurnsTypeOK, GiverInv
<1>4. \A u \in Tasks : u # t => run'[u] = run[u]
  BY ZenonT(20), <1>1, <1>3 DEF TurnsTypeOK
<1>5. \A u \in Tasks : lock'[u] # "give"
  BY <1>1, <1>3 DEF GiverInv, TurnsTypeOK
<1>6. \A u \in Tasks : (\A j \in left' : Order[j] # u) => u = t \/ \A j \in left : Order[j] # u
  BY ZenonT(20), <1>2
<1>7. TurnsTypeOK'
  BY ZenonT(20), <1>1, <1>2, <1>3 DEF TurnsTypeOK
<1> HIDE DEF t
<1>8. GiverInv' /\ AgainInv' /\ ResumedInv' /\ MarkInv'
  BY ZenonT(20), <1>2, <1>5 DEF GiverInv, AgainInv, ResumedInv, MarkInv
<1>9. GivenInv'
  BY ZenonT(20), <1>2, <1>3, <1>4, <1>6 DEF GivenInv, Given
<1> QED BY ZenonT(20), <1>7, <1>8, <1>9

\* Every step of the turns keeps TurnsInv.
LEMMA TurnsInvStep == TurnsInv /\ [TurnsNext]_turnVars => TurnsInv'
<1> SUFFICES ASSUME TurnsInv, [TurnsNext]_turnVars PROVE TurnsInv'
  BY ZenonT(20)
<1>1. ASSUME NEW t \in Tasks, TaskStep(t) \/ DropTurn(t) \/ Wake(t) PROVE TurnsInv'
  BY ZenonT(20), <1>1, TurnsInvTaskPoll, TurnsInvTaskLock, TurnsInvTaskPolled, TurnsInvTaskCheck, TurnsInvDropTurn, TurnsInvWake DEF TaskStep
<1>2. CASE Give
  BY ZenonT(20), <1>2, TurnsInvGive
<1>3. CASE GiveStep
  BY ZenonT(20), <1>3, TurnsInvGiveDone, TurnsInvTry, TurnsInvMark, TurnsInvRetry, TurnsInvPolled DEF GiveStep
<1>4. CASE UNCHANGED turnVars
  <2>1. Latest' = Latest
    BY ZenonT(20), <1>4 DEF turnVars, Latest
  <2> QED BY ZenonT(20), <1>4, <2>1 DEF turnVars, TurnsInv, TurnsTypeOK, GiverInv, AgainInv, ResumedInv, MarkInv, GivenInv, Given
<1> QED BY ZenonT(20), <1>1, <1>2, <1>3, <1>4 DEF TurnsNext

\* The invariant of the turns, for any number of tracked tasks.
THEOREM TurnsInvariance == TurnsSpec => []TurnsInv
BY TurnsInvInit, TurnsInvStep, PTL DEF TurnsSpec

\* Every task tracked when give() is called gets the turn it is owed, whichever of them the runtime
\* is polling meanwhile (Slot::turn, Turn::poll).
THEOREM TurnsGiven == TurnsSpec => []TurnGiven
<1>1. TurnsInv => TurnGiven
  BY DEF TurnsInv, GiverInv, GivenInv, Given, TurnGiven
<1> QED BY <1>1, TurnsInvariance, PTL

\* A slot's lock is held by the poll that took it, and a future's panic is resumed at most once.
THEOREM TurnsTypes == TurnsSpec => []TurnsTypeOK
<1>1. TurnsInv => TurnsTypeOK
  BY DEF TurnsInv
<1> QED BY <1>1, TurnsInvariance, PTL
===============================================================================
