----------------------------- MODULE WsPlacesProofs ----------------------------
(***************************************************************************)
(* The places of a server for any connections, limits and frames: each one *)
(* taken is a message's in flight, and none is taken past a limit.         *)
(***************************************************************************)
EXTENDS WsPlaces, FiniteSetTheorems, TLAPS

MsgStates == {"unsent", "socket", "waiting", "spawned", "handling", "counted", "given", "told", "done", "joined"}

\* Where everything is, without the counts.
Shapes ==
    /\ gateway \in Gateways
    /\ loop \in [Conns -> {"top", "retry", "again", "decide", "wait", "joining", "over"}]
    /\ freed \in [Conns -> {"none", "on", "heard"}] /\ progressed \in [Conns -> {"none", "on", "heard"}]
    /\ msg \in [Messages -> MsgStates]
    /\ reading \in [Conns -> BOOLEAN] /\ before \in [Messages -> BOOLEAN]

\* The messages a connection's count stands for.
Counted(k) == {m \in Messages : m[1] = k /\ msg[m] \in {"spawned", "handling"}}

CountInv ==
    /\ held \in Nat /\ handling \in [Conns -> Nat]
    /\ held = Cardinality(Holding) /\ held <= Limit
    /\ \A k \in Conns : handling[k] = Cardinality(Counted(k))

\* One frame waits at most; it was read below the connection's bound, and while it waits nothing is
\* read past it.
WaitsAt(k) == \E m \in Messages : m[1] = k /\ msg[m] = "waiting"
Reads(k) == loop[k] = "wait" /\ reading[k]
WaitInv ==
    /\ \A m, n \in Messages : msg[m] = "waiting" /\ msg[n] = "waiting" /\ m[1] = n[1] => m = n
    /\ \A k \in Conns : Reads(k) => ~WaitsAt(k)

BoundInv ==
    \A k \in Conns :
      /\ handling[k] <= MaxInflight
      /\ WaitsAt(k) \/ Reads(k) => handling[k] < MaxInflight

PlacesInv == Shapes /\ CountInv /\ WaitInv /\ BoundInv

---------------------------------------------------------------------------
\* The bounds of the setting that runs.
LEMMA Settings == ASSUME Shapes PROVE Limit \in Nat \ {0} /\ MaxInflight \in Nat \ {0}
BY ZenonT(20), WsPlacesAssumption DEF Shapes, Limit, MaxInflight

\* A message names the connection it came over.
LEMMA Senders == \A m \in Messages : m[1] \in Conns
BY ZenonT(20) DEF Messages

\* Sets of messages are finite.
LEMMA FiniteMessages == \A S \in SUBSET Messages : IsFiniteSet(S) /\ Cardinality(S) \in Nat
<1>1. IsFiniteSet(1 .. MaxFrames)
  BY WsPlacesAssumption, FS_Interval
<1>2. IsFiniteSet(Messages)
  BY ZenonT(20), <1>1, WsPlacesAssumption, FS_Product DEF Messages
<1> QED BY ZenonT(20), <1>2, FS_Subset, FS_CardinalityType

\* A message more, or one less, among those a count stands for.
LEMMA OneMore == ASSUME NEW S \in SUBSET Messages, NEW m \in Messages, m \notin S
                 PROVE  Cardinality(S \cup {m}) = Cardinality(S) + 1
BY ZenonT(20), FiniteMessages, FS_AddElement

\* Taking one message out of a set makes it one smaller.
LEMMA OneLess == ASSUME NEW S \in SUBSET Messages, NEW m \in S
                 PROVE  Cardinality(S \ {m}) = Cardinality(S) - 1 /\ Cardinality(S) \in Nat \ {0}
<1>1. IsFiniteSet(S) /\ Cardinality(S) \in Nat
  BY ZenonT(20), FiniteMessages
<1>2. Cardinality(S) # 0
  BY ZenonT(20), <1>1, FS_EmptySet
<1> QED BY ZenonT(20), <1>1, <1>2, FS_RemoveElement

\* A message that moves on leaves the others where they are.
LEMMA Moved ==
    ASSUME Shapes, NEW m \in Messages, NEW s \in MsgStates, msg' = [msg EXCEPT ![m] = s]
    PROVE  /\ msg' \in [Messages -> MsgStates] /\ msg'[m] = s
           /\ \A n \in Messages : n # m => msg'[n] = msg[n]
BY ZenonT(20) DEF Shapes

---------------------------------------------------------------------------
\* A place taken and a message counted (Flight::begin).
LEMMA BeginCounts ==
    ASSUME Shapes, CountInv, gateway' = gateway, NEW m \in Messages, msg[m] \in {"socket", "waiting"}, Begin(m)
    PROVE  /\ CountInv' /\ handling'[m[1]] = handling[m[1]] + 1
           /\ \A k \in Conns : k # m[1] => handling'[k] = handling[k]
           /\ msg' \in [Messages -> MsgStates] /\ msg'[m] = "spawned"
           /\ \A n \in Messages : n # m => msg'[n] = msg[n]
<1>0. m[1] \in Conns
  BY ZenonT(20), Senders
<1>1. /\ msg' \in [Messages -> MsgStates] /\ msg'[m] = "spawned"
      /\ \A n \in Messages : n # m => msg'[n] = msg[n]
  BY ZenonT(20), Moved DEF Begin, MsgStates
<1>2. m \notin Holding /\ Holding' = Holding \cup {m} /\ Holding \in SUBSET Messages
  BY ZenonT(20), <1>1 DEF Holding
<1>3. /\ m \notin Counted(m[1]) /\ Counted(m[1]) \in SUBSET Messages /\ Counted(m[1])' = Counted(m[1]) \cup {m}
      /\ \A k \in Conns : k # m[1] => Counted(k)' = Counted(k)
  BY ZenonT(20), <1>1 DEF Counted
<1>4. /\ handling' \in [Conns -> Nat] /\ handling'[m[1]] = handling[m[1]] + 1
      /\ \A k \in Conns : k # m[1] => handling'[k] = handling[k]
  BY <1>0 DEF Begin, CountInv
<1>5. held' = Cardinality(Holding') /\ held' \in Nat
  BY <1>2, OneMore DEF Begin, CountInv
<1>6. held' <= Limit'
  BY Settings DEF Begin, CountInv, Limit
<1>7. \A k \in Conns : handling'[k] = Cardinality(Counted(k)')
  <2>1. Cardinality(Counted(m[1])') = Cardinality(Counted(m[1])) + 1
    BY ZenonT(20), <1>3, OneMore
  <2> QED BY ZenonT(20), <1>0, <1>3, <1>4, <2>1 DEF CountInv
<1>8. CountInv'
  BY ZenonT(20), <1>4, <1>5, <1>6, <1>7 DEF CountInv
<1> QED BY ZenonT(20), <1>1, <1>4, <1>8

\* A step that moves no message into or out of a count.
LEMMA SameCounts ==
    ASSUME CountInv, gateway' = gateway, held' = held, handling' = handling,
           \A m \in Messages : msg'[m] = msg[m] \/ (msg[m] \notin {"spawned", "handling", "counted"}
                                                   /\ msg'[m] \notin {"spawned", "handling", "counted"})
                                                \/ (msg[m] = "spawned" /\ msg'[m] = "handling")
    PROVE  CountInv'
<1>1. Holding' = Holding
  BY ZenonT(20) DEF Holding
<1>2. \A k \in Conns : Counted(k)' = Counted(k)
  BY ZenonT(20) DEF Counted
<1> QED BY ZenonT(20), <1>1, <1>2 DEF CountInv, Limit

\* A step that begins no reading and lets no frame wait keeps the bounds.
LEMMA SameBounds ==
    ASSUME WaitInv, BoundInv, gateway' = gateway,
           \A m \in Messages : msg'[m] = "waiting" => msg[m] = "waiting",
           \A k \in Conns : handling'[k] \in Nat /\ handling[k] \in Nat /\ handling'[k] <= handling[k],
           \A k \in Conns : Reads(k)' => Reads(k),
           MaxInflight \in Nat
    PROVE  WaitInv' /\ BoundInv'
<1>1. \A k \in Conns : WaitsAt(k)' => WaitsAt(k)
  BY ZenonT(20) DEF WaitsAt
<1>2. MaxInflight' = MaxInflight
  BY ZenonT(20) DEF MaxInflight
<1>3. WaitInv'
  BY ZenonT(20), <1>1 DEF WaitInv
<1>4. BoundInv'
  BY <1>1, <1>2 DEF BoundInv
<1> QED BY ZenonT(20), <1>3, <1>4

---------------------------------------------------------------------------
\* PlacesInv holds initially.
LEMMA PlacesInvInit == PlacesInit => PlacesInv
<1> SUFFICES ASSUME PlacesInit PROVE PlacesInv
  BY ZenonT(20)
<1>1. Shapes
  BY ZenonT(20) DEF PlacesInit, Shapes, MsgStates
<1>2. \A m \in Messages : msg[m] \in {"socket", "unsent"}
  BY ZenonT(20) DEF PlacesInit
<1>3. Holding = {} /\ \A k \in Conns : Counted(k) = {}
  BY ZenonT(20), <1>2 DEF Holding, Counted
<1>a. Cardinality(Holding) = 0 /\ \A k \in Conns : Cardinality(Counted(k)) = 0
  BY ZenonT(20), <1>3, FS_EmptySet
<1>b. held = 0 /\ handling = [k \in Conns |-> 0] /\ Limit \in Nat
  BY ZenonT(20), <1>1, Settings DEF PlacesInit
<1>4. CountInv
  BY <1>a, <1>b DEF CountInv
<1>5. WaitInv
  BY ZenonT(20), <1>2 DEF PlacesInit, WaitInv, Reads
<1>6. BoundInv
  BY <1>1, <1>2, Settings DEF PlacesInit, BoundInv, WaitsAt, Reads
<1> QED BY ZenonT(20), <1>1, <1>4, <1>5, <1>6 DEF PlacesInv

\* The steps of a loop that move no message.
LEMMA PlacesInvLoop ==
    ASSUME PlacesInv, gateway' = gateway, NEW k \in Conns,
           Listen(k) \/ Retry(k) \/ WaitProgressed(k) \/ WaitFreed(k) \/ WaitPing(k) \/ End(k)
    PROVE  PlacesInv'
<1> USE DEF PlacesInv
<1>1. held' = held /\ handling' = handling /\ msg' = msg /\ reading' = reading /\ before' = before
  BY ZenonT(20) DEF Listen, Retry, WaitProgressed, WaitFreed, WaitPing, End
<1>2. /\ loop' \in [Conns -> {"top", "retry", "again", "decide", "wait", "joining", "over"}]
      /\ loop'[k] # "wait" /\ \A j \in Conns : j # k => loop'[j] = loop[j]
  BY ZenonT(20) DEF Listen, Retry, WaitProgressed, WaitFreed, WaitPing, End, Shapes
<1>3. freed' \in [Conns -> {"none", "on", "heard"}] /\ progressed' \in [Conns -> {"none", "on", "heard"}]
  BY ZenonT(20) DEF Listen, Retry, WaitProgressed, WaitFreed, WaitPing, End, Shapes, Listening
<1>4. Shapes'
  BY ZenonT(20), <1>1, <1>2, <1>3 DEF Shapes
<1>5. CountInv'
  BY ZenonT(20), <1>1, SameCounts
<1>6. \A j \in Conns : Reads(j)' => Reads(j)
  BY ZenonT(20), <1>1, <1>2 DEF Reads
<1>7. \A j \in Conns : handling[j] \in Nat
  BY ZenonT(20) DEF CountInv
<1>8. WaitInv' /\ BoundInv'
  BY <1>1, <1>6, <1>7, Settings, SameBounds
<1> QED BY ZenonT(20), <1>4, <1>5, <1>8

\* The turn decides to read with no frame waiting and below the connection's bound.
LEMMA PlacesInvDecide == ASSUME PlacesInv, gateway' = gateway, NEW k \in Conns, Decide(k) PROVE PlacesInv'
<1> USE DEF PlacesInv
<1>1. held' = held /\ handling' = handling /\ msg' = msg /\ UNCHANGED <<before, freed, progressed>>
  BY ZenonT(20) DEF Decide
<1>2. /\ loop' \in [Conns -> {"top", "retry", "again", "decide", "wait", "joining", "over"}]
      /\ reading' \in [Conns -> BOOLEAN]
      /\ \A j \in Conns : j # k => loop'[j] = loop[j] /\ reading'[j] = reading[j]
  BY ZenonT(20) DEF Decide, Shapes
<1>3. reading'[k] => ~Waiting(k) /\ handling[k] < MaxInflight
  BY ZenonT(20) DEF Decide, Shapes
<1>4. \A j \in Conns : WaitsAt(j)' <=> WaitsAt(j)
  BY ZenonT(20), <1>1 DEF WaitsAt
<1>5. reading'[k] => ~WaitsAt(k) /\ handling[k] < MaxInflight
  BY ZenonT(20), <1>3 DEF Waiting, At, WaitsAt
<1>6. Shapes'
  BY ZenonT(20), <1>1, <1>2 DEF Shapes
<1>7. CountInv'
  BY ZenonT(20), <1>1, SameCounts
<1>8. \A j \in Conns : j # k => (Reads(j)' <=> Reads(j))
  BY ZenonT(20), <1>2 DEF Reads
<1>9. Reads(k)' => reading'[k]
  BY ZenonT(20) DEF Reads
<1>10. WaitInv'
  BY ZenonT(20), <1>1, <1>4, <1>5, <1>8, <1>9 DEF WaitInv
<1>11. MaxInflight' = MaxInflight
  BY ZenonT(20) DEF MaxInflight
<1>12. BoundInv'
  BY ZenonT(20), <1>1, <1>4, <1>5, <1>8, <1>9, <1>11 DEF BoundInv
<1> QED BY ZenonT(20), <1>6, <1>7, <1>10, <1>12

\* The one frame that waits is tried again: its connection stays within its bound.
LEMMA PlacesInvRetryReceived ==
    ASSUME PlacesInv, gateway' = gateway, NEW k \in Conns, RetryReceived(k) PROVE PlacesInv'
<1> USE DEF PlacesInv
<1>1. PICK m \in At(k, "waiting") : Received(m)
  BY ZenonT(20) DEF RetryReceived
<1>2. m \in Messages /\ m[1] = k /\ msg[m] = "waiting"
  BY ZenonT(20) DEF At
<1>3. reading' = reading /\ before' = before /\ freed' = freed /\ progressed' = progressed
  BY ZenonT(20) DEF RetryReceived
<1>4. /\ loop' \in [Conns -> {"top", "retry", "again", "decide", "wait", "joining", "over"}]
      /\ loop'[k] # "wait" /\ \A j \in Conns : j # k => loop'[j] = loop[j]
  BY ZenonT(20) DEF RetryReceived, Shapes
<1>5. ~Reads(k)' /\ \A j \in Conns : Reads(j)' => Reads(j)
  BY ZenonT(20), <1>3, <1>4 DEF Reads
<1>6. CASE Begin(m)
  <2>1. /\ CountInv' /\ handling'[k] = handling[k] + 1
        /\ \A j \in Conns : j # k => handling'[j] = handling[j]
        /\ msg' \in [Messages -> MsgStates] /\ msg'[m] = "spawned"
        /\ \A n \in Messages : n # m => msg'[n] = msg[n]
    BY ZenonT(20), <1>2, <1>6, BeginCounts
  <2>2. Shapes'
    BY ZenonT(20), <1>3, <1>4, <2>1 DEF Shapes
  <2>3. \A n \in Messages : msg'[n] = "waiting" => msg[n] = "waiting" /\ n # m
    BY ZenonT(20), <2>1
  <2>4. \A n \in Messages : msg'[n] = "waiting" => n[1] # k
    BY ZenonT(20), <1>2, <2>3 DEF WaitInv
  <2>5. (\A j \in Conns : WaitsAt(j)' => WaitsAt(j)) /\ ~WaitsAt(k)' /\ WaitsAt(k)
    BY ZenonT(20), <1>2, <2>3, <2>4 DEF WaitsAt
  <2>6. WaitInv'
    BY ZenonT(20), <1>5, <2>3, <2>5 DEF WaitInv
  <2>7. handling[k] \in Nat /\ MaxInflight \in Nat /\ MaxInflight' = MaxInflight
    BY ZenonT(20), Settings DEF CountInv, MaxInflight
  <2>8. BoundInv'
    BY <1>5, <2>1, <2>5, <2>7 DEF BoundInv
  <2> QED BY ZenonT(20), <2>1, <2>2, <2>6, <2>8
<1>7. CASE msg' = [msg EXCEPT ![m] = "waiting"] /\ UNCHANGED <<held, handling>>
  <2>1. msg' = msg
    BY ZenonT(20), <1>2, <1>7 DEF Shapes
  <2>2. Shapes'
    BY ZenonT(20), <1>3, <1>4, <2>1 DEF Shapes
  <2>3. CountInv'
    BY ZenonT(20), <1>7, <2>1, SameCounts
  <2>4. \A j \in Conns : handling[j] \in Nat
    BY ZenonT(20) DEF CountInv
  <2>5. WaitInv' /\ BoundInv'
    BY <1>5, <1>7, <2>1, <2>4, Settings, SameBounds
  <2> QED BY ZenonT(20), <2>2, <2>3, <2>5
<1> QED BY ZenonT(20), <1>1, <1>6, <1>7 DEF Received

\* A frame read: no other waits, and the connection was below its bound.
LEMMA PlacesInvWaitRead ==
    ASSUME PlacesInv, gateway' = gateway, NEW k \in Conns, WaitRead(k) PROVE PlacesInv'
<1> USE DEF PlacesInv
<1>1. PICK m \in NextFrame(k) : Received(m)
  BY ZenonT(20) DEF WaitRead
<1>2. m \in Messages /\ m[1] = k /\ msg[m] = "socket"
  BY ZenonT(20) DEF NextFrame, At
<1>3. reading' = reading /\ before' = before /\ freed' = freed /\ progressed' = progressed
  BY ZenonT(20) DEF WaitRead
<1>4. /\ loop' \in [Conns -> {"top", "retry", "again", "decide", "wait", "joining", "over"}]
      /\ loop'[k] # "wait" /\ \A j \in Conns : j # k => loop'[j] = loop[j]
  BY ZenonT(20) DEF WaitRead, Shapes
<1>5. ~Reads(k)' /\ \A j \in Conns : Reads(j)' => Reads(j)
  BY ZenonT(20), <1>3, <1>4 DEF Reads
<1>6. ~WaitsAt(k) /\ handling[k] < MaxInflight /\ handling[k] \in Nat
  BY ZenonT(20) DEF WaitRead, Reads, WaitInv, BoundInv, CountInv
<1>7. MaxInflight \in Nat /\ MaxInflight' = MaxInflight
  BY ZenonT(20), Settings DEF MaxInflight
<1>8. CASE Begin(m)
  <2>1. /\ CountInv' /\ handling'[k] = handling[k] + 1
        /\ \A j \in Conns : j # k => handling'[j] = handling[j]
        /\ msg' \in [Messages -> MsgStates] /\ msg'[m] = "spawned"
        /\ \A n \in Messages : n # m => msg'[n] = msg[n]
    BY ZenonT(20), <1>2, <1>8, BeginCounts
  <2>2. Shapes'
    BY ZenonT(20), <1>3, <1>4, <2>1 DEF Shapes
  <2>3. \A n \in Messages : msg'[n] = "waiting" => msg[n] = "waiting"
    BY ZenonT(20), <2>1
  <2>4. (\A j \in Conns : WaitsAt(j)' => WaitsAt(j)) /\ ~WaitsAt(k)'
    BY ZenonT(20), <1>6, <2>3 DEF WaitsAt
  <2>5. WaitInv'
    BY ZenonT(20), <1>5, <2>3, <2>4 DEF WaitInv
  <2>6. BoundInv'
    BY <1>5, <1>6, <1>7, <2>1, <2>4 DEF BoundInv
  <2> QED BY ZenonT(20), <2>1, <2>2, <2>5, <2>6
<1>9. CASE msg' = [msg EXCEPT ![m] = "waiting"] /\ UNCHANGED <<held, handling>>
  <2>1. /\ msg' \in [Messages -> MsgStates] /\ msg'[m] = "waiting"
        /\ \A n \in Messages : n # m => msg'[n] = msg[n]
    BY ZenonT(20), <1>2, <1>9, Moved DEF MsgStates
  <2>2. Shapes'
    BY ZenonT(20), <1>3, <1>4, <2>1 DEF Shapes
  <2>3. CountInv'
    BY ZenonT(20), <1>2, <1>9, <2>1, SameCounts
  <2>4. \A n \in Messages : msg'[n] = "waiting" => n = m \/ (n[1] # k /\ msg[n] = "waiting")
    BY ZenonT(20), <1>6, <2>1 DEF WaitsAt
  <2>5. \A j \in Conns : j # k => (WaitsAt(j)' => WaitsAt(j))
    BY ZenonT(20), <1>2, <2>4 DEF WaitsAt
  <2>6. WaitInv'
    BY ZenonT(20), <1>2, <1>5, <2>4, <2>5 DEF WaitInv
  <2>7. BoundInv'
    BY ZenonT(20), <1>5, <1>6, <1>7, <1>9, <2>5 DEF BoundInv
  <2> QED BY ZenonT(20), <2>2, <2>3, <2>6, <2>7
<1> QED BY ZenonT(20), <1>1, <1>8, <1>9 DEF Received

\* A message's task, and its join: each move keeps the counts, but for the two that give a message
\* out of its connection's count and a place back.
LEMMA PlacesInvMoves ==
    ASSUME PlacesInv, gateway' = gateway, NEW m \in Messages, NEW s \in MsgStates \ {"waiting"},
           msg' = [msg EXCEPT ![m] = s],
           Shapes', CountInv', \A k \in Conns : handling'[k] <= handling[k],
           \A k \in Conns : Reads(k)' => Reads(k)
    PROVE  PlacesInv'
<1> USE DEF PlacesInv
<1>1. \A n \in Messages : msg'[n] = "waiting" => msg[n] = "waiting"
  BY ZenonT(20), Moved
<1>2. \A k \in Conns : handling'[k] \in Nat /\ handling[k] \in Nat
  BY ZenonT(20) DEF CountInv
<1> QED BY ZenonT(20), <1>1, <1>2, Settings, SameBounds

\* A connection that joins a finished handler keeps PlacesInv.
LEMMA PlacesInvWaitJoined == ASSUME PlacesInv, gateway' = gateway, NEW k \in Conns, WaitJoined(k) PROVE PlacesInv'
<1> USE DEF PlacesInv
<1>1. PICK m \in At(k, "done") : msg' = [msg EXCEPT ![m] = "joined"]
  BY ZenonT(20) DEF WaitJoined
<1>2. m \in Messages /\ msg[m] = "done" /\ "joined" \in MsgStates \ {"waiting"}
  BY ZenonT(20) DEF At, MsgStates
<1>3. msg' \in [Messages -> MsgStates] /\ msg'[m] = "joined" /\ \A n \in Messages : n # m => msg'[n] = msg[n]
  BY ZenonT(20), <1>1, <1>2, Moved
<1>4. /\ held' = held /\ handling' = handling /\ reading' = reading /\ before' = before
      /\ freed' = freed /\ progressed' = progressed
  BY ZenonT(20) DEF WaitJoined
<1>5. /\ loop' \in [Conns -> {"top", "retry", "again", "decide", "wait", "joining", "over"}]
      /\ loop'[k] # "wait" /\ \A j \in Conns : j # k => loop'[j] = loop[j]
  BY ZenonT(20) DEF WaitJoined, Shapes
<1>6. Shapes'
  BY ZenonT(20), <1>3, <1>4, <1>5 DEF Shapes
<1>7. CountInv'
  BY ZenonT(20), <1>2, <1>3, <1>4, SameCounts
<1>8. \A j \in Conns : (Reads(j)' => Reads(j)) /\ handling'[j] <= handling[j]
  BY <1>4, <1>5 DEF Reads, CountInv
<1> QED BY ZenonT(20), <1>1, <1>2, <1>4, <1>6, <1>7, <1>8, PlacesInvMoves

\* Steps that give no place back keep PlacesInv.
LEMMA PlacesInvQuiet ==
    ASSUME PlacesInv, gateway' = gateway, NEW m \in Messages, Poll(m) \/ NotifyFreed(m) \/ NotifyProgress(m)
    PROVE  PlacesInv'
<1> USE DEF PlacesInv
<1>1. PICK s \in {"handling", "told", "done"} :
        /\ msg' = [msg EXCEPT ![m] = s]
        /\ \/ msg[m] = "spawned" /\ s = "handling"
           \/ msg[m] \in {"given", "told"} /\ s \in {"told", "done"}
  BY ZenonT(20) DEF Poll, NotifyFreed, NotifyProgress
<1>2. s \in MsgStates \ {"waiting"}
  BY ZenonT(20) DEF MsgStates
<1>3. msg' \in [Messages -> MsgStates] /\ msg'[m] = s /\ \A n \in Messages : n # m => msg'[n] = msg[n]
  BY ZenonT(20), <1>1, <1>2, Moved
<1>4. held' = held /\ handling' = handling /\ reading' = reading /\ loop' = loop
  BY ZenonT(20) DEF Poll, NotifyFreed, NotifyProgress
<1>5. /\ freed' \in [Conns -> {"none", "on", "heard"}] /\ progressed' \in [Conns -> {"none", "on", "heard"}]
      /\ before' \in [Messages -> BOOLEAN]
  <2>1. CASE Poll(m)
    BY ZenonT(20), <2>1 DEF Poll, Shapes
  <2>2. CASE NotifyFreed(m)
    <3>1. Notified(freed) \in [Conns -> {"none", "on", "heard"}]
      BY ZenonT(20) DEF Notified, Shapes
    <3> QED BY ZenonT(20), <2>2, <3>1 DEF NotifyFreed, Shapes
  <2>3. CASE NotifyProgress(m)
    BY ZenonT(20), <2>3 DEF NotifyProgress, Shapes
  <2> QED BY ZenonT(20), <2>1, <2>2, <2>3
<1>6. Shapes'
  BY ZenonT(20), <1>3, <1>4, <1>5 DEF Shapes
<1>7. CountInv'
  BY ZenonT(20), <1>1, <1>3, <1>4, SameCounts
<1>8. \A j \in Conns : (Reads(j)' => Reads(j)) /\ handling'[j] <= handling[j]
  BY <1>4 DEF Reads, CountInv
<1> QED BY ZenonT(20), <1>1, <1>2, <1>4, <1>6, <1>7, <1>8, PlacesInvMoves

\* A message is counted out of its connection; its place is still the server's.
LEMMA PlacesInvHandled == ASSUME PlacesInv, gateway' = gateway, NEW m \in Messages, Handled(m) PROVE PlacesInv'
<1> USE DEF PlacesInv
<1>1. msg[m] = "handling" /\ msg' = [msg EXCEPT ![m] = "counted"] /\ "counted" \in MsgStates \ {"waiting"}
  BY ZenonT(20) DEF Handled, MsgStates
<1>2. msg' \in [Messages -> MsgStates] /\ msg'[m] = "counted" /\ \A n \in Messages : n # m => msg'[n] = msg[n]
  BY ZenonT(20), <1>1, Moved
<1>3. /\ held' = held /\ reading' = reading /\ loop' = loop /\ freed' = freed /\ progressed' = progressed
      /\ before' = before
  BY ZenonT(20) DEF Handled
<1>4. Shapes'
  BY ZenonT(20), <1>2, <1>3 DEF Shapes
<1>5. m[1] \in Conns /\ m \in Counted(m[1]) /\ Counted(m[1]) \in SUBSET Messages
  BY ZenonT(20), <1>1, Senders DEF Counted
<1>6. Counted(m[1])' = Counted(m[1]) \ {m} /\ \A k \in Conns : k # m[1] => Counted(k)' = Counted(k)
  BY ZenonT(20), <1>2 DEF Counted
<1>7. Cardinality(Counted(m[1])') = handling[m[1]] - 1 /\ handling[m[1]] \in Nat \ {0}
  BY ZenonT(20), <1>5, <1>6, OneLess DEF CountInv
<1>8. /\ handling' \in [Conns -> Nat] /\ handling'[m[1]] = handling[m[1]] - 1
      /\ \A k \in Conns : k # m[1] => handling'[k] = handling[k]
  BY <1>5, <1>7 DEF Handled, CountInv
<1>9. Holding' = Holding
  BY ZenonT(20), <1>1, <1>2 DEF Holding
<1>10. \A k \in Conns : handling'[k] = Cardinality(Counted(k)')
  BY ZenonT(20), <1>6, <1>7, <1>8 DEF CountInv
<1>11. CountInv'
  BY ZenonT(20), <1>3, <1>8, <1>9, <1>10 DEF CountInv, Limit
<1>12. \A k \in Conns : handling'[k] <= handling[k] /\ (Reads(k)' => Reads(k))
  BY <1>3, <1>7, <1>8 DEF CountInv, Reads
<1> QED BY ZenonT(20), <1>1, <1>4, <1>11, <1>12, PlacesInvMoves

\* A place given back keeps PlacesInv.
LEMMA PlacesInvGiveBack == ASSUME PlacesInv, gateway' = gateway, NEW m \in Messages, GiveBack(m) PROVE PlacesInv'
<1> USE DEF PlacesInv
<1>1. msg[m] = "counted" /\ msg' = [msg EXCEPT ![m] = "given"] /\ "given" \in MsgStates \ {"waiting"}
  BY ZenonT(20) DEF GiveBack, MsgStates
<1>2. msg' \in [Messages -> MsgStates] /\ msg'[m] = "given" /\ \A n \in Messages : n # m => msg'[n] = msg[n]
  BY ZenonT(20), <1>1, Moved
<1>3. /\ held' = held - 1 /\ handling' = handling /\ reading' = reading /\ loop' = loop /\ freed' = freed
      /\ progressed' = progressed /\ before' \in [Messages -> BOOLEAN]
  BY DEF GiveBack, Shapes, Full
<1>4. Shapes'
  BY ZenonT(20), <1>2, <1>3 DEF Shapes
<1>5. m \in Holding /\ Holding \in SUBSET Messages /\ Holding' = Holding \ {m}
  BY ZenonT(20), <1>1, <1>2 DEF Holding
<1>6. Cardinality(Holding') = held - 1 /\ held \in Nat \ {0}
  BY ZenonT(20), <1>5, OneLess DEF CountInv
<1>7. \A k \in Conns : Counted(k)' = Counted(k)
  BY ZenonT(20), <1>1, <1>2 DEF Counted
<1>8. held' \in Nat /\ held' <= Limit'
  BY <1>3, <1>6, Settings DEF CountInv, Limit
<1>9. CountInv'
  BY ZenonT(20), <1>3, <1>6, <1>7, <1>8 DEF CountInv
<1>10. \A k \in Conns : handling'[k] <= handling[k] /\ (Reads(k)' => Reads(k))
  BY <1>3 DEF CountInv, Reads
<1> QED BY ZenonT(20), <1>1, <1>4, <1>9, <1>10, PlacesInvMoves

\* The connection ends: the messages still counted give their places back, and no other does.
LEMMA PlacesInvDropFlight == ASSUME PlacesInv, gateway' = gateway, NEW k \in Conns, DropFlight(k) PROVE PlacesInv'
<1> USE DEF PlacesInv
<1>1. \A m \in Messages : m[1] = k => msg[m] \notin {"handling", "counted", "given", "told"}
  BY ZenonT(20) DEF DropFlight, Busy, At
<1>2. /\ msg' \in [Messages -> MsgStates]
      /\ \A m \in Messages : m[1] # k \/ msg[m] \notin {"spawned", "done"} => msg'[m] = msg[m]
      /\ \A m \in Messages : m[1] = k /\ msg[m] \in {"spawned", "done"} => msg'[m] = "joined"
  BY ZenonT(20) DEF DropFlight, Shapes, MsgStates
<1>3. held' = held - handling[k] /\ reading' = reading /\ progressed' = progressed /\ before' = before
  BY ZenonT(20) DEF DropFlight
<1>4. /\ loop' \in [Conns -> {"top", "retry", "again", "decide", "wait", "joining", "over"}]
      /\ loop'[k] # "wait" /\ \A j \in Conns : j # k => loop'[j] = loop[j]
      /\ freed' \in [Conns -> {"none", "on", "heard"}]
  BY ZenonT(20) DEF DropFlight, Shapes, Notified
<1>5. Shapes'
  BY ZenonT(20), <1>2, <1>3, <1>4 DEF Shapes
<1>6. Holding \in SUBSET Messages /\ Counted(k) \in SUBSET Messages /\ Holding \cap Counted(k) = Counted(k)
  BY ZenonT(20) DEF Holding, Counted
<1>7. Holding' = Holding \ Counted(k)
  BY ZenonT(20), <1>1, <1>2 DEF Holding, Counted
<1>8. Cardinality(Holding') = held - handling[k]
  <2>1. IsFiniteSet(Holding)
    BY ZenonT(20), <1>6, FiniteMessages
  <2>2. Cardinality(Holding \ Counted(k)) = Cardinality(Holding) - Cardinality(Holding \cap Counted(k))
    BY ZenonT(20), <2>1, FS_Difference
  <2> QED BY ZenonT(20), <1>6, <1>7, <2>2 DEF CountInv
<1>9. Cardinality(Holding') \in Nat
  BY ZenonT(20), <1>6, <1>7, FiniteMessages
<1>10. Counted(k)' = {} /\ \A j \in Conns : j # k => Counted(j)' = Counted(j)
  BY ZenonT(20), <1>1, <1>2 DEF Counted
<1>11. /\ handling' \in [Conns -> Nat] /\ handling'[k] = 0
       /\ \A j \in Conns : j # k => handling'[j] = handling[j]
  BY ZenonT(20) DEF DropFlight, CountInv
<1>12. \A j \in Conns : handling'[j] = Cardinality(Counted(j)')
  BY ZenonT(20), <1>10, <1>11, FS_EmptySet DEF CountInv
<1>13. held' <= Limit'
  BY <1>3, Settings DEF CountInv, Limit
<1>14. CountInv'
  BY ZenonT(20), <1>3, <1>8, <1>9, <1>11, <1>12, <1>13 DEF CountInv
<1>15. \A m \in Messages : msg'[m] = "waiting" => msg[m] = "waiting"
  BY ZenonT(20), <1>2
<1>16. \A j \in Conns : handling'[j] \in Nat /\ handling[j] \in Nat /\ handling'[j] <= handling[j]
  BY <1>11 DEF CountInv
<1>17. \A j \in Conns : Reads(j)' => Reads(j)
  BY ZenonT(20), <1>3, <1>4 DEF Reads
<1>18. WaitInv' /\ BoundInv'
  BY ZenonT(20), <1>15, <1>16, <1>17, Settings, SameBounds
<1> QED BY ZenonT(20), <1>5, <1>14, <1>18

\* Every step keeps PlacesInv.
LEMMA PlacesInvStep == PlacesInv /\ [PlacesNext /\ UNCHANGED gateway]_<<gateway, placeVars>> => PlacesInv'
<1> SUFFICES ASSUME PlacesInv, [PlacesNext /\ UNCHANGED gateway]_<<gateway, placeVars>> PROVE PlacesInv'
  BY ZenonT(20)
<1>0. gateway' = gateway
  BY ZenonT(20)
<1>1. ASSUME NEW k \in Conns, LoopStep(k) \/ End(k) PROVE PlacesInv'
  BY ZenonT(20), <1>0, <1>1, PlacesInvLoop, PlacesInvDecide, PlacesInvRetryReceived, PlacesInvWaitRead, PlacesInvWaitJoined,
     PlacesInvDropFlight DEF LoopStep
<1>2. ASSUME NEW m \in Messages, MessageStep(m) PROVE PlacesInv'
  BY ZenonT(20), <1>0, <1>2, PlacesInvQuiet, PlacesInvHandled, PlacesInvGiveBack DEF MessageStep
<1>3. CASE UNCHANGED <<gateway, placeVars>>
  BY ZenonT(20), <1>3 DEF placeVars, PlacesInv, Shapes, CountInv, WaitInv, BoundInv, WaitsAt, Reads, Holding, Counted, Limit,
              MaxInflight
<1> QED BY ZenonT(20), <1>1, <1>2, <1>3 DEF PlacesNext

---------------------------------------------------------------------------
\* The invariant of the places, for any gateways, connections and frames.
THEOREM PlacesInvariance == PlacesSpec => []PlacesInv
BY PlacesInvInit, PlacesInvStep, PTL DEF PlacesSpec

\* No place is lost or given back twice and none is taken past server_max_inflight, whenever a
\* connection ends; a connection has one frame waiting at most and never more messages in flight
\* than its max_inflight (Places, Flight, the read loop's turns).
THEOREM PlacesAreExact == PlacesSpec => []PlacesExact
<1>1. PlacesInv => PlacesExact
  <2> SUFFICES ASSUME PlacesInv PROVE PlacesExact
    BY ZenonT(20)
  <2> USE DEF PlacesInv
  <2>1. \A k \in Conns : At(k, "spawned") \cup At(k, "handling") = Counted(k)
    BY ZenonT(20) DEF At, Counted
  <2>2. PlacesTypeOK
    BY ZenonT(20), <2>1 DEF PlacesTypeOK, Shapes, MsgStates, CountInv
  <2>3. ASSUME NEW k \in Conns PROVE Cardinality(At(k, "waiting")) <= 1
    <3>1. \A m, n \in At(k, "waiting") : m = n
      BY ZenonT(20) DEF WaitInv, At
    <3>2. CASE At(k, "waiting") = {}
      BY <3>2, FS_EmptySet
    <3>3. CASE At(k, "waiting") # {}
      <4>1. PICK m \in At(k, "waiting") : TRUE
        BY ZenonT(20), <3>3
      <4>2. At(k, "waiting") = {m}
        BY ZenonT(20), <3>1, <4>1
      <4>3. Cardinality({m}) = 1
        BY ZenonT(20), FS_Singleton
      <4> QED BY <4>2, <4>3
    <3> QED BY ZenonT(20), <3>2, <3>3
  <2> QED BY <2>2, <2>3 DEF PlacesExact, CountInv, BoundInv
<1> QED BY <1>1, PlacesInvariance, PTL
=============================================================================
