-------------------------- MODULE RpcClientProofs --------------------------
(***************************************************************************)
(* The RPC client for any calls, connections and items: one connection at  *)
(* a time, nobody registered on a lane that has ended, one `cancel` or a   *)
(* final reply, and no gap in what a caller reads.  The layers of the      *)
(* invariant that follow a call's frames from the lane to its caller, and  *)
(* the theorems.                                                           *)
(***************************************************************************)
EXTENDS RpcClientSteps

\* RouteInv.  An overflow is never forgotten.
Wait == {"write", "sending", "reading"}

\* A call stays overflowed when its flag stays, or its lane goes on with it.
LEMMA OverflowKept ==
    ASSUME NEW c \in Calls, Overflowed(c), cancelled[c] => cancelled'[c],
           \A k \in Conns : lane[k].call = c /\ lane[k].at \in LaneAt \ {"found"} =>
             cancelled'[c] \/ (lane'[k].call = c /\ lane'[k].at \in LaneAt \ {"found"})
    PROVE  Overflowed(c)'
BY ZenonT(20) DEF Overflowed

\* No step of the client forgets an overflow: the error is queued after the flag is set.
LEMMA OverflowStays == ASSUME Shapes, RouteInv, ClientNext, NEW d \in Calls, Overflowed(d) PROVE Overflowed(d)'
<1>1. ASSUME KeepCancels \/ \E c \in Calls : Cancels(c), lane' = lane PROVE Overflowed(d)'
  BY ZenonT(20), <1>1, OverflowKept DEF KeepCancels, Cancels
<1>2. ASSUME NEW c \in Calls, CallStep(c) \/ Abandon(c) \/ PumpCheck(c) \/ PumpPull(c) \/ PumpSend(c) PROVE Overflowed(d)'
  <2>1. (KeepCancels \/ Cancels(c)) /\ lane' = lane
    BY ZenonT(30), <1>2, AwaitDoes, LockDoes, DialDoes, RegisterDoes, WriteDoes, SentDoes, ReadDoes, CallEnds, DropRemoveDoes,
       DropCancelDoes, PumpsDoes DEF CallStep, KeepConns
  <2> QED BY ZenonT(20), <1>1, <2>1
<1>3. ASSUME NEW k \in Conns, LaneStep(k) PROVE Overflowed(d)'
  <2>1. cancelled[d] => cancelled'[d]
    BY ZenonT(30), <1>3, LaneQueueDoes, OverflowDoes DEF LaneStep, KeepCancels, Cancels
  <2>2. \A j \in Conns : j # k => lane'[j] = lane[j]
    BY ZenonT(30), <1>3, LaneQueueDoes, OverflowDoes DEF LaneStep, Lane
  <2>3. ASSUME lane[k].call = d, lane[k].at \in LaneAt \ {"found"}
        PROVE  cancelled'[d] \/ (lane'[k].call = d /\ lane'[k].at \in LaneAt \ {"found"})
    <3>1. OverflowRemove(k) \/ OverflowCancel(k) \/ OverflowError(k)
      BY ZenonT(20), <1>3, <2>3, LaneQueueDoes DEF LaneStep
    <3>2. CASE lane[k].at = "error"
      BY ZenonT(20), <2>1, <2>3, <3>2 DEF RouteInv
    <3>3. CASE lane[k].at # "error"
      BY ZenonT(30), <2>3, <3>1, <3>3, OverflowDoes DEF Lane, LaneAt
    <3> QED BY ZenonT(20), <3>2, <3>3
  <2> QED BY ZenonT(20), <2>1, <2>2, <2>3, OverflowKept
<1>4. ASSUME NEW k \in Conns, ServerStep(k) PROVE Overflowed(d)'
  <2>1. /\ cancelled' = cancelled /\ lane[k].at = "next"
        /\ lane' = lane \/ \A j \in Conns : j # k => lane'[j] = lane[j]
    <3>1. CASE Goaway(k) \/ LaneEnds(k)
      BY ZenonT(30), <3>1, LaneClosesDoes DEF KeepCancels, Lane
    <3>2. CASE \E c \in Calls, kind \in {"item"} \cup FinalKinds : LaneFrame(k, c, kind)
      BY ZenonT(30), <3>2, LaneFrameDoes DEF KeepCancels, Lane
    <3> QED BY ZenonT(20), <1>4, <3>1, <3>2 DEF ServerStep
  <2> QED BY ZenonT(20), <2>1, OverflowKept DEF LaneAt
<1> QED BY ZenonT(20), <1>2, <1>3, <1>4 DEF ClientNext

\* Steps that keep a waiting call registered, or answer it, overflow it or end its lane.
LEMMA RouteFrame ==
    ASSUME Shapes, HomeInv, RouteInv, ClientNext, answered \subseteq answered',
           \A c \in Calls \ Events : caller'[c] \in Wait => caller[c] \in Wait /\ on'[c] = on[c],
           \A j \in Conns : lane[j].at = "ended" => lane'[j].at = "ended",
           \A j \in Conns : \A c \in pending[j] : caller'[c] \in Wait =>
             c \in pending'[j] \/ c \in answered' \/ Overflowed(c)' \/ lane'[j].at = "ended",
           \A k \in Conns, c \in Calls : lane'[k].call = c /\ lane'[k].at = "error" => cancelled'[c]
    PROVE  RouteInv'
<1>1. ASSUME NEW c \in Calls, caller'[c] \in Wait, c \notin Events, c \notin answered', ~Overflowed(c)'
      PROVE  c \in pending'[on'[c]] \/ lane'[on'[c]].at = "ended"
  <2>1. caller[c] \in Wait /\ on'[c] = on[c] /\ c \notin answered
    BY ZenonT(20), <1>1
  <2>2. on[c] \in Conns
    BY ZenonT(20), <2>1, Homed DEF Wait
  <2>3. ~Overflowed(c)
    BY ZenonT(20), <1>1, OverflowStays
  <2>4. c \in pending[on[c]] \/ lane[on[c]].at = "ended"
    BY ZenonT(20), <1>1, <2>1, <2>3 DEF RouteInv, RouteAt, Wait
  <2> QED BY ZenonT(20), <1>1, <2>1, <2>2, <2>4
<1> QED BY ZenonT(20), <1>1 DEF RouteInv, RouteAt, Wait

\* A caller's step with its lane and `pending` as they were.
LEMMA RouteMoves ==
    ASSUME Shapes, HomeInv, RouteInv, ClientNext, NEW c \in Calls, NEW where \in CallerStates, Caller(c, where),
           where \in Wait => c \in Events \/ (caller[c] \in Wait /\ on'[c] = on[c]),
           \A d \in Calls : d # c => on'[d] = on[d],
           KeepCancels \/ Cancels(c), lane' = lane, answered' = answered,
           \A j \in Conns : pending'[j] = pending[j] \/ (pending'[j] = pending[j] \ {c} /\ where \notin Wait)
    PROVE  RouteInv'
<1>1. \A d \in Calls \ Events : caller'[d] \in Wait => caller[d] \in Wait /\ on'[d] = on[d]
  BY ZenonT(20) DEF Caller
<1>2. \A j \in Conns : \A d \in pending[j] : caller'[d] \in Wait => d \in pending'[j]
  BY ZenonT(20) DEF Caller
<1>3. \A k \in Conns, d \in Calls : lane'[k].call = d /\ lane'[k].at = "error" => cancelled'[d]
  BY ZenonT(20) DEF RouteInv, KeepCancels, Cancels
<1> QED BY ZenonT(20), <1>1, <1>2, <1>3, RouteFrame

\* RouteInv over the steps of a caller.
LEMMA RouteInvCall ==
    ASSUME Shapes, HomeInv, RouteInv, ClientNext, NEW c \in Calls,
           \/ Await(c) \/ Lock(c) \/ Dial(c) \/ Write(c) \/ Sent(c) \/ Read(c) \/ ReadLost(c) \/ Abandon(c)
           \/ DropRemove(c) \/ DropCancel(c)
    PROVE  RouteInv'
<1>1. CallerStates = Wait \cup {"start", "lock", "dial", "register", "drop", "dropCancel", "done"}
  BY ZenonT(20) DEF CallerStates, Wait
<1>2. CASE Await(c)
  BY ZenonT(20), <1>1, <1>2, AwaitDoes, RouteMoves DEF Wait, KeepConns, KeepServer
<1>3. CASE Lock(c)
  <2>1. /\ KeepCancels /\ lane' = lane /\ answered' = answered /\ pending' = pending
        /\ \E where \in {"dial", "register"} : Caller(c, where)
        /\ \A d \in Calls : d # c => on'[d] = on[d]
    BY ZenonT(20), <1>3, LockDoes DEF KeepServer, On
  <2> QED BY ZenonT(20), <1>1, <2>1, RouteMoves DEF Wait
<1>4. CASE Dial(c)
  <2>1. /\ KeepCancels /\ lane' = lane /\ answered' = answered /\ pending' = pending
        /\ \E where \in {"done", "register"} : Caller(c, where)
        /\ \A d \in Calls : d # c => on'[d] = on[d]
    BY ZenonT(30), <1>4, DialDoes DEF KeepServer, On
  <2> QED BY ZenonT(20), <1>1, <2>1, RouteMoves DEF Wait
<1>5. CASE Write(c)
  <2>1. /\ KeepCancels /\ lane' = lane /\ answered' = answered /\ pending' = pending /\ on' = on /\ caller[c] \in Wait
        /\ \E where \in {"sending", "done", "drop"} : Caller(c, where)
    BY ZenonT(30), <1>5, WriteDoes DEF KeepConns, Wait
  <2> QED BY ZenonT(20), <1>1, <2>1, RouteMoves DEF Wait
<1>6. CASE Sent(c)
  <2>1. /\ KeepCancels /\ lane' = lane /\ answered' = answered /\ pending' = pending /\ on' = on /\ caller[c] \in Wait
        /\ \E where \in {"reading", "done", "drop"} : Caller(c, where)
    BY ZenonT(30), <1>6, SentDoes DEF KeepConns, KeepServer, Wait
  <2> QED BY ZenonT(20), <1>1, <2>1, RouteMoves DEF Wait
<1>7. CASE Read(c)
  <2>1. /\ KeepCancels /\ lane' = lane /\ answered' = answered /\ pending' = pending /\ on' = on /\ caller[c] \in Wait
        /\ \E where \in {"reading", "drop"} : Caller(c, where)
    BY ZenonT(30), <1>7, ReadDoes DEF KeepConns, KeepServer, Wait
  <2> QED BY ZenonT(20), <1>1, <2>1, RouteMoves DEF Wait
<1>8. CASE ReadLost(c) \/ Abandon(c)
  <2>1. /\ KeepCancels /\ lane' = lane /\ answered' = answered /\ pending' = pending /\ on' = on
        /\ \E where \in {"done", "drop"} : Caller(c, where)
    BY ZenonT(20), <1>8, CallEnds DEF KeepServer
  <2> QED BY ZenonT(20), <1>1, <2>1, RouteMoves DEF Wait
<1>9. CASE DropRemove(c)
  <2>1. /\ KeepCancels /\ lane' = lane /\ answered' = answered /\ on' = on /\ Caller(c, "dropCancel")
        /\ on[c] \in Conns /\ Pends(on[c], pending[on[c]] \ {c})
    BY ZenonT(20), <1>9, DropRemoveDoes, Homed DEF KeepServer
  <2>2. \A j \in Conns : pending'[j] = pending[j] \/ pending'[j] = pending[j] \ {c}
    BY ZenonT(20), <2>1 DEF Pends
  <2> QED BY SMTT(30), <1>1, <2>1, <2>2, RouteMoves DEF Wait
<1>10. CASE DropCancel(c)
  <2>1. /\ KeepCancels \/ Cancels(c)
        /\ lane' = lane /\ answered' = answered /\ pending' = pending /\ on' = on /\ Caller(c, "done")
    BY ZenonT(20), <1>10, DropCancelDoes DEF KeepConns, KeepServer
  <2> QED BY ZenonT(20), <1>1, <2>1, RouteMoves DEF Wait
<1> QED BY ZenonT(20), <1>2, <1>3, <1>4, <1>5, <1>6, <1>7, <1>8, <1>9, <1>10

\* A call that expects a reply goes on to its send only from `pending`.
LEMMA RegisterInserts ==
    ASSUME Shapes, NEW c \in Calls, Register(c), on[c] \in Conns, c \notin Events
    PROVE  \/ pending' = pending /\ \E where \in {"done", "lock"} : Caller(c, where)
           \/ Caller(c, "write") /\ Pends(on[c], pending[on[c]] \cup {c})
<1>1. CASE open[on[c]]
  <2>1. Goes(c, "write") /\ pending' = [pending EXCEPT ![on[c]] = @ \cup {c}]
    BY ZenonT(20), <1>1 DEF Register
  <2>2. pending' = [pending EXCEPT ![on[c]] = pending[on[c]] \cup {c}] /\ pending[on[c]] \cup {c} \in SUBSET Calls
    BY ZenonT(20), <2>1 DEF Shapes
  <2> QED BY ZenonT(30), <2>1, <2>2, GoesDoes, PendsDoes DEF CallerStates
<1>2. CASE ~open[on[c]]
  <2>1. pending' = pending /\ (Ends(c, "lost") \/ Goes(c, "lock"))
    BY ZenonT(20), <1>2 DEF Register
  <2> QED BY ZenonT(20), <2>1, GoesDoes, EndsDoes DEF CallerStates, Results
<1> QED BY ZenonT(20), <1>1, <1>2

\* RouteInv over Register.
LEMMA RouteInvRegister ==
    ASSUME Shapes, HomeInv, RouteInv, ClientNext, NEW c \in Calls, Register(c)
    PROVE  RouteInv'
<1>1. /\ on' = on /\ KeepCancels /\ lane' = lane /\ answered' = answered /\ on[c] \in Conns
  BY ZenonT(30), RegisterDoes, Homed DEF KeepServer
<1>2. CallerStates = Wait \cup {"start", "lock", "dial", "register", "drop", "dropCancel", "done"}
  BY ZenonT(20) DEF CallerStates, Wait
<1>3. CASE c \in Events
  <2>1. pending' = pending /\ \E where \in {"write", "done", "lock"} : Caller(c, where)
    BY ZenonT(30), <1>1, <1>3, RegisterDoes
  <2> QED BY ZenonT(20), <1>1, <1>2, <1>3, <2>1, RouteMoves DEF Wait
<1>4. CASE c \notin Events /\ pending' = pending /\ \E where \in {"done", "lock"} : Caller(c, where)
  BY ZenonT(20), <1>1, <1>2, <1>4, RouteMoves DEF Wait
<1>5. CASE c \notin Events /\ Caller(c, "write") /\ Pends(on[c], pending[on[c]] \cup {c})
  <2>1. \A d \in Calls : Overflowed(d) <=> Overflowed(d)'
    BY ZenonT(20), <1>1 DEF Overflowed, KeepCancels
  <2>2. \A j \in Conns : pending[j] \subseteq pending'[j]
    BY ZenonT(20), <1>5 DEF Pends
  <2>3. ASSUME NEW d \in Calls PROVE RouteAt(d)'
    <3>1. CASE d = c
      BY ZenonT(20), <1>1, <1>5, <3>1 DEF RouteAt, Pends
    <3>2. CASE d # c /\ caller[d] \in Wait
      <4>1. on[d] \in Conns /\ caller'[d] = caller[d]
        BY ZenonT(20), <1>5, <3>2, Homed DEF Caller, Wait
      <4> QED BY ZenonT(20), <1>1, <2>1, <2>2, <4>1 DEF RouteInv, RouteAt
    <3>3. CASE d # c /\ caller[d] \notin Wait
      BY ZenonT(20), <1>5, <3>3 DEF RouteAt, Caller, Wait
    <3> QED BY ZenonT(20), <3>1, <3>2, <3>3
  <2>4. \A k \in Conns, d \in Calls : lane'[k].call = d /\ lane'[k].at = "error" => cancelled'[d]
    BY ZenonT(20), <1>1 DEF RouteInv, KeepCancels
  <2> QED BY ZenonT(20), <2>3, <2>4 DEF RouteInv
<1>6. c \notin Events => \/ pending' = pending /\ \E where \in {"done", "lock"} : Caller(c, where)
                         \/ Caller(c, "write") /\ Pends(on[c], pending[on[c]] \cup {c})
  BY ZenonT(20), <1>1, RegisterInserts
<1> QED BY ZenonT(20), <1>3, <1>4, <1>5, <1>6

\* RouteInv over the steps of a pump.
LEMMA RouteInvPump ==
    ASSUME Shapes, HomeInv, RouteInv, ClientNext, NEW c \in Calls, PumpCheck(c) \/ PumpPull(c) \/ PumpSend(c)
    PROVE  RouteInv'
<1>1. caller' = caller /\ on' = on /\ cancelled' = cancelled /\ lane' = lane /\ pending' = pending /\ answered' = answered
  BY ZenonT(20), PumpsDoes DEF KeepCall, KeepCancels, KeepConns, KeepServer
<1>2. \A k \in Conns, d \in Calls : lane'[k].call = d /\ lane'[k].at = "error" => cancelled'[d]
  BY ZenonT(20), <1>1 DEF RouteInv
<1> QED BY ZenonT(20), <1>1, <1>2, RouteFrame

\* RouteInv over `goaway` and the lane's end.
LEMMA RouteInvCloses ==
    ASSUME Shapes, HomeInv, RouteInv, ClientNext, NEW k \in Conns, Goaway(k) \/ LaneEnds(k)
    PROVE  RouteInv'
<1>1. /\ caller' = caller /\ on' = on /\ cancelled' = cancelled /\ answered' = answered
      /\ \A j \in Conns : \/ lane'[j] = lane[j] /\ pending'[j] = pending[j]
                          \/ lane'[j].at = "ended"
  BY ZenonT(30), LaneClosesDoes DEF KeepCall, KeepCancels, KeepServer, Lane, Pends
<1>2. \A j \in Conns, d \in Calls : lane'[j].call = d /\ lane'[j].at = "error" => cancelled'[d]
  BY ZenonT(20), <1>1 DEF RouteInv
<1> QED BY ZenonT(20), <1>1, <1>2, RouteFrame

\* RouteInv over a frame of the server.
LEMMA RouteInvFrame ==
    ASSUME Shapes, HomeInv, RouteInv, ClientNext, NEW k \in Conns, NEW c \in Calls, NEW kind \in {"item"} \cup FinalKinds,
           LaneFrame(k, c, kind)
    PROVE  RouteInv'
<1>1. /\ caller' = caller /\ on' = on /\ cancelled' = cancelled /\ lane[k].at = "next"
  BY ZenonT(30), LaneFrameDoes DEF KeepCall, KeepCancels
<1>2. \/ answered' = answered /\ pending' = pending
      \/ answered' = answered \cup {c} /\ Pends(k, pending[k] \ {c})
  BY ZenonT(30), LaneFrameDoes
<1>3. \A j \in Conns : lane'[j] = lane[j] \/ (j = k /\ lane'[j].at = "found")
  BY ZenonT(30), LaneFrameDoes DEF Lane
<1>4. answered \subseteq answered' /\ \A j \in Conns : \A d \in pending[j] : d \in pending'[j] \/ d \in answered'
  BY ZenonT(20), <1>2 DEF Pends
<1>5. \A j \in Conns, d \in Calls : lane'[j].call = d /\ lane'[j].at = "error" => cancelled'[d]
  BY ZenonT(20), <1>1, <1>3 DEF RouteInv
<1> QED BY ZenonT(20), <1>1, <1>3, <1>4, <1>5, RouteFrame

\* RouteInv over the steps of a lane.
LEMMA RouteInvLane == ASSUME Shapes, HomeInv, RouteInv, ClientNext, NEW k \in Conns, LaneStep(k) PROVE RouteInv'
<1>1. /\ lane[k].at \in LaneAt /\ lane[k].call \in Calls /\ KeepLaneRest
      /\ \A j \in Conns : j # k => lane'[j] = lane[j]
  BY ZenonT(30), LaneQueueDoes, OverflowDoes DEF LaneStep, Lane, LaneAt
<1>2. caller' = caller /\ on' = on /\ answered' = answered
  BY ZenonT(20), <1>1 DEF KeepLaneRest, KeepCall, KeepServer
<1>3. \A j \in Conns : \A d \in pending[j] : d \in pending'[j] \/ Overflowed(d)'
  <2>1. CASE pending' = pending
    BY ZenonT(20), <2>1
  <2>2. CASE lane'[k].at = "cancel" /\ lane'[k].call = lane[k].call /\ Pends(k, pending[k] \ {lane[k].call})
    <3>1. PICK c \in Calls : lane[k].call = c
      BY ZenonT(20), <1>1
    <3>2. Overflowed(c)'
      BY ZenonT(20), <2>2, <3>1 DEF Overflowed, LaneAt
    <3> QED BY ZenonT(20), <2>2, <3>1, <3>2 DEF Pends
  <2> QED BY ZenonT(20), <2>1, <2>2, LaneQueueDoes, OverflowDoes DEF LaneStep, Lane
<1>4. \A d \in Calls : cancelled[d] => cancelled'[d]
  BY ZenonT(30), LaneQueueDoes, OverflowDoes DEF LaneStep, KeepCancels, Cancels
<1>5. \A d \in Calls : lane'[k].call = d /\ lane'[k].at = "error" => cancelled'[d]
  <2>1. CASE LaneQueue(k)
    BY ZenonT(20), <2>1, LaneQueueDoes DEF Lane
  <2>2. CASE OverflowRemove(k) \/ OverflowCancel(k) \/ OverflowError(k)
    <3>1. lane'[k].at = "error" => lane'[k].call = lane[k].call /\ Cancels(lane[k].call)
      BY ZenonT(30), <2>2, OverflowDoes DEF Lane
    <3> QED BY ZenonT(20), <3>1 DEF Cancels
  <2> QED BY ZenonT(20), <2>1, <2>2 DEF LaneStep
<1>6. \A j \in Conns, d \in Calls : lane'[j].call = d /\ lane'[j].at = "error" => cancelled'[d]
  BY ZenonT(20), <1>1, <1>4, <1>5 DEF RouteInv
<1>7. \A j \in Conns : lane[j].at = "ended" => lane'[j].at = "ended"
  BY ZenonT(20), <1>1 DEF LaneAt
<1> QED BY ZenonT(20), <1>2, <1>3, <1>6, <1>7, RouteFrame

\* Every step keeps RouteInv.
LEMMA RouteInvStep == ASSUME Shapes, HomeInv, RouteInv, ClientNext PROVE RouteInv'
BY ZenonT(20), RouteInvCall, RouteInvRegister, RouteInvPump, RouteInvCloses, RouteInvFrame, RouteInvLane
   DEF ClientNext, CallStep, ServerStep

---------------------------------------------------------------------------
\* OrderInv.  A call whose replies are as they were.
LEMMA OrderAtKept ==
    ASSUME NEW c \in Calls, OrderAt(c), queue'[c] = queue[c], got'[c] = got[c], told'[c] = told[c],
           ReaderGone(c) => ReaderGone(c)', Overflowed(c) => Overflowed(c)', ~Overflowed(c)' => (Held(c)' <=> Held(c)),
           result'[c] \in FinalKinds => result[c] \in FinalKinds
    PROVE  OrderAt(c)'
BY ZenonT(20) DEF OrderAt

\* A caller that has dropped its reading end is owed nothing more.
LEMMA OrderGone ==
    ASSUME NEW c \in Calls, ReaderGone(c)', c \in Streamed /\ result'[c] \in FinalKinds => got'[c] = told'[c]
    PROVE  OrderAt(c)'
BY ZenonT(20) DEF OrderAt

\* A step that touches the replies of one call alone.
LEMMA OrderOthers ==
    ASSUME OrderInv, NEW c \in Calls, OrderAt(c)',
           \A d \in Calls : d # c => /\ queue'[d] = queue[d] /\ got'[d] = got[d] /\ told'[d] = told[d] /\ result'[d] = result[d]
                                     /\ caller'[d] = caller[d] /\ cancelled'[d] = cancelled[d],
           \A j \in Conns : lane'[j] = lane[j] \/ (lane[j].call \in {c, NoCall} /\ lane'[j].call \in {c, NoCall}),
           \A j \in Conns : lane'[j].call = c /\ lane'[j].at = "found" /\ lane'[j].frame.kind = "item" => lane'[j].frame.n = told'[c]
    PROVE  OrderInv'
<1>1. \A d \in Calls : d # NoCall
  BY ZenonT(20), ClientAssumption DEF NoCall
<1>2. ASSUME NEW d \in Calls, d # c PROVE OrderAt(d)'
  <2>1. \A j \in Conns : (lane'[j].call = d \/ lane[j].call = d) => lane'[j] = lane[j]
    BY ZenonT(20), <1>1, <1>2
  <2>2. (Overflowed(d)' <=> Overflowed(d)) /\ (Held(d)' <=> Held(d)) /\ (ReaderGone(d)' <=> ReaderGone(d))
    BY ZenonT(20), <1>2, <2>1 DEF Overflowed, Held, ReaderGone
  <2> QED BY ZenonT(20), <1>2, <2>2, OrderAtKept DEF OrderInv
<1>3. \A j \in Conns, d \in Calls :
        lane'[j].call = d /\ lane'[j].at = "found" /\ lane'[j].frame.kind = "item" => lane'[j].frame.n = told'[d]
  BY <1>1 DEF OrderInv
<1> QED BY ZenonT(20), <1>2, <1>3 DEF OrderInv

\* A caller's step that reads nothing.
LEMMA OrderMoves ==
    ASSUME OrderInv, NEW c \in Calls, NEW where \in CallerStates, Caller(c, where), ReaderGone(c) => ReaderGone(c)',
           result' = result \/ \E what \in Results \ FinalKinds : Result(c, what),
           queue' = queue, got' = got, told' = told, lane' = lane, KeepCancels
    PROVE  OrderInv'
<1>1. \A d \in Calls : (Overflowed(d)' <=> Overflowed(d)) /\ (Held(d)' <=> Held(d))
  BY ZenonT(20) DEF Overflowed, Held, KeepCancels
<1>2. result'[c] \in FinalKinds => result[c] \in FinalKinds
  BY ZenonT(20) DEF Result
<1>3. OrderAt(c)'
  BY ZenonT(20), <1>1, <1>2, OrderAtKept DEF OrderInv
<1>4. \A d \in Calls : d # c => result'[d] = result[d] /\ caller'[d] = caller[d] /\ cancelled'[d] = cancelled[d]
  BY ZenonT(20) DEF Result, Caller, KeepCancels
<1>5. \A j \in Conns : lane'[j].call = c /\ lane'[j].at = "found" /\ lane'[j].frame.kind = "item" => lane'[j].frame.n = told'[c]
  BY ZenonT(20) DEF OrderInv
<1> QED BY ZenonT(20), <1>3, <1>4, <1>5, OrderOthers

\* OrderInv over the steps of a caller.
LEMMA OrderInvCall ==
    ASSUME Shapes, OrderInv, NEW c \in Calls,
           \/ Await(c) \/ Lock(c) \/ Dial(c) \/ Register(c) \/ Write(c) \/ Sent(c) \/ ReadLost(c) \/ Abandon(c) \/ DropRemove(c)
    PROVE  OrderInv'
<1>1. /\ \E where \in CallerStates : Caller(c, where) /\ (caller[c] = "drop" => where = "dropCancel")
      /\ caller[c] \notin {"dropCancel", "done"}
      /\ result' = result \/ \E what \in {"refused", "unconnected", "lost", "timeout", "sent", "unsent", "abandoned"} : Result(c, what)
      /\ queue' = queue /\ got' = got /\ told' = told /\ lane' = lane /\ KeepCancels
  <2> USE DEF CallerStates
  <2>1. CASE Await(c)
    BY ZenonT(20), <2>1, AwaitDoes DEF KeepReplies, KeepConns, KeepServer
  <2>2. CASE Lock(c)
    BY ZenonT(20), <2>2, LockDoes DEF KeepReplies, KeepServer
  <2>3. CASE Dial(c)
    BY ZenonT(30), <2>3, DialDoes DEF KeepReplies, KeepServer
  <2>4. CASE Register(c)
    BY ZenonT(30), <2>4, RegisterDoes DEF KeepReplies, KeepServer
  <2>5. CASE Write(c)
    BY ZenonT(30), <2>5, WriteDoes DEF KeepReplies, KeepConns
  <2>6. CASE Sent(c)
    BY ZenonT(30), <2>6, SentDoes DEF KeepConns, KeepServer
  <2>7. CASE ReadLost(c) \/ Abandon(c)
    BY ZenonT(20), <2>7, CallEnds DEF KeepReplies, KeepServer
  <2>8. CASE DropRemove(c)
    BY ZenonT(30), <2>8, DropRemoveDoes DEF KeepReplies, KeepServer
  <2> QED BY ZenonT(20), <2>1, <2>2, <2>3, <2>4, <2>5, <2>6, <2>7, <2>8
<1>2. {"refused", "unconnected", "lost", "timeout", "sent", "unsent", "abandoned"} \subseteq Results \ FinalKinds
  BY ZenonT(20) DEF Results, FinalKinds
<1>3. PICK where \in CallerStates : Caller(c, where) /\ (caller[c] = "drop" => where = "dropCancel")
  BY ZenonT(20), <1>1
<1>4. ReaderGone(c) => ReaderGone(c)'
  BY ZenonT(20), <1>1, <1>3 DEF ReaderGone, Caller
<1> QED BY ZenonT(20), <1>1, <1>2, <1>3, <1>4, OrderMoves

\* OrderInv over DropCancel.
LEMMA OrderInvDropCancel == ASSUME Shapes, OrderInv, NEW c \in Calls, DropCancel(c) PROVE OrderInv'
<1>1. /\ caller[c] = "dropCancel" /\ Caller(c, "done") /\ result' = result /\ queue' = queue /\ got' = got /\ told' = told
      /\ lane' = lane
  BY ZenonT(20), DropCancelDoes DEF KeepReplies, KeepConns, KeepServer
<1>2. \A d \in Calls : d # c => cancelled'[d] = cancelled[d] /\ caller'[d] = caller[d]
  BY ZenonT(20), <1>1, DropCancelDoes DEF KeepCancels, Cancels, Caller
<1>3. ReaderGone(c)' /\ OrderAt(c)
  BY ZenonT(20), <1>1 DEF Caller, ReaderGone, OrderInv
<1>4. OrderAt(c)'
  BY ZenonT(20), <1>1, <1>3, OrderGone DEF OrderAt
<1>5. \A j \in Conns : lane'[j].call = c /\ lane'[j].at = "found" /\ lane'[j].frame.kind = "item" => lane'[j].frame.n = told'[c]
  BY ZenonT(20), <1>1 DEF OrderInv
<1> QED BY ZenonT(20), <1>1, <1>2, <1>4, <1>5, OrderOthers

\* Items up to a place of the shorter queue are items up to the next of the longer.
LEMMA CleanShift ==
    ASSUME Shapes, NEW c \in Calls, TakesOne(c), queue[c][1].kind = "item", NEW i \in 0 .. Len(queue[c]) - 1, Clean(queue'[c], i)
    PROVE  Clean(queue[c], i + 1)
<1>1. Len(queue[c]) \in Nat /\ i \in Nat /\ i <= Len(queue[c]) - 1
  BY DEF TakesOne
<1>2. ASSUME NEW j \in 1 .. i + 1 PROVE queue[c][j].kind = "item"
  <2>1. CASE j = 1
    BY ZenonT(20), <2>1
  <2>2. CASE j # 1
    <3>1. j - 1 \in 1 .. i /\ j - 1 \in 1 .. Len(queue[c]) - 1 /\ (j - 1) + 1 = j
      BY <1>1, <2>2
    <3>2. queue'[c][j - 1] = queue[c][j]
      BY ZenonT(20), <3>1 DEF TakesOne
    <3> QED BY ZenonT(20), <3>1, <3>2 DEF Clean
  <2> QED BY ZenonT(20), <2>1, <2>2
<1> QED BY ZenonT(20), <1>2 DEF Clean

\* OrderInv over Read.
LEMMA OrderInvRead == ASSUME Shapes, EndInv, OrderInv, NEW c \in Calls, Read(c) PROVE OrderInv'
<1>1. caller[c] = "reading" /\ TakesOne(c) /\ cancelled' = cancelled /\ lane' = lane /\ told' = told
  BY ZenonT(30), ReadDoes DEF KeepCancels, KeepConns, KeepServer
<1>2. ~ReaderGone(c) /\ OrderAt(c) /\ result[c] = "none"
  BY ZenonT(20), <1>1 DEF ReaderGone, OrderInv, EndInv, EndAt
<1>3. got[c] \in Nat /\ told[c] \in Nat /\ Len(queue[c]) \in Nat \ {0} /\ Len(queue'[c]) = Len(queue[c]) - 1
  BY <1>1, ClientFacts DEF Shapes, TakesOne
<1>4. \A d \in Calls : d # c => /\ queue'[d] = queue[d] /\ got'[d] = got[d] /\ told'[d] = told[d] /\ result'[d] = result[d]
                                /\ caller'[d] = caller[d] /\ cancelled'[d] = cancelled[d]
  BY ZenonT(30), <1>1, ReadDoes DEF TakesOne, Caller, Result, Gets
<1>5. ASSUME queue[c][1].kind = "item", Caller(c, "reading"), result' = result, Gets(c) PROVE OrderAt(c)'
  <2>1. got'[c] = got[c] + 1 /\ result'[c] = "none" /\ ~ReaderGone(c)'
    BY ZenonT(20), <1>2, <1>5 DEF Gets, Caller, ReaderGone
  <2>2. ASSUME NEW i \in 1 .. Len(queue'[c])
        PROVE  /\ Clean(queue'[c], i) => queue'[c][i].n = got'[c] + i
               /\ Clean(queue'[c], i - 1) /\ queue'[c][i].kind \in FinalKinds => told'[c] = got'[c] + (i - 1)
    <3>1. /\ i + 1 \in 1 .. Len(queue[c]) /\ i \in 0 .. Len(queue[c]) - 1 /\ i - 1 \in 0 .. Len(queue[c]) - 1
          /\ (i - 1) + 1 = i /\ (i + 1) - 1 = i
      BY <1>3
    <3>2. queue'[c][i] = queue[c][i + 1]
      BY ZenonT(20), <1>1, <1>3 DEF TakesOne
    <3>3. Clean(queue'[c], i) => queue[c][i + 1].n = got[c] + (i + 1)
      BY ZenonT(20), <1>1, <1>2, <1>5, <3>1, CleanShift DEF OrderAt
    <3>4. Clean(queue'[c], i - 1) => Clean(queue[c], i)
      BY ZenonT(20), <1>1, <1>5, <3>1, CleanShift
    <3>5. Clean(queue[c], i) /\ queue[c][i + 1].kind \in FinalKinds => told[c] = got[c] + i
      BY ZenonT(20), <1>2, <3>1 DEF OrderAt
    <3>6. got'[c] + i = got[c] + (i + 1) /\ got'[c] + (i - 1) = got[c] + i
      BY SMTT(30), <1>3, <2>1
    <3>7. Clean(queue'[c], i) => queue'[c][i].n = got'[c] + i
      BY ZenonT(20), <3>2, <3>3, <3>6
    <3>8. Clean(queue'[c], i - 1) /\ queue'[c][i].kind \in FinalKinds => told'[c] = got'[c] + (i - 1)
      BY ZenonT(20), <1>1, <3>2, <3>4, <3>5, <3>6
    <3> QED BY ZenonT(20), <3>7, <3>8
  <2>3. (Overflowed(c)' <=> Overflowed(c)) /\ (Held(c)' <=> Held(c))
    BY ZenonT(20), <1>1 DEF Overflowed, Held
  <2>4. Clean(queue'[c], Len(queue'[c])) => Clean(queue[c], Len(queue[c]))
    <3>1. Len(queue'[c]) \in 0 .. Len(queue[c]) - 1 /\ Len(queue'[c]) + 1 = Len(queue[c])
      BY <1>3
    <3> QED BY ZenonT(20), <1>1, <1>5, <3>1, CleanShift
  <2>5. ~Overflowed(c) /\ Clean(queue[c], Len(queue[c])) =>
          /\ Held(c) => told'[c] = got'[c] + Len(queue'[c]) + 1
          /\ ~Held(c) => told'[c] = got'[c] + Len(queue'[c])
    <3>1. ~Overflowed(c) /\ Clean(queue[c], Len(queue[c])) =>
            /\ Held(c) => told[c] = got[c] + Len(queue[c]) + 1
            /\ ~Held(c) => told[c] = got[c] + Len(queue[c])
      BY ZenonT(20), <1>2 DEF OrderAt
    <3>2. got'[c] + Len(queue'[c]) = got[c] + Len(queue[c])
      BY SMTT(30), <1>3, <2>1
    <3> QED BY ZenonT(20), <1>1, <3>1, <3>2
  <2> QED BY ZenonT(20), <2>1, <2>2, <2>3, <2>4, <2>5 DEF OrderAt, FinalKinds
<1>6. ASSUME queue[c][1].kind \in FinalKinds, Caller(c, "drop"), got' = got PROVE OrderAt(c)'
  <2>1. 1 \in 1 .. Len(queue[c]) /\ 1 - 1 = 0 /\ got[c] + 0 = got[c]
    BY <1>3
  <2>2. Clean(queue[c], 0)
    BY DEF Clean
  <2>3. told[c] = got[c]
    BY ZenonT(20), <1>2, <1>6, <2>1, <2>2 DEF OrderAt
  <2>4. ReaderGone(c)'
    BY ZenonT(20), <1>6 DEF Caller, ReaderGone
  <2> QED BY ZenonT(20), <1>1, <1>6, <2>3, <2>4, OrderGone
<1>7. ASSUME Caller(c, "drop"), NEW what \in ErrorKinds \cup {"unexpected"}, Result(c, what) PROVE OrderAt(c)'
  <2>1. result'[c] \notin FinalKinds
    BY ZenonT(20), <1>7 DEF Result, FinalKinds, ErrorKinds
  <2>2. ReaderGone(c)'
    BY ZenonT(20), <1>7 DEF Caller, ReaderGone
  <2> QED BY ZenonT(20), <2>1, <2>2, OrderGone
<1>8. OrderAt(c)'
  BY ZenonT(30), <1>5, <1>6, <1>7, ReadDoes
<1>9. \A j \in Conns : lane'[j].call = c /\ lane'[j].at = "found" /\ lane'[j].frame.kind = "item" => lane'[j].frame.n = told'[c]
  BY ZenonT(20), <1>1 DEF OrderInv
<1> QED BY ZenonT(20), <1>1, <1>4, <1>8, <1>9, OrderOthers

\* A frame queued after those there.
LEMMA OrderAppends ==
    ASSUME Shapes, NEW c \in Calls, NEW frame, OrderAt(c), ~ReaderGone(c), Queues(c, frame),
           got'[c] = got[c], told'[c] = told[c], result'[c] = result[c],
           frame.kind = "item" => /\ Clean(queue[c], Len(queue[c])) => frame.n = told[c] /\ told[c] = got[c] + Len(queue[c]) + 1
                                  /\ ~Held(c)',
           frame.kind \in FinalKinds => (Clean(queue[c], Len(queue[c])) => told[c] = got[c] + Len(queue[c]))
    PROVE  OrderAt(c)'
<1> DEFINE n == Len(queue[c])
<1>1. n \in Nat /\ got[c] \in Nat /\ told[c] \in Nat
  BY SMTT(30), ClientFacts DEF Shapes
<1>2. Len(queue'[c]) = n + 1 /\ queue'[c][n + 1] = frame /\ \A i \in 1 .. n : queue'[c][i] = queue[c][i]
  BY ZenonT(20) DEF Queues
<1>3. PICK m \in Nat : m = Len(queue[c])
  BY ZenonT(20), <1>1
<1> HIDE DEF n
<1>4. Len(queue'[c]) = m + 1 /\ queue'[c][m + 1] = frame /\ \A i \in 1 .. m : queue'[c][i] = queue[c][i]
  BY ZenonT(20), <1>2, <1>3 DEF n
<1>5. \A i \in 0 .. m : Clean(queue'[c], i) <=> Clean(queue[c], i)
  BY SMTT(30), <1>3, <1>4 DEF Clean
<1>6. Clean(queue'[c], m + 1) => frame.kind = "item" /\ Clean(queue[c], m)
  <2>1. m + 1 \in 1 .. m + 1 /\ \A i \in 1 .. m : i \in 1 .. m + 1
    BY <1>3
  <2> QED BY ZenonT(20), <1>4, <2>1 DEF Clean
<1>7. ASSUME NEW i \in 1 .. m + 1
      PROVE  /\ Clean(queue'[c], i) => queue'[c][i].n = got[c] + i
             /\ Clean(queue'[c], i - 1) /\ queue'[c][i].kind \in FinalKinds => told[c] = got[c] + (i - 1)
  <2>1. CASE i \in 1 .. m
    <3>1. i \in 0 .. m /\ i - 1 \in 0 .. m
      BY <1>3, <2>1
    <3> QED BY ZenonT(20), <1>3, <1>4, <1>5, <2>1, <3>1 DEF OrderAt
  <2>2. CASE i = m + 1
    <3>1. i - 1 = m /\ m \in 0 .. m
      BY <1>3, <2>2
    <3>2. Clean(queue'[c], m) <=> Clean(queue[c], m)
      BY ZenonT(20), <1>5, <3>1
    <3>3. Clean(queue'[c], i) => queue'[c][i].n = got[c] + i
      BY SMTT(30), <1>1, <1>3, <1>4, <1>6, <2>2
    <3>4. Clean(queue'[c], i - 1) /\ queue'[c][i].kind \in FinalKinds => told[c] = got[c] + (i - 1)
      BY ZenonT(20), <1>3, <1>4, <2>2, <3>1, <3>2
    <3> QED BY ZenonT(20), <3>3, <3>4
  <2> QED BY SMTT(30), <1>3, <2>1, <2>2
<1>8. ~Overflowed(c)' /\ Clean(queue'[c], m + 1) => ~Held(c)' /\ told[c] = got[c] + (m + 1)
  BY SMTT(30), <1>1, <1>3, <1>6
<1> QED BY ZenonT(20), <1>4, <1>7, <1>8 DEF OrderAt

\* OrderInv over the steps of a pump.
LEMMA OrderInvPump ==
    ASSUME Shapes, OrderInv, NEW c \in Calls, PumpCheck(c) \/ PumpPull(c) \/ PumpSend(c)
    PROVE  OrderInv'
<1>1. caller' = caller /\ result' = result /\ cancelled' = cancelled /\ lane' = lane /\ got' = got /\ told' = told
  BY ZenonT(20), PumpsDoes DEF KeepCall, KeepCancels, KeepConns, KeepServer
<1>2. /\ OrderAt(c) /\ (ReaderGone(c)' <=> ReaderGone(c)) /\ (Overflowed(c)' <=> Overflowed(c)) /\ (Held(c)' <=> Held(c))
  BY ZenonT(20), <1>1 DEF OrderInv, ReaderGone, Overflowed, Held
<1>3. ASSUME queue'[c] = queue[c] PROVE OrderAt(c)'
  BY ZenonT(20), <1>1, <1>2, <1>3, OrderAtKept
<1>4. ASSUME NEW kind \in ErrorKinds, Queues(c, Plain(kind)), ~ReaderGone(c) PROVE OrderAt(c)'
  <2>1. Plain(kind).kind # "item" /\ Plain(kind).kind \notin FinalKinds
    BY ZenonT(20), FrameFacts DEF FinalKinds, ErrorKinds
  <2> QED BY ZenonT(20), <1>1, <1>2, <1>4, <2>1, OrderAppends
<1>5. OrderAt(c)' /\ \A d \in Calls : d # c => queue'[d] = queue[d]
  BY ZenonT(20), <1>3, <1>4, PumpsDoes DEF Queues
<1>6. \A j \in Conns : lane'[j].call = c /\ lane'[j].at = "found" /\ lane'[j].frame.kind = "item" => lane'[j].frame.n = told'[c]
  BY ZenonT(20), <1>1 DEF OrderInv
<1> QED BY ZenonT(20), <1>1, <1>5, <1>6, OrderOthers

\* OrderInv over `goaway` and the lane's end.
LEMMA OrderInvCloses == ASSUME Shapes, OrderInv, NEW k \in Conns, Goaway(k) \/ LaneEnds(k) PROVE OrderInv'
<1>1. /\ caller' = caller /\ result' = result /\ cancelled' = cancelled /\ queue' = queue /\ got' = got /\ told' = told
      /\ \A j \in Conns : lane'[j] = lane[j] \/ (lane[j].at = "next" /\ lane'[j].at = "ended" /\ lane'[j].call = NoCall)
  BY ZenonT(30), LaneClosesDoes DEF KeepCall, KeepCancels, KeepReplies, KeepServer, Lane
<1>2. \A d \in Calls : d # NoCall
  BY ZenonT(20), ClientAssumption DEF NoCall
<1>3. \A j \in Conns, d \in Calls : lane'[j].call = d \/ lane[j].call = d => lane'[j] = lane[j]
  BY ZenonT(20), <1>1, <1>2, LaneFacts DEF LaneAt
<1>4. ASSUME NEW d \in Calls PROVE OrderAt(d)'
  <2>1. (Overflowed(d)' <=> Overflowed(d)) /\ (Held(d)' <=> Held(d)) /\ (ReaderGone(d)' <=> ReaderGone(d))
    BY ZenonT(20), <1>1, <1>3 DEF Overflowed, Held, ReaderGone
  <2> QED BY ZenonT(20), <1>1, <2>1, OrderAtKept DEF OrderInv
<1>5. \A j \in Conns, d \in Calls :
        lane'[j].call = d /\ lane'[j].at = "found" /\ lane'[j].frame.kind = "item" => lane'[j].frame.n = told'[d]
  BY <1>1, <1>3 DEF OrderInv
<1> QED BY ZenonT(20), <1>4, <1>5 DEF OrderInv

\* A call whose lane is between frames has none held, and one it reads is registered, or overflowed.
LEMMA FrameFinds ==
    ASSUME Shapes, HomeInv, RouteInv, NEW k \in Conns, NEW c \in Calls, NEW kind \in {"item"} \cup FinalKinds, LaneFrame(k, c, kind)
    PROVE  /\ \A j \in Conns : lane[j].call # c
           /\ ~ReaderGone(c) /\ ~Overflowed(c) => c \in pending[k]
<1>1. lane[k].at = "next" /\ on[c] = k /\ c \in asked /\ c \notin answered
  BY ZenonT(30), LaneFrameDoes
<1>2. c \notin Events
  BY ZenonT(20) DEF LaneFrame, Reached
<1>3. ASSUME NEW j \in Conns, lane[j].call = c PROVE FALSE
  <2>1. lane[j].at \in LaneAt /\ on[c] = j
    BY ZenonT(20), <1>3, OneLane
  <2> QED BY ZenonT(20), <1>1, <2>1 DEF LaneAt
<1>4. ~ReaderGone(c) => caller[c] \in {"sending", "reading"}
  BY SMTT(30), <1>1 DEF HomeInv, Shapes, CallerStates, ReaderGone
<1>5. ~ReaderGone(c) /\ ~Overflowed(c) => c \in pending[k]
  BY ZenonT(20), <1>1, <1>2, <1>4 DEF RouteInv, RouteAt
<1> QED BY ZenonT(20), <1>3, <1>5

\* OrderInv over a frame of the server.
LEMMA OrderInvFrame ==
    ASSUME Shapes, HomeInv, FinalInv, RouteInv, OrderInv, ClientNext, NEW k \in Conns, NEW c \in Calls,
           NEW kind \in {"item"} \cup FinalKinds, LaneFrame(k, c, kind)
    PROVE  OrderInv'
<1>1. /\ caller' = caller /\ result' = result /\ cancelled' = cancelled /\ queue' = queue /\ got' = got /\ c \notin answered
  BY ZenonT(30), LaneFrameDoes DEF KeepCall, KeepCancels, KeepReplies
<1>2. /\ OrderAt(c) /\ (ReaderGone(c)' <=> ReaderGone(c)) /\ \A j \in Conns : lane[j].call # c
  BY ZenonT(20), <1>1, FrameFinds DEF OrderInv, ReaderGone
<1>3. ~Held(c) /\ (Overflowed(c) => Overflowed(c)')
  BY ZenonT(20), <1>2, OverflowStays DEF Held
<1>4. NoFinal(c) /\ got[c] \in Nat /\ told[c] \in Nat /\ Len(queue[c]) \in Nat
  BY SMTT(30), <1>1, ClientFacts DEF FinalInv, Shapes
<1>5. lane' = lane \/ (lane'[k].call = c /\ \A j \in Conns : j # k => lane'[j] = lane[j])
  <2>1. lane' = lane \/ Lane(k, "found", c, Item(told[c] + 1)) \/ Lane(k, "found", c, Plain(kind))
    BY ZenonT(30), LaneFrameDoes
  <2> QED BY ZenonT(20), <2>1 DEF Lane
<1>6. lane[k].call = NoCall
  <2>1. lane[k].at = "next" /\ lane[k] \in LaneStates
    BY ZenonT(30), LaneFrameDoes DEF Shapes
  <2> QED BY ZenonT(20), <2>1 DEF LaneStates, LaneAt
<1>7. CASE kind \in FinalKinds
  <2>1. kind # "item"
    BY ZenonT(20), <1>7 DEF FinalKinds
  <2>2. told' = told /\ (lane' = lane \/ Lane(k, "found", c, Plain(kind)))
    BY ZenonT(30), <2>1, LaneFrameDoes
  <2>3. \A j \in Conns : lane'[j].call = c => lane'[j].frame.kind # "item"
    <3>1. Plain(kind).kind # "item"
      BY ZenonT(20), <1>7, <2>1, FrameFacts
    <3> QED BY ZenonT(20), <1>2, <2>2, <3>1 DEF Lane
  <2>4. ~Held(c)'
    BY ZenonT(20), <2>3 DEF Held
  <2>5. OrderAt(c)'
    BY ZenonT(20), <1>1, <1>2, <1>3, <2>2, <2>4, OrderAtKept
  <2> QED BY ZenonT(20), <1>1, <1>5, <1>6, <2>2, <2>3, <2>5, OrderOthers
<1>8. CASE kind = "item"
  <2>1. kind \notin FinalKinds
    BY ZenonT(20), <1>8 DEF FinalKinds
  <2>2. Tells(c) /\ (c \in pending[k] => Lane(k, "found", c, Item(told[c] + 1))) /\ told[c] + 1 \in 1 .. MaxItems
    BY ZenonT(30), <2>1, LaneFrameDoes
  <2>3. Item(told[c] + 1).kind = "item" /\ Item(told[c] + 1).n = told[c] + 1
    BY ZenonT(20), <2>2, FrameFacts
  <2>4. told'[c] = told[c] + 1 /\ \A d \in Calls : d # c => told'[d] = told[d]
    BY ZenonT(20), <2>2 DEF Tells
  <2>5. c \in pending[k] => Held(c)'
    BY ZenonT(20), <2>2, <2>3 DEF Held, Lane
  <2>6. \A j \in Conns : lane'[j].call = c => lane'[j].frame.n = told'[c]
    <3>1. CASE c \notin pending[k]
      BY ZenonT(20), <1>2, <3>1, LaneFrameDoes
    <3>2. CASE c \in pending[k]
      BY ZenonT(20), <1>2, <2>2, <2>3, <2>4, <3>2 DEF Lane
    <3> QED BY ZenonT(20), <3>1, <3>2
  <2>7. result[c] \notin FinalKinds /\ \A i \in 1 .. Len(queue[c]) : queue[c][i].kind \notin FinalKinds
    BY ZenonT(20), <1>4 DEF NoFinal, NoFinalQueued
  <2>8. ~ReaderGone(c) /\ ~Overflowed(c)' /\ Clean(queue[c], Len(queue[c])) =>
          Held(c)' /\ told'[c] = got[c] + Len(queue[c]) + 1
    <3>1. ~ReaderGone(c) /\ ~Overflowed(c)' => ~Overflowed(c) /\ Held(c)'
      BY ZenonT(20), <1>3, <2>5, FrameFinds
    <3>2. ~ReaderGone(c) /\ ~Overflowed(c) /\ Clean(queue[c], Len(queue[c])) => told[c] = got[c] + Len(queue[c])
      BY ZenonT(20), <1>2, <1>3 DEF OrderAt
    <3> QED BY ZenonT(20), <1>4, <2>4, <3>1, <3>2
  <2>9. ~ReaderGone(c) => \A i \in 1 .. Len(queue[c]) : Clean(queue[c], i) => queue[c][i].n = got[c] + i
    BY ZenonT(20), <1>2 DEF OrderAt
  <2>10. OrderAt(c)'
    BY ZenonT(20), <1>1, <1>2, <2>7, <2>8, <2>9 DEF OrderAt
  <2> QED BY ZenonT(30), <1>1, <1>5, <1>6, <2>4, <2>6, <2>10, OrderOthers
<1> QED BY ZenonT(20), <1>7, <1>8

\* OrderInv over the steps of a lane.
LEMMA OrderInvLane ==
    ASSUME Shapes, HomeInv, FinalInv, RouteInv, OrderInv, ClientNext, NEW k \in Conns, LaneStep(k)
    PROVE  OrderInv'
<1>1. /\ lane[k].at \in LaneAt /\ lane[k].call \in Calls /\ KeepLaneRest
      /\ \A j \in Conns : j # k => lane'[j] = lane[j]
  BY ZenonT(30), LaneQueueDoes, OverflowDoes DEF LaneStep, Lane, LaneAt
<1>2. PICK c \in Calls : lane[k].call = c
  BY ZenonT(20), <1>1
<1>3. caller' = caller /\ result' = result /\ got' = got /\ told' = told
  BY ZenonT(20), <1>1 DEF KeepLaneRest, KeepCall, KeepServer
<1>4. \A j \in Conns : j # k => lane[j].call # c
  BY ZenonT(20), <1>2, OneLane
<1>5. OrderAt(c) /\ (ReaderGone(c)' <=> ReaderGone(c)) /\ (Overflowed(c) => Overflowed(c)')
  BY ZenonT(20), <1>3, OverflowStays DEF OrderInv, ReaderGone
<1>6. ReaderGone(c) => OrderAt(c)'
  BY ZenonT(20), <1>3, <1>5, OrderGone DEF OrderAt
<1>7. c # NoCall
  BY ZenonT(20), ClientAssumption DEF NoCall
<1>8. \A d \in Calls : d # c => queue'[d] = queue[d] /\ cancelled'[d] = cancelled[d]
  BY ZenonT(30), <1>2, LaneQueueDoes, OverflowDoes DEF LaneStep, KeepCancels, Queues, Cancels
<1>9. ASSUME OrderAt(c)', lane'[k].call = NoCall \/ (lane'[k].call = c /\ lane'[k].at # "found") PROVE OrderInv'
  <2>1. \A j \in Conns : lane'[j].call = c /\ lane'[j].at = "found" /\ lane'[j].frame.kind = "item" => lane'[j].frame.n = told'[c]
    BY ZenonT(20), <1>1, <1>4, <1>7, <1>9
  <2>2. \A j \in Conns : lane'[j] = lane[j] \/ (lane[j].call \in {c, NoCall} /\ lane'[j].call \in {c, NoCall})
    BY ZenonT(20), <1>1, <1>2, <1>9
  <2> QED BY ZenonT(20), <1>3, <1>8, <1>9, <2>1, <2>2, OrderOthers
<1>10. CASE /\ queue' = queue /\ lane'[k].call = c /\ lane'[k].at \in LaneAt \ {"found"}
  <2>1. Overflowed(c)'
    BY ZenonT(20), <1>10 DEF Overflowed
  <2>2. OrderAt(c)'
    BY ZenonT(20), <1>3, <1>5, <1>10, <2>1, OrderAtKept
  <2> QED BY ZenonT(20), <1>9, <1>10, <2>2
<1>11. ASSUME lane'[k].call = NoCall PROVE ~Held(c)'
  BY ZenonT(20), <1>1, <1>4, <1>7, <1>11 DEF Held
<1>12. CASE lane[k].at = "found" /\ Queues(c, lane[k].frame) /\ lane'[k].call = NoCall
  <2>1. ASSUME ~ReaderGone(c) PROVE OrderAt(c)'
    <3>1. ~cancelled[c]
      BY ZenonT(20), <1>2, <1>12, <2>1 DEF FinalInv
    <3>2. ~Overflowed(c)
      BY ZenonT(20), <1>2, <1>4, <1>12, <3>1 DEF Overflowed
    <3>3. lane[k].frame.kind = "item" => lane[k].frame.n = told[c] /\ Held(c)
      BY ZenonT(20), <1>2, <1>12 DEF OrderInv, Held
    <3>4. lane[k].frame.kind \in FinalKinds => ~Held(c)
      BY ZenonT(20), <1>2, <1>4 DEF Held, FinalKinds
    <3>5. Clean(queue[c], Len(queue[c])) =>
            /\ Held(c) => told[c] = got[c] + Len(queue[c]) + 1
            /\ ~Held(c) => told[c] = got[c] + Len(queue[c])
      BY ZenonT(20), <1>5, <2>1, <3>2 DEF OrderAt
    <3> QED BY ZenonT(20), <1>3, <1>5, <1>11, <1>12, <2>1, <3>3, <3>4, <3>5, OrderAppends
  <2> QED BY ZenonT(20), <1>6, <1>9, <1>12, <2>1
<1>13. CASE Queues(c, Plain("overflow")) /\ lane'[k].call = NoCall
  <2>1. Plain("overflow").kind # "item" /\ Plain("overflow").kind \notin FinalKinds
    BY ZenonT(20), FrameFacts DEF FinalKinds, ErrorKinds
  <2>2. ASSUME ~ReaderGone(c) PROVE OrderAt(c)'
    BY ZenonT(20), <1>3, <1>5, <1>13, <2>1, <2>2, OrderAppends
  <2> QED BY ZenonT(20), <1>6, <1>9, <1>13, <2>2
<1>14. CASE LaneQueue(k)
  BY ZenonT(20), <1>2, <1>10, <1>12, <1>14, LaneQueueDoes DEF Lane, LaneAt
<1>15. CASE OverflowRemove(k) \/ OverflowCancel(k) \/ OverflowError(k)
  BY ZenonT(30), <1>2, <1>10, <1>13, <1>15, OverflowDoes DEF Lane, LaneAt
<1> QED BY ZenonT(20), <1>14, <1>15 DEF LaneStep

\* Every step keeps OrderInv.
LEMMA OrderInvStep == ASSUME Shapes, HomeInv, EndInv, FinalInv, RouteInv, OrderInv, ClientNext PROVE OrderInv'
BY ZenonT(20), OrderInvCall, OrderInvDropCancel, OrderInvRead, OrderInvPump, OrderInvCloses, OrderInvFrame, OrderInvLane
   DEF ClientNext, CallStep, ServerStep
---------------------------------------------------------------------------
\* The inductive invariant holds of a client that has made no call.
LEMMA ClientInit_Inv == ASSUME ClientInit PROVE ClientInv
<1>1. Shapes
  <2>1. client \in Clients /\ holder \in Calls \cup {NoCall} /\ asked \subseteq Calls /\ answered \subseteq asked
    BY ZenonT(20) DEF ClientInit
  <2>2. slot \in 0 .. MaxConns /\ dialled \in 0 .. MaxConns /\ 0 \in 0 .. MaxConns /\ 0 \in 0 .. MaxItems
    BY ClientAssumption DEF ClientInit
  <2>3. caller \in [Calls -> CallerStates] /\ result \in [Calls -> Results]
    BY ZenonT(20) DEF ClientInit, CallerStates, Results
  <2>4. on \in [Calls -> 0 .. MaxConns] /\ told \in [Calls -> 0 .. MaxItems]
    BY ZenonT(20), <2>2 DEF ClientInit
  <2>5. /\ settled \in [Calls -> BOOLEAN] /\ cancelled \in [Calls -> BOOLEAN]
        /\ cancels \in [Calls -> Nat] /\ got \in [Calls -> Nat]
        /\ pump \in [Calls -> {"none", "check", "pull", "send", "tail", "done"}]
    BY ZenonT(20) DEF ClientInit
  <2>6. queue \in [Calls -> Seq(Frames)]
    BY DEF ClientInit
  <2>7. open \in [Conns -> BOOLEAN] /\ pending \in [Conns -> SUBSET Calls]
    BY ZenonT(20) DEF ClientInit
  <2>8. lane \in [Conns -> LaneStates]
    BY ZenonT(20) DEF ClientInit, LaneStates, LaneNext
  <2> QED BY ZenonT(20), <2>1, <2>2, <2>3, <2>4, <2>5, <2>6, <2>7, <2>8 DEF Shapes
<1>2. \A k \in Conns : lane[k].at = "next" /\ lane[k].call = NoCall
  BY ZenonT(20) DEF ClientInit, LaneNext
<1>3. \A c \in Calls : c # NoCall
  BY ZenonT(20), ClientAssumption DEF NoCall
<1>4. \A c \in Calls : /\ caller[c] = "start" /\ result[c] = "none" /\ ~settled[c] /\ ~cancelled[c] /\ cancels[c] = 0
                       /\ queue[c] = <<>> /\ got[c] = 0 /\ told[c] = 0 /\ pump[c] = "none"
  BY ZenonT(20) DEF ClientInit
<1>5. holder = NoCall /\ slot = 0 /\ asked = {} /\ answered = {} /\ \A k \in Conns : pending[k] = {} /\ ~open[k]
  BY ZenonT(20) DEF ClientInit
<1>6. ConnInv
  BY ZenonT(20), <1>2, <1>4, <1>5 DEF ConnInv
<1>7. HomeInv
  BY ZenonT(20), <1>2, <1>4, <1>5 DEF HomeInv, LaneAt
<1>8. EndInv
  BY ZenonT(20), <1>4, <1>5 DEF EndInv, EndAt, ReaderGone, FinalKinds
<1>9. \A c \in Calls : NoFinalQueued(c) /\ NoFinal(c)
  BY <1>4 DEF NoFinalQueued, NoFinal, FinalKinds
<1>10. FinalInv
  BY ZenonT(20), <1>2, <1>3, <1>4, <1>5, <1>9 DEF FinalInv, LaneAt
<1>11. RouteInv
  BY ZenonT(20), <1>2, <1>4 DEF RouteInv, RouteAt
<1>12. \A c \in Calls : Len(queue[c]) = 0 /\ ~Held(c)
  BY <1>2, <1>3, <1>4 DEF Held
<1>13. OrderInv
  BY <1>2, <1>4, <1>12 DEF OrderInv, OrderAt, FinalKinds
<1> QED BY ZenonT(20), <1>1, <1>6, <1>7, <1>8, <1>10, <1>11, <1>13 DEF ClientInv

\* The inductive invariant depends on the variables of the client alone.
LEMMA ClientStutter == ASSUME ClientInv, UNCHANGED <<client, clientVars>> PROVE ClientInv'
<1> USE DEF clientVars, callVars, connVars, serverVars
<1>1. Shapes' /\ ConnInv' /\ HomeInv'
  BY ZenonT(20) DEF ClientInv, Shapes, ConnInv, HomeInv
<1>2. EndInv'
  BY ZenonT(20) DEF ClientInv, EndInv, EndAt, ReaderGone
<1>3. FinalInv'
  BY ZenonT(20) DEF ClientInv, FinalInv, NoFinal, NoFinalQueued, ReaderGone
<1>4. RouteInv'
  BY ZenonT(20) DEF ClientInv, RouteInv, RouteAt, Overflowed
<1>5. OrderInv'
  BY ZenonT(20) DEF ClientInv, OrderInv, OrderAt, Overflowed, Held, ReaderGone
<1> QED BY ZenonT(20), <1>1, <1>2, <1>3, <1>4, <1>5 DEF ClientInv

\* Every step of a caller, a lane, a pump or the server keeps the inductive invariant.
LEMMA ClientStep == ASSUME ClientInv, ClientNext, UNCHANGED client PROVE ClientInv'
BY ZenonT(20), ShapesStep, ConnInvStep, HomeInvStep, EndInvStep, FinalInvStep, RouteInvStep, OrderInvStep DEF ClientInv

\* The inductive invariant of the client holds of every reachable state.
THEOREM ClientInvariance == ClientSpec => []ClientInv
<1>1. ClientInit => ClientInv
  BY ZenonT(20), ClientInit_Inv
<1>2. ClientInv /\ [ClientNext /\ UNCHANGED client]_<<client, clientVars>> => ClientInv'
  BY ClientStutter, ClientStep
<1> QED BY <1>1, <1>2, PTL DEF ClientSpec

\* However callers that find no connection interleave with its loss, ClientInner::connection never
\* leaves two connections that calls would go over.
THEOREM ClientOneConnection == ClientSpec => []OneOpenConnection
<1>1. ClientInv => OneOpenConnection
  BY DEF ClientInv, ConnInv, OneOpenConnection
<1> QED BY <1>1, ClientInvariance, PTL

\* Conn::ended and Conn::register exclude each other: no call is left registered on an ended lane.
THEOREM ClientNoneWaits == ClientSpec => []NoneWaitsOnEndedLane
<1>1. ClientInv => NoneWaitsOnEndedLane
  BY DEF ClientInv, ConnInv, NoneWaitsOnEndedLane
<1> QED BY <1>1, ClientInvariance, PTL

\* The lane's overflow and Drop for Pending send one `cancel` between them for a call that ended
\* unsettled, in every order of their steps, and none for a call whose final reply was read.
THEOREM ClientCancels == ClientSpec => []CancelledExactlyOnce
<1>1. ASSUME ClientInv, NEW c \in Calls \ Events, caller[c] = "done", c \in asked, result[c] # "unsent"
      PROVE  cancels[c] = IF result[c] \in FinalKinds THEN 0 ELSE 1
  <2>1. EndAt(c) /\ (result[c] \in FinalKinds => ~cancelled[c]) /\ ReaderGone(c)
    BY ZenonT(20), <1>1 DEF ClientInv, EndInv, FinalInv, ReaderGone
  <2>2. CASE result[c] \in FinalKinds
    BY ZenonT(20), <1>1, <2>1, <2>2 DEF EndAt
  <2>3. CASE result[c] \notin FinalKinds
    <3>1. ~settled[c]
      BY ZenonT(20), <1>1, <2>1, <2>3 DEF EndAt
    <3> QED BY ZenonT(20), <1>1, <2>1, <2>3, <3>1 DEF EndAt
  <2> QED BY ZenonT(20), <2>2, <2>3
<1>2. ClientInv => CancelledExactlyOnce
  BY <1>1 DEF CancelledExactlyOnce
<1> QED BY <1>2, ClientInvariance, PTL

\* A caller reads what the server sent from the first item on with none missing, and a final reply
\* only after every one of them, for every queue limit and whatever the lane, the pump and the
\* overflow do between its reads.
THEOREM ClientNothingSkipped == ClientSpec => []NothingSkipped
<1>1. ASSUME ClientInv PROVE NothingSkipped
  <2>1. \A c \in Calls : OrderAt(c)
    BY ZenonT(20), <1>1 DEF ClientInv, OrderInv
  <2>2. Streamed \subseteq Calls
    BY ZenonT(20), ClientAssumption
  <2> QED BY <2>1, <2>2 DEF OrderAt, Clean, NothingSkipped
<1> QED BY <1>1, ClientInvariance, PTL
=============================================================================
