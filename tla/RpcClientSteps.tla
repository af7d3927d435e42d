--------------------------- MODULE RpcClientSteps ---------------------------
(***************************************************************************)
(* The inductive invariant of RpcClient, what each action does variable by *)
(* variable, and that the steps keep the layers of the invariant that say  *)
(* which connection there is, where a call is and how it ends:             *)
(*   Shapes    the types;                                                  *)
(*   ConnInv   who may dial, and that a lane that ended keeps nobody;      *)
(*   HomeInv   on which connection a call is registered;                   *)
(*   EndInv    what an ended lane leaves of the calls on it;               *)
(*   FinalInv  that the final reply is the last frame, and comes once.     *)
(* RpcClientProofs has RouteInv and OrderInv, and the theorems.            *)
(***************************************************************************)
EXTENDS RpcClient, TLAPS

\* The client's state is well formed.
Shapes ==
    /\ client \in Clients
    /\ caller \in [Calls -> CallerStates] /\ result \in [Calls -> Results]
    /\ on \in [Calls -> 0 .. MaxConns]
    /\ settled \in [Calls -> BOOLEAN] /\ cancelled \in [Calls -> BOOLEAN]
    /\ cancels \in [Calls -> Nat] /\ got \in [Calls -> Nat]
    /\ queue \in [Calls -> Seq(Frames)]
    /\ pump \in [Calls -> {"none", "check", "pull", "send", "tail", "done"}]
    /\ holder \in Calls \cup {NoCall} /\ slot \in 0 .. MaxConns /\ dialled \in 0 .. MaxConns
    /\ open \in [Conns -> BOOLEAN] /\ pending \in [Conns -> SUBSET Calls]
    /\ lane \in [Conns -> LaneStates]
    /\ asked \subseteq Calls /\ told \in [Calls -> 0 .. MaxItems] /\ answered \subseteq asked

\* The slot: the caller that dials holds its lock, and found no open connection in it.  A lane that
\* has ended, or is not dialled yet, has nobody registered.
ConnInv ==
    /\ \A c \in Calls : caller[c] = "dial" => holder = c
    /\ holder # NoCall /\ slot # 0 => ~open[slot]
    /\ \A k \in Conns : open[k] => k = slot
    /\ \A k \in Conns : lane[k].at = "ended" \/ k > dialled => pending[k] = {} /\ ~open[k]
    /\ \A k \in Conns : k > dialled => lane[k].at = "next"

\* Where a call is registered, and what a call not sent yet has.
HomeInv ==
    /\ \A c \in Calls : caller[c] \in {"register", "write", "sending", "reading", "drop", "dropCancel"} => on[c] \in 1 .. dialled
    /\ \A c \in Calls : caller[c] \in {"start", "lock", "dial", "register", "write"} => c \notin asked
    /\ \A c \in Calls : caller[c] \in {"sending", "reading"} => c \in asked
    /\ \A c \in Calls : c \notin asked => /\ queue[c] = <<>> /\ got[c] = 0 /\ told[c] = 0
                                          /\ ~cancelled[c] /\ pump[c] = "none"
    /\ \A k \in Conns : \A c \in pending[k] :
         c \notin Events /\ on[c] = k /\ c \notin answered /\ caller[c] \in {"write", "sending", "reading", "drop"}
    /\ \A k \in Conns : lane[k].at \in LaneAt => lane[k].call \in asked /\ on[lane[k].call] = k

\* What a call that has ended answered, and whether a `cancel` went out for it.
EndAt(c) ==
    /\ ~ReaderGone(c) => ~settled[c] /\ result[c] = "none"
    /\ settled[c] => result[c] \in FinalKinds \cup {"timeout", "unsent"}
    /\ ReaderGone(c) /\ ~settled[c] => result[c] \notin FinalKinds
    /\ result[c] = "timeout" => c \notin asked
    /\ caller[c] \in {"drop", "dropCancel"} /\ c \notin asked => settled[c]
    /\ c \notin Events /\ caller[c] = "done" /\ c \in asked /\ ~settled[c] => cancelled[c]
    /\ cancelled[c] => cancels[c] = 1
    /\ ~cancelled[c] => cancels[c] = 0
EndInv == \A c \in Calls : EndAt(c)

NoFinalQueued(c) == \A i \in 1 .. Len(queue[c]) : queue[c][i].kind \notin FinalKinds
NoFinal(c) == NoFinalQueued(c) /\ result[c] \notin FinalKinds

\* A call that overflowed gets no final frame: the lane that cancels it holds an item, and the call
\* is out of `pending` before its cancel is sent.
FinalInv ==
    /\ \A c \in Calls : c \notin answered => NoFinal(c)
    /\ \A k \in Conns : lane[k].at = "found" /\ lane[k].frame.kind \in FinalKinds => lane[k].call \in answered
    /\ \A k \in Conns, c \in Calls : lane[k].call = c /\ lane[k].frame.kind = "item" => NoFinal(c)
    /\ \A k \in Conns : lane[k].at \in LaneAt \ {"found"} => lane[k].frame.kind = "item"
    /\ \A k \in Conns : lane[k].at \in {"cancel", "error"} => lane[k].call \notin pending[k]
    /\ \A c \in Calls : cancelled[c] /\ ~ReaderGone(c) =>
         NoFinalQueued(c) /\ \A k \in Conns : c \notin pending[k] /\ (lane[k].call = c => lane[k].at = "error")
    /\ \A c \in Calls : result[c] \in FinalKinds => ~cancelled[c]

\* The lane found no room for an item of the call, whose error ends what the caller reads.
Overflowed(c) == cancelled[c] \/ \E k \in Conns : lane[k].call = c /\ lane[k].at \in LaneAt \ {"found"}

\* A call that waits is registered until its final frame, its overflow or its lane's end.
RouteAt(c) ==
    caller[c] \in {"write", "sending", "reading"} /\ c \notin Events /\ c \notin answered /\ ~Overflowed(c) =>
      c \in pending[on[c]] \/ lane[on[c]].at = "ended"
RouteInv ==
    /\ \A c \in Calls : RouteAt(c)
    /\ \A k \in Conns, c \in Calls : lane[k].call = c /\ lane[k].at = "error" => cancelled[c]

\* The frames of a queue up to the i-th are items.
Clean(frames, i) == \A j \in 1 .. i : frames[j].kind = "item"
\* The lane holds an item of the call that it has not queued.
Held(c) == \E k \in Conns : lane[k].call = c /\ lane[k].frame.kind = "item"

\* What a caller reads before any error is what the server sent, in order: the queued items are the
\* next ones, and after them comes the one the lane holds, the final frame, or what is still to be sent.
OrderAt(c) ==
    /\ ~ReaderGone(c) => \A i \in 1 .. Len(queue[c]) :
         /\ Clean(queue[c], i) => queue[c][i].n = got[c] + i
         /\ Clean(queue[c], i - 1) /\ queue[c][i].kind \in FinalKinds => told[c] = got[c] + (i - 1)
    /\ ~ReaderGone(c) /\ ~Overflowed(c) /\ Clean(queue[c], Len(queue[c])) =>
         /\ Held(c) => told[c] = got[c] + Len(queue[c]) + 1
         /\ ~Held(c) => told[c] = got[c] + Len(queue[c])
    /\ c \in Streamed /\ result[c] \in FinalKinds => got[c] = told[c]
OrderInv ==
    /\ \A k \in Conns, c \in Calls :
         lane[k].call = c /\ lane[k].at = "found" /\ lane[k].frame.kind = "item" => lane[k].frame.n = told[c]
    /\ \A c \in Calls : OrderAt(c)

ClientInv == Shapes /\ ConnInv /\ HomeInv /\ EndInv /\ FinalInv /\ RouteInv /\ OrderInv

---------------------------------------------------------------------------
\* What the actions are made of, variable by variable.
Caller(c, where) ==
    caller' \in [Calls -> CallerStates] /\ caller'[c] = where /\ \A d \in Calls : d # c => caller'[d] = caller[d]
Result(c, what) ==
    result' \in [Calls -> Results] /\ result'[c] = what /\ \A d \in Calls : d # c => result'[d] = result[d]
On(c, k) == on' \in [Calls -> 0 .. MaxConns] /\ on'[c] = k /\ \A d \in Calls : d # c => on'[d] = on[d]
Settles(c, v) ==
    settled' \in [Calls -> BOOLEAN] /\ settled'[c] = v /\ \A d \in Calls : d # c => settled'[d] = settled[d]
Pends(k, S) ==
    pending' \in [Conns -> SUBSET Calls] /\ pending'[k] = S /\ \A j \in Conns : j # k => pending'[j] = pending[j]
Opens(k, v) == open' \in [Conns -> BOOLEAN] /\ open'[k] = v /\ \A j \in Conns : j # k => open'[j] = open[j]
Tells(c) ==
    told' \in [Calls -> 0 .. MaxItems] /\ told'[c] = told[c] + 1 /\ \A d \in Calls : d # c => told'[d] = told[d]
Gets(c) == got' \in [Calls -> Nat] /\ got'[c] = got[c] + 1 /\ \A d \in Calls : d # c => got'[d] = got[d]
Pumped(c) ==
    /\ pump' \in [Calls -> {"none", "check", "pull", "send", "tail", "done"}]
    /\ \A d \in Calls : d # c => pump'[d] = pump[d]
TakesOne(c) ==
    /\ queue' \in [Calls -> Seq(Frames)] /\ \A d \in Calls : d # c => queue'[d] = queue[d]
    /\ Len(queue[c]) \in Nat \ {0} /\ Len(queue'[c]) = Len(queue[c]) - 1
    /\ \A i \in 1 .. Len(queue[c]) - 1 : queue'[c][i] = queue[c][i + 1]
\* One more `cancel`, unless one was sent.
Cancels(c) ==
    /\ cancelled' \in [Calls -> BOOLEAN] /\ cancelled'[c] /\ \A d \in Calls : d # c => cancelled'[d] = cancelled[d]
    /\ cancels' \in [Calls -> Nat] /\ \A d \in Calls : d # c => cancels'[d] = cancels[d]
    /\ cancelled[c] => cancels'[c] = cancels[c]
    /\ ~cancelled[c] => cancels'[c] = cancels[c] + 1
KeepCancels == cancelled' = cancelled /\ cancels' = cancels
KeepReplies == queue' = queue /\ got' = got /\ pump' = pump
KeepConns ==
    holder' = holder /\ slot' = slot /\ dialled' = dialled /\ open' = open /\ pending' = pending /\ lane' = lane
KeepServer == asked' = asked /\ told' = told /\ answered' = answered

\* The kinds of the reply frames, and of the frames the client makes itself.
LEMMA FrameFacts ==
    /\ \A f \in Frames : f.kind \in {"item"} \cup FinalKinds \cup ErrorKinds
    /\ \A n \in 1 .. MaxItems : Item(n) \in Frames /\ Item(n).kind = "item" /\ Item(n).n = n
    /\ \A kind \in FinalKinds \cup ErrorKinds : Plain(kind) \in Frames /\ Plain(kind).kind = kind
BY DEF Frames, Item, Plain, FinalKinds, ErrorKinds

\* The bounds of the client that runs.
LEMMA ClientFacts ==
    ASSUME Shapes
    PROVE  client.conns \in 0 .. MaxConns /\ client.items \in 0 .. MaxItems /\ MaxConns \in Nat /\ MaxItems \in Nat
BY ZenonT(20), ClientAssumption DEF Shapes

\* A lane that is routing a frame, and no other, names a call.
LEMMA LaneFacts ==
    ASSUME Shapes, NEW k \in Conns
    PROVE  /\ lane[k].at \in {"next", "ended"} \cup LaneAt
           /\ lane[k].at \in LaneAt <=> lane[k].call \in Calls
           /\ lane[k].at \in LaneAt => lane[k].frame \in Frames
BY ZenonT(20), ClientAssumption DEF Shapes, LaneStates, LaneAt, NoCall

\* A caller that goes on answers nothing.
LEMMA GoesDoes ==
    ASSUME Shapes, NEW c \in Calls, NEW where \in CallerStates, Goes(c, where)
    PROVE  Caller(c, where) /\ result' = result
BY ZenonT(20) DEF Shapes, Goes, Caller

\* A caller whose Pending is dropped has its answer.
LEMMA DropsDoes ==
    ASSUME Shapes, NEW c \in Calls, NEW what \in Results, Drops(c, what)
    PROVE  Caller(c, "drop") /\ Result(c, what)
BY ZenonT(20) DEF Shapes, Drops, Caller, Result, CallerStates

\* A caller that registered nothing ends with its answer.
LEMMA EndsDoes ==
    ASSUME Shapes, NEW c \in Calls, NEW what \in Results, Ends(c, what)
    PROVE  Caller(c, "done") /\ Result(c, what)
BY ZenonT(20) DEF Shapes, Ends, Caller, Result, CallerStates

\* The connection handed to one call.
LEMMA OnDoes ==
    ASSUME Shapes, NEW c \in Calls, NEW k \in 0 .. MaxConns, on' = [on EXCEPT ![c] = k]
    PROVE  On(c, k)
BY ZenonT(20) DEF Shapes, On

\* Pending::settled of one call.
LEMMA SettlesDoes ==
    ASSUME Shapes, NEW c \in Calls, NEW v \in BOOLEAN, settled' = [settled EXCEPT ![c] = v]
    PROVE  Settles(c, v)
BY ZenonT(20) DEF Shapes, Settles

\* The `pending` map of one connection.
LEMMA PendsDoes ==
    ASSUME Shapes, NEW k \in Conns, NEW S \in SUBSET Calls, pending' = [pending EXCEPT ![k] = S]
    PROVE  Pends(k, S)
BY ZenonT(20) DEF Shapes, Pends

\* Conn::open of one connection.
LEMMA OpensDoes ==
    ASSUME Shapes, NEW k \in Conns, NEW v \in BOOLEAN, open' = [open EXCEPT ![k] = v]
    PROVE  Opens(k, v)
BY ZenonT(20) DEF Shapes, Opens

\* Waiting::cancelled taken: a `cancel` goes out unless the other side sent it.
LEMMA CancelsDoes ==
    ASSUME Shapes, NEW c \in Calls, cancelled' = [cancelled EXCEPT ![c] = TRUE],
           cancels' = IF cancelled[c] THEN cancels ELSE [cancels EXCEPT ![c] = @ + 1]
    PROVE  Cancels(c)
<1>1. cancelled' \in [Calls -> BOOLEAN] /\ cancelled'[c] /\ \A d \in Calls : d # c => cancelled'[d] = cancelled[d]
  BY ZenonT(20) DEF Shapes
<1>2. cancelled[c] => cancels' = cancels
  BY ZenonT(20)
<1>3. ~cancelled[c] => cancels' = [cancels EXCEPT ![c] = @ + 1]
  BY ZenonT(20)
<1>4. cancels \in [Calls -> Nat]
  BY ZenonT(20) DEF Shapes
<1> QED BY <1>1, <1>2, <1>3, <1>4 DEF Cancels

\* One frame off the front of a queue.
LEMMA TakesDoes ==
    ASSUME Shapes, NEW c \in Calls, queue[c] # <<>>, queue' = [queue EXCEPT ![c] = Tail(@)]
    PROVE  TakesOne(c)
<1>1. queue \in [Calls -> Seq(Frames)] /\ queue[c] \in Seq(Frames)
  BY ZenonT(20) DEF Shapes
<1>2. /\ Tail(queue[c]) \in Seq(Frames) /\ Len(queue[c]) \in Nat \ {0} /\ Len(Tail(queue[c])) = Len(queue[c]) - 1
      /\ \A i \in 1 .. Len(queue[c]) - 1 : Tail(queue[c])[i] = queue[c][i + 1]
  BY <1>1
<1>3. /\ queue' \in [Calls -> Seq(Frames)] /\ queue'[c] = Tail(queue[c])
      /\ \A d \in Calls : d # c => queue'[d] = queue[d]
  BY ZenonT(20), <1>1, <1>2
<1> QED BY ZenonT(20), <1>2, <1>3 DEF TakesOne

\* Await refuses the call or goes to the connection, and touches nothing else.
LEMMA AwaitDoes ==
    ASSUME Shapes, NEW c \in Calls, Await(c)
    PROVE  /\ caller[c] = "start"
           /\ (Caller(c, "done") /\ Result(c, "refused")) \/ (Caller(c, "lock") /\ result' = result)
           /\ on' = on /\ settled' = settled /\ KeepCancels /\ KeepReplies /\ KeepConns /\ KeepServer
<1>1. "refused" \in Results /\ "lock" \in CallerStates
  BY ZenonT(20) DEF Results, CallerStates
<1>2. caller[c] = "start" /\ (Ends(c, "refused") \/ Goes(c, "lock"))
  BY ZenonT(20) DEF Await
<1>3. on' = on /\ settled' = settled /\ KeepCancels /\ KeepReplies /\ KeepConns /\ KeepServer
  BY ZenonT(20) DEF Await, KeepCancels, KeepReplies, KeepConns, KeepServer, connVars, serverVars
<1> QED BY ZenonT(20), <1>1, <1>2, <1>3, GoesDoes, EndsDoes

\* Lock hands over the open connection of the slot, or keeps the lock to dial.
LEMMA LockDoes ==
    ASSUME Shapes, NEW c \in Calls, Lock(c)
    PROVE  /\ caller[c] = "lock" /\ holder = NoCall /\ result' = result
           /\ \/ /\ Caller(c, "register") /\ slot # 0 /\ open[slot] /\ holder' = holder
                 /\ On(c, slot)
              \/ Caller(c, "dial") /\ (slot = 0 \/ ~open[slot]) /\ holder' = c /\ on' = on
           /\ settled' = settled /\ KeepCancels /\ KeepReplies /\ KeepServer
           /\ slot' = slot /\ dialled' = dialled /\ open' = open /\ pending' = pending /\ lane' = lane
<1>1. "register" \in CallerStates /\ "dial" \in CallerStates
  BY ZenonT(20) DEF CallerStates
<1>2. slot \in 0 .. MaxConns
  BY ZenonT(20) DEF Shapes
<1> QED BY ZenonT(20), <1>1, <1>2, GoesDoes, OnDoes DEF Lock, KeepCancels, KeepReplies, KeepServer, serverVars

\* Dial makes the next connection and fills the slot with it, or fails; the lock is let go.
LEMMA DialDoes ==
    ASSUME Shapes, NEW c \in Calls, Dial(c)
    PROVE  /\ caller[c] = "dial" /\ holder' = NoCall
           /\ \/ /\ Caller(c, "register") /\ result' = result
                 /\ dialled + 1 \in Conns /\ dialled' = dialled + 1 /\ slot' = dialled + 1
                 /\ Opens(dialled + 1, TRUE) /\ On(c, dialled + 1)
              \/ /\ Caller(c, "done") /\ Result(c, "unconnected")
                 /\ dialled' = dialled /\ slot' = slot /\ open' = open /\ on' = on
           /\ settled' = settled /\ KeepCancels /\ KeepReplies /\ KeepServer /\ pending' = pending /\ lane' = lane
<1>1. "register" \in CallerStates /\ "unconnected" \in Results
  BY ZenonT(20) DEF CallerStates, Results
<1>2. /\ caller[c] = "dial" /\ holder' = NoCall
      /\ settled' = settled /\ KeepCancels /\ KeepReplies /\ KeepServer /\ pending' = pending /\ lane' = lane
  BY ZenonT(20) DEF Dial, KeepCancels, KeepReplies, KeepServer, serverVars
<1>3. CASE Ends(c, "unconnected") /\ dialled' = dialled /\ slot' = slot /\ open' = open /\ on' = on
  BY ZenonT(30), <1>1, <1>2, <1>3, EndsDoes
<1>4. CASE /\ dialled < client.conns /\ dialled' = dialled + 1 /\ slot' = dialled + 1
           /\ open' = [open EXCEPT ![dialled + 1] = TRUE] /\ on' = [on EXCEPT ![c] = dialled + 1]
           /\ Goes(c, "register")
  <2>1. dialled + 1 \in Conns /\ dialled + 1 \in 0 .. MaxConns
    BY <1>4, ClientFacts DEF Shapes, Conns
  <2>2. Opens(dialled + 1, TRUE) /\ On(c, dialled + 1)
    BY ZenonT(30), <1>4, <2>1, OpensDoes, OnDoes
  <2> QED BY ZenonT(30), <1>1, <1>2, <1>4, <2>1, <2>2, GoesDoes
<1> QED BY ZenonT(30), <1>3, <1>4 DEF Dial

\* Register enters the call in `pending` of an open connection, or tries again, or fails.
LEMMA RegisterDoes ==
    ASSUME Shapes, NEW c \in Calls, Register(c)
    PROVE  /\ caller[c] = "register"
           /\ \/ Caller(c, "write") /\ result' = result /\ pending' = pending
              \/ /\ Caller(c, "write") /\ result' = result /\ open[on[c]] /\ c \notin Events
                 /\ on[c] \in Conns => Pends(on[c], pending[on[c]] \cup {c})
              \/ Caller(c, "done") /\ Result(c, "lost") /\ pending' = pending
              \/ Caller(c, "lock") /\ result' = result /\ pending' = pending
           /\ on' = on /\ settled' = settled /\ KeepCancels /\ KeepReplies /\ KeepServer
           /\ holder' = holder /\ slot' = slot /\ dialled' = dialled /\ open' = open /\ lane' = lane
<1>1. "write" \in CallerStates /\ "lock" \in CallerStates /\ "lost" \in Results
  BY ZenonT(20) DEF CallerStates, Results
<1>2. \/ Goes(c, "write") /\ pending' = pending
      \/ Goes(c, "write") /\ open[on[c]] /\ c \notin Events /\ pending' = [pending EXCEPT ![on[c]] = @ \cup {c}]
      \/ Ends(c, "lost") /\ pending' = pending
      \/ Goes(c, "lock") /\ pending' = pending
  BY ZenonT(20) DEF Register
<1>3. /\ caller[c] = "register" /\ on' = on /\ settled' = settled /\ KeepCancels /\ KeepReplies /\ KeepServer
      /\ holder' = holder /\ slot' = slot /\ dialled' = dialled /\ open' = open /\ lane' = lane
  BY ZenonT(20) DEF Register, KeepCancels, KeepReplies, KeepServer, serverVars
<1>4. ASSUME on[c] \in Conns, pending' = [pending EXCEPT ![on[c]] = @ \cup {c}]
      PROVE  Pends(on[c], pending[on[c]] \cup {c})
  <2>1. pending[on[c]] \cup {c} \in SUBSET Calls
    BY ZenonT(20), <1>4 DEF Shapes
  <2> QED BY ZenonT(30), <1>4, <2>1, PendsDoes
<1> QED BY ZenonT(20), <1>1, <1>2, <1>3, <1>4, GoesDoes, EndsDoes

\* Write starts the send, or the bound that has ended settles the call unsent.
LEMMA WriteDoes ==
    ASSUME Shapes, NEW c \in Calls, Write(c)
    PROVE  /\ caller[c] = "write"
           /\ \/ Caller(c, "sending") /\ result' = result /\ asked' = asked \cup {c} /\ settled' = settled
              \/ /\ (c \in Events /\ Caller(c, "done")) \/ (c \notin Events /\ Caller(c, "drop"))
                 /\ Result(c, "timeout") /\ asked' = asked /\ Settles(c, TRUE)
           /\ on' = on /\ KeepCancels /\ KeepReplies /\ KeepConns /\ told' = told /\ answered' = answered
<1>1. "sending" \in CallerStates /\ "timeout" \in Results
  BY ZenonT(20) DEF CallerStates, Results
<1> QED BY ZenonT(30), <1>1, GoesDoes, DropsDoes, EndsDoes, SettlesDoes DEF Write, KeepCancels, KeepReplies, KeepConns, connVars

\* Sent starts the pump and the reading, or settles the call as unsent.
LEMMA SentDoes ==
    ASSUME Shapes, NEW c \in Calls, Sent(c)
    PROVE  /\ caller[c] = "sending"
           /\ \/ /\ \/ c \in Events /\ Caller(c, "done") /\ Result(c, "sent")
                    \/ c \notin Events /\ Caller(c, "reading") /\ result' = result
                 /\ Pumped(c)
                 /\ settled' = settled
              \/ /\ (c \in Events /\ Caller(c, "done")) \/ (c \notin Events /\ Caller(c, "drop"))
                 /\ Result(c, "unsent") /\ pump' = pump /\ Settles(c, TRUE)
           /\ on' = on /\ KeepCancels /\ queue' = queue /\ got' = got /\ KeepConns /\ KeepServer
<1>1. "reading" \in CallerStates /\ "sent" \in Results /\ "unsent" \in Results
  BY ZenonT(20) DEF CallerStates, Results
<1>2. ASSUME pump' = IF c \in Uploads THEN [pump EXCEPT ![c] = "check"] ELSE pump PROVE Pumped(c)
  BY ZenonT(20), <1>2 DEF Pumped, Shapes
<1> QED BY ZenonT(30), <1>1, <1>2, GoesDoes, DropsDoes, EndsDoes, SettlesDoes DEF Sent, KeepCancels, KeepConns, KeepServer, connVars, serverVars

\* Read takes one frame: an item of a stream, a final reply, or what ends the call unsettled.
LEMMA ReadDoes ==
    ASSUME Shapes, NEW c \in Calls, Read(c)
    PROVE  /\ caller[c] = "reading" /\ queue[c] # <<>> /\ queue[c][1] \in Frames
           /\ TakesOne(c)
           /\ \/ /\ queue[c][1].kind = "item" /\ c \in Streamed
                 /\ Caller(c, "reading") /\ result' = result
                 /\ Settles(c, FALSE) /\ Gets(c)
              \/ /\ queue[c][1].kind \in FinalKinds /\ Caller(c, "drop") /\ Result(c, queue[c][1].kind)
                 /\ Settles(c, TRUE) /\ got' = got
              \/ /\ Caller(c, "drop") /\ \E what \in ErrorKinds \cup {"unexpected"} : Result(c, what)
                 /\ Settles(c, FALSE) /\ got' = got
           /\ on' = on /\ KeepCancels /\ pump' = pump /\ KeepConns /\ KeepServer
<1> DEFINE kind == queue[c][1].kind
<1>1. caller[c] = "reading" /\ queue[c] # <<>> /\ TakesOne(c)
  BY ZenonT(30), TakesDoes DEF Read
<1>2. queue[c][1] \in Frames /\ Head(queue[c]) = queue[c][1]
  BY <1>1 DEF Shapes
<1>3. kind \in {"item"} \cup FinalKinds \cup ErrorKinds
  BY ZenonT(20), <1>2, FrameFacts
<1>4. /\ on' = on /\ KeepCancels /\ pump' = pump /\ KeepConns /\ KeepServer
  BY ZenonT(20) DEF Read, KeepCancels, KeepConns, KeepServer, connVars, serverVars
<1>5. "reading" \in CallerStates /\ FinalKinds \subseteq Results /\ ErrorKinds \cup {"unexpected"} \subseteq Results
  BY ZenonT(20) DEF CallerStates, Results
<1>6. PICK settles \in BOOLEAN :
        /\ settles => kind \in FinalKinds
        /\ Settles(c, settles)
        /\ \/ kind = "item" /\ c \in Streamed /\ Goes(c, "reading") /\ Gets(c)
           \/ Drops(c, IF kind \in ErrorKinds \/ settles THEN kind ELSE "unexpected") /\ got' = got
  <2> DEFINE done == kind \in (IF c \in Streamed THEN FinalKinds ELSE {"res", "err"})
  <2>1. done \in BOOLEAN /\ (done => kind \in FinalKinds)
    BY DEF FinalKinds
  <2>2. ASSUME got' = [got EXCEPT ![c] = @ + 1] PROVE Gets(c)
    BY SMTT(30), <2>2 DEF Gets, Shapes
  <2>3. /\ settled' = [settled EXCEPT ![c] = done]
        /\ \/ kind = "item" /\ c \in Streamed /\ Goes(c, "reading") /\ Gets(c)
           \/ Drops(c, IF kind \in ErrorKinds \/ done THEN kind ELSE "unexpected") /\ got' = got
    BY ZenonT(20), <1>2, <2>2 DEF Read
  <2> HIDE DEF done
  <2>4. Settles(c, done)
    BY ZenonT(30), <2>1, <2>3, SettlesDoes
  <2> QED BY ZenonT(20), <2>1, <2>3, <2>4
<1>7. "item" \notin FinalKinds /\ \A e \in ErrorKinds : e \notin FinalKinds
  BY ZenonT(20) DEF FinalKinds, ErrorKinds
<1> HIDE DEF kind
<1>8. CASE kind = "item" /\ c \in Streamed /\ Goes(c, "reading") /\ Gets(c)
  <2>1. settles = FALSE
    BY ZenonT(20), <1>6, <1>7, <1>8
  <2> QED BY ZenonT(30), <1>1, <1>2, <1>4, <1>5, <1>6, <1>8, <2>1, GoesDoes DEF kind
<1>9. CASE settles /\ Drops(c, IF kind \in ErrorKinds \/ settles THEN kind ELSE "unexpected") /\ got' = got
  <2>1. Drops(c, kind) /\ kind \in Results /\ kind \in FinalKinds /\ settles = TRUE
    BY ZenonT(20), <1>5, <1>6, <1>9
  <2>2. Caller(c, "drop") /\ Result(c, kind)
    BY ZenonT(20), <2>1, DropsDoes
  <2> QED BY ZenonT(30), <1>1, <1>2, <1>4, <1>6, <1>9, <2>1, <2>2 DEF kind
<1>10. CASE ~settles /\ Drops(c, IF kind \in ErrorKinds \/ settles THEN kind ELSE "unexpected") /\ got' = got
  <2>1. PICK what \in ErrorKinds \cup {"unexpected"} : Drops(c, what)
    BY ZenonT(20), <1>10
  <2>2. Caller(c, "drop") /\ Result(c, what) /\ settles = FALSE
    BY ZenonT(20), <1>5, <1>10, <2>1, DropsDoes
  <2> QED BY ZenonT(30), <1>1, <1>2, <1>4, <1>6, <1>10, <2>2
<1> QED BY ZenonT(30), <1>6, <1>8, <1>9, <1>10

\* ReadLost and Abandon end the call with no final reply and let the lock go.
LEMMA CallEnds ==
    ASSUME Shapes, NEW c \in Calls, ReadLost(c) \/ Abandon(c)
    PROVE  /\ \/ caller[c] \in {"lock", "dial"} /\ Caller(c, "done")
              \/ caller[c] \in {"sending", "reading"} /\ c \in Events /\ Caller(c, "done")
              \/ caller[c] \in {"sending", "reading"} /\ Caller(c, "drop")
           /\ \E what \in {"lost", "abandoned"} : Result(c, what)
           /\ holder' = holder \/ (holder = c /\ holder' = NoCall)
           /\ caller[c] = "dial" /\ holder = c => holder' = NoCall
           /\ on' = on /\ settled' = settled /\ KeepCancels /\ KeepReplies /\ KeepServer
           /\ slot' = slot /\ dialled' = dialled /\ open' = open /\ pending' = pending /\ lane' = lane
<1>1. "lost" \in Results /\ "abandoned" \in Results
  BY ZenonT(20) DEF Results
<1>2. /\ on' = on /\ settled' = settled /\ KeepCancels /\ KeepReplies /\ KeepServer
      /\ slot' = slot /\ dialled' = dialled /\ open' = open /\ pending' = pending /\ lane' = lane
  BY ZenonT(20) DEF ReadLost, Abandon, KeepCancels, KeepReplies, KeepServer, connVars, serverVars
<1>3. CASE ReadLost(c)
  BY ZenonT(20), <1>1, <1>2, <1>3, DropsDoes DEF ReadLost, connVars
<1>4. CASE Abandon(c)
  <2>1. \/ caller[c] \in {"lock", "dial"} /\ Ends(c, "abandoned")
        \/ caller[c] \in {"sending", "reading"} /\ c \in Events /\ Ends(c, "abandoned")
        \/ caller[c] \in {"sending", "reading"} /\ Drops(c, "abandoned")
    BY ZenonT(20), <1>4 DEF Abandon
  <2>2. holder' = holder \/ (holder = c /\ holder' = NoCall)
    BY ZenonT(20), <1>4 DEF Abandon
  <2>3. holder = c => holder' = NoCall
    BY ZenonT(20), <1>4 DEF Abandon
  <2> QED BY ZenonT(20), <1>1, <1>2, <2>1, <2>2, <2>3, DropsDoes, EndsDoes
<1> QED BY ZenonT(20), <1>3, <1>4

\* Drop for Pending, first half: the call leaves `pending`.
LEMMA DropRemoveDoes ==
    ASSUME Shapes, NEW c \in Calls, DropRemove(c)
    PROVE  /\ caller[c] = "drop" /\ Caller(c, "dropCancel") /\ result' = result
           /\ on[c] \in Conns => Pends(on[c], pending[on[c]] \ {c})
           /\ on' = on /\ settled' = settled /\ KeepCancels /\ KeepReplies /\ KeepServer
           /\ holder' = holder /\ slot' = slot /\ dialled' = dialled /\ open' = open /\ lane' = lane
<1>1. "dropCancel" \in CallerStates
  BY ZenonT(20) DEF CallerStates
<1>2. ASSUME on[c] \in Conns PROVE Pends(on[c], pending[on[c]] \ {c})
  <2>1. pending[on[c]] \ {c} \in SUBSET Calls
    BY ZenonT(20), <1>2 DEF Shapes
  <2> QED BY ZenonT(30), <1>2, <2>1, PendsDoes DEF DropRemove
<1> QED BY ZenonT(20), <1>1, <1>2, GoesDoes DEF DropRemove, KeepCancels, KeepReplies, KeepServer, serverVars

\* Drop for Pending, second half: a `cancel` for an unsettled call.
LEMMA DropCancelDoes ==
    ASSUME Shapes, NEW c \in Calls, DropCancel(c)
    PROVE  /\ caller[c] = "dropCancel" /\ Caller(c, "done") /\ result' = result
           /\ (settled[c] /\ KeepCancels) \/ (~settled[c] /\ Cancels(c))
           /\ on' = on /\ settled' = settled /\ KeepReplies /\ KeepConns /\ KeepServer
<1>1. "done" \in CallerStates
  BY ZenonT(20) DEF CallerStates
<1>2. (settled[c] /\ KeepCancels) \/ (~settled[c] /\ Cancels(c))
  BY ZenonT(20), CancelsDoes DEF DropCancel, KeepCancels
<1> QED BY ZenonT(20), <1>1, <1>2, GoesDoes DEF DropCancel, KeepReplies, KeepConns, KeepServer, connVars, serverVars

KeepCall == caller' = caller /\ result' = result /\ on' = on /\ settled' = settled
Lane(k, at, call, frame) ==
    /\ lane' \in [Conns -> LaneStates] /\ lane'[k].at = at /\ lane'[k].call = call /\ lane'[k].frame = frame
    /\ \A j \in Conns : j # k => lane'[j] = lane[j]
Queues(c, frame) ==
    /\ queue' \in [Calls -> Seq(Frames)] /\ \A d \in Calls : d # c => queue'[d] = queue[d]
    /\ \/ ReaderGone(c) /\ queue'[c] = queue[c]
       \/ /\ ~ReaderGone(c) /\ Len(queue'[c]) = Len(queue[c]) + 1 /\ queue'[c][Len(queue[c]) + 1] = frame
          /\ \A i \in 1 .. Len(queue[c]) : queue'[c][i] = queue[c][i]

\* A frame is queued last, or dropped for a reader that has gone.
LEMMA QueuedDoes ==
    ASSUME Shapes, NEW c \in Calls, NEW frame \in Frames, queue' = Queued(c, frame)
    PROVE  Queues(c, frame)
<1>1. queue \in [Calls -> Seq(Frames)] /\ queue[c] \in Seq(Frames)
  BY ZenonT(20) DEF Shapes
<1>2. CASE ReaderGone(c)
  BY ZenonT(20), <1>1, <1>2 DEF Queued, Queues
<1>3. CASE ~ReaderGone(c)
  <2>1. queue' = [queue EXCEPT ![c] = Append(queue[c], frame)]
    BY ZenonT(20), <1>3 DEF Queued
  <2>2. /\ Append(queue[c], frame) \in Seq(Frames) /\ Len(Append(queue[c], frame)) = Len(queue[c]) + 1
        /\ Append(queue[c], frame)[Len(queue[c]) + 1] = frame
        /\ \A i \in 1 .. Len(queue[c]) : Append(queue[c], frame)[i] = queue[c][i]
    BY <1>1
  <2>3. queue'[c] = Append(queue[c], frame) /\ \A d \in Calls : d # c => queue'[d] = queue[d]
    BY ZenonT(20), <1>1, <2>1
  <2>4. queue' \in [Calls -> Seq(Frames)]
    BY ZenonT(20), <1>1, <2>1, <2>2
  <2> QED BY ZenonT(20), <1>3, <2>2, <2>3, <2>4 DEF Queues
<1> QED BY ZenonT(20), <1>2, <1>3

\* A lane that takes a frame to route.
LEMMA LaneSet ==
    ASSUME Shapes, NEW k \in Conns, NEW at \in LaneAt, NEW call \in Calls, NEW frame \in Frames,
           lane' = [lane EXCEPT ![k] = [at |-> at, call |-> call, frame |-> frame]]
    PROVE  Lane(k, at, call, frame)
BY ZenonT(20) DEF Shapes, Lane, LaneStates

\* A lane that goes on with the frame it holds.
LEMMA LaneMoves ==
    ASSUME Shapes, NEW k \in Conns, lane[k].at \in LaneAt, NEW at \in LaneAt, lane' = [lane EXCEPT ![k].at = at]
    PROVE  Lane(k, at, lane[k].call, lane[k].frame)
<1>1. lane \in [Conns -> LaneStates] /\ lane[k] \in [at : LaneAt, call : Calls, frame : Frames]
  BY ZenonT(20) DEF Shapes, LaneStates, LaneAt
<1>2. [lane[k] EXCEPT !.at = at] = [at |-> at, call |-> lane[k].call, frame |-> lane[k].frame]
  BY <1>1
<1>3. lane' = [lane EXCEPT ![k] = [at |-> at, call |-> lane[k].call, frame |-> lane[k].frame]]
  BY ZenonT(30), <1>2
<1>4. lane[k].call \in Calls /\ lane[k].frame \in Frames
  BY ZenonT(20), <1>1
<1> QED BY ZenonT(30), <1>3, <1>4, LaneSet

\* A lane back at its read.
LEMMA LaneRests ==
    ASSUME Shapes, NEW k \in Conns, lane' = [lane EXCEPT ![k] = LaneNext]
    PROVE  Lane(k, "next", NoCall, Plain("end"))
BY ZenonT(20) DEF Shapes, Lane, LaneStates, LaneNext

\* LaneFrame takes one frame of the server and looks its call up.
LEMMA LaneFrameDoes ==
    ASSUME Shapes, NEW k \in Conns, NEW c \in Calls, NEW kind \in {"item"} \cup FinalKinds, LaneFrame(k, c, kind)
    PROVE  /\ lane[k].at = "next" /\ k <= dialled /\ on[c] = k /\ c \in asked /\ c \notin answered
           /\ \/ /\ kind = "item" /\ told[c] + 1 \in 1 .. MaxItems /\ Tells(c)
                 /\ answered' = answered /\ pending' = pending
                 /\ c \in pending[k] => Lane(k, "found", c, Item(told[c] + 1))
              \/ /\ kind \in FinalKinds /\ told' = told
                 /\ answered' = answered \cup {c} /\ Pends(k, pending[k] \ {c})
                 /\ c \in pending[k] => Lane(k, "found", c, Plain(kind))
           /\ c \notin pending[k] => lane' = lane
           /\ KeepCall /\ KeepCancels /\ KeepReplies
           /\ holder' = holder /\ slot' = slot /\ dialled' = dialled /\ open' = open /\ asked' = asked
<1>1. /\ lane[k].at = "next" /\ k <= dialled /\ on[c] = k /\ c \in asked /\ c \notin answered
  BY ZenonT(20) DEF LaneFrame, Reached
<1>2. /\ KeepCall /\ KeepCancels /\ KeepReplies
      /\ holder' = holder /\ slot' = slot /\ dialled' = dialled /\ open' = open /\ asked' = asked
  BY ZenonT(20) DEF LaneFrame, KeepCall, KeepCancels, KeepReplies, callVars
<1>3. c \notin pending[k] => lane' = lane
  BY ZenonT(20) DEF LaneFrame
<1>4. CASE kind = "item"
  <2>1. told[c] < client.items /\ told' = [told EXCEPT ![c] = @ + 1] /\ answered' = answered /\ pending' = pending
    BY ZenonT(20), <1>4 DEF LaneFrame
  <2>2. told[c] + 1 \in 1 .. MaxItems
    BY SMTT(30), <2>1, ClientFacts DEF Shapes
  <2>4. Tells(c)
    BY <2>1, <2>2 DEF Shapes, Tells
  <2>3. ASSUME c \in pending[k] PROVE Lane(k, "found", c, Item(told[c] + 1))
    <3>1. lane' = [lane EXCEPT ![k] = [at |-> "found", call |-> c, frame |-> Item(told[c] + 1)]]
      BY ZenonT(20), <1>4, <2>3 DEF LaneFrame
    <3> QED BY ZenonT(30), <2>2, <3>1, LaneSet, FrameFacts DEF LaneAt
  <2> QED BY ZenonT(20), <1>1, <1>2, <1>3, <1>4, <2>1, <2>2, <2>3, <2>4
<1>5. CASE kind \in FinalKinds
  <2>1. kind # "item"
    BY ZenonT(20), <1>5 DEF FinalKinds
  <2>2. told' = told /\ answered' = answered \cup {c} /\ pending' = [pending EXCEPT ![k] = @ \ {c}]
    BY ZenonT(20), <2>1 DEF LaneFrame
  <2>4. pending[k] \ {c} \in SUBSET Calls
    BY ZenonT(20) DEF Shapes
  <2>5. Pends(k, pending[k] \ {c})
    BY ZenonT(30), <2>2, <2>4, PendsDoes
  <2>3. ASSUME c \in pending[k] PROVE Lane(k, "found", c, Plain(kind))
    <3>1. lane' = [lane EXCEPT ![k] = [at |-> "found", call |-> c, frame |-> Plain(kind)]]
      BY ZenonT(20), <2>1, <2>3 DEF LaneFrame
    <3> QED BY ZenonT(30), <1>5, <3>1, LaneSet, FrameFacts DEF LaneAt
  <2> QED BY ZenonT(20), <1>1, <1>2, <1>3, <1>5, <2>2, <2>3, <2>5
<1> QED BY ZenonT(20), <1>4, <1>5

KeepLaneRest ==
    KeepCall /\ got' = got /\ pump' = pump /\ holder' = holder /\ slot' = slot /\ dialled' = dialled /\ open' = open /\ KeepServer

\* LaneQueue queues the frame, or finds no room for an item.
LEMMA LaneQueueDoes ==
    ASSUME Shapes, NEW k \in Conns, LaneQueue(k)
    PROVE  /\ lane[k].at = "found" /\ lane[k].call \in Calls /\ lane[k].frame \in Frames
           /\ \/ lane[k].frame.kind = "item" /\ Lane(k, "remove", lane[k].call, lane[k].frame) /\ queue' = queue
              \/ Lane(k, "next", NoCall, Plain("end")) /\ Queues(lane[k].call, lane[k].frame)
           /\ pending' = pending /\ KeepCancels /\ KeepLaneRest
<1>1. lane[k].at = "found" /\ lane[k].at \in LaneAt /\ lane[k].call \in Calls /\ lane[k].frame \in Frames
  BY ZenonT(20), LaneFacts DEF LaneQueue, LaneAt
<1>2. \/ lane[k].frame.kind = "item" /\ lane' = [lane EXCEPT ![k].at = "remove"] /\ queue' = queue
      \/ lane' = [lane EXCEPT ![k] = LaneNext] /\ queue' = Queued(lane[k].call, lane[k].frame)
  BY ZenonT(20) DEF LaneQueue
<1>3. pending' = pending /\ KeepCancels /\ KeepLaneRest
  BY ZenonT(20) DEF LaneQueue, KeepCancels, KeepLaneRest, KeepCall, KeepServer, serverVars
<1>4. "remove" \in LaneAt
  BY ZenonT(20) DEF LaneAt
<1> QED BY ZenonT(20), <1>1, <1>2, <1>3, <1>4, LaneMoves, LaneRests, QueuedDoes

\* The three steps of overflow(): `pending`, the `cancel`, the error.
LEMMA OverflowDoes ==
    ASSUME Shapes, NEW k \in Conns, OverflowRemove(k) \/ OverflowCancel(k) \/ OverflowError(k)
    PROVE  /\ lane[k].at \in LaneAt /\ lane[k].call \in Calls /\ KeepLaneRest
           /\ \/ /\ lane[k].at = "remove" /\ Lane(k, "cancel", lane[k].call, lane[k].frame)
                 /\ Pends(k, pending[k] \ {lane[k].call}) /\ KeepCancels /\ queue' = queue
              \/ /\ lane[k].at = "cancel" /\ Lane(k, "error", lane[k].call, lane[k].frame)
                 /\ pending' = pending /\ Cancels(lane[k].call) /\ queue' = queue
              \/ /\ lane[k].at = "error" /\ Lane(k, "next", NoCall, Plain("end"))
                 /\ pending' = pending /\ KeepCancels /\ Queues(lane[k].call, Plain("overflow"))
<1>1. lane[k].at \in LaneAt /\ lane[k].call \in Calls
  BY ZenonT(20), LaneFacts DEF OverflowRemove, OverflowCancel, OverflowError, LaneAt
<1>2. KeepLaneRest
  BY ZenonT(20) DEF OverflowRemove, OverflowCancel, OverflowError, KeepLaneRest, KeepCall, KeepServer, callVars, serverVars
<1>3. "cancel" \in LaneAt /\ "error" \in LaneAt /\ Plain("overflow") \in Frames
  BY ZenonT(20), FrameFacts DEF LaneAt, ErrorKinds
<1>4. CASE OverflowRemove(k)
  <2>1. pending[k] \ {lane[k].call} \in SUBSET Calls
    BY ZenonT(20) DEF Shapes
  <2>2. Pends(k, pending[k] \ {lane[k].call})
    BY ZenonT(30), <1>4, <2>1, PendsDoes DEF OverflowRemove
  <2> QED BY ZenonT(30), <1>1, <1>2, <1>3, <1>4, <2>2, LaneMoves DEF OverflowRemove, KeepCancels, callVars
<1>5. CASE OverflowCancel(k)
  <2>1. Cancels(lane[k].call)
    BY ZenonT(30), <1>1, <1>5, CancelsDoes DEF OverflowCancel
  <2> QED BY ZenonT(30), <1>1, <1>2, <1>3, <1>5, <2>1, LaneMoves DEF OverflowCancel
<1>6. CASE OverflowError(k)
  BY ZenonT(30), <1>1, <1>2, <1>3, <1>6, LaneRests, QueuedDoes DEF OverflowError, KeepCancels
<1> QED BY ZenonT(20), <1>4, <1>5, <1>6

\* Goaway closes the connection to new calls; LaneEnds to those on it as well.
LEMMA LaneClosesDoes ==
    ASSUME Shapes, NEW k \in Conns, Goaway(k) \/ LaneEnds(k)
    PROVE  /\ k <= dialled /\ lane[k].at = "next" /\ Opens(k, FALSE)
           /\ \/ lane' = lane /\ pending' = pending
              \/ Lane(k, "ended", NoCall, lane[k].frame) /\ Pends(k, {})
           /\ KeepCall /\ KeepCancels /\ KeepReplies /\ KeepServer
           /\ holder' = holder /\ slot' = slot /\ dialled' = dialled
<1>1. /\ k <= dialled /\ lane[k].at = "next" /\ Opens(k, FALSE)
      /\ KeepCall /\ KeepCancels /\ KeepReplies /\ KeepServer
      /\ holder' = holder /\ slot' = slot /\ dialled' = dialled
  BY ZenonT(30), OpensDoes DEF Goaway, LaneEnds, KeepCall, KeepCancels, KeepReplies, KeepServer, callVars, serverVars
<1>2. CASE Goaway(k)
  BY ZenonT(30), <1>1, <1>2 DEF Goaway
<1>3. CASE LaneEnds(k)
  <2>1. Lane(k, "ended", NoCall, lane[k].frame)
    BY ZenonT(30), <1>1, <1>3 DEF LaneEnds, Shapes, Lane, LaneStates, LaneAt
  <2>2. Pends(k, {})
    <3>1. pending' = [pending EXCEPT ![k] = {}] /\ {} \in SUBSET Calls
      BY ZenonT(20), <1>3 DEF LaneEnds
    <3> QED BY ZenonT(30), <3>1, PendsDoes
  <2> QED BY ZenonT(30), <1>1, <1>3, <2>1, <2>2 DEF LaneEnds
<1> QED BY ZenonT(30), <1>2, <1>3

\* A pump moves, and queues at most one error for its caller.
LEMMA PumpsDoes ==
    ASSUME Shapes, NEW c \in Calls, PumpCheck(c) \/ PumpPull(c) \/ PumpSend(c)
    PROVE  /\ pump[c] # "none" /\ Pumped(c)
           /\ queue' = queue \/ \E kind \in ErrorKinds : Queues(c, Plain(kind))
           /\ KeepCall /\ KeepCancels /\ got' = got /\ KeepConns /\ KeepServer
<1>1. KeepCall /\ KeepCancels /\ got' = got /\ KeepConns /\ KeepServer /\ pump[c] # "none"
  BY ZenonT(20) DEF PumpCheck, PumpPull, PumpSend, pumpUnchanged, KeepCall, KeepCancels, KeepConns, KeepServer, connVars, serverVars
<1>2. PICK where \in {"check", "pull", "send", "tail", "done"} : pump' = [pump EXCEPT ![c] = where]
  BY ZenonT(20) DEF PumpCheck, PumpPull, PumpSend, Pumps
<1>3. queue' = queue \/ queue' = Queued(c, Plain("refused")) \/ queue' = Queued(c, Plain("failed"))
  BY ZenonT(20) DEF PumpCheck, PumpPull, PumpSend
<1>4. "refused" \in ErrorKinds /\ "failed" \in ErrorKinds /\ \A kind \in ErrorKinds : Plain(kind) \in Frames
  BY ZenonT(20), FrameFacts DEF ErrorKinds
<1>5. queue' = queue \/ \E kind \in ErrorKinds : Queues(c, Plain(kind))
  BY ZenonT(20), <1>3, <1>4, QueuedDoes
<1>6. Pumped(c)
  BY ZenonT(20), <1>2 DEF Shapes, Pumped
<1> QED BY ZenonT(20), <1>1, <1>5, <1>6

---------------------------------------------------------------------------
\* The types.
LEMMA ShapesCall ==
    ASSUME Shapes, client' = client, NEW c \in Calls,
           Await(c) \/ Lock(c) \/ Write(c) \/ Sent(c) \/ ReadLost(c) \/ Abandon(c)
    PROVE  Shapes'
<1>1. CASE Await(c)
  BY ZenonT(30), <1>1, AwaitDoes DEF Shapes, Caller, Result, KeepCancels, KeepReplies, KeepConns, KeepServer
<1>2. CASE Lock(c)
  BY ZenonT(20), <1>2, LockDoes DEF Shapes, Caller, On, KeepCancels, KeepReplies, KeepServer
<1>5. CASE Write(c)
  BY ZenonT(30), <1>5, WriteDoes DEF Shapes, Caller, Result, Settles, KeepCancels, KeepReplies, KeepConns
<1>6. CASE Sent(c)
  BY ZenonT(30), <1>6, SentDoes DEF Shapes, Caller, Result, Settles, Pumped, KeepCancels, KeepConns, KeepServer
<1>7. CASE ReadLost(c) \/ Abandon(c)
  BY ZenonT(20), <1>7, CallEnds DEF Shapes, Caller, Result, KeepCancels, KeepReplies, KeepServer
<1> QED BY ZenonT(20), <1>1, <1>2, <1>5, <1>6, <1>7

\* A call past the connection has one that was dialled.
LEMMA Homed ==
    ASSUME Shapes, HomeInv, NEW c \in Calls,
           caller[c] \in {"register", "write", "sending", "reading", "drop", "dropCancel"}
    PROVE  on[c] \in Conns /\ on[c] <= dialled
<1>1. on[c] \in 1 .. dialled /\ dialled \in 0 .. MaxConns
  BY ZenonT(20) DEF HomeInv, Shapes
<1> QED BY <1>1, ClientFacts DEF Conns

\* Shapes over Register and the removal from `pending`.
LEMMA ShapesRegisters ==
    ASSUME Shapes, HomeInv, client' = client, NEW c \in Calls, Register(c) \/ DropRemove(c)
    PROVE  Shapes'
<1>1. on[c] \in Conns
  BY ZenonT(30), RegisterDoes, DropRemoveDoes, Homed
<1>2. /\ pending' \in [Conns -> SUBSET Calls] /\ caller' \in [Calls -> CallerStates] /\ result' \in [Calls -> Results]
      /\ on' = on /\ settled' = settled /\ KeepCancels /\ KeepReplies /\ KeepServer
      /\ holder' = holder /\ slot' = slot /\ dialled' = dialled /\ open' = open /\ lane' = lane
  BY ZenonT(30), <1>1, RegisterDoes, DropRemoveDoes DEF Shapes, Caller, Result, Pends
<1> QED BY ZenonT(20), <1>2 DEF Shapes, KeepCancels, KeepReplies, KeepServer

\* Shapes over Dial.
LEMMA ShapesDial == ASSUME Shapes, client' = client, NEW c \in Calls, Dial(c) PROVE Shapes'
<1>1. /\ holder' \in Calls \cup {NoCall} /\ caller' \in [Calls -> CallerStates] /\ result' \in [Calls -> Results]
      /\ settled' = settled /\ KeepCancels /\ KeepReplies /\ KeepServer /\ pending' = pending /\ lane' = lane
  BY ZenonT(30), DialDoes DEF Shapes, Caller, Result
<1>2. dialled' \in 0 .. MaxConns /\ slot' \in 0 .. MaxConns
  <2>1. (dialled' = dialled /\ slot' = slot) \/ (dialled + 1 \in Conns /\ dialled' = dialled + 1 /\ slot' = dialled + 1)
    BY ZenonT(30), DialDoes
  <2> QED BY SMTT(30), <2>1, ClientFacts DEF Shapes, Conns
<1>3. open' \in [Conns -> BOOLEAN] /\ on' \in [Calls -> 0 .. MaxConns]
  BY ZenonT(30), DialDoes DEF Shapes, Opens, On
<1> QED BY ZenonT(30), <1>1, <1>2, <1>3 DEF Shapes, KeepCancels, KeepReplies, KeepServer

\* The flag and the count of cancels stay well formed.
LEMMA CancelsType ==
    ASSUME Shapes, NEW c \in Calls, KeepCancels \/ Cancels(c)
    PROVE  cancelled' \in [Calls -> BOOLEAN] /\ cancels' \in [Calls -> Nat]
BY ZenonT(20) DEF Shapes, KeepCancels, Cancels

\* Shapes over DropCancel.
LEMMA ShapesDropCancel == ASSUME Shapes, client' = client, NEW c \in Calls, DropCancel(c) PROVE Shapes'
<1>1. cancelled' \in [Calls -> BOOLEAN] /\ cancels' \in [Calls -> Nat]
  BY ZenonT(20), DropCancelDoes, CancelsType
<1> QED BY ZenonT(30), <1>1, DropCancelDoes DEF Shapes, Caller, KeepReplies, KeepConns, KeepServer

\* Shapes over Read.
LEMMA ShapesRead == ASSUME Shapes, client' = client, NEW c \in Calls, Read(c) PROVE Shapes'
<1>1. queue' \in [Calls -> Seq(Frames)]
  BY ZenonT(30), ReadDoes DEF TakesOne
<1>2. caller' \in [Calls -> CallerStates] /\ result' \in [Calls -> Results]
  BY ZenonT(30), ReadDoes DEF Shapes, Caller, Result
<1>3. settled' \in [Calls -> BOOLEAN] /\ got' \in [Calls -> Nat]
  BY ZenonT(30), ReadDoes DEF Shapes, Settles, Gets
<1>4. on' = on /\ KeepCancels /\ pump' = pump /\ KeepConns /\ KeepServer
  BY ZenonT(30), ReadDoes
<1> QED BY ZenonT(30), <1>1, <1>2, <1>3, <1>4 DEF Shapes, KeepCancels, KeepConns, KeepServer

\* Shapes over the steps of a lane.
LEMMA ShapesLane ==
    ASSUME Shapes, client' = client, NEW k \in Conns,
           LaneQueue(k) \/ OverflowRemove(k) \/ OverflowCancel(k) \/ OverflowError(k)
    PROVE  Shapes'
<1>1. KeepLaneRest /\ lane' \in [Conns -> LaneStates] /\ queue' \in [Calls -> Seq(Frames)]
  BY ZenonT(30), LaneQueueDoes, OverflowDoes DEF Lane, Queues, Shapes
<1>2. lane[k].call \in Calls /\ (KeepCancels \/ Cancels(lane[k].call))
  BY ZenonT(30), LaneQueueDoes, OverflowDoes
<1>3. cancelled' \in [Calls -> BOOLEAN] /\ cancels' \in [Calls -> Nat]
  BY ZenonT(20), <1>2, CancelsType
<1>4. pending' \in [Conns -> SUBSET Calls]
  BY ZenonT(30), LaneQueueDoes, OverflowDoes DEF Shapes, Pends
<1> QED BY ZenonT(20), <1>1, <1>3, <1>4 DEF Shapes, KeepLaneRest, KeepCall, KeepServer

\* Shapes over what the server sends and the lane's end.
LEMMA ShapesServer ==
    ASSUME Shapes, client' = client, NEW k \in Conns, ServerStep(k)
    PROVE  Shapes'
<1>1. ASSUME NEW c \in Calls, NEW kind \in {"item"} \cup FinalKinds, LaneFrame(k, c, kind) PROVE Shapes'
  <2>1. lane' \in [Conns -> LaneStates]
    BY ZenonT(30), <1>1, LaneFrameDoes DEF Lane, Shapes
  <2>2. told' \in [Calls -> 0 .. MaxItems]
    BY ZenonT(30), <1>1, LaneFrameDoes DEF Shapes, Tells
  <2>3. answered' \subseteq asked' /\ pending' \in [Conns -> SUBSET Calls]
    BY <1>1, LaneFrameDoes DEF Shapes, Pends
  <2>4. /\ KeepCall /\ KeepCancels /\ KeepReplies
        /\ holder' = holder /\ slot' = slot /\ dialled' = dialled /\ open' = open /\ asked' = asked
    BY ZenonT(30), <1>1, LaneFrameDoes
  <2> QED BY ZenonT(30), <2>1, <2>2, <2>3, <2>4 DEF Shapes, KeepCall, KeepCancels, KeepReplies
<1>2. CASE Goaway(k) \/ LaneEnds(k)
  BY ZenonT(30), <1>2, LaneClosesDoes DEF Shapes, Lane, Opens, Pends, KeepCall, KeepCancels, KeepReplies, KeepServer
<1> QED BY ZenonT(20), <1>1, <1>2 DEF ServerStep

\* Shapes over the steps of a pump.
LEMMA ShapesPump ==
    ASSUME Shapes, client' = client, NEW c \in Calls, PumpCheck(c) \/ PumpPull(c) \/ PumpSend(c)
    PROVE  Shapes'
<1>1. queue' \in [Calls -> Seq(Frames)]
  BY ZenonT(20), PumpsDoes DEF Queues, Shapes
<1> QED BY ZenonT(30), <1>1, PumpsDoes DEF Shapes, Pumped, KeepCall, KeepCancels, KeepConns, KeepServer

\* Every step keeps Shapes.
LEMMA ShapesStep == ASSUME Shapes, HomeInv, client' = client, ClientNext PROVE Shapes'
BY ZenonT(20), ShapesCall, ShapesRegisters, ShapesDial, ShapesDropCancel, ShapesRead, ShapesLane, ShapesServer, ShapesPump
   DEF ClientNext, CallStep, LaneStep

---------------------------------------------------------------------------
\* The connections.
LEMMA ConnFrame ==
    ASSUME Shapes, ConnInv, KeepConns, \A c \in Calls : caller'[c] = "dial" => caller[c] = "dial"
    PROVE  ConnInv'
BY ZenonT(20) DEF ConnInv, KeepConns

\* ConnInv over the steps that leave the connections alone.
LEMMA ConnInvKept ==
    ASSUME Shapes, ConnInv, NEW c \in Calls,
           \/ Await(c) \/ Write(c) \/ Sent(c) \/ Read(c) \/ DropCancel(c)
           \/ PumpCheck(c) \/ PumpPull(c) \/ PumpSend(c)
    PROVE  ConnInv'
<1>1. KeepConns /\ \A d \in Calls : caller'[d] = "dial" => caller[d] = "dial"
  <2>1. CASE Await(c)
    BY ZenonT(20), <2>1, AwaitDoes DEF Caller
  <2>2. CASE Write(c)
    BY ZenonT(30), <2>2, WriteDoes DEF Caller
  <2>3. CASE Sent(c)
    BY ZenonT(30), <2>3, SentDoes DEF Caller
  <2>4. CASE Read(c)
    BY ZenonT(30), <2>4, ReadDoes DEF Caller
  <2>5. CASE DropCancel(c)
    BY ZenonT(20), <2>5, DropCancelDoes DEF Caller
  <2>6. CASE PumpCheck(c) \/ PumpPull(c) \/ PumpSend(c)
    BY ZenonT(20), <2>6, PumpsDoes DEF KeepCall
  <2> QED BY ZenonT(20), <2>1, <2>2, <2>3, <2>4, <2>5, <2>6
<1> QED BY ZenonT(20), <1>1, ConnFrame

\* ConnInv over Lock.
LEMMA ConnInvLock == ASSUME Shapes, ConnInv, NEW c \in Calls, Lock(c) PROVE ConnInv'
BY ZenonT(20), LockDoes, ClientAssumption DEF Caller, ConnInv, NoCall

\* ConnInv over Dial.
LEMMA ConnInvDial == ASSUME Shapes, ConnInv, NEW c \in Calls, Dial(c) PROVE ConnInv'
<1>1. holder = c /\ holder' = NoCall /\ c # NoCall /\ \A d \in Calls : caller'[d] # "dial"
  <2>1. caller[c] = "dial" /\ holder' = NoCall /\ (Caller(c, "register") \/ Caller(c, "done"))
    BY ZenonT(30), DialDoes
  <2>2. \A d \in Calls : caller[d] = "dial" => holder = d
    BY ZenonT(20) DEF ConnInv
  <2> QED BY ZenonT(20), <2>1, <2>2, ClientAssumption DEF Caller, NoCall
<1>2. \A k \in Conns : ~open[k]
  <2>1. (slot # 0 => ~open[slot]) /\ \A k \in Conns : open[k] => k = slot
    BY ZenonT(20), <1>1 DEF ConnInv
  <2> QED BY <2>1, ClientFacts DEF Conns
<1>3. CASE dialled' = dialled /\ slot' = slot /\ open' = open
  BY ZenonT(30), <1>1, <1>3, DialDoes DEF ConnInv
<1>4. CASE dialled + 1 \in Conns /\ dialled' = dialled + 1 /\ slot' = dialled + 1 /\ Opens(dialled + 1, TRUE)
  <2>1. dialled + 1 \in Conns /\ dialled \in Nat
    BY <1>4 DEF Shapes
  <2>2. \A k \in Conns : open'[k] <=> k = dialled + 1
    BY ZenonT(20), <1>2, <1>4, <2>1 DEF Shapes, Opens
  <2>5. dialled + 1 > dialled
    BY <2>1
  <2>6. lane' = lane /\ pending' = pending
    BY ZenonT(30), DialDoes
  <2>3. lane' = lane /\ pending' = pending /\ lane[dialled + 1].at = "next"
    BY ZenonT(20), <2>1, <2>5, <2>6 DEF ConnInv
  <2>4. \A k \in Conns : k > dialled + 1 => k > dialled /\ k # dialled + 1
    BY <2>1 DEF Conns
  <2> QED BY ZenonT(20), <1>1, <1>4, <2>2, <2>3, <2>4 DEF ConnInv
<1> QED BY ZenonT(30), <1>3, <1>4, DialDoes

\* ConnInv over Register.
LEMMA ConnInvRegister == ASSUME Shapes, ConnInv, HomeInv, NEW c \in Calls, Register(c) PROVE ConnInv'
<1>1. on[c] \in Conns /\ on[c] <= dialled
  BY ZenonT(30), RegisterDoes, Homed
<1>2. \A d \in Calls : caller'[d] = "dial" => caller[d] = "dial"
  BY ZenonT(30), RegisterDoes DEF Caller
<1>3. \A k \in Conns : pending'[k] = pending[k] \/ (open[k] /\ k = on[c])
  BY ZenonT(20), <1>1, RegisterDoes DEF Pends
<1>4. holder' = holder /\ slot' = slot /\ dialled' = dialled /\ open' = open /\ lane' = lane
  BY ZenonT(30), RegisterDoes
<1> QED BY ZenonT(20), <1>2, <1>3, <1>4 DEF ConnInv

\* ConnInv over the end of a call before its reply.
LEMMA ConnInvEnds == ASSUME Shapes, ConnInv, NEW c \in Calls, ReadLost(c) \/ Abandon(c) PROVE ConnInv'
<1>1. \A d \in Calls : caller'[d] = "dial" => caller[d] = "dial" /\ d # c
  BY ZenonT(20), CallEnds DEF Caller
<1> QED BY ZenonT(20), <1>1, CallEnds DEF ConnInv

\* ConnInv over DropRemove.
LEMMA ConnInvDropRemove == ASSUME Shapes, ConnInv, HomeInv, NEW c \in Calls, DropRemove(c) PROVE ConnInv'
<1>2. on[c] \in Conns
  BY ZenonT(30), DropRemoveDoes, Homed
<1>1. \A k \in Conns : pending'[k] \subseteq pending[k]
  BY ZenonT(20), <1>2, DropRemoveDoes DEF Pends
<1> QED BY ZenonT(30), <1>1, DropRemoveDoes DEF ConnInv, Caller

\* ConnInv over the steps of a lane.
LEMMA ConnInvLane ==
    ASSUME Shapes, ConnInv, NEW k \in Conns,
           LaneQueue(k) \/ OverflowRemove(k) \/ OverflowCancel(k) \/ OverflowError(k)
    PROVE  ConnInv'
<1>1. \A j \in Conns : pending'[j] \subseteq pending[j]
  BY ZenonT(20), LaneQueueDoes, OverflowDoes DEF Pends
<1>2. KeepLaneRest /\ lane[k].at \notin {"next", "ended"} /\ lane'[k].at # "ended" /\ \A j \in Conns : j # k => lane'[j] = lane[j]
  BY ZenonT(30), LaneQueueDoes, OverflowDoes DEF Lane
<1> QED BY ZenonT(20), <1>1, <1>2 DEF ConnInv, KeepLaneRest, KeepCall

\* ConnInv over what the server sends and the lane's end.
LEMMA ConnInvServer == ASSUME Shapes, ConnInv, NEW k \in Conns, ServerStep(k) PROVE ConnInv'
<1>1. ASSUME NEW c \in Calls, NEW kind \in {"item"} \cup FinalKinds, LaneFrame(k, c, kind) PROVE ConnInv'
  <2>1. \A j \in Conns : pending'[j] \subseteq pending[j]
    BY ZenonT(20), <1>1, LaneFrameDoes DEF Pends
  <2>2. lane'[k].at # "ended" /\ k <= dialled /\ \A j \in Conns : j # k => lane'[j] = lane[j]
    BY ZenonT(30), <1>1, LaneFrameDoes DEF Lane
  <2>3. KeepCall /\ holder' = holder /\ slot' = slot /\ dialled' = dialled /\ open' = open
    BY ZenonT(30), <1>1, LaneFrameDoes
  <2>4. ~(k > dialled)
    BY <2>2 DEF Shapes, Conns
  <2> QED BY ZenonT(20), <2>1, <2>2, <2>3, <2>4 DEF ConnInv, KeepCall
<1>2. CASE Goaway(k) \/ LaneEnds(k)
  <2>1. open'[k] = FALSE /\ \A j \in Conns : j # k => open'[j] = open[j]
    BY ZenonT(30), <1>2, LaneClosesDoes DEF Opens
  <2>2. /\ \A j \in Conns : j # k => pending'[j] = pending[j] /\ lane'[j] = lane[j]
        /\ (pending'[k] = pending[k] /\ lane'[k] = lane[k]) \/ pending'[k] = {}
        /\ lane'[k].at \in {"next", "ended"}
    BY ZenonT(30), <1>2, LaneClosesDoes DEF Lane, Pends
  <2>3. KeepCall /\ holder' = holder /\ slot' = slot /\ dialled' = dialled /\ k <= dialled
    BY ZenonT(30), <1>2, LaneClosesDoes
  <2>4. ~(k > dialled)
    BY <2>3 DEF Shapes, Conns
  <2>5. slot # 0 => slot \in Conns
    BY DEF Shapes, Conns
  <2> QED BY ZenonT(20), <2>1, <2>2, <2>3, <2>4, <2>5 DEF ConnInv, KeepCall
<1> QED BY ZenonT(20), <1>1, <1>2 DEF ServerStep

\* Every step keeps ConnInv.
LEMMA ConnInvStep == ASSUME Shapes, ConnInv, HomeInv, ClientNext PROVE ConnInv'
BY ZenonT(20), ConnInvKept, ConnInvLock, ConnInvDial, ConnInvRegister, ConnInvEnds, ConnInvDropRemove, ConnInvLane, ConnInvServer
   DEF ClientNext, CallStep, LaneStep

-----------------------------------------------------------------------------
(* Where a call is and how it ends. *)


\* Where a call is.
Placed == {"register", "write", "sending", "reading", "drop", "dropCancel"}
Early == {"start", "lock", "dial", "register", "write"}
Listed == {"write", "sending", "reading", "drop"}

\* Steps that keep every call where it is registered.
LEMMA HomeFrame ==
    ASSUME HomeInv, on' = on, dialled' = dialled, asked' = asked, answered' = answered, told' = told,
           \A c \in Calls : /\ caller'[c] \in Placed => caller[c] \in Placed
                            /\ caller'[c] \in Early => c \notin asked
                            /\ caller'[c] \in {"sending", "reading"} => c \in asked,
           \A c \in Calls : c \notin asked => queue'[c] = queue[c] /\ got'[c] = got[c] /\ ~cancelled'[c] /\ pump'[c] = pump[c],
           \A k \in Conns : pending'[k] \subseteq pending[k] /\ \A c \in pending'[k] : caller'[c] \in Listed,
           \A k \in Conns : lane'[k].at \in LaneAt => lane[k].at \in LaneAt /\ lane'[k].call = lane[k].call
    PROVE  HomeInv'
<1> USE DEF Placed, Early, Listed
<1>1. \A c \in Calls : caller'[c] \in {"register", "write", "sending", "reading", "drop", "dropCancel"} => on'[c] \in 1 .. dialled'
  BY ZenonT(20) DEF HomeInv
<1>2. \A c \in Calls : caller'[c] \in {"start", "lock", "dial", "register", "write"} => c \notin asked'
  BY ZenonT(20)
<1>3. \A c \in Calls : caller'[c] \in {"sending", "reading"} => c \in asked'
  BY ZenonT(20)
<1>4. \A c \in Calls : c \notin asked' => /\ queue'[c] = <<>> /\ got'[c] = 0 /\ told'[c] = 0
                                          /\ ~cancelled'[c] /\ pump'[c] = "none"
  BY ZenonT(20) DEF HomeInv
<1>5. \A k \in Conns : \A c \in pending'[k] :
         c \notin Events /\ on'[c] = k /\ c \notin answered' /\ caller'[c] \in {"write", "sending", "reading", "drop"}
  BY ZenonT(20) DEF HomeInv
<1>6. \A k \in Conns : lane'[k].at \in LaneAt => lane'[k].call \in asked' /\ on'[lane'[k].call] = k
  BY DEF HomeInv
<1> QED BY ZenonT(20), <1>1, <1>2, <1>3, <1>4, <1>5, <1>6 DEF HomeInv

\* A caller that moves among the places where it is registered, or to one where nothing is.
LEMMA HomeMoves ==
    ASSUME Shapes, HomeInv, NEW c \in Calls, NEW where \in CallerStates, Caller(c, where), on' = on, KeepCancels, KeepServer,
           KeepReplies, dialled' = dialled, pending' = pending, lane' = lane,
           where \in Placed => caller[c] \in Placed, where \in Early => caller[c] \in Early,
           where \in {"sending", "reading"} => c \in asked,
           where \in Listed \/ caller[c] \notin Listed \/ c \in Events
    PROVE  HomeInv'
<1>1. \A d \in Calls : /\ caller'[d] \in Placed => caller[d] \in Placed
                       /\ caller'[d] \in Early => d \notin asked
                       /\ caller'[d] \in {"sending", "reading"} => d \in asked
  BY ZenonT(20) DEF Caller, HomeInv, Early
<1>2. \A d \in Calls : d \notin asked => queue'[d] = queue[d] /\ got'[d] = got[d] /\ ~cancelled'[d] /\ pump'[d] = pump[d]
  BY ZenonT(20) DEF HomeInv, KeepCancels, KeepReplies
<1>3. \A k \in Conns : \A d \in pending[k] : d \in Calls /\ d \notin Events /\ caller[d] \in Listed
  BY ZenonT(20) DEF HomeInv, Listed, Shapes
<1>4. \A k \in Conns : pending'[k] \subseteq pending[k] /\ \A d \in pending'[k] : caller'[d] \in Listed
  BY ZenonT(20), <1>3 DEF Caller
<1> QED BY ZenonT(20), <1>1, <1>2, <1>4, HomeFrame DEF KeepServer

\* HomeInv over Await.
LEMMA HomeInvAwait == ASSUME Shapes, HomeInv, NEW c \in Calls, Await(c) PROVE HomeInv'
<1>1. /\ caller[c] = "start" /\ on' = on /\ KeepCancels /\ KeepServer /\ KeepReplies
      /\ dialled' = dialled /\ pending' = pending /\ lane' = lane
  BY ZenonT(20), AwaitDoes DEF KeepConns
<1>2. PICK where \in {"done", "lock"} : Caller(c, where)
  BY ZenonT(20), AwaitDoes
<1> QED BY ZenonT(20), <1>1, <1>2, HomeMoves DEF CallerStates, Placed, Early, Listed

\* HomeInv over the end of a call before its reply.
LEMMA HomeInvEnds == ASSUME Shapes, HomeInv, NEW c \in Calls, ReadLost(c) \/ Abandon(c) PROVE HomeInv'
<1>1. /\ on' = on /\ KeepCancels /\ KeepServer /\ KeepReplies
      /\ dialled' = dialled /\ pending' = pending /\ lane' = lane
  BY ZenonT(20), CallEnds
<1>2. PICK where \in {"done", "drop"} :
        /\ Caller(c, where)
        /\ \/ caller[c] \in {"lock", "dial"} /\ where = "done"
           \/ caller[c] \in {"sending", "reading"} /\ (c \in Events \/ where = "drop")
  BY ZenonT(20), CallEnds
<1> QED BY ZenonT(20), <1>1, <1>2, HomeMoves DEF CallerStates, Placed, Early, Listed

\* HomeInv over Write.
LEMMA HomeInvWrite == ASSUME Shapes, HomeInv, NEW c \in Calls, Write(c) PROVE HomeInv'
<1>1. /\ caller[c] = "write" /\ on' = on /\ KeepCancels /\ KeepReplies /\ told' = told /\ answered' = answered
      /\ dialled' = dialled /\ pending' = pending /\ lane' = lane
  BY ZenonT(30), WriteDoes DEF KeepConns
<1>2. CASE asked' = asked /\ ((c \in Events /\ Caller(c, "done")) \/ (c \notin Events /\ Caller(c, "drop")))
  <2>1. KeepServer
    BY ZenonT(20), <1>1, <1>2 DEF KeepServer
  <2> QED BY ZenonT(20), <1>1, <1>2, <2>1, HomeMoves DEF CallerStates, Placed, Early, Listed
<1>3. CASE Caller(c, "sending") /\ asked' = asked \cup {c}
  <2>1. caller'[c] = "sending" /\ \A d \in Calls : d # c => caller'[d] = caller[d]
    BY ZenonT(20), <1>3 DEF Caller
  <2>2. \A k \in Conns : \A d \in pending[k] : d \in Calls
    BY ZenonT(20) DEF Shapes
  <2>3. queue' = queue /\ got' = got /\ pump' = pump /\ cancelled' = cancelled
    BY ZenonT(20), <1>1 DEF KeepCancels, KeepReplies
  <2> QED BY <1>1, <1>3, <2>1, <2>2, <2>3 DEF HomeInv
<1> QED BY ZenonT(30), <1>2, <1>3, WriteDoes

\* HomeInv over Sent.
LEMMA HomeInvSent == ASSUME Shapes, HomeInv, NEW c \in Calls, Sent(c) PROVE HomeInv'
<1>1. /\ caller[c] = "sending" /\ on' = on /\ KeepCancels /\ queue' = queue /\ got' = got /\ KeepConns /\ KeepServer
      /\ \A d \in Calls : d # c => pump'[d] = pump[d]
  BY ZenonT(30), SentDoes DEF Pumped
<1>2. PICK where \in {"done", "reading", "drop"} : Caller(c, where) /\ (c \in Events \/ where \in {"reading", "drop"})
  BY ZenonT(30), SentDoes
<1>3. c \in asked
  BY ZenonT(20), <1>1 DEF HomeInv
<1>4. \A d \in Calls : /\ caller'[d] \in Placed => caller[d] \in Placed
                       /\ caller'[d] \in Early => d \notin asked
                       /\ caller'[d] \in {"sending", "reading"} => d \in asked
  BY ZenonT(20), <1>1, <1>2, <1>3 DEF Caller, HomeInv, Early, Placed
<1>5. \A d \in Calls : d \notin asked => queue'[d] = queue[d] /\ got'[d] = got[d] /\ ~cancelled'[d] /\ pump'[d] = pump[d]
  BY ZenonT(20), <1>1, <1>3 DEF HomeInv, KeepCancels
<1>6. \A k \in Conns : \A d \in pending[k] : d \in Calls /\ d \notin Events /\ caller[d] \in Listed
  BY ZenonT(20) DEF HomeInv, Listed, Shapes
<1>7. \A k \in Conns : pending'[k] \subseteq pending[k] /\ \A d \in pending'[k] : caller'[d] \in Listed
  BY ZenonT(20), <1>1, <1>2, <1>6 DEF Caller, KeepConns, Listed
<1> QED BY ZenonT(20), <1>1, <1>4, <1>5, <1>7, HomeFrame DEF KeepServer, KeepConns

\* HomeInv over Read.
LEMMA HomeInvRead == ASSUME Shapes, HomeInv, NEW c \in Calls, Read(c) PROVE HomeInv'
<1>1. /\ caller[c] = "reading" /\ on' = on /\ KeepCancels /\ pump' = pump /\ KeepConns /\ KeepServer
      /\ \A d \in Calls : d # c => queue'[d] = queue[d] /\ got'[d] = got[d]
  BY ZenonT(30), ReadDoes DEF TakesOne, Gets
<1>2. PICK where \in {"reading", "drop"} : Caller(c, where)
  BY ZenonT(30), ReadDoes
<1>3. c \in asked
  BY ZenonT(20), <1>1 DEF HomeInv
<1>4. \A d \in Calls : /\ caller'[d] \in Placed => caller[d] \in Placed
                       /\ caller'[d] \in Early => d \notin asked
                       /\ caller'[d] \in {"sending", "reading"} => d \in asked
  BY ZenonT(20), <1>1, <1>2, <1>3 DEF Caller, HomeInv, Early, Placed
<1>5. \A d \in Calls : d \notin asked => queue'[d] = queue[d] /\ got'[d] = got[d] /\ ~cancelled'[d] /\ pump'[d] = pump[d]
  BY ZenonT(20), <1>1, <1>3 DEF HomeInv, KeepCancels
<1>6. \A k \in Conns : \A d \in pending[k] : d \in Calls /\ caller[d] \in Listed
  BY ZenonT(20) DEF HomeInv, Listed, Shapes
<1>7. \A k \in Conns : pending'[k] \subseteq pending[k] /\ \A d \in pending'[k] : caller'[d] \in Listed
  BY ZenonT(20), <1>1, <1>2, <1>6 DEF Caller, KeepConns, Listed
<1> QED BY ZenonT(20), <1>1, <1>4, <1>5, <1>7, HomeFrame DEF KeepServer, KeepConns

\* HomeInv over DropRemove.
LEMMA HomeInvDropRemove == ASSUME Shapes, HomeInv, NEW c \in Calls, DropRemove(c) PROVE HomeInv'
<1>1. /\ caller[c] = "drop" /\ Caller(c, "dropCancel") /\ on' = on /\ KeepCancels /\ KeepReplies /\ KeepServer
      /\ dialled' = dialled /\ lane' = lane /\ on[c] \in Conns /\ Pends(on[c], pending[on[c]] \ {c})
  BY ZenonT(20), DropRemoveDoes, Homed
<1>4. \A d \in Calls : /\ caller'[d] \in Placed => caller[d] \in Placed
                       /\ caller'[d] \in Early => d \notin asked
                       /\ caller'[d] \in {"sending", "reading"} => d \in asked
  BY ZenonT(20), <1>1 DEF Caller, HomeInv, Early, Placed
<1>5. \A d \in Calls : d \notin asked => queue'[d] = queue[d] /\ got'[d] = got[d] /\ ~cancelled'[d] /\ pump'[d] = pump[d]
  BY ZenonT(20), <1>1 DEF HomeInv, KeepCancels, KeepReplies
<1>6. \A k \in Conns : \A d \in pending[k] : d \in Calls /\ on[d] = k /\ caller[d] \in Listed
  BY ZenonT(20) DEF HomeInv, Listed, Shapes
<1>7. \A k \in Conns : pending'[k] \subseteq pending[k] /\ c \notin pending'[k]
  BY ZenonT(20), <1>1, <1>6 DEF Pends
<1>8. \A k \in Conns : pending'[k] \subseteq pending[k] /\ \A d \in pending'[k] : caller'[d] \in Listed
  BY <1>1, <1>6, <1>7 DEF Caller
<1> QED BY ZenonT(20), <1>1, <1>4, <1>5, <1>8, HomeFrame DEF KeepServer

\* HomeInv over DropCancel.
LEMMA HomeInvDropCancel == ASSUME Shapes, HomeInv, EndInv, NEW c \in Calls, DropCancel(c) PROVE HomeInv'
<1>1. /\ caller[c] = "dropCancel" /\ Caller(c, "done") /\ on' = on /\ KeepReplies /\ KeepConns /\ KeepServer
      /\ (settled[c] /\ KeepCancels) \/ (~settled[c] /\ Cancels(c))
  BY ZenonT(20), DropCancelDoes
<1>2. c \in asked \/ KeepCancels
  BY ZenonT(20), <1>1 DEF EndInv, EndAt
<1>4. \A d \in Calls : /\ caller'[d] \in Placed => caller[d] \in Placed
                       /\ caller'[d] \in Early => d \notin asked
                       /\ caller'[d] \in {"sending", "reading"} => d \in asked
  BY ZenonT(20), <1>1 DEF Caller, HomeInv, Early, Placed
<1>5. \A d \in Calls : d \notin asked => queue'[d] = queue[d] /\ got'[d] = got[d] /\ ~cancelled'[d] /\ pump'[d] = pump[d]
  BY <1>1, <1>2 DEF HomeInv, KeepCancels, Cancels, KeepReplies
<1>6. \A k \in Conns : \A d \in pending[k] : d \in Calls /\ caller[d] \in Listed
  BY ZenonT(20) DEF HomeInv, Listed, Shapes
<1>7. \A k \in Conns : pending'[k] \subseteq pending[k] /\ \A d \in pending'[k] : caller'[d] \in Listed
  BY ZenonT(20), <1>1, <1>6 DEF Caller, KeepConns, Listed
<1> QED BY ZenonT(20), <1>1, <1>4, <1>5, <1>7, HomeFrame DEF KeepServer, KeepConns

\* Steps that move no caller.
LEMMA HomeStays ==
    ASSUME Shapes, HomeInv, KeepCall, dialled' = dialled, KeepServer, got' = got,
           \A c \in Calls : c \notin asked => queue'[c] = queue[c] /\ cancelled'[c] = cancelled[c] /\ pump'[c] = pump[c],
           \A k \in Conns : pending'[k] \subseteq pending[k],
           \A k \in Conns : lane'[k].at \in LaneAt => lane[k].at \in LaneAt /\ lane'[k].call = lane[k].call
    PROVE  HomeInv'
<1>1. \A d \in Calls : /\ caller'[d] \in Placed => caller[d] \in Placed
                       /\ caller'[d] \in Early => d \notin asked
                       /\ caller'[d] \in {"sending", "reading"} => d \in asked
  BY ZenonT(20) DEF HomeInv, Early, KeepCall
<1>2. \A d \in Calls : d \notin asked => queue'[d] = queue[d] /\ got'[d] = got[d] /\ ~cancelled'[d] /\ pump'[d] = pump[d]
  BY ZenonT(20) DEF HomeInv
<1>3. \A k \in Conns : \A d \in pending[k] : d \in Calls /\ caller[d] \in Listed
  BY ZenonT(20) DEF HomeInv, Listed, Shapes
<1>4. \A k \in Conns : pending'[k] \subseteq pending[k] /\ \A d \in pending'[k] : caller'[d] \in Listed
  BY ZenonT(20), <1>3 DEF KeepCall
<1> QED BY ZenonT(20), <1>1, <1>2, <1>4, HomeFrame DEF KeepServer, KeepCall

\* HomeInv over the steps of a lane.
LEMMA HomeInvLane ==
    ASSUME Shapes, HomeInv, NEW k \in Conns,
           LaneQueue(k) \/ OverflowRemove(k) \/ OverflowCancel(k) \/ OverflowError(k)
    PROVE  HomeInv'
<1> DEFINE c == lane[k].call
<1>1. lane[k].at \in LaneAt /\ c \in Calls /\ c \in asked
  BY ZenonT(30), LaneQueueDoes, OverflowDoes DEF HomeInv, LaneAt
<1>2. KeepLaneRest /\ \A j \in Conns : pending'[j] \subseteq pending[j]
  BY ZenonT(20), LaneQueueDoes, OverflowDoes DEF Pends
<1>3. \A d \in Calls : d # c => queue'[d] = queue[d] /\ cancelled'[d] = cancelled[d]
  BY ZenonT(30), LaneQueueDoes, OverflowDoes DEF Queues, KeepCancels, Cancels
<1>4. \A j \in Conns : lane'[j].at \in LaneAt => lane[j].at \in LaneAt /\ lane'[j].call = lane[j].call
  BY ZenonT(30), <1>1, LaneQueueDoes, OverflowDoes DEF Lane, LaneAt
<1> HIDE DEF c
<1> QED BY ZenonT(20), <1>1, <1>2, <1>3, <1>4, HomeStays DEF KeepLaneRest

\* HomeInv over `goaway` and the lane's end.
LEMMA HomeInvCloses == ASSUME Shapes, HomeInv, NEW k \in Conns, Goaway(k) \/ LaneEnds(k) PROVE HomeInv'
<1>1. KeepCall /\ KeepCancels /\ KeepReplies /\ KeepServer /\ dialled' = dialled
  BY ZenonT(30), LaneClosesDoes
<1>2. \A j \in Conns : pending'[j] \subseteq pending[j]
  BY ZenonT(30), LaneClosesDoes DEF Pends
<1>3. \A j \in Conns : lane'[j].at \in LaneAt => lane[j].at \in LaneAt /\ lane'[j].call = lane[j].call
  BY ZenonT(30), LaneClosesDoes DEF Lane, LaneAt
<1> QED BY ZenonT(20), <1>1, <1>2, <1>3, HomeStays DEF KeepCancels, KeepReplies

\* HomeInv over the steps of a pump.
LEMMA HomeInvPump ==
    ASSUME Shapes, HomeInv, NEW c \in Calls, PumpCheck(c) \/ PumpPull(c) \/ PumpSend(c)
    PROVE  HomeInv'
<1>1. c \in asked
  BY ZenonT(20), PumpsDoes DEF HomeInv
<1>2. \A d \in Calls : d # c => queue'[d] = queue[d] /\ pump'[d] = pump[d]
  BY ZenonT(20), PumpsDoes DEF Pumped, Queues
<1>3. KeepCall /\ KeepCancels /\ got' = got /\ KeepConns /\ KeepServer
  BY ZenonT(20), PumpsDoes
<1> QED BY ZenonT(20), <1>1, <1>2, <1>3, HomeStays DEF KeepCancels, KeepConns

\* HomeInv over Lock.
LEMMA HomeInvLock == ASSUME Shapes, ConnInv, HomeInv, NEW c \in Calls, Lock(c) PROVE HomeInv'
<1>1. /\ caller[c] = "lock" /\ KeepCancels /\ KeepReplies /\ KeepServer
      /\ dialled' = dialled /\ pending' = pending /\ lane' = lane
  BY ZenonT(20), LockDoes
<1>2. c \notin asked /\ \A k \in Conns : c \notin pending[k]
  BY ZenonT(20), <1>1 DEF HomeInv
<1>3. CASE Caller(c, "dial") /\ on' = on
  BY ZenonT(20), <1>1, <1>3, HomeMoves DEF CallerStates, Placed, Early, Listed
<1>4. CASE Caller(c, "register") /\ slot # 0 /\ open[slot] /\ On(c, slot)
  <2>1. slot \in 1 .. dialled
    <3>1. slot \in Conns
      BY <1>4, ClientFacts DEF Shapes, Conns
    <3>2. ~(slot > dialled)
      BY ZenonT(20), <1>4, <3>1 DEF ConnInv
    <3> QED BY <3>1, <3>2, ClientFacts DEF Shapes, Conns
  <2>2. caller'[c] = "register" /\ on'[c] = slot /\ \A d \in Calls : d # c => caller'[d] = caller[d] /\ on'[d] = on[d]
    BY ZenonT(20), <1>4 DEF Caller, On
  <2>3. \A k \in Conns : \A d \in pending[k] : d \in Calls
    BY ZenonT(20) DEF Shapes
  <2>4. asked \subseteq Calls
    BY ZenonT(20) DEF Shapes
  <2>5. queue' = queue /\ got' = got /\ pump' = pump /\ cancelled' = cancelled /\ KeepServer
    BY ZenonT(20), <1>1 DEF KeepCancels, KeepReplies
  <2>6. \A k \in Conns : lane[k].at \in LaneAt => lane[k].call # c
    BY <1>2 DEF HomeInv
  <2> QED BY SMTT(30), <1>1, <1>2, <2>1, <2>2, <2>3, <2>4, <2>5, <2>6 DEF HomeInv, KeepServer
<1> QED BY ZenonT(20), <1>3, <1>4, LockDoes

\* HomeInv over Dial.
LEMMA HomeInvDial == ASSUME Shapes, HomeInv, NEW c \in Calls, Dial(c) PROVE HomeInv'
<1>1. /\ caller[c] = "dial" /\ KeepCancels /\ KeepReplies /\ KeepServer /\ pending' = pending /\ lane' = lane
  BY ZenonT(30), DialDoes
<1>2. c \notin asked /\ \A k \in Conns : c \notin pending[k]
  BY ZenonT(20), <1>1 DEF HomeInv
<1>3. CASE Caller(c, "done") /\ on' = on /\ dialled' = dialled
  BY ZenonT(20), <1>1, <1>3, HomeMoves DEF CallerStates, Placed, Early, Listed
<1>4. CASE Caller(c, "register") /\ dialled + 1 \in Conns /\ dialled' = dialled + 1 /\ On(c, dialled + 1)
  <2>1. dialled + 1 \in 1 .. dialled' /\ \A i \in 1 .. dialled : i \in 1 .. dialled'
    BY <1>4 DEF Shapes
  <2>2. caller'[c] = "register" /\ on'[c] = dialled + 1
    BY ZenonT(20), <1>4 DEF Caller, On
  <2>3. \A d \in Calls : d # c => caller'[d] = caller[d] /\ on'[d] = on[d]
    BY ZenonT(20), <1>4 DEF Caller, On
  <2>4. asked \subseteq Calls /\ \A k \in Conns : \A d \in pending[k] : d \in Calls
    BY ZenonT(20) DEF Shapes
  <2>5. queue' = queue /\ got' = got /\ pump' = pump /\ cancelled' = cancelled
    BY ZenonT(20), <1>1 DEF KeepCancels, KeepReplies
  <2>6. asked' = asked /\ told' = told /\ answered' = answered
    BY ZenonT(20), <1>1 DEF KeepServer
  <2>7. \A k \in Conns : lane[k].at \in LaneAt => lane[k].call # c
    BY <1>2 DEF HomeInv
  <2>8. on'[c] \in 1 .. dialled'
    BY ZenonT(20), <2>1, <2>2
  <2> HIDE <1>4
  <2> QED BY SMTT(30), <1>1, <1>2, <2>1, <2>2, <2>3, <2>4, <2>5, <2>6, <2>7, <2>8 DEF HomeInv
<1> QED BY ZenonT(30), <1>3, <1>4, DialDoes

\* HomeInv over Register.
LEMMA HomeInvRegister == ASSUME Shapes, HomeInv, NEW c \in Calls, Register(c) PROVE HomeInv'
<1>1. /\ caller[c] = "register" /\ on' = on /\ KeepCancels /\ KeepReplies /\ KeepServer
      /\ dialled' = dialled /\ lane' = lane /\ on[c] \in Conns
  BY ZenonT(30), RegisterDoes, Homed
<1>2. CASE pending' = pending /\ \E where \in {"write", "done", "lock"} : Caller(c, where)
  <2>1. PICK where \in {"write", "done", "lock"} : Caller(c, where)
    BY ZenonT(20), <1>2
  <2> QED BY ZenonT(20), <1>1, <1>2, <2>1, HomeMoves DEF CallerStates, Placed, Early, Listed
<1>3. CASE Caller(c, "write") /\ c \notin Events /\ Pends(on[c], pending[on[c]] \cup {c})
  <2>1. caller'[c] = "write" /\ \A d \in Calls : d # c => caller'[d] = caller[d]
    BY ZenonT(20), <1>3 DEF Caller
  <2>2. \A k \in Conns : pending'[k] \subseteq pending[k] \cup {c} /\ (c \in pending'[k] => k = on[c] \/ c \in pending[k])
    BY ZenonT(20), <1>3 DEF Pends
  <2>3. c \notin asked /\ c \notin answered /\ \A k \in Conns : c \notin pending[k]
    BY ZenonT(30), <1>1 DEF HomeInv, Shapes
  <2>4. asked \subseteq Calls /\ \A k \in Conns : \A d \in pending[k] : d \in Calls
    BY ZenonT(20) DEF Shapes
  <2>5. queue' = queue /\ got' = got /\ pump' = pump /\ cancelled' = cancelled
    BY ZenonT(20), <1>1 DEF KeepCancels, KeepReplies
  <2>6. asked' = asked /\ told' = told /\ answered' = answered
    BY ZenonT(20), <1>1 DEF KeepServer
  <2>7. \A k \in Conns : \A d \in pending'[k] :
          d \notin Events /\ on'[d] = k /\ d \notin answered' /\ caller'[d] \in {"write", "sending", "reading", "drop"}
    BY SMTT(30), <1>1, <1>3, <2>1, <2>2, <2>3, <2>4, <2>6 DEF HomeInv
  <2> QED BY ZenonT(20), <1>1, <2>1, <2>3, <2>5, <2>6, <2>7 DEF HomeInv
<1> QED BY ZenonT(20), <1>1, <1>2, <1>3, RegisterDoes

\* HomeInv over a frame of the server.
LEMMA HomeInvFrame ==
    ASSUME Shapes, HomeInv, NEW k \in Conns, NEW c \in Calls, NEW kind \in {"item"} \cup FinalKinds, LaneFrame(k, c, kind)
    PROVE  HomeInv'
<1>1. /\ on[c] = k /\ c \in asked /\ KeepCall /\ KeepCancels /\ KeepReplies /\ dialled' = dialled /\ asked' = asked
  BY ZenonT(30), LaneFrameDoes
<1>2. \A d \in Calls : d # c => told'[d] = told[d]
  <2>1. told' = told \/ Tells(c)
    BY ZenonT(30), LaneFrameDoes
  <2> QED BY ZenonT(20), <2>1 DEF Tells
<1>3. \A j \in Conns : pending'[j] \subseteq pending[j] /\ \A d \in pending'[j] : d \notin answered'
  <2>1. CASE answered' = answered /\ pending' = pending
    BY ZenonT(20), <2>1 DEF HomeInv
  <2>2. CASE answered' = answered \cup {c} /\ Pends(k, pending[k] \ {c})
    <3>1. \A j \in Conns : c \notin pending'[j] /\ pending'[j] \subseteq pending[j]
      BY <1>1, <2>2 DEF HomeInv, Pends
    <3> QED BY <2>2, <3>1 DEF HomeInv
  <2> QED BY ZenonT(30), <2>1, <2>2, LaneFrameDoes
<1>4. \A j \in Conns : lane'[j] = lane[j] \/ (j = k /\ lane'[j].call = c)
  BY ZenonT(30), LaneFrameDoes DEF Lane
<1>5. queue' = queue /\ got' = got /\ pump' = pump /\ cancelled' = cancelled /\ caller' = caller /\ on' = on
  BY ZenonT(20), <1>1 DEF KeepCancels, KeepReplies, KeepCall
<1> QED BY SMTT(30), <1>1, <1>2, <1>3, <1>4, <1>5 DEF HomeInv

\* Every step keeps HomeInv.
LEMMA HomeInvStep == ASSUME Shapes, ConnInv, HomeInv, EndInv, ClientNext PROVE HomeInv'
BY ZenonT(20), HomeInvAwait, HomeInvEnds, HomeInvWrite, HomeInvSent, HomeInvRead, HomeInvDropRemove, HomeInvDropCancel, HomeInvLane,
   HomeInvCloses, HomeInvPump, HomeInvLock, HomeInvDial, HomeInvRegister, HomeInvFrame
   DEF ClientNext, CallStep, LaneStep, ServerStep

---------------------------------------------------------------------------
\* EndInv: one call's step leaves the others' answers and cancels alone.
LEMMA EndOthers ==
    ASSUME EndInv, NEW c \in Calls, EndAt(c)',
           \A d \in Calls : d # c => /\ caller'[d] = caller[d] /\ result'[d] = result[d] /\ settled'[d] = settled[d]
                                     /\ cancelled'[d] = cancelled[d] /\ cancels'[d] = cancels[d]
                                     /\ d \in asked' <=> d \in asked
    PROVE  EndInv'
BY ZenonT(20) DEF EndInv, EndAt, ReaderGone

\* Steps that move no caller and cancel nothing.
LEMMA EndKept == ASSUME EndInv, KeepCall, KeepCancels, asked' = asked PROVE EndInv'
BY ZenonT(20) DEF EndInv, EndAt, ReaderGone, KeepCall, KeepCancels

\* A caller that goes on, with nothing answered.
LEMMA EndGoes ==
    ASSUME EndInv, NEW c \in Calls, NEW where \in {"lock", "dial", "register", "write", "sending", "reading"}, Caller(c, where),
           ~ReaderGone(c), result' = result, settled'[c] = settled[c], \A d \in Calls : d # c => settled'[d] = settled[d],
           KeepCancels, asked' = asked \/ asked' = asked \cup {c}
    PROVE  EndInv'
<1>1. EndAt(c)
  BY ZenonT(20) DEF EndInv
<1>2. caller'[c] = where /\ result'[c] = result[c] /\ cancelled'[c] = cancelled[c] /\ cancels'[c] = cancels[c]
  BY ZenonT(20) DEF Caller, KeepCancels
<1>3. EndAt(c)'
  BY ZenonT(20), <1>1, <1>2 DEF EndAt, ReaderGone, FinalKinds
<1> QED BY ZenonT(20), <1>3, EndOthers DEF Caller, KeepCancels

\* A caller that ends, with no final reply.
LEMMA EndFails ==
    ASSUME EndInv, NEW c \in Calls, NEW where \in {"drop", "done"}, Caller(c, where), ~ReaderGone(c),
           NEW what \in Results \ (FinalKinds \cup {"timeout"}), Result(c, what),
           settled'[c] => what = "unsent", \A d \in Calls : d # c => settled'[d] = settled[d],
           where = "drop" => c \in asked, where = "done" => c \notin asked \/ c \in Events \/ settled'[c],
           KeepCancels, asked' = asked
    PROVE  EndInv'
<1>1. EndAt(c)
  BY ZenonT(20) DEF EndInv
<1>2. caller'[c] = where /\ result'[c] = what /\ cancelled'[c] = cancelled[c] /\ cancels'[c] = cancels[c]
  BY ZenonT(20) DEF Caller, Result, KeepCancels
<1>3. EndAt(c)'
  BY ZenonT(20), <1>1, <1>2 DEF EndAt, ReaderGone, FinalKinds
<1> QED BY ZenonT(20), <1>3, EndOthers DEF Caller, Result, KeepCancels

\* EndInv over the steps before the send.
LEMMA EndInvEarly ==
    ASSUME Shapes, HomeInv, EndInv, NEW c \in Calls, Await(c) \/ Lock(c) \/ Dial(c) \/ Register(c)
    PROVE  EndInv'
<1>1. /\ caller[c] \in {"start", "lock", "dial", "register"} /\ settled' = settled /\ KeepCancels /\ asked' = asked
      /\ \/ \E where \in {"lock", "dial", "register", "write"} : Caller(c, where) /\ result' = result
         \/ Caller(c, "done") /\ \E what \in {"refused", "unconnected", "lost"} : Result(c, what)
  <2>1. CASE Await(c)
    BY ZenonT(20), <2>1, AwaitDoes DEF KeepServer
  <2>2. CASE Lock(c)
    BY ZenonT(20), <2>2, LockDoes DEF KeepServer
  <2>3. CASE Dial(c)
    BY ZenonT(30), <2>3, DialDoes DEF KeepServer
  <2>4. CASE Register(c)
    BY ZenonT(30), <2>4, RegisterDoes DEF KeepServer
  <2> QED BY ZenonT(20), <2>1, <2>2, <2>3, <2>4
<1>2. c \notin asked /\ ~ReaderGone(c) /\ ~settled[c]
  BY ZenonT(20), <1>1 DEF HomeInv, ReaderGone, EndInv, EndAt
<1>3. CASE \E where \in {"lock", "dial", "register", "write"} : Caller(c, where) /\ result' = result
  BY ZenonT(20), <1>1, <1>2, <1>3, EndGoes
<1>4. CASE Caller(c, "done") /\ \E what \in {"refused", "unconnected", "lost"} : Result(c, what)
  <2>1. PICK what \in {"refused", "unconnected", "lost"} : Result(c, what)
    BY ZenonT(20), <1>4
  <2>2. what \in Results \ (FinalKinds \cup {"timeout"})
    BY ZenonT(20) DEF Results, FinalKinds
  <2> QED BY ZenonT(20), <1>1, <1>2, <1>4, <2>1, <2>2, EndFails
<1> QED BY ZenonT(20), <1>1, <1>3, <1>4

\* EndInv over Write.
LEMMA EndInvWrite == ASSUME Shapes, HomeInv, EndInv, NEW c \in Calls, Write(c) PROVE EndInv'
<1>1. caller[c] = "write" /\ KeepCancels
  BY ZenonT(30), WriteDoes
<1>2. c \notin asked /\ ~ReaderGone(c) /\ EndAt(c)
  BY ZenonT(20), <1>1 DEF HomeInv, ReaderGone, EndInv
<1>3. CASE Caller(c, "sending") /\ result' = result /\ asked' = asked \cup {c} /\ settled' = settled
  BY ZenonT(20), <1>1, <1>2, <1>3, EndGoes
<1>4. CASE /\ (c \in Events /\ Caller(c, "done")) \/ (c \notin Events /\ Caller(c, "drop"))
           /\ Result(c, "timeout") /\ asked' = asked /\ Settles(c, TRUE)
  <2>1. /\ caller'[c] \in {"drop", "done"} /\ result'[c] = "timeout" /\ settled'[c]
        /\ cancelled'[c] = cancelled[c] /\ cancels'[c] = cancels[c]
    BY ZenonT(20), <1>1, <1>4 DEF Caller, Result, Settles, KeepCancels
  <2>2. EndAt(c)'
    BY ZenonT(20), <1>2, <1>4, <2>1 DEF EndAt, ReaderGone, FinalKinds
  <2> QED BY ZenonT(20), <1>1, <1>4, <2>2, EndOthers DEF Caller, Result, Settles, KeepCancels
<1> QED BY ZenonT(30), <1>3, <1>4, WriteDoes

\* EndInv over Sent.
LEMMA EndInvSent == ASSUME Shapes, HomeInv, EndInv, NEW c \in Calls, Sent(c) PROVE EndInv'
<1>1. caller[c] = "sending" /\ KeepCancels /\ asked' = asked
  BY ZenonT(30), SentDoes DEF KeepServer
<1>2. c \in asked /\ ~ReaderGone(c) /\ ~settled[c]
  BY ZenonT(20), <1>1 DEF HomeInv, ReaderGone, EndInv, EndAt
<1>3. {"sent", "unsent"} \subseteq Results \ (FinalKinds \cup {"timeout"})
  BY ZenonT(20) DEF Results, FinalKinds
<1>4. CASE c \in Events /\ Caller(c, "done") /\ Result(c, "sent") /\ settled' = settled
  BY ZenonT(20), <1>1, <1>2, <1>3, <1>4, EndFails
<1>5. CASE c \notin Events /\ Caller(c, "reading") /\ result' = result /\ settled' = settled
  BY ZenonT(20), <1>1, <1>2, <1>5, EndGoes
<1>6. CASE /\ (c \in Events /\ Caller(c, "done")) \/ (c \notin Events /\ Caller(c, "drop"))
           /\ Result(c, "unsent") /\ Settles(c, TRUE)
  <2>1. settled'[c] /\ \A d \in Calls : d # c => settled'[d] = settled[d]
    BY ZenonT(20), <1>6 DEF Settles
  <2>2. CASE Caller(c, "done")
    BY ZenonT(20), <1>1, <1>2, <1>3, <1>6, <2>1, <2>2, EndFails
  <2>3. CASE Caller(c, "drop")
    BY ZenonT(20), <1>1, <1>2, <1>3, <1>6, <2>1, <2>3, EndFails
  <2> QED BY ZenonT(20), <1>6, <2>2, <2>3
<1> QED BY ZenonT(30), <1>4, <1>5, <1>6, SentDoes

\* EndInv over Read.
LEMMA EndInvRead == ASSUME Shapes, HomeInv, EndInv, NEW c \in Calls, Read(c) PROVE EndInv'
<1>1. caller[c] = "reading" /\ KeepCancels /\ asked' = asked
  BY ZenonT(30), ReadDoes DEF KeepServer
<1>2. c \in asked /\ ~ReaderGone(c) /\ ~settled[c] /\ EndAt(c)
  BY ZenonT(20), <1>1 DEF HomeInv, ReaderGone, EndInv, EndAt
<1>3. CASE Caller(c, "reading") /\ result' = result /\ Settles(c, FALSE)
  <2>1. settled'[c] = settled[c] /\ \A d \in Calls : d # c => settled'[d] = settled[d]
    BY ZenonT(20), <1>2, <1>3 DEF Settles, Shapes
  <2> QED BY ZenonT(20), <1>1, <1>2, <1>3, <2>1, EndGoes
<1>4. CASE /\ queue[c][1].kind \in FinalKinds /\ Caller(c, "drop") /\ Result(c, queue[c][1].kind)
           /\ Settles(c, TRUE)
  <2>1. /\ caller'[c] = "drop" /\ result'[c] \in FinalKinds /\ settled'[c]
        /\ cancelled'[c] = cancelled[c] /\ cancels'[c] = cancels[c]
    BY ZenonT(20), <1>1, <1>4 DEF Caller, Result, Settles, KeepCancels
  <2>2. EndAt(c)'
    BY ZenonT(20), <1>1, <1>2, <2>1 DEF EndAt, ReaderGone, FinalKinds
  <2> QED BY ZenonT(20), <1>1, <1>4, <2>2, EndOthers DEF Caller, Result, Settles, KeepCancels
<1>5. CASE Caller(c, "drop") /\ (\E what \in ErrorKinds \cup {"unexpected"} : Result(c, what)) /\ Settles(c, FALSE)
  <2>1. PICK what \in ErrorKinds \cup {"unexpected"} : Result(c, what)
    BY ZenonT(20), <1>5
  <2>2. what \in Results \ (FinalKinds \cup {"timeout"})
    BY ZenonT(20) DEF Results, FinalKinds, ErrorKinds
  <2> QED BY ZenonT(20), <1>1, <1>2, <1>5, <2>1, <2>2, EndFails DEF Settles
<1> QED BY ZenonT(30), <1>3, <1>4, <1>5, ReadDoes

\* EndInv over the end of a call before its reply.
LEMMA EndInvEnds == ASSUME Shapes, HomeInv, EndInv, NEW c \in Calls, ReadLost(c) \/ Abandon(c) PROVE EndInv'
<1>1. KeepCancels /\ asked' = asked /\ settled' = settled /\ caller[c] \in {"lock", "dial", "sending", "reading"}
  BY ZenonT(20), CallEnds DEF KeepServer
<1>2. ~ReaderGone(c) /\ ~settled[c]
  BY ZenonT(20), <1>1 DEF ReaderGone, EndInv, EndAt
<1>3. PICK what \in {"lost", "abandoned"} : Result(c, what)
  BY ZenonT(20), CallEnds
<1>4. what \in Results \ (FinalKinds \cup {"timeout"})
  BY ZenonT(20) DEF Results, FinalKinds
<1>5. \/ Caller(c, "done") /\ (c \notin asked \/ c \in Events)
      \/ Caller(c, "drop") /\ c \in asked
  BY ZenonT(20), CallEnds DEF HomeInv
<1> QED BY ZenonT(20), <1>1, <1>2, <1>3, <1>4, <1>5, EndFails

\* EndInv over the two halves of Drop for Pending.
LEMMA EndInvDrops == ASSUME Shapes, EndInv, NEW c \in Calls, DropRemove(c) \/ DropCancel(c) PROVE EndInv'
<1>1. /\ caller[c] \in {"drop", "dropCancel"} /\ result' = result /\ settled' = settled /\ asked' = asked
      /\ \/ Caller(c, "dropCancel") /\ KeepCancels
         \/ Caller(c, "done") /\ settled[c] /\ KeepCancels
         \/ Caller(c, "done") /\ ~settled[c] /\ Cancels(c)
  BY ZenonT(30), DropRemoveDoes, DropCancelDoes DEF KeepServer
<1>2. EndAt(c) /\ cancels[c] \in Nat /\ cancelled[c] \in BOOLEAN
  BY ZenonT(20) DEF EndInv, Shapes
<1>3. /\ \A d \in Calls : d # c => caller'[d] = caller[d] /\ cancelled'[d] = cancelled[d] /\ cancels'[d] = cancels[d]
      /\ \/ caller'[c] = "dropCancel" /\ cancelled'[c] = cancelled[c] /\ cancels'[c] = cancels[c]
         \/ caller'[c] = "done" /\ settled[c] /\ cancelled'[c] = cancelled[c] /\ cancels'[c] = cancels[c]
         \/ caller'[c] = "done" /\ cancelled'[c] /\ cancels'[c] = (IF cancelled[c] THEN cancels[c] ELSE cancels[c] + 1)
  BY ZenonT(20), <1>1 DEF Caller, KeepCancels, Cancels
<1>4. EndAt(c)'
  BY <1>1, <1>2, <1>3 DEF EndAt, ReaderGone, FinalKinds
<1> QED BY ZenonT(20), <1>1, <1>3, <1>4, EndOthers

\* EndInv over the steps of a lane.
LEMMA EndInvLane ==
    ASSUME Shapes, EndInv, NEW k \in Conns, LaneQueue(k) \/ OverflowRemove(k) \/ OverflowCancel(k) \/ OverflowError(k)
    PROVE  EndInv'
<1>1. PICK c \in Calls : KeepCall /\ asked' = asked /\ (KeepCancels \/ Cancels(c))
  BY ZenonT(30), LaneQueueDoes, OverflowDoes DEF KeepLaneRest, KeepServer
<1>2. CASE KeepCancels
  BY ZenonT(20), <1>1, <1>2, EndKept
<1>3. CASE Cancels(c)
  <2>1. EndAt(c) /\ cancels[c] \in Nat
    BY ZenonT(20), <1>1 DEF EndInv, Shapes
  <2>2. caller' = caller /\ result' = result /\ settled' = settled
    BY ZenonT(20), <1>1 DEF KeepCall
  <2>3. /\ cancelled'[c] /\ cancels'[c] = (IF cancelled[c] THEN cancels[c] ELSE cancels[c] + 1)
        /\ \A d \in Calls : d # c => cancelled'[d] = cancelled[d] /\ cancels'[d] = cancels[d]
    BY ZenonT(20), <1>3 DEF Cancels
  <2>4. EndAt(c)'
    BY <1>1, <2>1, <2>2, <2>3 DEF EndAt, ReaderGone
  <2> QED BY ZenonT(20), <1>1, <2>2, <2>3, <2>4, EndOthers
<1> QED BY ZenonT(20), <1>1, <1>2, <1>3

\* EndInv over what the server sends and the lane's end.
LEMMA EndInvServer == ASSUME Shapes, EndInv, NEW k \in Conns, ServerStep(k) PROVE EndInv'
<1>1. CASE \E c \in Calls, kind \in {"item"} \cup FinalKinds : LaneFrame(k, c, kind)
  BY ZenonT(30), <1>1, EndKept, LaneFrameDoes
<1>2. CASE Goaway(k) \/ LaneEnds(k)
  BY ZenonT(30), <1>2, EndKept, LaneClosesDoes DEF KeepServer
<1> QED BY ZenonT(20), <1>1, <1>2 DEF ServerStep

\* EndInv over the steps of a pump.
LEMMA EndInvPump ==
    ASSUME Shapes, EndInv, NEW c \in Calls, PumpCheck(c) \/ PumpPull(c) \/ PumpSend(c)
    PROVE  EndInv'
BY ZenonT(20), EndKept, PumpsDoes DEF KeepServer

\* Every step keeps EndInv.
LEMMA EndInvStep == ASSUME Shapes, HomeInv, EndInv, ClientNext PROVE EndInv'
BY ZenonT(20), EndInvEarly, EndInvWrite, EndInvSent, EndInvRead, EndInvEnds, EndInvDrops, EndInvLane, EndInvServer, EndInvPump
   DEF ClientNext, CallStep, LaneStep

---------------------------------------------------------------------------
\* FinalInv.  A queue that keeps what it had, loses its first frame or gains one that is not final.
LEMMA FinalTakes == ASSUME NEW c \in Calls, TakesOne(c), NoFinalQueued(c) PROVE NoFinalQueued(c)'
<1>1. \A i \in 1 .. Len(queue'[c]) : i + 1 \in 1 .. Len(queue[c]) /\ queue'[c][i] = queue[c][i + 1]
  BY DEF TakesOne
<1> QED BY ZenonT(20), <1>1 DEF NoFinalQueued

\* Queueing a frame that is not final leaves a queue without final frames so.
LEMMA FinalQueues ==
    ASSUME Shapes, NEW c \in Calls, NEW frame, frame.kind \notin FinalKinds, Queues(c, frame), NEW d \in Calls, NoFinalQueued(d)
    PROVE  NoFinalQueued(d)'
<1>1. CASE queue'[d] = queue[d]
  BY ZenonT(20), <1>1 DEF NoFinalQueued
<1>2. CASE queue'[d] # queue[d]
  <2>1. /\ d = c /\ Len(queue'[c]) = Len(queue[c]) + 1 /\ queue'[c][Len(queue[c]) + 1] = frame
        /\ \A i \in 1 .. Len(queue[c]) : queue'[c][i] = queue[c][i]
    BY ZenonT(20), <1>2 DEF Queues
  <2>2. Len(queue[c]) \in Nat
    BY DEF Shapes
  <2>3. \A i \in 1 .. Len(queue'[c]) : i \in 1 .. Len(queue[c]) \/ i = Len(queue[c]) + 1
    BY <2>1, <2>2
  <2> QED BY ZenonT(20), <2>1, <2>3 DEF NoFinalQueued
<1> QED BY ZenonT(20), <1>1, <1>2

\* Steps that touch no lane, take nobody into `pending`, and answer and cancel nothing.
LEMMA FinalFrame ==
    ASSUME FinalInv, lane' = lane, answered' = answered, cancelled' = cancelled,
           \A k \in Conns : pending'[k] \subseteq pending[k],
           \A c \in Calls : NoFinalQueued(c) => NoFinalQueued(c)',
           \A c \in Calls : result'[c] \in FinalKinds => result[c] \in FinalKinds,
           \A c \in Calls : ReaderGone(c) => ReaderGone(c)'
    PROVE  FinalInv'
<1>1. \A c \in Calls : NoFinal(c) => NoFinal(c)'
  BY ZenonT(20) DEF NoFinal
<1>2. \A c \in Calls : c \notin answered' => NoFinal(c)'
  BY ZenonT(20), <1>1 DEF FinalInv
<1>3. \A k \in Conns : lane'[k].at = "found" /\ lane'[k].frame.kind \in FinalKinds => lane'[k].call \in answered'
  BY ZenonT(20) DEF FinalInv
<1>4. \A k \in Conns, c \in Calls : lane'[k].call = c /\ lane'[k].frame.kind = "item" => NoFinal(c)'
  BY ZenonT(20), <1>1 DEF FinalInv
<1>5. /\ \A k \in Conns : lane'[k].at \in LaneAt \ {"found"} => lane'[k].frame.kind = "item"
      /\ \A k \in Conns : lane'[k].at \in {"cancel", "error"} => lane'[k].call \notin pending'[k]
  BY ZenonT(20) DEF FinalInv
<1>6. \A c \in Calls : cancelled'[c] /\ ~ReaderGone(c)' =>
        NoFinalQueued(c)' /\ \A k \in Conns : c \notin pending'[k] /\ (lane'[k].call = c => lane'[k].at = "error")
  BY ZenonT(20) DEF FinalInv
<1>7. \A c \in Calls : result'[c] \in FinalKinds => ~cancelled'[c]
  BY ZenonT(20) DEF FinalInv
<1> QED BY ZenonT(20), <1>2, <1>3, <1>4, <1>5, <1>6, <1>7 DEF FinalInv

\* The steps of a caller that keep its queue, and answer nothing final.
LEMMA FinalMoves ==
    ASSUME Shapes, FinalInv, NEW c \in Calls, NEW where \in CallerStates, Caller(c, where), ~ReaderGone(c),
           result' = result \/ \E what \in Results \ FinalKinds : Result(c, what),
           KeepCancels, queue' = queue, lane' = lane, answered' = answered, \A k \in Conns : pending'[k] \subseteq pending[k]
    PROVE  FinalInv'
<1>1. \A d \in Calls : NoFinalQueued(d) => NoFinalQueued(d)'
  BY ZenonT(20) DEF NoFinalQueued
<1>2. \A d \in Calls : result'[d] \in FinalKinds => result[d] \in FinalKinds
  BY ZenonT(20) DEF Result
<1>3. \A d \in Calls : ReaderGone(d) => ReaderGone(d)'
  BY ZenonT(20) DEF Caller, ReaderGone
<1> QED BY ZenonT(20), <1>1, <1>2, <1>3, FinalFrame DEF KeepCancels

\* FinalInv over the steps of a caller.
LEMMA FinalInvCall ==
    ASSUME Shapes, FinalInv, NEW c \in Calls,
           Await(c) \/ Lock(c) \/ Dial(c) \/ Write(c) \/ Sent(c) \/ ReadLost(c) \/ Abandon(c)
    PROVE  FinalInv'
<1>1. {"refused", "unconnected", "timeout", "sent", "unsent", "lost", "abandoned"} \subseteq Results \ FinalKinds
  BY ZenonT(20) DEF Results, FinalKinds
<1>2. {"lock", "dial", "register", "sending", "reading", "drop", "done"} \subseteq CallerStates
  BY ZenonT(20) DEF CallerStates
<1>3. CASE Await(c)
  BY ZenonT(20), <1>1, <1>2, <1>3, AwaitDoes, FinalMoves DEF ReaderGone, KeepReplies, KeepConns, KeepServer
<1>4. CASE Lock(c)
  BY ZenonT(20), <1>1, <1>2, <1>4, LockDoes, FinalMoves DEF ReaderGone, KeepReplies, KeepServer
<1>5. CASE Dial(c)
  BY ZenonT(30), <1>1, <1>2, <1>5, DialDoes, FinalMoves DEF ReaderGone, KeepReplies, KeepServer
<1>6. CASE Write(c)
  <2>1. /\ caller[c] = "write" /\ KeepCancels /\ queue' = queue /\ lane' = lane /\ answered' = answered /\ pending' = pending
        /\ \E where \in {"sending", "done", "drop"} : Caller(c, where)
        /\ result' = result \/ Result(c, "timeout")
    BY ZenonT(30), <1>6, WriteDoes DEF KeepReplies, KeepConns
  <2> QED BY ZenonT(20), <1>1, <1>2, <2>1, FinalMoves DEF ReaderGone
<1>7. CASE Sent(c)
  <2>1. /\ caller[c] = "sending" /\ KeepCancels /\ queue' = queue /\ lane' = lane /\ answered' = answered /\ pending' = pending
        /\ \E where \in {"reading", "done", "drop"} : Caller(c, where)
        /\ result' = result \/ Result(c, "sent") \/ Result(c, "unsent")
    BY ZenonT(30), <1>7, SentDoes DEF KeepServer, KeepConns
  <2> QED BY ZenonT(20), <1>1, <1>2, <2>1, FinalMoves DEF ReaderGone
<1>8. CASE ReadLost(c) \/ Abandon(c)
  <2>1. /\ caller[c] \in {"lock", "dial", "sending", "reading"}
        /\ KeepCancels /\ queue' = queue /\ lane' = lane /\ answered' = answered /\ pending' = pending
        /\ \E where \in {"done", "drop"} : Caller(c, where)
        /\ \E what \in {"lost", "abandoned"} : Result(c, what)
    BY ZenonT(20), <1>8, CallEnds DEF KeepServer, KeepReplies
  <2> QED BY ZenonT(20), <1>1, <1>2, <2>1, FinalMoves DEF ReaderGone
<1> QED BY ZenonT(20), <1>3, <1>4, <1>5, <1>6, <1>7, <1>8

\* FinalInv over Register.
LEMMA FinalInvRegister == ASSUME Shapes, HomeInv, FinalInv, NEW c \in Calls, Register(c) PROVE FinalInv'
<1>1. /\ caller[c] = "register" /\ on' = on /\ KeepCancels /\ KeepReplies /\ KeepServer /\ lane' = lane /\ on[c] \in Conns
  BY ZenonT(30), RegisterDoes, Homed
<1>2. ~ReaderGone(c) /\ {"write", "done", "lock"} \subseteq CallerStates /\ "lost" \in Results \ FinalKinds
  BY ZenonT(20), <1>1 DEF ReaderGone, CallerStates, Results, FinalKinds
<1>3. CASE pending' = pending
  <2>1. /\ \E where \in {"write", "done", "lock"} : Caller(c, where)
        /\ result' = result \/ Result(c, "lost")
    BY ZenonT(30), RegisterDoes, <1>1
  <2> QED BY ZenonT(20), <1>1, <1>2, <1>3, <2>1, FinalMoves DEF KeepReplies, KeepServer
<1>4. CASE Caller(c, "write") /\ result' = result /\ Pends(on[c], pending[on[c]] \cup {c})
  <2>1. c \notin asked /\ ~cancelled[c]
    BY ZenonT(20), <1>1 DEF HomeInv
  <2>2. \A k \in Conns : pending'[k] \subseteq pending[k] \cup {c}
    BY ZenonT(20), <1>4 DEF Pends
  <2>3. \A k \in Conns : lane[k].at \in LaneAt => lane[k].call # c
    BY <2>1 DEF HomeInv
  <2>4. \A d \in Calls : (NoFinalQueued(d)' <=> NoFinalQueued(d)) /\ (NoFinal(d)' <=> NoFinal(d))
    BY ZenonT(20), <1>1, <1>4 DEF NoFinal, NoFinalQueued, KeepReplies
  <2>5. \A d \in Calls : ReaderGone(d)' <=> ReaderGone(d)
    BY ZenonT(20), <1>2, <1>4 DEF Caller, ReaderGone
  <2>6. cancelled' = cancelled /\ answered' = answered
    BY ZenonT(20), <1>1 DEF KeepCancels, KeepServer
  <2>7. \A k \in Conns : lane'[k].at \in {"cancel", "error"} => lane'[k].call \notin pending'[k]
    BY ZenonT(20), <1>1, <2>2, <2>3 DEF FinalInv, LaneAt
  <2>8. \A d \in Calls : cancelled'[d] /\ ~ReaderGone(d)' =>
          NoFinalQueued(d)' /\ \A k \in Conns : d \notin pending'[k] /\ (lane'[k].call = d => lane'[k].at = "error")
    BY ZenonT(20), <1>1, <2>1, <2>2, <2>4, <2>5, <2>6 DEF FinalInv
  <2>9. \A k \in Conns, d \in Calls : lane'[k].call = d /\ lane'[k].frame.kind = "item" => NoFinal(d)'
    BY ZenonT(20), <1>1, <2>4 DEF FinalInv
  <2>10. \A d \in Calls : d \notin answered' => NoFinal(d)'
    BY ZenonT(20), <2>4, <2>6 DEF FinalInv
  <2> QED BY ZenonT(20), <1>1, <1>4, <2>6, <2>7, <2>8, <2>9, <2>10 DEF FinalInv
<1> QED BY ZenonT(20), <1>1, <1>3, <1>4, RegisterDoes

\* FinalInv over Read.
LEMMA FinalInvRead == ASSUME Shapes, FinalInv, NEW c \in Calls, Read(c) PROVE FinalInv'
<1>1. caller[c] = "reading" /\ TakesOne(c) /\ KeepCancels /\ lane' = lane /\ answered' = answered /\ pending' = pending
  BY ZenonT(30), ReadDoes DEF KeepConns, KeepServer
<1>2. \A d \in Calls : NoFinalQueued(d) => NoFinalQueued(d)'
  <2>1. \A d \in Calls : d # c => queue'[d] = queue[d]
    BY ZenonT(20), <1>1 DEF TakesOne
  <2> QED BY ZenonT(20), <1>1, <2>1, FinalTakes DEF NoFinalQueued
<1>3. ~ReaderGone(c) /\ \A d \in Calls : ReaderGone(d) => ReaderGone(d)'
  <2>1. \A d \in Calls : d # c => caller'[d] = caller[d]
    BY ZenonT(30), ReadDoes DEF Caller
  <2> QED BY ZenonT(20), <1>1, <2>1 DEF ReaderGone
<1>4. CASE queue[c][1].kind \in FinalKinds /\ Result(c, queue[c][1].kind)
  <2>1. 1 \in 1 .. Len(queue[c])
    BY <1>1 DEF TakesOne
  <2>2. ~NoFinalQueued(c) /\ ~NoFinal(c)
    BY ZenonT(20), <1>4, <2>1 DEF NoFinalQueued, NoFinal
  <2>3. c \in answered /\ ~cancelled[c] /\ \A k \in Conns : lane[k].call = c => lane[k].frame.kind # "item"
    BY ZenonT(20), <1>3, <2>2 DEF FinalInv
  <2>4. \A d \in Calls : d # c => result'[d] = result[d]
    BY ZenonT(20), <1>4 DEF Result
  <2>5. \A d \in Calls : d # c /\ NoFinal(d) => NoFinal(d)'
    BY ZenonT(20), <1>2, <2>4 DEF NoFinal
  <2>6. \A d \in Calls : d \notin answered' => NoFinal(d)'
    BY ZenonT(20), <1>1, <2>3, <2>5 DEF FinalInv
  <2>7. \A k \in Conns, d \in Calls : lane'[k].call = d /\ lane'[k].frame.kind = "item" => NoFinal(d)'
    BY ZenonT(20), <1>1, <2>3, <2>5 DEF FinalInv
  <2>8. \A d \in Calls : cancelled'[d] /\ ~ReaderGone(d)' =>
          NoFinalQueued(d)' /\ \A k \in Conns : d \notin pending'[k] /\ (lane'[k].call = d => lane'[k].at = "error")
    BY ZenonT(20), <1>1, <1>2, <1>3 DEF FinalInv, KeepCancels
  <2>9. \A d \in Calls : result'[d] \in FinalKinds => ~cancelled'[d]
    BY ZenonT(20), <1>1, <2>3, <2>4 DEF FinalInv, KeepCancels
  <2> QED BY ZenonT(20), <1>1, <2>6, <2>7, <2>8, <2>9 DEF FinalInv
<1>5. CASE result' = result \/ \E what \in ErrorKinds \cup {"unexpected"} : Result(c, what)
  <2>1. \A d \in Calls : result'[d] \in FinalKinds => result[d] \in FinalKinds
    BY ZenonT(20), <1>5 DEF Result, FinalKinds, ErrorKinds
  <2> QED BY ZenonT(20), <1>1, <1>2, <1>3, <2>1, FinalFrame DEF KeepCancels
<1> QED BY ZenonT(30), <1>4, <1>5, ReadDoes

\* FinalInv over DropRemove.
LEMMA FinalInvDropRemove == ASSUME Shapes, HomeInv, FinalInv, NEW c \in Calls, DropRemove(c) PROVE FinalInv'
<1>1. /\ Caller(c, "dropCancel") /\ result' = result /\ Pends(on[c], pending[on[c]] \ {c}) /\ on[c] \in Conns
      /\ KeepCancels /\ KeepReplies /\ KeepServer /\ lane' = lane
  BY ZenonT(20), DropRemoveDoes, Homed
<1>2. \A k \in Conns : pending'[k] \subseteq pending[k]
  BY ZenonT(20), <1>1 DEF Pends
<1>3. \A d \in Calls : NoFinalQueued(d) => NoFinalQueued(d)'
  BY ZenonT(20), <1>1 DEF NoFinalQueued, KeepReplies
<1>4. \A d \in Calls : ReaderGone(d) => ReaderGone(d)'
  BY ZenonT(20), <1>1 DEF ReaderGone, Caller
<1> QED BY ZenonT(20), <1>1, <1>2, <1>3, <1>4, FinalFrame DEF KeepCancels, KeepServer

\* FinalInv over DropCancel.
LEMMA FinalInvDropCancel == ASSUME Shapes, EndInv, FinalInv, NEW c \in Calls, DropCancel(c) PROVE FinalInv'
<1>1. /\ caller[c] = "dropCancel" /\ Caller(c, "done") /\ result' = result /\ queue' = queue
      /\ lane' = lane /\ pending' = pending /\ answered' = answered
  BY ZenonT(20), DropCancelDoes DEF KeepReplies, KeepConns, KeepServer
<1>2. \A d \in Calls : (NoFinalQueued(d)' <=> NoFinalQueued(d)) /\ (NoFinal(d)' <=> NoFinal(d))
  BY ZenonT(20), <1>1 DEF NoFinal, NoFinalQueued
<1>3. ReaderGone(c) /\ ReaderGone(c)' /\ \A d \in Calls : ReaderGone(d)' <=> ReaderGone(d)
  BY ZenonT(20), <1>1 DEF Caller, ReaderGone
<1>4. \A d \in Calls : d # c => cancelled'[d] = cancelled[d]
  BY ZenonT(20), DropCancelDoes DEF KeepCancels, Cancels
<1>5. result[c] \in FinalKinds => cancelled'[c] = cancelled[c]
  BY ZenonT(20), <1>3, DropCancelDoes DEF EndInv, EndAt, KeepCancels
<1>6. \A d \in Calls : d \notin answered' => NoFinal(d)'
  BY ZenonT(20), <1>1, <1>2 DEF FinalInv
<1>7. \A k \in Conns, d \in Calls : lane'[k].call = d /\ lane'[k].frame.kind = "item" => NoFinal(d)'
  BY ZenonT(20), <1>1, <1>2 DEF FinalInv
<1>8. \A d \in Calls : cancelled'[d] /\ ~ReaderGone(d)' =>
        NoFinalQueued(d)' /\ \A k \in Conns : d \notin pending'[k] /\ (lane'[k].call = d => lane'[k].at = "error")
  BY ZenonT(20), <1>1, <1>2, <1>3, <1>4 DEF FinalInv
<1>9. \A d \in Calls : result'[d] \in FinalKinds => ~cancelled'[d]
  BY ZenonT(20), <1>1, <1>4, <1>5 DEF FinalInv
<1> QED BY ZenonT(20), <1>1, <1>6, <1>7, <1>8, <1>9 DEF FinalInv

\* FinalInv over the steps of a pump.
LEMMA FinalInvPump ==
    ASSUME Shapes, FinalInv, NEW c \in Calls, PumpCheck(c) \/ PumpPull(c) \/ PumpSend(c)
    PROVE  FinalInv'
<1>1. KeepCall /\ KeepCancels /\ KeepConns /\ KeepServer
  BY ZenonT(20), PumpsDoes
<1>2. \A d \in Calls : NoFinalQueued(d) => NoFinalQueued(d)'
  <2>1. CASE queue' = queue
    BY ZenonT(20), <2>1 DEF NoFinalQueued
  <2>2. ASSUME NEW kind \in ErrorKinds, Queues(c, Plain(kind)) PROVE \A d \in Calls : NoFinalQueued(d) => NoFinalQueued(d)'
    <3>1. Plain(kind).kind \notin FinalKinds
      BY ZenonT(20), FrameFacts DEF FinalKinds, ErrorKinds
    <3> QED BY ZenonT(20), <2>2, <3>1, FinalQueues
  <2> QED BY ZenonT(20), <2>1, <2>2, PumpsDoes
<1>3. \A d \in Calls : ReaderGone(d) => ReaderGone(d)'
  BY ZenonT(20), <1>1 DEF KeepCall, ReaderGone
<1> QED BY ZenonT(20), <1>1, <1>2, <1>3, FinalFrame DEF KeepCall, KeepCancels, KeepConns, KeepServer

\* FinalInv over `goaway` and the lane's end.
LEMMA FinalInvCloses == ASSUME Shapes, FinalInv, NEW k \in Conns, Goaway(k) \/ LaneEnds(k) PROVE FinalInv'
<1>1. /\ caller' = caller /\ result' = result /\ cancelled' = cancelled /\ queue' = queue /\ answered' = answered
      /\ \A j \in Conns : pending'[j] \subseteq pending[j]
      /\ \A j \in Conns : lane'[j] = lane[j] \/ (lane'[j].at = "ended" /\ lane'[j].call = NoCall)
  BY ZenonT(30), LaneClosesDoes DEF KeepCall, KeepCancels, KeepReplies, KeepServer, Lane, Pends
<1>2. \A d \in Calls : (NoFinalQueued(d)' <=> NoFinalQueued(d)) /\ (NoFinal(d)' <=> NoFinal(d)) /\ (ReaderGone(d)' <=> ReaderGone(d))
  BY ZenonT(20), <1>1 DEF NoFinal, NoFinalQueued, ReaderGone
<1>3. \A d \in Calls : d # NoCall
  BY ZenonT(20), ClientAssumption DEF NoCall
<1>4. \A d \in Calls : d \notin answered' => NoFinal(d)'
  BY ZenonT(20), <1>1, <1>2 DEF FinalInv
<1>5. \A j \in Conns, d \in Calls : lane'[j].call = d /\ lane'[j].frame.kind = "item" => NoFinal(d)'
  BY SMTT(30), <1>1, <1>2, <1>3 DEF FinalInv
<1>6. \A d \in Calls : cancelled'[d] /\ ~ReaderGone(d)' =>
        NoFinalQueued(d)' /\ \A j \in Conns : d \notin pending'[j] /\ (lane'[j].call = d => lane'[j].at = "error")
  BY SMTT(30), <1>1, <1>2, <1>3 DEF FinalInv
<1>7. \A j \in Conns : /\ lane'[j].at = "found" /\ lane'[j].frame.kind \in FinalKinds => lane'[j].call \in answered'
                       /\ lane'[j].at \in LaneAt \ {"found"} => lane'[j].frame.kind = "item"
                       /\ lane'[j].at \in {"cancel", "error"} => lane'[j].call \notin pending'[j]
  BY SMTT(30), <1>1 DEF FinalInv, LaneAt
<1> QED BY ZenonT(20), <1>1, <1>4, <1>5, <1>6, <1>7 DEF FinalInv

\* FinalInv over a frame of the server.
LEMMA FinalInvFrame ==
    ASSUME Shapes, HomeInv, FinalInv, NEW k \in Conns, NEW c \in Calls, NEW kind \in {"item"} \cup FinalKinds, LaneFrame(k, c, kind)
    PROVE  FinalInv'
<1>1. /\ caller' = caller /\ result' = result /\ cancelled' = cancelled /\ queue' = queue /\ c \notin answered
      /\ on[c] = k /\ lane[k].at = "next"
  BY ZenonT(30), LaneFrameDoes DEF KeepCall, KeepCancels, KeepReplies
<1>2. \A d \in Calls : (NoFinalQueued(d)' <=> NoFinalQueued(d)) /\ (NoFinal(d)' <=> NoFinal(d)) /\ (ReaderGone(d)' <=> ReaderGone(d))
  BY ZenonT(20), <1>1 DEF NoFinal, NoFinalQueued, ReaderGone
<1>3. /\ answered \subseteq answered' /\ \A j \in Conns : pending'[j] \subseteq pending[j]
  BY ZenonT(20), LaneFrameDoes DEF Pends
<1>4. \/ lane' = lane
      \/ /\ c \in pending[k] /\ \A j \in Conns : j # k => lane'[j] = lane[j]
         /\ lane'[k].at = "found" /\ lane'[k].call = c
         /\ lane'[k].frame.kind \in FinalKinds => c \in answered'
  <2>1. CASE c \notin pending[k]
    BY ZenonT(20), <2>1, LaneFrameDoes
  <2>2. CASE kind = "item" /\ c \in pending[k]
    <3>1. Lane(k, "found", c, Item(told[c] + 1)) /\ told[c] + 1 \in 1 .. MaxItems
      BY ZenonT(30), <2>2, LaneFrameDoes DEF FinalKinds
    <3>2. Item(told[c] + 1).kind \notin FinalKinds
      BY ZenonT(20), <3>1, FrameFacts DEF FinalKinds
    <3> QED BY ZenonT(20), <2>2, <3>1, <3>2 DEF Lane
  <2>3. CASE kind \in FinalKinds /\ c \in pending[k]
    <3>1. kind # "item"
      BY ZenonT(20), <2>3 DEF FinalKinds
    <3>2. answered' = answered \cup {c} /\ Lane(k, "found", c, Plain(kind))
      BY ZenonT(30), <2>3, <3>1, LaneFrameDoes
    <3> QED BY ZenonT(20), <2>3, <3>2 DEF Lane
  <2> QED BY ZenonT(20), <2>1, <2>2, <2>3
<1>5. \A d \in Calls : d \notin answered' => NoFinal(d)'
  BY ZenonT(20), <1>2, <1>3 DEF FinalInv
<1>6. \A j \in Conns, d \in Calls : lane'[j].call = d /\ lane'[j].frame.kind = "item" => NoFinal(d)'
  BY <1>1, <1>2, <1>4 DEF FinalInv
<1>7. c \in pending[k] => ~cancelled[c] \/ ReaderGone(c)
  BY ZenonT(20) DEF FinalInv
<1>8. \A d \in Calls : cancelled'[d] /\ ~ReaderGone(d)' =>
        NoFinalQueued(d)' /\ \A j \in Conns : d \notin pending'[j] /\ (lane'[j].call = d => lane'[j].at = "error")
  BY SMTT(30), <1>1, <1>2, <1>3, <1>4, <1>7 DEF FinalInv
<1>9. \A j \in Conns : /\ lane'[j].at = "found" /\ lane'[j].frame.kind \in FinalKinds => lane'[j].call \in answered'
                       /\ lane'[j].at \in LaneAt \ {"found"} => lane'[j].frame.kind = "item"
                       /\ lane'[j].at \in {"cancel", "error"} => lane'[j].call \notin pending'[j]
  BY <1>3, <1>4 DEF FinalInv
<1> QED BY ZenonT(20), <1>1, <1>5, <1>6, <1>8, <1>9 DEF FinalInv

\* A lane holds a frame of a call of its connection, so no other lane holds one of that call.
LEMMA OneLane ==
    ASSUME Shapes, HomeInv, NEW k \in Conns, NEW c \in Calls, lane[k].call = c
    PROVE  /\ lane[k].at \in LaneAt /\ on[c] = k /\ c \in asked
           /\ \A j \in Conns : (lane[j].call = c => j = k) /\ (c \in pending[j] => j = k)
<1>1. \A j \in Conns : lane[j].call = c => lane[j].at \in LaneAt
  BY ZenonT(20), LaneFacts
<1> QED BY <1>1 DEF HomeInv

\* What a lane's step leaves to show.
LEMMA FinalLanes ==
    ASSUME Shapes, HomeInv, FinalInv, NEW k \in Conns, NEW c \in Calls, lane[k].call = c, KeepLaneRest,
           \A j \in Conns : j # k => lane'[j] = lane[j],
           \A j \in Conns : pending'[j] \subseteq pending[j],
           \A d \in Calls : d # c => queue'[d] = queue[d] /\ cancelled'[d] = cancelled[d],
           \/ lane'[k].at = "next" /\ lane'[k].call = NoCall
           \/ lane'[k].at \in LaneAt \ {"found"} /\ lane'[k].call = c /\ lane'[k].frame.kind = "item" /\ NoFinalQueued(c)'
                /\ NoFinal(c) /\ (lane'[k].at \in {"cancel", "error"} => c \notin pending'[k]),
           c \notin answered => NoFinalQueued(c)',
           cancelled'[c] /\ ~ReaderGone(c) => NoFinalQueued(c)' /\ c \notin pending'[k] /\ lane'[k].at \in {"error", "next"},
           result[c] \in FinalKinds => ~cancelled'[c]
    PROVE  FinalInv'
<1>1. caller' = caller /\ result' = result /\ answered' = answered
  BY ZenonT(20) DEF KeepLaneRest, KeepCall, KeepServer
<1>2. \A d \in Calls : /\ d # c => (NoFinalQueued(d)' <=> NoFinalQueued(d)) /\ (NoFinal(d)' <=> NoFinal(d))
                       /\ ReaderGone(d)' <=> ReaderGone(d)
  BY ZenonT(20), <1>1 DEF NoFinal, NoFinalQueued, ReaderGone
<1>3. NoFinal(c) /\ NoFinalQueued(c)' => NoFinal(c)'
  BY ZenonT(20), <1>1 DEF NoFinal
<1>4. \A j \in Conns : (j # k => lane'[j].call # c) /\ (c \in pending[j] => j = k)
  BY OneLane
<1>5. \A d \in Calls : d # NoCall
  BY ZenonT(20), ClientAssumption DEF NoCall
<1>6. \A d \in Calls : d \notin answered' => NoFinal(d)'
  BY <1>1, <1>2, <1>3 DEF FinalInv
<1>7. \A j \in Conns, d \in Calls : lane'[j].call = d /\ lane'[j].frame.kind = "item" => NoFinal(d)'
  BY <1>2, <1>3, <1>4, <1>5 DEF FinalInv
<1>8. \A d \in Calls : cancelled'[d] /\ ~ReaderGone(d)' =>
        NoFinalQueued(d)' /\ \A j \in Conns : d \notin pending'[j] /\ (lane'[j].call = d => lane'[j].at = "error")
  <2>1. ASSUME NEW d \in Calls, d # c, cancelled'[d], ~ReaderGone(d)'
        PROVE  NoFinalQueued(d)' /\ \A j \in Conns : d \notin pending'[j] /\ (lane'[j].call = d => lane'[j].at = "error")
    BY <1>2, <1>5, <2>1 DEF FinalInv
  <2>2. ASSUME cancelled'[c], ~ReaderGone(c)'
        PROVE  NoFinalQueued(c)' /\ \A j \in Conns : c \notin pending'[j] /\ (lane'[j].call = c => lane'[j].at = "error")
    <3>1. ~ReaderGone(c)
      BY ZenonT(20), <1>2, <2>2
    <3>2. NoFinalQueued(c)' /\ c \notin pending'[k] /\ lane'[k].at \in {"error", "next"}
      BY ZenonT(20), <2>2, <3>1
    <3>3. lane'[k].call = c => lane'[k].at = "error"
      BY ZenonT(20), <1>5, <3>2 DEF LaneAt
    <3> QED BY ZenonT(20), <1>4, <3>2, <3>3
  <2> QED BY ZenonT(20), <2>1, <2>2
<1>9. \A j \in Conns : /\ lane'[j].at = "found" /\ lane'[j].frame.kind \in FinalKinds => lane'[j].call \in answered'
                       /\ lane'[j].at \in LaneAt \ {"found"} => lane'[j].frame.kind = "item"
                       /\ lane'[j].at \in {"cancel", "error"} => lane'[j].call \notin pending'[j]
  BY <1>1 DEF FinalInv, LaneAt
<1>10. \A d \in Calls : result'[d] \in FinalKinds => ~cancelled'[d]
  BY ZenonT(20), <1>1 DEF FinalInv
<1> QED BY ZenonT(20), <1>6, <1>7, <1>8, <1>9, <1>10 DEF FinalInv

\* FinalInv over LaneQueue.
LEMMA FinalInvLaneQueue == ASSUME Shapes, HomeInv, FinalInv, NEW k \in Conns, LaneQueue(k) PROVE FinalInv'
<1>1. /\ lane[k].at = "found" /\ lane[k].call \in Calls /\ pending' = pending /\ KeepCancels /\ KeepLaneRest
  BY ZenonT(20), LaneQueueDoes
<1>2. PICK c \in Calls : lane[k].call = c
  BY ZenonT(20), <1>1
<1>3. /\ ~cancelled[c] \/ ReaderGone(c)
      /\ result[c] \in FinalKinds => ~cancelled[c]
      /\ lane[k].frame.kind = "item" => NoFinal(c)
      /\ lane[k].frame.kind \in FinalKinds => c \in answered
      /\ c \notin answered => NoFinal(c)
  BY ZenonT(20), <1>1, <1>2 DEF FinalInv, KeepCancels
<1>4. cancelled' = cancelled
  BY ZenonT(20), <1>1 DEF KeepCancels
<1>5. CASE lane[k].frame.kind = "item" /\ Lane(k, "remove", lane[k].call, lane[k].frame) /\ queue' = queue
  <2>1. NoFinalQueued(c) /\ NoFinalQueued(c)' /\ NoFinal(c)
    BY ZenonT(20), <1>3, <1>5 DEF NoFinal, NoFinalQueued
  <2>2. /\ lane'[k].at = "remove" /\ lane'[k].call = c /\ lane'[k].frame.kind = "item"
        /\ \A j \in Conns : j # k => lane'[j] = lane[j]
    BY ZenonT(20), <1>2, <1>5 DEF Lane
  <2>3. lane'[k].at \in LaneAt \ {"found"} /\ lane'[k].at \notin {"cancel", "error"}
    BY ZenonT(20), <2>2 DEF LaneAt
  <2> QED BY ZenonT(20), <1>1, <1>2, <1>3, <1>4, <1>5, <2>1, <2>2, <2>3, FinalLanes
<1>6. CASE Lane(k, "next", NoCall, Plain("end")) /\ Queues(lane[k].call, lane[k].frame)
  <2>1. lane'[k].at = "next" /\ lane'[k].call = NoCall /\ \A j \in Conns : j # k => lane'[j] = lane[j]
    BY ZenonT(20), <1>6 DEF Lane
  <2>2. \A d \in Calls : d # c => queue'[d] = queue[d]
    BY ZenonT(20), <1>2, <1>6 DEF Queues
  <2>3. c \notin answered => NoFinalQueued(c)'
    BY ZenonT(20), <1>2, <1>3, <1>6, FinalQueues DEF NoFinal
  <2> QED BY ZenonT(20), <1>1, <1>2, <1>3, <1>4, <2>1, <2>2, <2>3, FinalLanes
<1> QED BY ZenonT(20), <1>5, <1>6, LaneQueueDoes

\* FinalInv over the steps of overflow().
LEMMA FinalInvOverflow ==
    ASSUME Shapes, HomeInv, FinalInv, NEW k \in Conns, OverflowRemove(k) \/ OverflowCancel(k) \/ OverflowError(k)
    PROVE  FinalInv'
<1>1. lane[k].at \in LaneAt \ {"found"} /\ lane[k].call \in Calls /\ KeepLaneRest
  BY ZenonT(30), OverflowDoes DEF LaneAt
<1>2. PICK c \in Calls : lane[k].call = c
  BY ZenonT(20), <1>1
<1>3. /\ lane[k].frame.kind = "item" /\ NoFinal(c) /\ result[c] \notin FinalKinds /\ NoFinalQueued(c)
      /\ lane[k].at \in {"cancel", "error"} => c \notin pending[k]
      /\ cancelled[c] /\ ~ReaderGone(c) => lane[k].at = "error"
  BY ZenonT(20), <1>1, <1>2 DEF FinalInv, NoFinal
<1>4. CASE /\ lane[k].at = "remove" /\ Lane(k, "cancel", lane[k].call, lane[k].frame)
           /\ Pends(k, pending[k] \ {lane[k].call}) /\ KeepCancels /\ queue' = queue
  <2>1. NoFinalQueued(c)'
    BY ZenonT(20), <1>3, <1>4 DEF NoFinalQueued
  <2>2. /\ lane'[k].at = "cancel" /\ lane'[k].call = c /\ lane'[k].frame.kind = "item"
        /\ \A j \in Conns : j # k => lane'[j] = lane[j]
    BY ZenonT(20), <1>2, <1>3, <1>4 DEF Lane
  <2>3. c \notin pending'[k] /\ (\A j \in Conns : pending'[j] \subseteq pending[j]) /\ cancelled' = cancelled
    BY ZenonT(20), <1>2, <1>4 DEF Pends, KeepCancels
  <2>4. lane'[k].at \in LaneAt \ {"found"}
    BY ZenonT(20), <2>2 DEF LaneAt
  <2> QED BY ZenonT(20), <1>1, <1>2, <1>3, <1>4, <2>1, <2>2, <2>3, <2>4, FinalLanes
<1>5. CASE /\ lane[k].at = "cancel" /\ Lane(k, "error", lane[k].call, lane[k].frame)
           /\ pending' = pending /\ Cancels(lane[k].call) /\ queue' = queue
  <2>1. NoFinalQueued(c)'
    BY ZenonT(20), <1>3, <1>5 DEF NoFinalQueued
  <2>2. /\ lane'[k].at = "error" /\ lane'[k].call = c /\ lane'[k].frame.kind = "item"
        /\ \A j \in Conns : j # k => lane'[j] = lane[j]
    BY ZenonT(20), <1>2, <1>3, <1>5 DEF Lane
  <2>3. c \notin pending'[k] /\ pending' = pending /\ \A d \in Calls : d # c => cancelled'[d] = cancelled[d]
    BY ZenonT(20), <1>2, <1>3, <1>5 DEF Cancels
  <2>4. lane'[k].at \in LaneAt \ {"found"}
    BY ZenonT(20), <2>2 DEF LaneAt
  <2> QED BY ZenonT(20), <1>1, <1>2, <1>3, <1>5, <2>1, <2>2, <2>3, <2>4, FinalLanes
<1>6. CASE /\ lane[k].at = "error" /\ Lane(k, "next", NoCall, Plain("end"))
           /\ pending' = pending /\ KeepCancels /\ Queues(lane[k].call, Plain("overflow"))
  <2>1. lane'[k].at = "next" /\ lane'[k].call = NoCall /\ \A j \in Conns : j # k => lane'[j] = lane[j]
    BY ZenonT(20), <1>6 DEF Lane
  <2>2. (\A d \in Calls : d # c => queue'[d] = queue[d]) /\ cancelled' = cancelled
    BY ZenonT(20), <1>2, <1>6 DEF Queues, KeepCancels
  <2>3. Plain("overflow").kind \notin FinalKinds
    BY ZenonT(20), FrameFacts DEF FinalKinds, ErrorKinds
  <2>4. NoFinalQueued(c)'
    BY ZenonT(20), <1>2, <1>3, <1>6, <2>3, FinalQueues
  <2> QED BY ZenonT(20), <1>1, <1>2, <1>3, <1>6, <2>1, <2>2, <2>4, FinalLanes
<1> QED BY ZenonT(20), <1>4, <1>5, <1>6, OverflowDoes

\* Every step keeps FinalInv.
LEMMA FinalInvStep == ASSUME Shapes, HomeInv, EndInv, FinalInv, ClientNext PROVE FinalInv'
BY ZenonT(20), FinalInvCall, FinalInvRegister, FinalInvRead, FinalInvDropRemove, FinalInvDropCancel, FinalInvPump, FinalInvCloses,
   FinalInvFrame, FinalInvLaneQueue, FinalInvOverflow DEF ClientNext, CallStep, LaneStep, ServerStep
=============================================================================
