--------------------------- MODULE WsOutboundProofs ---------------------------
(***************************************************************************)
(* The outbound queue of a connection for any users, limit and policy: an  *)
(* accepted message is written, under way or discarded, in its order, and  *)
(* nothing follows the close frame.                                        *)
(***************************************************************************)
EXTENDS WsOutbound, SequenceTheorems, TLAPS

OutMessages == Users \X (1 .. Count)
OutFrames == OutMessages \cup CloseFrames

\* The messages of a sequence of frames o are those of acc that dr has not, in acc's order.
Before(acc, m, n) == \E k, l \in 1 .. Len(acc) : k < l /\ acc[k] = m /\ acc[l] = n
Distinct(acc) == \A k, l \in 1 .. Len(acc) : acc[k] = acc[l] => k = l
Ordered(o, acc) ==
    \A i, j \in 1 .. Len(o) : i < j /\ o[i] \notin CloseFrames /\ o[j] \notin CloseFrames => Before(acc, o[i], o[j])
Faithful(o, acc, dr) ==
    dr \subseteq Elements(acc) /\ Elements(o) \ CloseFrames = Elements(acc) \ dr /\ Ordered(o, acc)

\* The sequences, and that who may push has messages left.
SeqsInv ==
    /\ connection \in Connections
    /\ queue \in Seq(OutMessages) /\ taken \in Seq(OutMessages)
    /\ wire \in Seq(OutFrames) /\ accepted \in Seq(OutMessages)
    /\ \A u \in Users : at[u] \in {"ready", "check", "waiting"} => sent[u] < Count

\* Where the loop is, against the queue, what it took and the close.
TurnInv ==
    /\ closed => queue = <<>>
    /\ outLoop \in {"late", "close"} => closing = "none" /\ why \in Reasons
    /\ outLoop = "close" => closed
    /\ outLoop \notin {"write", "close", "ending"} => taken = <<>>
    /\ \A i \in 1 .. Len(wire) : wire[i] \in CloseFrames => i = Len(wire) /\ closed /\ closing # "none" /\ taken = <<>>

\* Each push is numbered by its user's count, so no two messages are alike.
NumberInv ==
    /\ \A k \in 1 .. Len(accepted) : accepted[k][2] <= sent[accepted[k][1]]
    /\ Distinct(accepted)

OutInv == OutTypeOK /\ SeqsInv /\ TurnInv /\ NumberInv /\ Faithful(Outgoing, accepted, dropped)

-----------------------------------------------------------------------------
(* Sequences of frames. *)

\* A message is no close frame.
LEMMA MessageNoClose == \A m \in OutMessages : m \notin CloseFrames
<1> SUFFICES ASSUME NEW u \in Users, NEW n \in 1 .. Count, NEW r \in Reasons, <<u, n>> = <<"close", r>> PROVE FALSE
  BY DEF OutMessages, CloseFrames, CloseFrame
<1>1. u = "close"
  BY ZenonT(20)
<1> QED BY ZenonT(20), <1>1, WsOutboundAssumption DEF Users

\* A message pushed last follows all.
LEMMA FaithfulPush ==
  ASSUME NEW o \in Seq(OutFrames), NEW acc \in Seq(OutMessages), NEW dr, NEW m \in OutMessages,
         Faithful(o, acc, dr), m \notin Elements(acc)
  PROVE  Faithful(Append(o, m), Append(acc, m), dr)
<1> DEFINE p == Append(o, m)  a == Append(acc, m)
<1>1. Len(p) = Len(o) + 1 /\ p[Len(o) + 1] = m /\ \A i \in 1 .. Len(o) : p[i] = o[i]
  BY AppendProperties DEF OutFrames
<1>2. Len(a) = Len(acc) + 1 /\ a[Len(acc) + 1] = m /\ \A i \in 1 .. Len(acc) : a[i] = acc[i]
  BY AppendProperties
<1>3. Len(o) \in Nat /\ Len(acc) \in Nat
  BY ZenonT(20), LenProperties
<1>4. Elements(p) = Elements(o) \cup {m} /\ Elements(a) = Elements(acc) \cup {m}
  <2> HIDE DEF p, a
  <2>1. Elements(p) = Elements(o) \cup {m}
    BY <1>1, <1>3 DEF Elements
  <2>2. Elements(a) = Elements(acc) \cup {m}
    BY <1>2, <1>3 DEF Elements
  <2> QED BY ZenonT(20), <2>1, <2>2
<1>5. m \notin CloseFrames
  BY ZenonT(20), MessageNoClose
<1>6. ASSUME NEW i \in 1 .. Len(p), NEW j \in 1 .. Len(p), i < j, p[i] \notin CloseFrames, p[j] \notin CloseFrames
      PROVE  Before(a, p[i], p[j])
  <2> HIDE DEF p, a
  <2>1. i \in 1 .. Len(o) /\ p[i] = o[i]
    BY <1>1, <1>3, <1>6
  <2>2. CASE j \in 1 .. Len(o)
    <3>1. Before(acc, o[i], o[j])
      BY ZenonT(20), <2>1, <2>2, <1>1, <1>6 DEF Faithful, Ordered
    <3>2. PICK k \in 1 .. Len(acc), l \in 1 .. Len(acc) : k < l /\ acc[k] = o[i] /\ acc[l] = o[j]
      BY ZenonT(20), <3>1 DEF Before
    <3>3. k \in 1 .. Len(a) /\ l \in 1 .. Len(a) /\ a[k] = p[i] /\ a[l] = p[j]
      BY <1>1, <1>2, <1>3, <2>1, <2>2, <3>2
    <3> QED BY ZenonT(20), <3>2, <3>3 DEF Before
  <2>3. CASE j = Len(o) + 1
    <3>1. o[i] \in Elements(acc)
      BY ZenonT(20), <1>6, <2>1 DEF Faithful, Elements
    <3>2. PICK k \in 1 .. Len(acc) : acc[k] = o[i]
      BY ZenonT(20), <3>1 DEF Elements
    <3>3. k \in 1 .. Len(a) /\ Len(a) \in 1 .. Len(a) /\ k < Len(a) /\ a[k] = p[i] /\ a[Len(a)] = p[j]
      BY <1>1, <1>2, <1>3, <2>1, <2>3, <3>2
    <3> QED BY ZenonT(20), <3>3 DEF Before
  <2> QED BY <1>1, <1>3, <2>2, <2>3
<1>7. Ordered(p, a)
  BY ZenonT(20), <1>6 DEF Ordered
<1> QED BY ZenonT(20), <1>4, <1>5, <1>7 DEF Faithful

\* A close frame is no message.
LEMMA FaithfulClose ==
  ASSUME NEW o \in Seq(OutFrames), NEW acc, NEW dr, NEW f \in CloseFrames, Faithful(o, acc, dr)
  PROVE  Faithful(Append(o, f), acc, dr)
<1> DEFINE p == Append(o, f)
<1>1. Len(p) = Len(o) + 1 /\ p[Len(o) + 1] = f /\ \A i \in 1 .. Len(o) : p[i] = o[i]
  BY AppendProperties DEF OutFrames
<1>2. Len(o) \in Nat
  BY ZenonT(20), LenProperties
<1> HIDE DEF p
<1>3. Elements(p) = Elements(o) \cup {f}
  BY <1>1, <1>2 DEF Elements
<1>4. Ordered(p, acc)
  BY <1>1, <1>2 DEF Faithful, Ordered
<1> QED BY ZenonT(20), <1>3, <1>4 DEF Faithful, p

\* A sequence p that g picks from o, when the frames left out are discarded.
LEMMA FaithfulPick ==
  ASSUME NEW o \in Seq(OutFrames), NEW acc \in Seq(OutMessages), NEW dr, Faithful(o, acc, dr), Distinct(acc),
         NEW p \in Seq(OutFrames), NEW g \in [1 .. Len(p) -> 1 .. Len(o)],
         \A i \in 1 .. Len(p) : p[i] = o[g[i]],
         \A i, j \in 1 .. Len(p) : i < j => g[i] < g[j],
         NEW out, out \cap CloseFrames = {}, \A m \in out : \E j \in 1 .. Len(o) : m = o[j] /\ \A i \in 1 .. Len(p) : g[i] # j,
         \A j \in 1 .. Len(o) : (\A i \in 1 .. Len(p) : g[i] # j) => o[j] \in out
  PROVE  Faithful(p, acc, dr \cup out)
<1>1. Len(o) \in Nat /\ Len(p) \in Nat /\ Len(acc) \in Nat
  BY ZenonT(20), LenProperties
<1>2. Ordered(p, acc)
  <2> SUFFICES ASSUME NEW i \in 1 .. Len(p), NEW j \in 1 .. Len(p), i < j, p[i] \notin CloseFrames, p[j] \notin CloseFrames
               PROVE  Before(acc, p[i], p[j])
    BY ZenonT(20) DEF Ordered
  <2>1. g[i] \in 1 .. Len(o) /\ g[j] \in 1 .. Len(o) /\ g[i] < g[j] /\ p[i] = o[g[i]] /\ p[j] = o[g[j]]
    BY ZenonT(20)
  <2> QED BY ZenonT(20), <2>1 DEF Faithful, Ordered
<1>3. ASSUME NEW i \in 1 .. Len(o), NEW j \in 1 .. Len(o), o[i] = o[j], o[i] \notin CloseFrames PROVE i = j
  <2>1. ASSUME NEW a \in 1 .. Len(o), NEW b \in 1 .. Len(o), a < b, o[a] = o[b], o[a] \notin CloseFrames PROVE FALSE
    BY <2>1, <1>1 DEF Faithful, Ordered, Before, Distinct
  <2> QED BY <1>1, <1>3, <2>1
<1>4. ASSUME NEW m \in Elements(p) \ CloseFrames PROVE m \in Elements(acc) \ (dr \cup out)
  <2>1. PICK i \in 1 .. Len(p) : m = p[i]
    BY ZenonT(20), <1>4 DEF Elements
  <2>2. m = o[g[i]] /\ g[i] \in 1 .. Len(o)
    BY ZenonT(20), <2>1
  <2>3. m \in Elements(acc) \ dr
    BY ZenonT(20), <1>4, <2>2 DEF Faithful, Elements
  <2>4. m \notin out
    <3>1. SUFFICES ASSUME m \in out PROVE FALSE
      BY ZenonT(20)
    <3>2. PICK j \in 1 .. Len(o) : m = o[j] /\ \A k \in 1 .. Len(p) : g[k] # j
      BY ZenonT(20), <3>1
    <3>3. o[g[i]] = o[j] /\ o[g[i]] \notin CloseFrames
      BY ZenonT(20), <1>4, <2>2, <3>2
    <3>4. g[i] = j
      BY ZenonT(20), <1>3, <2>2, <3>3
    <3> QED BY ZenonT(20), <3>2, <3>4
  <2> QED BY ZenonT(20), <2>3, <2>4
<1>5. ASSUME NEW m \in Elements(acc) \ (dr \cup out) PROVE m \in Elements(p) \ CloseFrames
  <2>1. m \in Elements(o) \ CloseFrames
    BY ZenonT(20), <1>5 DEF Faithful
  <2>2. PICK j \in 1 .. Len(o) : m = o[j]
    BY ZenonT(20), <2>1 DEF Elements
  <2>3. PICK i \in 1 .. Len(p) : g[i] = j
    BY ZenonT(20), <1>5, <2>2
  <2> QED BY <2>1, <2>2, <2>3 DEF Elements
<1>6. out \subseteq Elements(acc)
  BY DEF Faithful, Elements
<1> QED BY ZenonT(20), <1>2, <1>4, <1>5, <1>6 DEF Faithful

-----------------------------------------------------------------------------
(* The types and the sequences. *)

\* A user's next message.
LEMMA NextMessage ==
  ASSUME OutTypeOK, SeqsInv, NEW u \in Users, at[u] \in {"ready", "check", "waiting"}
  PROVE  <<u, sent[u] + 1>> \in OutMessages /\ sent[u] + 1 \in 0 .. Count
<1>1. sent[u] \in 0 .. Count /\ sent[u] < Count /\ Count \in Nat
  BY ZenonT(20), WsOutboundAssumption DEF OutTypeOK, SeqsInv
<1> QED BY <1>1 DEF OutMessages

\* The limit of the queue.
LEMMA LimitNat == ASSUME SeqsInv PROVE QueueLimit \in Nat \ {0}
BY ZenonT(20), WsOutboundAssumption DEF SeqsInv, QueueLimit

\* The initial state.
LEMMA OutInitInv == ASSUME OutInit PROVE OutInv
<1>1. connection \in Connections /\ QueueLimit \in Nat \ {0} /\ Count \in Nat \ {0}
  BY ZenonT(20), WsOutboundAssumption DEF OutInit, QueueLimit
<1>2. OutTypeOK
  <2>1. Len(queue) <= QueueLimit
    BY <1>1 DEF OutInit
  <2>2. sent \in [Users -> 0 .. Count]
    BY <1>1 DEF OutInit
  <2> QED BY ZenonT(20), <2>1, <2>2 DEF OutInit, OutTypeOK
<1>3. SeqsInv
  <2>1. \A u \in Users : sent[u] < Count
    BY <1>1 DEF OutInit
  <2> QED BY <1>1, <2>1 DEF OutInit, SeqsInv
<1>4. TurnInv
  BY DEF OutInit, TurnInv
<1>5. NumberInv
  BY DEF OutInit, NumberInv, Distinct
<1>6. Outgoing = <<>>
  BY DEF OutInit, Outgoing
<1>7. Faithful(Outgoing, accepted, dropped)
  BY <1>6 DEF OutInit, Faithful, Ordered, Elements
<1> QED BY ZenonT(20), <1>2, <1>3, <1>4, <1>5, <1>7 DEF OutInv

\* The types, over every step.
LEMMA OutTypeStep == ASSUME OutTypeOK, SeqsInv, OutNext, UNCHANGED connection PROVE OutTypeOK'
<1>0. QueueLimit' = QueueLimit /\ QueueLimit \in Nat \ {0} /\ Count \in Nat \ {0} /\ Len(queue) \in Nat /\ Len(queue) <= QueueLimit
  BY ZenonT(20), LimitNat, LenProperties, WsOutboundAssumption DEF QueueLimit, SeqsInv, OutTypeOK
<1>1. \A e \in Events : Heard(e) \in [Events -> {"none", "on", "heard"}]
  BY ZenonT(20) DEF Heard, OutTypeOK
<1>2. RoomHeard \in [Streams -> {"none", "on", "heard"}]
  BY ZenonT(20) DEF RoomHeard, OutTypeOK
<1>3. Len(<<>>) <= QueueLimit
  BY <1>0
<1>4. ASSUME NEW u \in Users, at[u] \in {"ready", "check", "waiting"}, Accept(u)
      PROVE  sent' \in [Users -> 0 .. Count] /\ at' \in [Users -> {"ready", "check", "waiting", "notify", "finishing", "told", "over"}]
  BY ZenonT(20), <1>4, NextMessage DEF Accept, OutTypeOK
<1>5. ASSUME NEW m, Len(queue) < QueueLimit PROVE Len(Append(queue, m)) <= QueueLimit
  BY <1>0, <1>5 DEF SeqsInv
<1>6. ASSUME NEW m, Len(queue) >= QueueLimit PROVE Len(Append(Tail(queue), m)) <= QueueLimit
  BY <1>0, <1>6 DEF SeqsInv
<1>7. ASSUME NEW u \in Senders, Push(u) PROVE OutTypeOK'
  <2>1. u \in Users
    BY ZenonT(20) DEF Users
  <2>2. Len(queue') <= QueueLimit' /\ close' \in Reasons \cup {"none"}
    BY ZenonT(20), <1>0, <1>3, <1>5, <1>6, <1>7 DEF Push, OutTypeOK, outVars, Reasons
  <2>3. sent' \in [Users -> 0 .. Count] /\ at' \in [Users -> {"ready", "check", "waiting", "notify", "finishing", "told", "over"}]
    BY ZenonT(20), <1>4, <1>7, <2>1 DEF Push, OutTypeOK, outVars
  <2> QED BY ZenonT(20), <1>7, <2>2, <2>3 DEF Push, OutTypeOK, outVars, loopVars
<1>8. ASSUME NEW s \in Streams, StreamPush(s) PROVE OutTypeOK'
  <2>1. s \in Users
    BY ZenonT(20) DEF Users
  <2>2. Len(queue') <= QueueLimit'
    BY ZenonT(20), <1>0, <1>5, <1>8 DEF StreamPush, OutTypeOK
  <2>3. sent' \in [Users -> 0 .. Count] /\ at' \in [Users -> {"ready", "check", "waiting", "notify", "finishing", "told", "over"}]
    BY ZenonT(20), <1>4, <1>8, <2>1 DEF StreamPush, OutTypeOK
  <2> QED BY ZenonT(20), <1>8, <2>2, <2>3 DEF StreamPush, OutTypeOK, loopVars
<1>9. ASSUME NEW s \in Streams, StreamListen(s) \/ StreamWoken(s) \/ StreamCut(s) \/ StreamFinished(s) \/ StreamTold(s) PROVE OutTypeOK'
  BY ZenonT(20), <1>0, <1>1, <1>9 DEF StreamListen, StreamWoken, StreamCut, StreamFinished, StreamTold, OutTypeOK, outVars, loopVars, Events
<1>10. ASSUME NEW u \in Users, Wake(u) PROVE OutTypeOK'
  BY ZenonT(20), <1>0, <1>1, <1>10 DEF Wake, OutTypeOK, outVars, loopVars, Events
<1>11. ASSUME NEW c \in Closers, RequestClose(c) PROVE OutTypeOK'
  <2>1. Count \in 0 .. Count
    BY <1>0
  <2> QED BY ZenonT(20), <1>0, <1>11, <2>1 DEF RequestClose, OutTypeOK, loopVars, Reasons
<1>12. CASE Drain
  BY ZenonT(20), <1>0, <1>1, <1>12 DEF Drain, OutTypeOK, outVars, userVars, loopVars, Events
<1>13. CASE Top
  <2>1. listen' \in [Events -> {"none", "on", "heard"}]
    BY ZenonT(20), <1>13 DEF Top, OutTypeOK
  <2> QED BY ZenonT(20), <1>0, <1>13, <2>1 DEF Top, OutTypeOK, outVars, userVars
<1>14. CASE Take
  <2>1. closed' \in BOOLEAN
    BY ZenonT(20), <1>14 DEF Take, OutTypeOK
  <2> QED BY ZenonT(20), <1>0, <1>2, <1>3, <1>14, <2>1 DEF Take, OutTypeOK
<1>15. CASE Write
  BY ZenonT(20), <1>0, <1>15 DEF Write, OutTypeOK, outVars, userVars
<1>16. CASE OutDecide
  <2>1. why' \in Reasons \cup {"none"} /\ outLoop' \in {"wait", "late"}
    BY ZenonT(20), <1>16 DEF OutDecide, OutTypeOK, Reasons
  <2> QED BY ZenonT(20), <1>0, <1>16, <2>1 DEF OutDecide, OutTypeOK, outVars, userVars
<1>17. CASE Late \/ WriteClose \/ WriteFails \/ Lost \/ CloseDeadline \/ Refused
  BY ZenonT(20), <1>0, <1>2, <1>3, <1>17 DEF Late, WriteClose, WriteFails, Lost, CloseDeadline, Refused, OutTypeOK, outVars, userVars
<1>18. CASE ClientClose
  BY ZenonT(20), <1>0, <1>2, <1>3, <1>18 DEF ClientClose, Shut, OutTypeOK, Reasons
<1>19. CASE Ending
  <2>1. room' \in [Streams -> {"none", "on", "heard"}]
    BY ZenonT(20), <1>19 DEF Ending
  <2>2. at' \in [Users -> {"ready", "check", "waiting", "notify", "finishing", "told", "over"}]
    BY ZenonT(20), <1>19 DEF Ending, OutTypeOK
  <2> QED BY ZenonT(20), <1>0, <1>3, <1>19, <2>1, <2>2 DEF Ending, OutTypeOK
<1>20. CASE \E e \in Events : Woken(e)
  BY ZenonT(20), <1>0, <1>20 DEF Woken, OutTypeOK, outVars, userVars
<1> QED
  BY ZenonT(30), <1>7, <1>8, <1>9, <1>10, <1>11, <1>12, <1>13, <1>14, <1>15, <1>16, <1>17, <1>18, <1>19, <1>20
     DEF OutNext, OutLoopStep, StreamStep, UserStep, Push, Users

-----------------------------------------------------------------------------
(* What a step does to the messages. *)

Quiet == UNCHANGED <<queue, taken, wire, accepted, dropped>>
Sends(u) == accepted' = Append(accepted, <<u, sent[u] + 1>>) /\ sent' = [sent EXCEPT ![u] = @ + 1]
Pushes(u) == Sends(u) /\ queue' = Append(queue, <<u, sent[u] + 1>>) /\ UNCHANGED <<taken, wire, dropped>>
Replaces(u) ==
    /\ Sends(u) /\ Len(queue) >= QueueLimit /\ queue' = Append(Tail(queue), <<u, sent[u] + 1>>)
    /\ dropped' = dropped \cup {Head(queue)} /\ UNCHANGED <<taken, wire>>
Clears == queue' = <<>> /\ dropped' = dropped \cup Elements(queue) /\ UNCHANGED <<taken, wire, accepted>>
Takes == taken' = queue /\ queue' = <<>> /\ UNCHANGED <<wire, accepted, dropped>>
Writes == wire' = wire \o taken /\ taken' = <<>> /\ UNCHANGED <<queue, accepted, dropped>>
Closes == wire' = Append(wire \o taken, CloseFrame(why)) /\ taken' = <<>> /\ UNCHANGED <<queue, accepted, dropped>>
Ends == /\ queue' = <<>> /\ taken' = <<>> /\ dropped' = dropped \cup Elements(queue) \cup Elements(taken)
        /\ UNCHANGED <<wire, accepted>>

\* The steps, by what they do to the messages.
LEMMA OutEffects ==
  ASSUME OutNext
  PROVE  \/ Quiet \/ Clears
         \/ \E u \in Users : at[u] \in {"ready", "check"} /\ ~closed /\ (Pushes(u) \/ Replaces(u))
         \/ outLoop \in {"take", "late"} /\ Takes
         \/ outLoop = "write" /\ Writes
         \/ outLoop = "close" /\ Closes
         \/ outLoop = "ending" /\ Ends
<1>1. ASSUME NEW u \in Senders, Push(u)
      PROVE  Quiet \/ Clears \/ (at[u] \in {"ready", "check"} /\ ~closed /\ (Pushes(u) \/ Replaces(u)))
  BY ZenonT(30), <1>1 DEF Push, Quiet, Clears, Pushes, Replaces, Sends, Accept, Gone, outVars, loopVars
<1>2. ASSUME NEW s \in Streams, StreamPush(s) PROVE Quiet \/ (at[s] \in {"ready", "check"} /\ ~closed /\ Pushes(s))
  BY ZenonT(30), <1>2 DEF StreamPush, Quiet, Pushes, Sends, Accept, Gone, loopVars
<1>3. ASSUME NEW s \in Streams, StreamListen(s) \/ StreamWoken(s) \/ StreamCut(s) \/ StreamFinished(s) \/ StreamTold(s) PROVE Quiet
  BY ZenonT(20), <1>3 DEF StreamListen, StreamWoken, StreamCut, StreamFinished, StreamTold, Quiet, outVars, loopVars
<1>4. ASSUME NEW u \in Users, Wake(u) \/ RequestClose(u) PROVE Quiet
  BY ZenonT(20), <1>4 DEF Wake, RequestClose, Quiet, outVars, loopVars
<1>5. ASSUME Drain \/ Top \/ OutDecide \/ WriteFails \/ Lost \/ CloseDeadline \/ Refused \/ \E e \in Events : Woken(e) PROVE Quiet
  BY ZenonT(20), <1>5 DEF Drain, Top, OutDecide, WriteFails, Lost, CloseDeadline, Refused, Woken, Quiet, outVars, loopVars
<1>6. ASSUME Take \/ Late PROVE outLoop \in {"take", "late"} /\ Takes
  BY ZenonT(20), <1>6 DEF Take, Late, Takes
<1>7. ASSUME Write PROVE outLoop = "write" /\ Writes
  BY ZenonT(20), <1>7 DEF Write, Writes, outVars
<1>8. ASSUME WriteClose PROVE outLoop = "close" /\ Closes
  BY ZenonT(20), <1>8 DEF WriteClose, Closes, outVars
<1>9. ASSUME ClientClose PROVE Clears
  BY ZenonT(20), <1>9 DEF ClientClose, Shut, Clears
<1>10. ASSUME Ending PROVE outLoop = "ending" /\ Ends
  BY ZenonT(20), <1>10 DEF Ending, Ends
<1> QED
  BY ZenonT(30), <1>1, <1>2, <1>3, <1>4, <1>5, <1>6, <1>7, <1>8, <1>9, <1>10
     DEF OutNext, OutLoopStep, StreamStep, UserStep, Push, Users

\* The sequences, over every step.
LEMMA SeqsStep == ASSUME OutTypeOK, SeqsInv, TurnInv, OutNext, UNCHANGED connection PROVE SeqsInv'
<1>1. queue \in Seq(OutMessages) /\ taken \in Seq(OutMessages) /\ wire \in Seq(OutFrames) /\ accepted \in Seq(OutMessages)
  BY ZenonT(20) DEF SeqsInv
<1>2. taken \in Seq(OutFrames) /\ <<>> \in Seq(OutMessages)
  BY <1>1 DEF OutFrames
<1>3. \A m \in OutMessages :
         /\ Append(queue, m) \in Seq(OutMessages) /\ Append(accepted, m) \in Seq(OutMessages)
         /\ queue # <<>> => Append(Tail(queue), m) \in Seq(OutMessages)
  BY <1>1
<1>4. wire \o taken \in Seq(OutFrames) /\ (outLoop = "close" => Append(wire \o taken, CloseFrame(why)) \in Seq(OutFrames))
  <2>1. wire \o taken \in Seq(OutFrames)
    BY ZenonT(20), <1>1, <1>2, ConcatProperties
  <2>2. outLoop = "close" => CloseFrame(why) \in OutFrames
    BY ZenonT(20) DEF TurnInv, OutFrames, CloseFrames
  <2> QED BY ZenonT(20), <2>1, <2>2, AppendProperties
<1>5. Len(queue) >= QueueLimit => queue # <<>>
  BY LimitNat
<1>6. queue' \in Seq(OutMessages) /\ taken' \in Seq(OutMessages) /\ wire' \in Seq(OutFrames) /\ accepted' \in Seq(OutMessages)
  <2>1. ASSUME NEW u \in Users, at[u] \in {"ready", "check"}, Pushes(u) \/ Replaces(u)
        PROVE  queue' \in Seq(OutMessages) /\ taken' \in Seq(OutMessages) /\ wire' \in Seq(OutFrames) /\ accepted' \in Seq(OutMessages)
    <3> DEFINE m == <<u, sent[u] + 1>>
    <3>1. m \in OutMessages
      BY ZenonT(20), <2>1, NextMessage
    <3> HIDE DEF m
    <3>2. /\ Append(queue, m) \in Seq(OutMessages) /\ Append(accepted, m) \in Seq(OutMessages)
          /\ queue # <<>> => Append(Tail(queue), m) \in Seq(OutMessages)
      BY ZenonT(20), <1>3, <3>1
    <3>3. CASE Pushes(u)
      BY ZenonT(20), <1>1, <3>2, <3>3 DEF Pushes, Sends, m
    <3>4. CASE Replaces(u)
      BY ZenonT(20), <1>1, <1>5, <3>2, <3>4 DEF Replaces, Sends, m
    <3> QED BY ZenonT(20), <2>1, <3>3, <3>4
  <2> QED
    BY ZenonT(30), <1>1, <1>2, <1>4, <2>1, OutEffects DEF Quiet, Clears, Takes, Writes, Closes, Ends
<1>7. ASSUME NEW u \in Users, at'[u] \in {"ready", "check", "waiting"} PROVE sent'[u] < Count
  <2> USE DEF OutTypeOK
  <2>1. ASSUME at'[u] = at[u], sent'[u] = sent[u] PROVE sent'[u] < Count
    BY ZenonT(20), <1>7, <2>1 DEF SeqsInv
  <2>2. ASSUME NEW v \in Users, Push(v) \/ StreamPush(v) PROVE sent'[u] < Count
    BY ZenonT(20), <1>7, <2>2 DEF Push, StreamPush, Accept, outVars, SeqsInv
  <2>3. ASSUME NEW v \in Users, StreamListen(v) \/ StreamWoken(v) \/ StreamCut(v) \/ StreamFinished(v) \/ StreamTold(v) PROVE sent'[u] < Count
    BY ZenonT(20), <1>7, <2>3 DEF StreamListen, StreamWoken, StreamCut, StreamFinished, StreamTold, SeqsInv
  <2>4. ASSUME NEW v \in Users, Wake(v) \/ RequestClose(v) PROVE sent'[u] < Count
    BY ZenonT(20), <1>7, <2>4 DEF Wake, RequestClose, SeqsInv
  <2>5. ASSUME Drain \/ Top \/ OutDecide \/ WriteFails \/ Lost \/ CloseDeadline \/ Refused \/ \E e \in Events : Woken(e) PROVE sent'[u] < Count
    BY ZenonT(20), <2>1, <2>5 DEF Drain, Top, OutDecide, WriteFails, Lost, CloseDeadline, Refused, Woken, userVars
  <2>6. ASSUME Take \/ Late \/ Write \/ WriteClose \/ ClientClose PROVE sent'[u] < Count
    BY ZenonT(20), <2>1, <2>6 DEF Take, Late, Write, WriteClose, ClientClose, userVars
  <2>7. ASSUME Ending PROVE sent'[u] < Count
    BY ZenonT(20), <1>7, <2>7 DEF Ending, SeqsInv
  <2> QED
    BY ZenonT(30), <2>2, <2>3, <2>4, <2>5, <2>6, <2>7 DEF OutNext, OutLoopStep, StreamStep, UserStep, Users
<1> QED BY ZenonT(20), <1>6, <1>7 DEF SeqsInv

\* The queue of a closed connection stays empty, and what is written ends with the close frame, over
\* every step.
LEMMA TurnStep == ASSUME OutTypeOK, SeqsInv, TurnInv, OutNext PROVE TurnInv'
<1> DEFINE Last(w, c, b, t) == \A i \in 1 .. Len(w) : w[i] \in CloseFrames => i = Len(w) /\ c /\ b # "none" /\ t = <<>>
<1>1. /\ closed => queue = <<>>
      /\ outLoop \in {"late", "close"} => closing = "none" /\ why \in Reasons
      /\ outLoop = "close" => closed
      /\ outLoop \notin {"write", "close", "ending"} => taken = <<>>
      /\ Last(wire, closed, closing, taken)
  BY ZenonT(20) DEF TurnInv
<1>2. ASSUME wire' = wire, closed => closed', closing # "none" => closing' # "none", taken = <<>> => taken' = <<>>
      PROVE  Last(wire', closed', closing', taken')
  BY ZenonT(20), <1>1, <1>2
<1>3. ASSUME taken = <<>> PROVE wire \o taken = wire
  BY ZenonT(20), <1>3, ConcatEmptySeq DEF SeqsInv
<1>4. \A i \in 1 .. Len(taken) : taken[i] \notin CloseFrames
  BY ZenonT(20), MessageNoClose, ElementOfSeq DEF SeqsInv
<1>5. /\ Len(wire \o taken) = Len(wire) + Len(taken) /\ Len(wire) \in Nat /\ Len(taken) \in Nat /\ wire \o taken \in Seq(OutFrames)
      /\ \A i \in 1 .. Len(wire) + Len(taken) : (wire \o taken)[i] = IF i <= Len(wire) THEN wire[i] ELSE taken[i - Len(wire)]
  <2>1. wire \in Seq(OutFrames) /\ taken \in Seq(OutFrames)
    BY DEF SeqsInv, OutFrames
  <2> QED BY ZenonT(20), <2>1, ConcatProperties, LenProperties
<1> HIDE DEF Last
<1>6. CASE Quiet /\ UNCHANGED <<closed, closing, why, outLoop>>
  <2>1. Last(wire', closed', closing', taken')
    BY ZenonT(20), <1>2, <1>6 DEF Quiet
  <2> QED BY ZenonT(20), <1>1, <1>6, <2>1 DEF TurnInv, Quiet, Last
<1>7. ASSUME NEW u \in Users, Push(u) \/ StreamPush(u) PROVE TurnInv'
  <2>1. /\ closed' = closed /\ closing' = closing /\ outLoop' = outLoop /\ why' = why /\ wire' = wire /\ taken' = taken
        /\ closed => queue' = queue
    BY ZenonT(20), <1>7 DEF Push, StreamPush, Gone, outVars, loopVars
  <2>2. Last(wire', closed', closing', taken')
    BY ZenonT(20), <1>2, <2>1
  <2> QED BY ZenonT(20), <1>1, <2>1, <2>2 DEF TurnInv, Last
<1>8. ASSUME NEW s \in Streams, StreamListen(s) \/ StreamWoken(s) \/ StreamCut(s) \/ StreamFinished(s) \/ StreamTold(s) PROVE TurnInv'
  BY ZenonT(20), <1>6, <1>8 DEF StreamListen, StreamWoken, StreamCut, StreamFinished, StreamTold, Quiet, outVars, loopVars
<1>9. ASSUME NEW u \in Users, Wake(u) \/ RequestClose(u) PROVE TurnInv'
  BY ZenonT(20), <1>6, <1>9 DEF Wake, RequestClose, Quiet, outVars, loopVars
<1>10. CASE Drain
  BY ZenonT(20), <1>6, <1>10 DEF Drain, Quiet, outVars, loopVars
<1>11. CASE Top \/ WriteFails \/ Lost \/ CloseDeadline \/ Refused \/ \E e \in Events : Woken(e)
  <2>1. /\ closed' = closed /\ closing' = closing /\ why' = why /\ wire' = wire /\ taken' = taken /\ queue' = queue
        /\ outLoop' \in {"take", "top", "ending"} /\ (outLoop' # "ending" => outLoop \in {"top", "wait"})
    BY ZenonT(20), <1>11 DEF Top, WriteFails, Lost, CloseDeadline, Refused, Woken, outVars
  <2>2. Last(wire', closed', closing', taken')
    BY ZenonT(20), <1>2, <2>1
  <2> QED BY ZenonT(20), <1>1, <2>1, <2>2 DEF TurnInv, Last
<1>12. CASE OutDecide
  <2>1. /\ closed' = closed /\ closing' = closing /\ wire' = wire /\ taken' = taken /\ queue' = queue /\ outLoop = "decide"
        /\ outLoop' \in {"wait", "late"} /\ (outLoop' = "late" => closing = "none" /\ why' # "none")
    BY ZenonT(20), <1>12 DEF OutDecide, outVars
  <2>2. why' \in Reasons \cup {"none"}
    BY ZenonT(20), <1>12 DEF OutDecide, OutTypeOK, Reasons
  <2>3. Last(wire', closed', closing', taken')
    BY ZenonT(20), <1>2, <2>1
  <2> QED BY ZenonT(20), <1>1, <2>1, <2>2, <2>3 DEF TurnInv, Last
<1>13. CASE Take
  <2>1. /\ (closed => closed') /\ closing' = closing /\ wire' = wire /\ taken' = queue /\ queue' = <<>> /\ outLoop' = "write"
    BY ZenonT(20), <1>13 DEF Take
  <2>2. Last(wire', closed', closing', taken')
    BY ZenonT(20), <1>1, <2>1 DEF Last
  <2> QED BY ZenonT(20), <1>1, <2>1, <2>2 DEF TurnInv, Last
<1>14. CASE Late
  <2>1. closed' /\ closing' = closing /\ why' = why /\ wire' = wire /\ taken' = queue /\ queue' = <<>> /\ outLoop = "late" /\ outLoop' = "close"
    BY ZenonT(20), <1>14 DEF Late
  <2>2. Last(wire', closed', closing', taken')
    BY ZenonT(20), <1>1, <2>1 DEF Last
  <2> QED BY ZenonT(20), <1>1, <2>1, <2>2 DEF TurnInv, Last
<1>15. CASE Write
  <2>1. closed' = closed /\ closing' = closing /\ wire' = wire \o taken /\ taken' = <<>> /\ queue' = queue /\ outLoop' = "decide"
    BY ZenonT(20), <1>15 DEF Write, outVars
  <2>2. ASSUME NEW i \in 1 .. Len(wire'), wire'[i] \in CloseFrames PROVE i = Len(wire') /\ closed' /\ closing' # "none"
    <3>1. i \in 1 .. Len(wire) /\ wire[i] \in CloseFrames
      BY <1>4, <1>5, <2>1, <2>2
    <3>2. i = Len(wire) /\ closed /\ closing # "none" /\ taken = <<>>
      BY ZenonT(20), <1>1, <3>1 DEF Last
    <3> QED BY ZenonT(20), <1>3, <2>1, <3>2
  <2> QED BY ZenonT(20), <1>1, <2>1, <2>2 DEF TurnInv
<1>16. CASE WriteClose
  <2>1. /\ closed' = closed /\ closing' = why /\ wire' = Append(wire \o taken, CloseFrame(why)) /\ taken' = <<>> /\ queue' = queue
        /\ outLoop = "close" /\ outLoop' = "wait"
    BY ZenonT(20), <1>16 DEF WriteClose, outVars
  <2>2. closed /\ why # "none" /\ \A i \in 1 .. Len(wire) : wire[i] \notin CloseFrames
    BY ZenonT(20), <1>1, <2>1 DEF Last, Reasons
  <2>3. \A i \in 1 .. Len(wire \o taken) : (wire \o taken)[i] \notin CloseFrames
    BY <1>4, <1>5, <2>2
  <2>4. Len(wire') = Len(wire \o taken) + 1 /\ \A i \in 1 .. Len(wire \o taken) : wire'[i] = (wire \o taken)[i]
    <3>1. CloseFrame(why) \in OutFrames /\ wire \o taken \in Seq(OutFrames)
      BY ZenonT(20), <1>1, <1>5, <2>1 DEF OutFrames, CloseFrames
    <3> QED BY ZenonT(20), <2>1, <3>1, AppendProperties
  <2>5. \A i \in 1 .. Len(wire') : wire'[i] \in CloseFrames => i = Len(wire')
    <3>1. \A i \in 1 .. Len(wire') : i \in 1 .. Len(wire \o taken) \/ i = Len(wire')
      <4> DEFINE n == Len(wire \o taken)
      <4>1. n \in Nat
        BY ZenonT(20), <1>5, LenProperties
      <4>2. Len(wire') = n + 1
        BY ZenonT(20), <2>4
      <4> HIDE DEF n
      <4>3. \A i \in 1 .. n + 1 : i \in 1 .. n \/ i = n + 1
        BY <4>1
      <4> QED BY ZenonT(20), <4>2, <4>3 DEF n
    <3> QED BY ZenonT(20), <2>3, <2>4, <3>1
  <2> QED BY ZenonT(20), <1>1, <2>1, <2>2, <2>5 DEF TurnInv
<1>17. CASE ClientClose
  <2>1. closed' /\ closing' = "client" /\ wire' = wire /\ taken' = taken /\ queue' = <<>> /\ outLoop = "wait" /\ outLoop' = "top"
    BY ZenonT(20), <1>17 DEF ClientClose, Shut
  <2>2. Last(wire', closed', closing', taken')
    BY ZenonT(20), <1>2, <2>1
  <2> QED BY ZenonT(20), <1>1, <2>1, <2>2 DEF TurnInv, Last
<1>18. CASE Ending
  <2>1. closed' /\ closing' = closing /\ wire' = wire /\ taken' = <<>> /\ queue' = <<>> /\ outLoop' = "over"
    BY ZenonT(20), <1>18 DEF Ending
  <2>2. Last(wire', closed', closing', taken')
    BY ZenonT(20), <1>2, <2>1
  <2> QED BY ZenonT(20), <1>1, <2>1, <2>2 DEF TurnInv, Last
<1> QED
  BY ZenonT(30), <1>7, <1>8, <1>9, <1>10, <1>11, <1>12, <1>13, <1>14, <1>15, <1>16, <1>17, <1>18
     DEF OutNext, OutLoopStep, StreamStep, UserStep, Users

\* A user's count never goes back.
LEMMA SentGrows == ASSUME OutTypeOK, OutTypeOK', OutNext, NEW u \in Users PROVE sent[u] \in Nat /\ sent'[u] \in Nat /\ sent[u] <= sent'[u]
<1>1. sent[u] \in 0 .. Count /\ sent'[u] \in 0 .. Count /\ Count \in Nat
  BY ZenonT(20), WsOutboundAssumption DEF OutTypeOK
<1>2. sent' = sent \/ \E c \in Users : sent' = [sent EXCEPT ![c] = Count] \/ sent' = [sent EXCEPT ![c] = @ + 1]
  <2>1. ASSUME NEW v \in Users, Push(v) \/ StreamPush(v) PROVE sent' = sent \/ sent' = [sent EXCEPT ![v] = @ + 1]
    BY ZenonT(20), <2>1 DEF Push, StreamPush, Accept
  <2>2. ASSUME NEW s \in Streams, StreamListen(s) \/ StreamWoken(s) \/ StreamCut(s) \/ StreamFinished(s) \/ StreamTold(s) PROVE sent' = sent
    BY ZenonT(20), <2>2 DEF StreamListen, StreamWoken, StreamCut, StreamFinished, StreamTold
  <2>3. ASSUME NEW v \in Users, Wake(v) \/ RequestClose(v) PROVE sent' = sent \/ sent' = [sent EXCEPT ![v] = Count]
    BY ZenonT(20), <2>3 DEF Wake, RequestClose
  <2>4. ASSUME Drain \/ Top \/ OutDecide \/ WriteFails \/ Lost \/ CloseDeadline \/ Refused \/ \E e \in Events : Woken(e) PROVE sent' = sent
    BY ZenonT(20), <2>4 DEF Drain, Top, OutDecide, WriteFails, Lost, CloseDeadline, Refused, Woken, userVars
  <2>5. ASSUME Take \/ Late \/ Write \/ WriteClose \/ ClientClose \/ Ending PROVE sent' = sent
    BY ZenonT(20), <2>5 DEF Take, Late, Write, WriteClose, ClientClose, Ending, userVars
  <2> QED
    BY ZenonT(30), <2>1, <2>2, <2>3, <2>4, <2>5 DEF OutNext, OutLoopStep, StreamStep, UserStep, Users
<1>3. sent'[u] = sent[u] \/ sent'[u] = Count \/ sent'[u] = sent[u] + 1
  BY <1>2 DEF OutTypeOK
<1> QED BY <1>1, <1>3

\* A user's messages are numbered, over every step.
LEMMA NumberStep == ASSUME OutTypeOK, OutTypeOK', SeqsInv, NumberInv, OutNext PROVE NumberInv'
<1>1. \A k \in 1 .. Len(accepted) : accepted[k][1] \in Users /\ accepted[k][2] \in Nat
  BY ElementOfSeq DEF SeqsInv, OutMessages
<1>2. \A k \in 1 .. Len(accepted) : accepted[k][2] <= sent[accepted[k][1]] /\ accepted[k][2] <= sent'[accepted[k][1]]
  <2> SUFFICES ASSUME NEW k \in 1 .. Len(accepted)
               PROVE  accepted[k][2] <= sent[accepted[k][1]] /\ accepted[k][2] <= sent'[accepted[k][1]]
    BY ZenonT(20)
  <2>1. accepted[k][2] <= sent[accepted[k][1]]
    BY ZenonT(20) DEF NumberInv
  <2>2. sent[accepted[k][1]] \in Nat /\ sent'[accepted[k][1]] \in Nat /\ sent[accepted[k][1]] <= sent'[accepted[k][1]]
    BY ZenonT(20), <1>1, SentGrows
  <2> QED BY <1>1, <2>1, <2>2
<1>3. ASSUME accepted' = accepted PROVE NumberInv'
  BY ZenonT(20), <1>2, <1>3 DEF NumberInv, Distinct
<1>4. ASSUME NEW u \in Users, at[u] \in {"ready", "check"}, Sends(u) PROVE NumberInv'
  <2> DEFINE m == <<u, sent[u] + 1>>
  <2>1. m \in OutMessages /\ sent[u] \in Nat /\ sent'[u] = sent[u] + 1 /\ accepted' = Append(accepted, m)
    BY ZenonT(20), <1>4, NextMessage, SentGrows DEF Sends, OutTypeOK
  <2>2. m[1] = u /\ m[2] = sent[u] + 1
    BY ZenonT(20)
  <2> HIDE DEF m
  <2>3. Len(accepted') = Len(accepted) + 1 /\ accepted'[Len(accepted) + 1] = m /\ \A k \in 1 .. Len(accepted) : accepted'[k] = accepted[k]
    <3>1. accepted \in Seq(OutMessages)
      BY ZenonT(20) DEF SeqsInv
    <3> HIDE DEF OutTypeOK, SeqsInv
    <3> QED BY SMTT(30), <2>1, <3>1, AppendProperties
  <2>4. \A k \in 1 .. Len(accepted) : accepted[k] # m
    BY <1>2, <2>1, <2>2
  <2>5. Len(accepted) \in Nat
    BY ZenonT(20), LenProperties DEF SeqsInv
  <2>6. m[2] <= sent'[m[1]]
    BY <2>1, <2>2
  <2>7. \A k \in 1 .. Len(accepted') : k \in 1 .. Len(accepted) \/ k = Len(accepted) + 1
    BY <2>3, <2>5
  <2>8. \A k \in 1 .. Len(accepted') : accepted'[k][2] <= sent'[accepted'[k][1]]
    BY ZenonT(20), <1>2, <2>3, <2>6, <2>7
  <2>9. Distinct(accepted')
    BY ZenonT(20), <2>3, <2>4, <2>7 DEF Distinct, NumberInv
  <2> QED BY ZenonT(20), <2>8, <2>9 DEF NumberInv
<1>5. accepted' = accepted \/ \E u \in Users : at[u] \in {"ready", "check"} /\ Sends(u)
  BY ZenonT(20), OutEffects DEF Quiet, Clears, Pushes, Replaces, Takes, Writes, Closes, Ends
<1> QED BY ZenonT(20), <1>3, <1>4, <1>5

-----------------------------------------------------------------------------
(* The accepted messages. *)

\* No message is a close frame, so what is discarded holds none.
LEMMA ElementsNoClose == ASSUME NEW s \in Seq(OutMessages) PROVE Elements(s) \cap CloseFrames = {}
<1>1. \A i \in 1 .. Len(s) : s[i] \in OutMessages
  BY ZenonT(20), ElementOfSeq
<1> QED BY ZenonT(20), <1>1, MessageNoClose DEF Elements

\* What Outgoing is, and where its frames are.
LEMMA OutgoingIs ==
  ASSUME NEW w \in Seq(OutFrames), NEW t \in Seq(OutMessages), NEW q \in Seq(OutMessages)
  PROVE  /\ w \o t \o q \in Seq(OutFrames) /\ w \o t \in Seq(OutFrames)
         /\ Len(w \o t) = Len(w) + Len(t) /\ Len(w \o t \o q) = Len(w \o t) + Len(q)
         /\ \A i \in 1 .. Len(w) + Len(t) : (w \o t)[i] = IF i <= Len(w) THEN w[i] ELSE t[i - Len(w)]
         /\ \A i \in 1 .. Len(w \o t) + Len(q) : (w \o t \o q)[i] = IF i <= Len(w \o t) THEN (w \o t)[i] ELSE q[i - Len(w \o t)]
         /\ Len(w) \in Nat /\ Len(t) \in Nat /\ Len(q) \in Nat
         /\ w \o t \o <<>> = w \o t /\ w \o <<>> = w
         /\ t = <<>> => w \o t \o q = w \o q \o <<>>
         /\ \A m \in OutMessages : w \o t \o Append(q, m) = Append(w \o t \o q, m)
<1>1. t \in Seq(OutFrames) /\ q \in Seq(OutFrames)
  BY DEF OutFrames
<1>2. /\ w \o t \in Seq(OutFrames) /\ Len(w \o t) = Len(w) + Len(t)
      /\ \A i \in 1 .. Len(w) + Len(t) : (w \o t)[i] = IF i <= Len(w) THEN w[i] ELSE t[i - Len(w)]
  BY ZenonT(20), <1>1, ConcatProperties
<1>3. /\ w \o t \o q \in Seq(OutFrames) /\ Len(w \o t \o q) = Len(w \o t) + Len(q)
      /\ \A i \in 1 .. Len(w \o t) + Len(q) : (w \o t \o q)[i] = IF i <= Len(w \o t) THEN (w \o t)[i] ELSE q[i - Len(w \o t)]
  <2> DEFINE s == w \o t
  <2>1. s \in Seq(OutFrames)
    BY ZenonT(20), <1>2
  <2> HIDE DEF s
  <2>2. /\ s \o q \in Seq(OutFrames) /\ Len(s \o q) = Len(s) + Len(q)
        /\ \A i \in 1 .. Len(s) + Len(q) : (s \o q)[i] = IF i <= Len(s) THEN s[i] ELSE q[i - Len(s)]
    BY ZenonT(20), <1>1, <2>1, ConcatProperties
  <2> QED BY ZenonT(20), <2>2 DEF s
<1>4. Len(w) \in Nat /\ Len(t) \in Nat /\ Len(q) \in Nat
  BY ZenonT(20), LenProperties
<1>5. w \o t \o <<>> = w \o t /\ w \o <<>> = w /\ w \o q \o <<>> = w \o q
  <2>1. w \o q \in Seq(OutFrames)
    BY ZenonT(20), <1>1, ConcatProperties
  <2> QED BY ZenonT(20), <1>2, <2>1, ConcatEmptySeq
<1>6. ASSUME NEW m \in OutMessages PROVE w \o t \o Append(q, m) = Append(w \o t \o q, m)
  <2>1. m \in OutFrames /\ <<m>> \in Seq(OutFrames)
    BY DEF OutFrames
  <2>2. Append(q, m) = q \o <<m>> /\ Append(w \o t \o q, m) = (w \o t \o q) \o <<m>>
    BY ZenonT(20), <1>1, <1>3, <2>1, AppendIsConcat
  <2> DEFINE s == w \o t  e == <<m>>
  <2>3. s \in Seq(OutFrames) /\ e \in Seq(OutFrames)
    BY ZenonT(20), <1>2, <2>1
  <2> HIDE DEF s, e
  <2>4. (s \o q) \o e = s \o (q \o e)
    BY SMTT(30), <1>1, <2>3, ConcatAssociative
  <2> QED BY ZenonT(20), <2>2, <2>4 DEF s, e
<1> QED BY ZenonT(20), <1>2, <1>3, <1>4, <1>5, <1>6

\* A push is what goes out last.
LEMMA OutgoingPush ==
  ASSUME NEW w \in Seq(OutFrames), NEW t \in Seq(OutMessages), NEW q \in Seq(OutMessages), NEW m \in OutMessages
  PROVE  w \o t \o q \in Seq(OutFrames) /\ w \o t \o Append(q, m) = Append(w \o t \o q, m)
<1>1. /\ w \o t \o q \in Seq(OutFrames)
      /\ \A n \in OutMessages : w \o t \o Append(q, n) = Append(w \o t \o q, n)
  BY ZenonT(20), OutgoingIs
<1> QED BY ZenonT(20), <1>1

\* What the connection's end and an overflow leave of Outgoing.
LEMMA FaithfulPrefix ==
  ASSUME NEW o \in Seq(OutFrames), NEW acc \in Seq(OutMessages), NEW dr, Faithful(o, acc, dr), Distinct(acc),
         NEW p \in Seq(OutFrames), Len(p) <= Len(o), \A i \in 1 .. Len(p) : p[i] = o[i],
         NEW out, out \cap CloseFrames = {}, out = {o[j] : j \in Len(p) + 1 .. Len(o)}
  PROVE  Faithful(p, acc, dr \cup out)
<1> DEFINE g == [i \in 1 .. Len(p) |-> i]
<1>1. Len(o) \in Nat /\ Len(p) \in Nat
  BY ZenonT(20), LenProperties
<1>2. g \in [1 .. Len(p) -> 1 .. Len(o)] /\ \A i \in 1 .. Len(p) : g[i] = i
  BY <1>1
<1> HIDE DEF g
<1>3. \A i \in 1 .. Len(p) : p[i] = o[g[i]]
  BY ZenonT(20), <1>2
<1>4. \A i, j \in 1 .. Len(p) : i < j => g[i] < g[j]
  BY ZenonT(20), <1>2
<1>5. \A m \in out : \E j \in 1 .. Len(o) : m = o[j] /\ \A i \in 1 .. Len(p) : g[i] # j
  BY <1>1, <1>2
<1>6. \A j \in 1 .. Len(o) : (\A i \in 1 .. Len(p) : g[i] # j) => o[j] \in out
  BY <1>1, <1>2
<1> QED BY ZenonT(20), <1>2, <1>3, <1>4, <1>5, <1>6, FaithfulPick

\* What an overflow that drops the oldest leaves.
LEMMA FaithfulTail ==
  ASSUME NEW s \in Seq(OutFrames), NEW q \in Seq(OutMessages), q # <<>>,
         NEW acc \in Seq(OutMessages), NEW dr, Faithful(s \o q, acc, dr), Distinct(acc)
  PROVE  Faithful(s \o Tail(q), acc, dr \cup {Head(q)})
<1> DEFINE o == s \o q  p == s \o Tail(q)  g == [i \in 1 .. Len(p) |-> IF i <= Len(s) THEN i ELSE i + 1]
<1>1. q \in Seq(OutFrames) /\ Tail(q) \in Seq(OutFrames) /\ Len(Tail(q)) = Len(q) - 1 /\ Head(q) = q[1]
      /\ \A i \in 1 .. Len(Tail(q)) : Tail(q)[i] = q[i + 1]
  BY HeadTailProperties DEF OutFrames
<1>2. Len(s) \in Nat /\ Len(q) \in Nat \ {0}
  BY ZenonT(20), LenProperties, EmptySeq
<1>3. /\ o \in Seq(OutFrames) /\ Len(o) = Len(s) + Len(q)
      /\ \A i \in 1 .. Len(s) + Len(q) : o[i] = IF i <= Len(s) THEN s[i] ELSE q[i - Len(s)]
  BY ZenonT(20), <1>1, ConcatProperties
<1>4. /\ p \in Seq(OutFrames) /\ Len(p) = Len(s) + (Len(q) - 1)
      /\ \A i \in 1 .. Len(s) + (Len(q) - 1) : p[i] = IF i <= Len(s) THEN s[i] ELSE Tail(q)[i - Len(s)]
  <2> DEFINE r == Tail(q)
  <2>1. r \in Seq(OutFrames) /\ Len(r) = Len(q) - 1
    BY ZenonT(20), <1>1
  <2> HIDE DEF r
  <2>2. /\ s \o r \in Seq(OutFrames) /\ Len(s \o r) = Len(s) + Len(r)
        /\ \A i \in 1 .. Len(s) + Len(r) : (s \o r)[i] = IF i <= Len(s) THEN s[i] ELSE r[i - Len(s)]
    BY ZenonT(20), <2>1, ConcatProperties
  <2> QED BY ZenonT(20), <2>1, <2>2 DEF r
<1> HIDE DEF o, p
<1>5. g \in [1 .. Len(p) -> 1 .. Len(o)] /\ \A i \in 1 .. Len(p) : g[i] = IF i <= Len(s) THEN i ELSE i + 1
  BY <1>2, <1>3, <1>4
<1> HIDE DEF g
<1>6. \A i \in 1 .. Len(p) : p[i] = o[g[i]]
  BY <1>1, <1>2, <1>3, <1>4, <1>5
<1>7. \A i, j \in 1 .. Len(p) : i < j => g[i] < g[j]
  <2> SUFFICES ASSUME NEW i \in 1 .. Len(p), NEW j \in 1 .. Len(p), i < j PROVE g[i] < g[j]
    BY ZenonT(20)
  <2>1. g[i] = (IF i <= Len(s) THEN i ELSE i + 1) /\ g[j] = (IF j <= Len(s) THEN j ELSE j + 1)
    BY ZenonT(20), <1>5
  <2>2. Len(s) \in Nat /\ i \in Nat /\ j \in Nat
    BY <1>2
  <2> QED BY <2>1, <2>2
<1>8. Len(s) + 1 \in 1 .. Len(o) /\ o[Len(s) + 1] = Head(q) /\ \A i \in 1 .. Len(p) : g[i] # Len(s) + 1
  BY <1>1, <1>2, <1>3, <1>4, <1>5
<1>9. ASSUME NEW j \in 1 .. Len(o), j # Len(s) + 1 PROVE \E i \in 1 .. Len(p) : g[i] = j
  <2>1. CASE j <= Len(s)
    <3>1. j \in 1 .. Len(p) /\ g[j] = j
      BY <1>2, <1>3, <1>4, <1>5, <2>1
    <3> QED BY ZenonT(20), <3>1
  <2>2. CASE j > Len(s) + 1
    <3>1. j - 1 \in 1 .. Len(p) /\ g[j - 1] = j
      BY <1>2, <1>3, <1>4, <1>5, <2>2
    <3> QED BY ZenonT(20), <3>1
  <2> QED BY <1>2, <1>9, <2>1, <2>2
<1>10. Head(q) \notin CloseFrames
  BY ZenonT(20), HeadTailProperties, MessageNoClose
<1>11. Faithful(o, acc, dr)
  BY ZenonT(20) DEF o
<1>12. Faithful(p, acc, dr \cup {Head(q)})
  <2> DEFINE out == {Head(q)}
  <2>1. out \cap CloseFrames = {} /\ (\A m \in out : m = Head(q)) /\ Head(q) \in out
    BY ZenonT(20), <1>10
  <2> HIDE DEF out
  <2>2. \A m \in out : \E j \in 1 .. Len(o) : m = o[j] /\ \A i \in 1 .. Len(p) : g[i] # j
    BY ZenonT(20), <1>8, <2>1
  <2>3. \A j \in 1 .. Len(o) : (\A i \in 1 .. Len(p) : g[i] # j) => o[j] \in out
    BY ZenonT(20), <1>8, <1>9, <2>1
  <2>4. Faithful(p, acc, dr \cup out)
    BY ZenonT(20), <1>3, <1>4, <1>5, <1>6, <1>7, <1>11, <2>1, <2>2, <2>3, FaithfulPick
  <2> QED BY ZenonT(20), <2>4 DEF out
<1> QED BY ZenonT(20), <1>12 DEF p

\* What is discarded and what is kept are told apart, and the kept in order, over every step.
LEMMA FaithfulStep ==
  ASSUME OutInv, OutTypeOK', SeqsInv', NumberInv', OutNext PROVE Faithful(Outgoing, accepted, dropped)'
<1> SUFFICES Faithful(Outgoing', accepted', dropped')
  BY ZenonT(20) DEF Faithful, Ordered, Before, Elements
<1>1. /\ queue \in Seq(OutMessages) /\ taken \in Seq(OutMessages) /\ wire \in Seq(OutFrames) /\ accepted \in Seq(OutMessages)
      /\ connection \in Connections
  BY ZenonT(20) DEF OutInv, SeqsInv
<1>2. Faithful(wire \o taken \o queue, accepted, dropped) /\ Distinct(accepted)
  BY ZenonT(20) DEF OutInv, Outgoing, NumberInv
<1>3. Elements(queue) \cap CloseFrames = {} /\ Elements(taken) \cap CloseFrames = {}
  BY ZenonT(20), <1>1, ElementsNoClose
<1>4. ASSUME wire' \o taken' \o queue' = wire \o taken \o queue, accepted' = accepted, dropped' = dropped
      PROVE  Faithful(Outgoing', accepted', dropped')
  BY ZenonT(20), <1>2, <1>4 DEF Outgoing
<1>5. ASSUME NEW u \in Users, at[u] \in {"ready", "check"}, Sends(u)
      PROVE  /\ <<u, sent[u] + 1>> \in OutMessages /\ <<u, sent[u] + 1>> \notin Elements(accepted)
             /\ accepted' = Append(accepted, <<u, sent[u] + 1>>)
  <2> DEFINE m == <<u, sent[u] + 1>>
  <2>1. m \in OutMessages
    BY ZenonT(20), <1>5, NextMessage DEF OutInv
  <2>2. m[1] = u /\ m[2] = sent[u] + 1
    BY ZenonT(20)
  <2>3. accepted' = Append(accepted, m)
    BY ZenonT(20), <1>5 DEF Sends
  <2>4. sent[u] \in Nat
    BY ZenonT(20), SentGrows DEF OutInv
  <2> HIDE DEF m
  <2>5. \A k \in 1 .. Len(accepted) : accepted[k][2] <= sent[accepted[k][1]]
    BY ZenonT(20) DEF OutInv, NumberInv
  <2>6. ~(sent[u] + 1 <= sent[u])
    BY <2>4
  <2>7. m \notin Elements(accepted)
    BY ZenonT(20), <2>2, <2>5, <2>6 DEF Elements
  <2> QED BY ZenonT(20), <2>1, <2>3, <2>7 DEF m
<1>6. ASSUME NEW u \in Users, at[u] \in {"ready", "check"}, Pushes(u) PROVE Faithful(Outgoing', accepted', dropped')
  <2> DEFINE m == <<u, sent[u] + 1>>
  <2>1. m \in OutMessages /\ m \notin Elements(accepted) /\ accepted' = Append(accepted, m)
    BY ZenonT(20), <1>5, <1>6 DEF Pushes
  <2>2. queue' = Append(queue, m) /\ taken' = taken /\ wire' = wire /\ dropped' = dropped
    BY ZenonT(20), <1>6 DEF Pushes
  <2> HIDE DEF m
  <2>3. wire \o taken \o queue \in Seq(OutFrames) /\ wire \o taken \o Append(queue, m) = Append(wire \o taken \o queue, m)
    BY ZenonT(20), <1>1, <2>1, OutgoingPush
  <2> DEFINE o == wire \o taken \o queue
  <2>4. o \in Seq(OutFrames) /\ Faithful(o, accepted, dropped)
    BY ZenonT(20), <1>2, <2>3
  <2> HIDE DEF o
  <2>5. Faithful(Append(o, m), Append(accepted, m), dropped)
    BY ZenonT(20), <1>1, <2>1, <2>4, FaithfulPush
  <2>6. Outgoing' = Append(o, m)
    BY ZenonT(20), <2>2, <2>3 DEF Outgoing, o
  <2> QED BY ZenonT(20), <2>1, <2>2, <2>5, <2>6
<1>7. ASSUME NEW u \in Users, at[u] \in {"ready", "check"}, Replaces(u) PROVE Faithful(Outgoing', accepted', dropped')
  <2> DEFINE m == <<u, sent[u] + 1>>
  <2>1. m \in OutMessages /\ m \notin Elements(accepted) /\ accepted' = Append(accepted, m)
    BY ZenonT(20), <1>5, <1>7 DEF Replaces
  <2>2. queue' = Append(Tail(queue), m) /\ taken' = taken /\ wire' = wire /\ dropped' = dropped \cup {Head(queue)}
    BY ZenonT(20), <1>7 DEF Replaces
  <2>3. queue # <<>>
    <3>1. Len(queue) >= QueueLimit
      BY ZenonT(20), <1>7 DEF Replaces
    <3>2. QueueLimit \in Nat \ {0}
      BY ZenonT(20), LimitNat DEF OutInv
    <3> QED BY <3>1, <3>2
  <2> HIDE DEF m
  <2> DEFINE q == Tail(queue)  s == wire \o taken  d == dropped \cup {Head(queue)}
  <2>4. q \in Seq(OutMessages)
    BY ZenonT(20), <1>1, <2>3, HeadTailProperties
  <2>5. s \in Seq(OutFrames)
    BY ZenonT(20), <1>1, OutgoingIs
  <2>6. Faithful(s \o q, accepted, d)
    <3>1. Faithful(s \o queue, accepted, dropped)
      BY ZenonT(20), <1>2
    <3> HIDE DEF s
    <3> QED BY ZenonT(20), <1>1, <1>2, <2>3, <2>5, <3>1, FaithfulTail
  <2> HIDE DEF q, d
  <2>7. s \o q \in Seq(OutFrames) /\ s \o Append(q, m) = Append(s \o q, m)
    BY ZenonT(20), <1>1, <2>1, <2>4, OutgoingPush
  <2>8. Outgoing' = s \o Append(q, m)
    BY ZenonT(20), <2>2 DEF Outgoing, q
  <2> DEFINE o == s \o q
  <2>9. o \in Seq(OutFrames) /\ Faithful(o, accepted, d) /\ Outgoing' = Append(o, m)
    BY ZenonT(20), <2>6, <2>7, <2>8
  <2> HIDE DEF o, s
  <2>10. Faithful(Append(o, m), Append(accepted, m), d)
    BY ZenonT(20), <1>1, <2>1, <2>9, FaithfulPush
  <2>11. dropped' = d
    BY ZenonT(20), <2>2 DEF d
  <2> QED BY ZenonT(20), <2>1, <2>9, <2>10, <2>11
<1>8. CASE Clears
  <2> DEFINE s == wire \o taken  o == s \o queue  out == Elements(queue)
  <2>1. /\ s \in Seq(OutFrames) /\ o \in Seq(OutFrames) /\ Len(o) = Len(s) + Len(queue) /\ Len(queue) \in Nat
        /\ \A i \in 1 .. Len(s) + Len(queue) : o[i] = IF i <= Len(s) THEN s[i] ELSE queue[i - Len(s)]
    BY ZenonT(20), <1>1, OutgoingIs
  <2>2. Faithful(o, accepted, dropped) /\ out \cap CloseFrames = {}
    BY ZenonT(20), <1>2, <1>3
  <2>3. s \o <<>> = s
    BY ZenonT(20), <1>1, OutgoingIs
  <2>4. Outgoing' = s /\ accepted' = accepted /\ dropped' = dropped \cup out
    BY ZenonT(20), <1>8, <2>3 DEF Clears, Outgoing
  <2> HIDE DEF o, s
  <2>5. Len(s) \in Nat
    BY ZenonT(20), <2>1, LenProperties
  <2>6. Len(s) <= Len(o) /\ \A i \in 1 .. Len(s) : s[i] = o[i]
    BY <2>1, <2>5
  <2>7. out = {o[j] : j \in Len(s) + 1 .. Len(o)}
    <3>1. \A j \in Len(s) + 1 .. Len(o) : o[j] = queue[j - Len(s)] /\ j - Len(s) \in 1 .. Len(queue)
      BY <2>1, <2>5
    <3>2. \A k \in 1 .. Len(queue) : /\ k + Len(s) \in Len(s) + 1 .. Len(o) /\ k + Len(s) \in 1 .. Len(s) + Len(queue)
                                    /\ ~(k + Len(s) <= Len(s)) /\ (k + Len(s)) - Len(s) = k
      BY <2>1, <2>5
    <3>3. \A k \in 1 .. Len(queue) : o[k + Len(s)] = queue[k]
      BY ZenonT(20), <2>1, <3>2
    <3>4. ASSUME NEW m \in out PROVE m \in {o[j] : j \in Len(s) + 1 .. Len(o)}
      BY ZenonT(20), <3>2, <3>3, <3>4 DEF Elements
    <3>5. ASSUME NEW j \in Len(s) + 1 .. Len(o) PROVE o[j] \in out
      BY ZenonT(20), <3>1, <3>5 DEF Elements
    <3> QED BY ZenonT(20), <3>4, <3>5
  <2> HIDE DEF out
  <2>8. Faithful(s, accepted, dropped \cup out)
    BY ZenonT(20), <1>1, <1>2, <2>1, <2>2, <2>6, <2>7, FaithfulPrefix
  <2> QED BY ZenonT(20), <2>4, <2>8
<1>9. CASE Ends
  <2> DEFINE s == wire \o taken  o == s \o queue  out == Elements(queue) \cup Elements(taken)
  <2>1. /\ s \in Seq(OutFrames) /\ o \in Seq(OutFrames) /\ Len(o) = Len(s) + Len(queue)
        /\ \A i \in 1 .. Len(s) + Len(queue) : o[i] = IF i <= Len(s) THEN s[i] ELSE queue[i - Len(s)]
        /\ Len(s) = Len(wire) + Len(taken)
        /\ \A i \in 1 .. Len(wire) + Len(taken) : s[i] = IF i <= Len(wire) THEN wire[i] ELSE taken[i - Len(wire)]
        /\ Len(queue) \in Nat /\ Len(taken) \in Nat /\ Len(wire) \in Nat
    BY ZenonT(20), <1>1, OutgoingIs
  <2>2. Faithful(o, accepted, dropped) /\ out \cap CloseFrames = {}
    BY ZenonT(20), <1>2, <1>3
  <2>3. wire \o <<>> = wire /\ wire \o <<>> \o <<>> = wire
    BY ZenonT(20), <1>1, OutgoingIs
  <2>4. Outgoing' = wire /\ accepted' = accepted /\ dropped' = dropped \cup out
    BY ZenonT(20), <1>9, <2>3 DEF Ends, Outgoing
  <2> HIDE DEF o, s
  <2>5. Len(wire) <= Len(o) /\ \A i \in 1 .. Len(wire) : wire[i] = o[i]
    BY <2>1
  <2>6. out = {o[j] : j \in Len(wire) + 1 .. Len(o)}
    <3>1. \A j \in Len(wire) + 1 .. Len(o) : \/ (o[j] = queue[j - Len(s)] /\ j - Len(s) \in 1 .. Len(queue))
                                            \/ (o[j] = taken[j - Len(wire)] /\ j - Len(wire) \in 1 .. Len(taken))
      BY <2>1
    <3>2. \A k \in 1 .. Len(queue) : k + Len(s) \in Len(wire) + 1 .. Len(o) /\ o[k + Len(s)] = queue[k]
      BY <2>1
    <3>3. \A k \in 1 .. Len(taken) : k + Len(wire) \in Len(wire) + 1 .. Len(o) /\ o[k + Len(wire)] = taken[k]
      BY <2>1
    <3>4. ASSUME NEW m \in Elements(queue) PROVE m \in {o[j] : j \in Len(wire) + 1 .. Len(o)}
      BY ZenonT(20), <3>2, <3>4 DEF Elements
    <3>5. ASSUME NEW m \in Elements(taken) PROVE m \in {o[j] : j \in Len(wire) + 1 .. Len(o)}
      BY ZenonT(20), <3>3, <3>5 DEF Elements
    <3>6. ASSUME NEW j \in Len(wire) + 1 .. Len(o) PROVE o[j] \in out
      BY ZenonT(20), <3>1, <3>6 DEF Elements
    <3> QED BY ZenonT(20), <3>4, <3>5, <3>6
  <2> HIDE DEF out
  <2>7. Faithful(wire, accepted, dropped \cup out)
    BY ZenonT(20), <1>1, <1>2, <2>1, <2>2, <2>5, <2>6, FaithfulPrefix
  <2> QED BY ZenonT(20), <2>4, <2>7
<1>10. CASE outLoop \in {"take", "late"} /\ Takes
  <2>1. taken = <<>>
    BY ZenonT(20), <1>10 DEF OutInv, TurnInv
  <2>2. wire \o taken \o queue = wire \o queue \o <<>>
    BY ZenonT(20), <1>1, <2>1, OutgoingIs
  <2> QED BY ZenonT(20), <1>4, <1>10, <2>2 DEF Takes
<1>11. CASE Writes
  <2>1. wire \o taken \o <<>> = wire \o taken
    BY ZenonT(20), <1>1, OutgoingIs
  <2> QED BY ZenonT(20), <1>4, <1>11, <2>1 DEF Writes
<1>12. CASE outLoop = "close" /\ Closes
  <2> DEFINE s == wire \o taken  f == CloseFrame(why)
  <2>1. queue = <<>> /\ f \in CloseFrames
    BY ZenonT(20), <1>12 DEF OutInv, TurnInv, CloseFrames
  <2>2. s \in Seq(OutFrames) /\ s \o <<>> = s
    BY ZenonT(20), <1>1, OutgoingIs
  <2>3. f \in OutFrames
    BY ZenonT(20), <2>1 DEF OutFrames
  <2>4. Faithful(s, accepted, dropped)
    BY ZenonT(20), <1>2, <2>1, <2>2
  <2>5. wire' = Append(s, f) /\ taken' = <<>> /\ queue' = <<>> /\ accepted' = accepted /\ dropped' = dropped
    BY ZenonT(20), <1>12, <2>1 DEF Closes
  <2> HIDE DEF s, f
  <2>6. Faithful(Append(s, f), accepted, dropped)
    BY ZenonT(20), <1>1, <2>1, <2>2, <2>4, FaithfulClose
  <2>7. Append(s, f) \in Seq(OutFrames)
    BY ZenonT(20), <2>2, <2>3, AppendProperties
  <2> DEFINE w == Append(s, f)
  <2>8. w \o <<>> \o <<>> = w
    <3> HIDE DEF w
    <3>1. w \in Seq(OutFrames)
      BY ZenonT(20), <2>7 DEF w
    <3> QED BY ZenonT(20), <3>1, ConcatEmptySeq
  <2>9. Outgoing' = Append(s, f)
    BY ZenonT(20), <2>5, <2>8 DEF Outgoing
  <2> QED BY ZenonT(20), <2>5, <2>6, <2>9
<1>13. CASE Quiet
  BY ZenonT(20), <1>4, <1>13 DEF Quiet
<1> QED BY ZenonT(20), <1>6, <1>7, <1>8, <1>9, <1>10, <1>11, <1>12, <1>13, OutEffects

-----------------------------------------------------------------------------
(* What holds of the connection. *)

\* Every step of the specification keeps the invariant.
LEMMA OutInvStep == ASSUME OutInv, [OutNext /\ UNCHANGED connection]_<<connection, vars>> PROVE OutInv'
<1>1. CASE OutNext /\ connection' = connection
  <2>1. OutTypeOK'
    BY ZenonT(20), <1>1, OutTypeStep DEF OutInv
  <2>2. SeqsInv'
    BY ZenonT(20), <1>1, <2>1, SeqsStep DEF OutInv
  <2>3. TurnInv'
    BY ZenonT(20), <1>1, TurnStep DEF OutInv
  <2>4. NumberInv'
    BY ZenonT(20), <1>1, <2>1, NumberStep DEF OutInv
  <2> QED BY ZenonT(20), <1>1, <2>1, <2>2, <2>3, <2>4, FaithfulStep DEF OutInv
<1>2. CASE UNCHANGED <<connection, vars>>
  <2>1. /\ UNCHANGED <<connection, queue, close, closed, at, sent, room, listen, drained>>
        /\ UNCHANGED <<seen, outLoop, taken, why, closing, refused, wire, accepted, dropped>>
    BY ZenonT(20), <1>2 DEF vars, outVars, userVars, loopVars
  <2>2. OutTypeOK' /\ SeqsInv'
    BY ZenonT(20), <2>1 DEF OutInv, OutTypeOK, SeqsInv, QueueLimit
  <2>3. TurnInv' /\ NumberInv'
    BY ZenonT(20), <2>1 DEF OutInv, TurnInv, NumberInv, Distinct
  <2>4. Faithful(Outgoing, accepted, dropped)'
    <3>1. Outgoing' = Outgoing /\ Faithful(Outgoing, accepted, dropped)
      BY ZenonT(20), <2>1 DEF OutInv, Outgoing
    <3>2. Faithful(Outgoing', accepted', dropped')
      BY ZenonT(20), <2>1, <3>1
    <3> QED BY ZenonT(20), <3>2 DEF Faithful, Ordered, Before, Elements
  <2> QED BY ZenonT(20), <2>2, <2>3, <2>4 DEF OutInv
<1> QED BY ZenonT(20), <1>1, <1>2

\* The queue, the loop's turn and the history of the pushes hold together in every reachable state.
THEOREM OutInvariance == OutSpec => []OutInv
<1>1. OutInit => OutInv
  BY ZenonT(20), OutInitInv
<1>2. OutInv /\ [OutNext /\ UNCHANGED connection]_<<connection, vars>> => OutInv'
  BY ZenonT(20), OutInvStep
<1> QED BY <1>1, <1>2, PTL DEF OutSpec

\* A message that Connection::send answered Ok for is written, being written or queued, once and in
\* the order of the sends, unless an overflow or the connection's end discarded it.
THEOREM OutAccounted == OutSpec => []Accounted
<1>1. OutInv => Accounted
  BY ZenonT(20) DEF OutInv, NumberInv, Distinct, Faithful, Ordered, Before, Accounted, Precedes
<1> QED BY <1>1, OutInvariance, PTL

\* Once the loop has written the close frame nothing is written or queued after it.
THEOREM OutCloseFollows == OutSpec => []CloseFollows
<1>1. OutInv => CloseFollows
  BY ZenonT(20) DEF OutInv, TurnInv, CloseFollows
<1> QED BY <1>1, OutInvariance, PTL
=============================================================================
