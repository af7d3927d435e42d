------------------------------- MODULE WsPlaces -------------------------------
(***************************************************************************)
(* ulo-ws/src/connection.rs: the places in flight that one server's        *)
(* connections share (Places, server_max_inflight), each connection's      *)
(* count under its own max_inflight (Flight), and the read loop that stops *)
(* reading while there is no place, and waits to hear of one.              *)
(*                                                                         *)
(* A loop steps at each read of the shared counts; an event's listener is  *)
(* registered, then notified, then heard.  A client's frames are in its    *)
(* socket from the start; every frame is a message to be handled.  The     *)
(* outbound queue, the close and the drain are WsOutbound's.               *)
(***************************************************************************)
EXTENDS Naturals, FiniteSets

CONSTANTS
    Conns,        \* the server's connections
    MaxFrames,    \* bound: the most frames a client sends
    Gateways      \* the gateways considered: their settings, and the frames each client sends

ASSUME WsPlacesAssumption ==
    /\ IsFiniteSet(Conns) /\ MaxFrames \in Nat
    /\ \A g \in Gateways :
         /\ g.limit \in Nat \ {0} /\ g.inflight \in Nat \ {0} /\ g.pings \in BOOLEAN
         /\ g.frames \in [Conns -> 0 .. MaxFrames]

VARIABLES
    gateway,     \* the one of Gateways that runs; it never changes
    held,        \* Places::held
    loop,        \* where each connection's read loop is
    reading,     \* whether the turn under way reads
    freed,       \* the loop's listener of Places::freed: "none", "on" or "heard"
    progressed,  \* the loop's listener of Flight::progress
    handling,    \* Flight::handling
    msg,         \* where each frame is
    before       \* of a message giving its place back: whether every place was taken

placeVars == <<held, loop, reading, freed, progressed, handling, msg, before>>

Limit == gateway.limit           \* server_max_inflight
MaxInflight == gateway.inflight  \* each connection's max_inflight
Pings == gateway.pings           \* whether the gateway has a ping_interval
Messages == Conns \X (1 .. MaxFrames)
Full == held >= Limit
At(k, state) == {m \in Messages : m[1] = k /\ msg[m] = state}
Waiting(k) == At(k, "waiting") # {}
NextFrame(k) == {m \in At(k, "socket") : \A n \in At(k, "socket") : m[2] <= n[2]}

\* Event::notify(usize::MAX): every listener hears it; one not registered does not.
Notified(listener) == [k \in Conns |-> IF listener[k] = "on" THEN "heard" ELSE listener[k]]
Listening(listener, k) == [listener EXCEPT ![k] = IF @ = "none" THEN "on" ELSE @]

PlacesInit ==
    /\ gateway \in Gateways
    /\ held = 0 /\ loop = [k \in Conns |-> "top"] /\ reading = [k \in Conns |-> FALSE]
    /\ freed = [k \in Conns |-> "none"] /\ progressed = [k \in Conns |-> "none"]
    /\ handling = [k \in Conns |-> 0]
    /\ msg = [m \in Messages |-> IF m[2] <= gateway.frames[m[1]] THEN "socket" ELSE "unsent"]
    /\ before = [m \in Messages |-> FALSE]

---------------------------------------------------------------------------
\* The turn's listeners: of the messages' progress, and, with a frame waiting or every place taken,
\* of a freed place.  One step: no other step both hears the first and moves what the second reads.
Listen(k) ==
    /\ loop[k] = "top" /\ progressed' = Listening(progressed, k)
    /\ freed' = IF Waiting(k) \/ Full THEN Listening(freed, k) ELSE freed
    /\ loop' = [loop EXCEPT ![k] = IF Waiting(k) THEN "retry" ELSE "decide"]
    /\ UNCHANGED <<held, reading, handling, msg, before>>

\* Flight::begin: a place of the server's, and the message counted under its connection's bound.
Begin(m) ==
    /\ held < Limit /\ held' = held + 1 /\ handling' = [handling EXCEPT ![m[1]] = @ + 1]
    /\ msg' = [msg EXCEPT ![m] = "spawned"]

\* received(): the message's task spawned, or, with no place, the frame left to wait.
Received(m) == Begin(m) \/ (Full /\ msg' = [msg EXCEPT ![m] = "waiting"] /\ UNCHANGED <<held, handling>>)

\* A frame that waits is tried again, a place seen free.
Retry(k) ==
    /\ loop[k] = "retry"
    /\ loop' = [loop EXCEPT ![k] = IF Full THEN "decide" ELSE "again"]
    /\ UNCHANGED <<held, reading, freed, progressed, handling, msg, before>>

RetryReceived(k) ==
    /\ loop[k] = "again" /\ \E m \in At(k, "waiting") : Received(m)
    /\ loop' = [loop EXCEPT ![k] = "decide"]
    /\ UNCHANGED <<reading, freed, progressed, before>>

\* Whether this turn reads the socket.
Decide(k) ==
    /\ loop[k] = "decide"
    /\ reading' = [reading EXCEPT ![k] = ~Waiting(k) /\ ~Full /\ handling[k] < MaxInflight]
    /\ loop' = [loop EXCEPT ![k] = "wait"]
    /\ UNCHANGED <<held, freed, progressed, handling, msg, before>>

\* The turn's wait: the branch that is ready, the ping's tick among them.
WaitRead(k) ==
    /\ loop[k] = "wait" /\ reading[k] /\ \E m \in NextFrame(k) : Received(m)
    /\ loop' = [loop EXCEPT ![k] = "top"]
    /\ UNCHANGED <<reading, freed, progressed, before>>

WaitProgressed(k) ==
    /\ loop[k] = "wait" /\ progressed[k] = "heard" /\ progressed' = [progressed EXCEPT ![k] = "none"]
    /\ loop' = [loop EXCEPT ![k] = "top"]
    /\ UNCHANGED <<held, reading, freed, handling, msg, before>>

WaitFreed(k) ==
    /\ loop[k] = "wait" /\ freed[k] = "heard" /\ freed' = [freed EXCEPT ![k] = "none"]
    /\ loop' = [loop EXCEPT ![k] = "top"]
    /\ UNCHANGED <<held, reading, progressed, handling, msg, before>>

\* tasks.join_next(): a task of the connection's that has ended.
WaitJoined(k) ==
    /\ loop[k] = "wait" /\ \E m \in At(k, "done") : msg' = [msg EXCEPT ![m] = "joined"]
    /\ loop' = [loop EXCEPT ![k] = "top"]
    /\ UNCHANGED <<held, reading, freed, progressed, handling, before>>

WaitPing(k) ==
    /\ Pings /\ loop[k] = "wait" /\ loop' = [loop EXCEPT ![k] = "top"]
    /\ UNCHANGED <<held, reading, freed, progressed, handling, msg, before>>

---------------------------------------------------------------------------
\* A message's task: its first poll makes the guards that count it out, its answer or its abort
\* drops them.
Poll(m) ==
    /\ msg[m] = "spawned" /\ loop[m[1]] \notin {"joining", "over"} /\ msg' = [msg EXCEPT ![m] = "handling"]
    /\ UNCHANGED <<held, loop, reading, freed, progressed, handling, before>>

\* Flight::handled: the connection's count, the server's, and who hears of each.
Handled(m) ==
    /\ msg[m] = "handling" /\ msg' = [msg EXCEPT ![m] = "counted"]
    /\ handling' = [handling EXCEPT ![m[1]] = @ - 1]
    /\ UNCHANGED <<held, loop, reading, freed, progressed, before>>

GiveBack(m) ==
    /\ msg[m] = "counted" /\ msg' = [msg EXCEPT ![m] = "given"]
    /\ held' = held - 1 /\ before' = [before EXCEPT ![m] = Full]
    /\ UNCHANGED <<loop, reading, freed, progressed, handling>>

\* Places::give_back: with every place taken until then, the connections that wait are told.
NotifyFreed(m) ==
    /\ msg[m] = "given" /\ msg' = [msg EXCEPT ![m] = "told"]
    /\ freed' = IF before[m] THEN Notified(freed) ELSE freed
    /\ before' = [before EXCEPT ![m] = FALSE]
    /\ UNCHANGED <<held, loop, reading, progressed, handling>>

NotifyProgress(m) ==
    /\ msg[m] = "told" /\ msg' = [msg EXCEPT ![m] = "done"]
    /\ progressed' = [progressed EXCEPT ![m[1]] = IF @ = "on" THEN "heard" ELSE @]
    /\ UNCHANGED <<held, loop, reading, freed, handling, before>>

---------------------------------------------------------------------------
\* The connection ends: its listeners go with its loop, and its tasks are aborted and joined.
End(k) ==
    /\ loop[k] = "wait" /\ loop' = [loop EXCEPT ![k] = "joining"]
    /\ freed' = [freed EXCEPT ![k] = "none"] /\ progressed' = [progressed EXCEPT ![k] = "none"]
    /\ UNCHANGED <<held, reading, handling, msg, before>>

Busy(k) == At(k, "handling") \cup At(k, "counted") \cup At(k, "given") \cup At(k, "told")

\* Mutant of DropFlight: a message aborted before its first poll keeps its place.
DropFlightKeeps(k) ==
    /\ loop[k] = "joining" /\ Busy(k) = {} /\ loop' = [loop EXCEPT ![k] = "over"]
    /\ msg' = [m \in Messages |-> IF m[1] = k /\ msg[m] \in {"spawned", "done"} THEN "joined" ELSE msg[m]]
    /\ handling' = [handling EXCEPT ![k] = 0]
    /\ UNCHANGED <<held, reading, freed, progressed, before>>

\* Drop for Flight: a message never counted out, its task aborted before its first poll, gives its
\* place back with the connection.
DropFlight(k) ==
    /\ loop[k] = "joining" /\ Busy(k) = {} /\ loop' = [loop EXCEPT ![k] = "over"]
    /\ msg' = [m \in Messages |-> IF m[1] = k /\ msg[m] \in {"spawned", "done"} THEN "joined" ELSE msg[m]]
    /\ held' = held - handling[k] /\ handling' = [handling EXCEPT ![k] = 0]
    /\ freed' = IF handling[k] > 0 /\ Full THEN Notified(freed) ELSE freed
    /\ UNCHANGED <<reading, progressed, before>>

LoopStep(k) ==
    \/ Listen(k) \/ Retry(k) \/ RetryReceived(k) \/ Decide(k)
    \/ WaitRead(k) \/ WaitProgressed(k) \/ WaitFreed(k) \/ WaitJoined(k) \/ WaitPing(k) \/ DropFlight(k)
MessageStep(m) == Poll(m) \/ Handled(m) \/ GiveBack(m) \/ NotifyFreed(m) \/ NotifyProgress(m)

PlacesNext == (\E k \in Conns : LoopStep(k) \/ End(k)) \/ \E m \in Messages : MessageStep(m)
PlacesSpec == PlacesInit /\ [][PlacesNext /\ UNCHANGED gateway]_<<gateway, placeVars>>

\* The runtime polls what is ready, and a handler answers.  Each turn starts at the next branch, so
\* one that is always ready does not starve the read.
PlacesFairSpec ==
    /\ PlacesSpec
    /\ \A k \in Conns : WF_placeVars(LoopStep(k)) /\ SF_placeVars(WaitRead(k))
    /\ WF_placeVars(\E m \in Messages : MessageStep(m))

---------------------------------------------------------------------------
Holding == {m \in Messages : msg[m] \in {"spawned", "handling", "counted"}}

\* The counts are well formed: each connection's count is the messages its handlers still answer.
PlacesTypeOK ==
    /\ loop \in [Conns -> {"top", "retry", "again", "decide", "wait", "joining", "over"}]
    /\ freed \in [Conns -> {"none", "on", "heard"}] /\ progressed \in [Conns -> {"none", "on", "heard"}]
    /\ msg \in [Messages -> {"unsent", "socket", "waiting", "spawned", "handling", "counted", "given", "told", "done", "joined"}]
    /\ reading \in [Conns -> BOOLEAN] /\ before \in [Messages -> BOOLEAN] /\ held \in Nat
    /\ \A k \in Conns : handling[k] = Cardinality(At(k, "spawned") \cup At(k, "handling"))

\* The server's places are never more than its limit, and each one taken belongs to a message in
\* flight: none is lost when a connection ends with messages queued, answering or not yet polled.  A
\* connection has at most one frame waiting for a place and never more in flight than max_inflight.
PlacesExact ==
    /\ PlacesTypeOK
    /\ held = Cardinality(Holding) /\ held <= Limit
    /\ \A k \in Conns : Cardinality(At(k, "waiting")) <= 1 /\ handling[k] <= MaxInflight

\* connection.rs:1209: each listener is registered before the state it watches is read.  Then a
\* client whose frames are in its socket is read, the places freeing as handlers answer.
Unread(k) == At(k, "socket") # {}
FrameRead == \A k \in Conns : Unread(k) ~> (~Unread(k) \/ loop[k] = "over")
=============================================================================
