-------------------------------- MODULE MCWs --------------------------------
(***************************************************************************)
(* The two halves of a WebSocket connection, one of which runs in each     *)
(* behaviour, as `part` says.                                              *)
(*                                                                         *)
(* Outbound: a sender and a stream on a queue of one place that drops its  *)
(* oldest, and on one that closes the connection over its limit; and a     *)
(* socket that may fail under a sender, or a stream, and a closer.         *)
(*                                                                         *)
(* Places: connections to a small gateway, two of which crowd its one      *)
(* place, one is held to its own bound, and two are pinged.                *)
(***************************************************************************)
EXTENDS WsPlaces, WsOutbound

CONSTANTS b1, s1, c1, k1, k2, Parts

VARIABLES part, watch

DropsOldest == [users |-> {b1, s1}, limit |-> 1, overflow |-> "drop_oldest", fails |-> FALSE]
Closes == [users |-> {b1, s1}, limit |-> 1, overflow |-> "close", fails |-> FALSE]
FailsSender == [users |-> {b1, c1}, limit |-> 1, overflow |-> "drop_oldest", fails |-> TRUE]
FailsStream == [users |-> {s1, c1}, limit |-> 1, overflow |-> "drop_oldest", fails |-> TRUE]
MCConnections == {DropsOldest, Closes, FailsSender, FailsStream}

Sends(first, second) == [k \in {k1, k2} |-> IF k = k1 THEN first ELSE second]
Crowded == [limit |-> 1, inflight |-> 1, pings |-> FALSE, frames |-> Sends(1, 1)]
Bounded == [limit |-> 2, inflight |-> 1, pings |-> FALSE, frames |-> Sends(2, 0)]
Pinged == [limit |-> 1, inflight |-> 1, pings |-> TRUE, frames |-> Sends(1, 1)]
Unpinged == [limit |-> 1, inflight |-> 1, pings |-> FALSE, frames |-> Sends(1, 1)]
MCGateways == {Crowded, Bounded, Pinged}
MCUnpinged == {Unpinged}

outboundVars == <<connection, vars>>
readVars == <<gateway, placeVars>>
wsVars == <<part, watch, outboundVars, readVars>>

\* The half that does not run stands at an initial state.
WsInit ==
    /\ part \in Parts /\ OutInit /\ PlacesInit
    /\ part = "outbound" => watch \in {"push", "drain"} \cup {w \in {"room"} : s1 \in connection.users} /\ gateway = CHOOSE g \in Gateways : TRUE
    /\ part = "places" => watch \in (IF gateway.pings THEN {"ping"} ELSE {"place"}) /\ connection = DropsOldest

WsNext ==
    /\ UNCHANGED <<part, watch>>
    /\ \/ part = "outbound" /\ OutNext /\ UNCHANGED <<connection, readVars>>
       \/ part = "places" /\ PlacesNext /\ UNCHANGED <<gateway, outboundVars>>

\* The fairness of OutFairSpec and PlacesFairSpec, a step of each in a formula: `part` never changes.
Out(A) == part = "outbound" /\ A /\ UNCHANGED <<part, watch, connection, readVars>>
Read(A) == part = "places" /\ A /\ UNCHANGED <<part, watch, gateway, outboundVars>>
Fair1 == Out(OutLoopStep) \/ Read(LoopStep(k1))
Fair2 == Out(StreamStep(s1)) \/ Read(LoopStep(k2))
Fair3 == Out(Wake(b1)) \/ Read(\E m \in Messages : MessageStep(m))
Fair4 == Out(Wake(c1))

WsFairSpec ==
    /\ WsInit /\ [][WsNext]_wsVars
    /\ WF_wsVars(Fair1) /\ WF_wsVars(Fair2) /\ WF_wsVars(Fair3) /\ WF_wsVars(Fair4)
    /\ SF_wsVars(Read(WaitRead(k1))) /\ SF_wsVars(Read(WaitRead(k2)))

Waits ==
    CASE watch = "push" -> queue # <<>>
      [] watch = "room" -> at[s1] = "waiting"
      [] watch = "drain" -> drained
      [] watch = "place" -> Waiting(k1)
      [] watch = "ping" -> Unread(k1)
Over ==
    CASE watch = "push" -> queue = <<>>
      [] watch = "room" -> at[s1] # "waiting"
      [] watch = "drain" -> closing # "none" \/ outLoop = "over"
      [] watch = "place" -> ~Waiting(k1) \/ loop[k1] = "over"
      [] watch = "ping" -> ~Unread(k1) \/ loop[k1] = "over"

\* No wait on a connection is for ever: a frame read as the last place went is handled, however the
\* connections race for it, one in the socket of a gateway that pings is read, a push is written or
\* discarded, a stream's wait for room ends as the loop takes the queue or closes, and the drain closes
\* the connection.
WsWaitsEnd == Waits ~> Over
=============================================================================
