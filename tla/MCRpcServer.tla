----------------------------- MODULE MCRpcServer -----------------------------
(***************************************************************************)
(* Small servers, one of which runs in each behaviour: one streamed        *)
(* request with a deadline and a streamed reply; a streamed request whose  *)
(* id a plain request reuses; a broker's requests and event under its own  *)
(* backpressure; calls the server refuses, alone and at its limit.         *)
(***************************************************************************)
EXTENDS RpcServer

CONSTANTS o1, o2, r1, r2, e1, bad, misfit, unrouted

MCCalls == {o1, o2, r1, r2, e1, bad, misfit, unrouted}
MCArrived == [c \in Calls |-> CASE c \in {o1, o2, bad} -> "open" [] c = e1 -> "evt" [] OTHER -> "req"]
MCId == [c \in Calls |-> CASE c \in {o1, o2, r1} -> 1 [] c \in {r2, misfit} -> 2 [] OTHER -> 3]

Streams == [calls |-> {o1}, inflight |-> 2, backpressure |-> FALSE, stops |-> TRUE, items |-> 2]
SharesId == [calls |-> {o2, r1}, inflight |-> 2, backpressure |-> FALSE, stops |-> FALSE, items |-> 0]
Broker == [calls |-> {r1, r2, e1}, inflight |-> 1, backpressure |-> TRUE, stops |-> FALSE, items |-> 0]
Refuses == [calls |-> {unrouted}, inflight |-> 1, backpressure |-> FALSE, stops |-> TRUE, items |-> 0]
Limits == [calls |-> {bad, misfit}, inflight |-> 1, backpressure |-> FALSE, stops |-> TRUE, items |-> 0]
Sheds == [calls |-> {r1, e1}, inflight |-> 1, backpressure |-> FALSE, stops |-> FALSE, items |-> 0]

MCServers == {Streams, SharesId, Broker, Refuses, Limits, Sheds}
=============================================================================
