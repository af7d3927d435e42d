----------------------------- MODULE LinkCalls -----------------------------
(***************************************************************************)
(* What the server side of an RPC link promises (ulo-rpc/src/link.rs, Link *)
(* and Delivery): a call enters the link's table, is handed to the server  *)
(* while the inbound stream is open, is answered at most once and never    *)
(* after its caller cancelled it, and leaves the table only answered, once *)
(* the server has its cancel, or replaced by a later call under the same   *)
(* caller's id. Before close the stream ends only over an empty table.     *)
(***************************************************************************)
CONSTANT Calls

VARIABLES
    inflight,   \* each call: "unborn", "live", "cancelled" or "gone"
    answered,   \* the calls whose last frame was queued
    handed,     \* the calls delivered to the server
    stream,     \* the inbound stream: "open" or "ended"
    closed      \* whether close began

linkVars == <<inflight, answered, handed, stream, closed>>

LinkInit ==
    /\ inflight = [c \in Calls |-> "unborn"]
    /\ answered = {} /\ handed = {}
    /\ stream = "open" /\ closed = FALSE

\* A request opens its call, replacing the one the caller's id named before.
Accepted(c, stale, hand) ==
    /\ inflight[c] = "unborn" /\ \A d \in stale : inflight[d] = "live"
    /\ hand => stream = "open"
    /\ inflight' = [d \in Calls |-> IF d = c THEN "live" ELSE IF d \in stale THEN "gone" ELSE inflight[d]]
    /\ handed' = IF hand THEN handed \cup {c} ELSE handed
    /\ UNCHANGED <<answered, stream, closed>>

Handed(c) ==
    /\ c \notin handed /\ inflight[c] # "unborn" /\ stream = "open"
    /\ handed' = handed \cup {c}
    /\ UNCHANGED <<inflight, answered, stream, closed>>

\* The last frame is queued; the call leaves the table with it, or soon after.
Answered(c, leaves) ==
    /\ inflight[c] = "live" /\ c \notin answered
    /\ answered' = answered \cup {c}
    /\ inflight' = IF leaves THEN [inflight EXCEPT ![c] = "gone"] ELSE inflight
    /\ UNCHANGED <<handed, stream, closed>>

Left(c) ==
    /\ inflight[c] = "live" /\ c \in answered
    /\ inflight' = [inflight EXCEPT ![c] = "gone"]
    /\ UNCHANGED <<answered, handed, stream, closed>>

\* The caller cancelled, or its connection ended.
CallsCancelled(cs) ==
    /\ cs # {} /\ \A c \in cs : inflight[c] = "live"
    /\ inflight' = [c \in Calls |-> IF c \in cs THEN "cancelled" ELSE inflight[c]]
    /\ UNCHANGED <<answered, handed, stream, closed>>

CancelTaken(c) ==
    /\ inflight[c] = "cancelled"
    /\ inflight' = [inflight EXCEPT ![c] = "gone"]
    /\ UNCHANGED <<answered, handed, stream, closed>>

StreamEnded ==
    /\ stream = "open" /\ (closed \/ \A c \in Calls : inflight[c] \in {"unborn", "gone"})
    /\ stream' = "ended"
    /\ UNCHANGED <<inflight, answered, handed, closed>>

\* close stops reading, and on some links answers every live call.
LinkClosed ==
    /\ closed' = TRUE
    /\ UNCHANGED <<inflight, answered, handed, stream>>

LinkClosedAnswering ==
    /\ closed' = TRUE
    /\ answered' = answered \cup {c \in Calls : inflight[c] = "live"}
    /\ inflight' = [c \in Calls |-> IF inflight[c] \in {"live", "cancelled"} THEN "gone" ELSE inflight[c]]
    /\ UNCHANGED <<handed, stream>>

LinkNext ==
    \/ \E c \in Calls :
          \/ \E hand \in BOOLEAN, stale \in {{}} \cup {{d} : d \in Calls} : Accepted(c, stale, hand)
          \/ Handed(c) \/ Left(c) \/ CancelTaken(c)
          \/ \E leaves \in BOOLEAN : Answered(c, leaves)
    \/ \E cs \in SUBSET Calls : CallsCancelled(cs)
    \/ StreamEnded \/ LinkClosed \/ LinkClosedAnswering

LinkCallsSpec == LinkInit /\ [][LinkNext]_linkVars
=============================================================================
