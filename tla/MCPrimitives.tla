---------------------------- MODULE MCPrimitives ----------------------------
(***************************************************************************)
(* The parts that share no state with one another, in one run: the first   *)
(* state chooses the one that moves, the others stand still, and the state *)
(* space is the sum of theirs.  Each part's fairness is its own module's,  *)
(* for the part that moves.                                                *)
(***************************************************************************)
EXTENDS LiveSet, Primitives

CONSTANTS o1, t1, l1, l2, p1, p2, f1, f2, s1, s2, connection, call

VARIABLE part

MCOrder == <<connection, call>>

primitiveVars == <<liveVars, notifyVars, queueVars, turnVars, part>>

PrimitivesInit ==
    /\ part \in {"live", "notify", "queue", "turns"}
    /\ LiveInit /\ NotifyInit /\ QueueInit /\ TurnsInit
    /\ part # "notify" => \A l \in Listeners : listen[l].task = p1

PrimitivesNext ==
    \/ part = "live" /\ LiveNext /\ UNCHANGED <<notifyVars, queueVars, turnVars, part>>
    \/ part = "notify" /\ NotifyNext /\ UNCHANGED <<liveVars, queueVars, turnVars, part>>
    \/ part = "queue" /\ QueueNext /\ UNCHANGED <<liveVars, notifyVars, turnVars, part>>
    \/ part = "turns" /\ TurnsNext /\ UNCHANGED <<liveVars, notifyVars, queueVars, part>>

PrimitivesSpec ==
    /\ PrimitivesInit /\ [][PrimitivesNext]_primitiveVars
    /\ WF_liveVars(part = "live" /\ DrainRunStep)
    /\ \A e \in Execs : WF_liveVars(part = "live" /\ ExecRunStep(e))
    /\ WF_queueVars(part = "queue" /\ RecvStep)
    /\ WF_queueVars(part = "queue" /\ \E s \in Senders : SendNotify(s))
    /\ WF_queueVars(part = "queue" /\ \E p \in Places : RoomStep(p))
    /\ WF_turnVars(part = "turns" /\ GiveStep)
    /\ \A t \in Tasks : WF_turnVars(part = "turns" /\ TaskStep(t))

\* No part waits for ever: the drain ends (DrainEnds of LiveSet), a queued item is taken and a send
\* told (QueueWakes), and a future that ended in a turn ends its task (TurnEndsTask).
PrimitivesWake == DrainEnds /\ QueueWakes /\ TurnEndsTask
=============================================================================
