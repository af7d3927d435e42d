----------------------------- MODULE MCShutdown -----------------------------
(***************************************************************************)
(* Shutdown twice, as `part` says: two close calls beside the App value's, *)
(* hooks and a cap, with no execution opened; and one close call on an app *)
(* with one server, no hook and no cap, whose executions open, end and are *)
(* cancelled around its drain.                                             *)
(***************************************************************************)
EXTENDS Shutdown, TLC

CONSTANTS h1, h2, o1, t1, Parts

VARIABLE part

MCHandles  == {h1, h2}
MCSymmetry == Permutations(MCHandles)

\* The app of the second part.
Drained == INSTANCE Shutdown WITH ServerCounts <- {1}, NHooks <- 0, HasCap <- FALSE

PartInit ==
  /\ part \in Parts
  /\ \/ part = "closes" /\ Init
     \/ part = "executions" /\ Drained!Init

NoneOpened == exec' = exec
OneClose == Cardinality({h \in Handles : close'[h] # "idle"}) <= 1 /\ app' # "serving"

PartNext ==
  /\ UNCHANGED part
  /\ \/ part = "closes" /\ Next /\ NoneOpened
     \/ part = "executions" /\ Drained!Next /\ OneClose

PartSpec == PartInit /\ [][PartNext]_<<vars, part>>
=============================================================================
