-------------------------- MODULE MCTestConductor --------------------------
(* Small instances of TestConductor.                                       *)
EXTENDS TestConductor, TLC

CONSTANTS id, test, plan1, note

NoRequests == {}
ShortTests == {"primitive_pool_deletion", "replica_elimination", "other"}

\* No step and no property of these runs depends on the rest of the state.
View == <<plans, runs, [x \in Execs |-> xray[x].status], handler, tc, watched,
          wm, res, gaveUp>>

Symmetry == Permutations(Handlers) \cup Permutations(Execs)
=============================================================================
