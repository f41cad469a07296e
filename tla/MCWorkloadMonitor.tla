-------------------------- MODULE MCWorkloadMonitor --------------------------
(* Small instances of the workload monitor.                                *)
EXTENDS WorkloadMonitor, TLC

\* tests/test_common.go: the list every test registers its workloads with.
ConductorViolations == {<<"RESTARTED", "TERMINATED", "NOT_PRESENT">>}

\* Pods are interchangeable, and so are registrants.
Symmetry == Permutations(Wids) \cup Permutations(Rids)
=============================================================================
