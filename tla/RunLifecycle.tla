---------------------------- MODULE RunLifecycle ----------------------------
(***************************************************************************)
(* What the test director promises about a test run: it is created TODO,   *)
(* starts once, and only then gets a verdict, which a later verdict may    *)
(* replace; a run whose id has the shape of a Jira key can be deleted.     *)
(***************************************************************************)
CONSTANTS RunIds, JiraIds
VARIABLE status

Init == status = [id \in RunIds |-> "ABSENT"]

Move(id, from, to) ==
    /\ status[id] \in from
    /\ status' = [status EXCEPT ![id] = to]

Create(id) == Move(id, {"ABSENT"}, "TODO")
Start(id) == Move(id, {"TODO"}, "EXECUTING")
Finish(id) ==
    \E verdict \in {"PASSED", "FAILED"}:
        Move(id, {"EXECUTING", "PASSED", "FAILED"}, verdict)
Delete(id) ==
    id \in JiraIds /\ Move(id, {"TODO", "EXECUTING", "PASSED", "FAILED"}, "ABSENT")

Next == \E id \in RunIds: Create(id) \/ Start(id) \/ Finish(id) \/ Delete(id)

Spec == Init /\ [][Next]_status
=============================================================================
