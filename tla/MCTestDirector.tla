--------------------------- MODULE MCTestDirector ---------------------------
(* Small instances of TestDirector: the requests the clients may send.     *)
EXTENDS TestDirector, TLC

CONSTANTS id, test, plan1, plan2, m1, m2

PutRun(status, m) ==
    [op |-> "put_run", id |-> id, key |-> test, status |-> status, msg |-> m]
EventOf(class, src, m) ==
    [op |-> "event", id |-> id, class |-> class, src |-> src, msg |-> m]

\* One run and everything that can be asked of it.
RunRequests ==
    {PutRun(s, m1) : s \in RunStatus}
    \cup {EventOf("FAIL", "workload-monitor", m2),
          EventOf("WARN", "log-monitor", m2)}
    \cup {[op |-> "delete_run", id |-> id]}
    \cup {[PutRun("TODO", m1) EXCEPT !.key = plan1]}
SerialRequests ==
    RunRequests \cup {EventOf("INFO", "test-conductor", m1)}
LogRequests ==
    {PutRun(s, m1) : s \in RunStatus} \cup {EventOf("WARN", "log-monitor", m2)}

\* Two plans and everything that can be asked of them, and a run that starts.
PlanRequests ==
    {[op |-> "put_plan", key |-> k, status |-> s] :
        k \in {plan1, plan2}, s \in {"NOT_STARTED", "RUNNING", "COMPLETE_PASS"}}
    \cup {[op |-> "put_plan", key |-> test, status |-> "RUNNING"]}
    \cup {[op |-> "delete_plan", key |-> k] : k \in {plan1, plan2}}
    \cup {[op |-> "delete_plans"]}
RunStartRequests == {PutRun("TODO", m1), PutRun("EXECUTING", m1)}
PlanAndRunRequests == PlanRequests \cup RunStartRequests

Symmetry == Permutations(Handlers)
=============================================================================
