---------------------------- MODULE MCRestService ----------------------------
(* The requests of a call: for every operation a good one, and those that   *)
(* differ from it in one parameter or one field of the body.                *)
EXTENDS RestService, TLC

CONSTANT c1

Event == [class |-> "FAIL", sourceClass |-> "test-conductor", message |-> "m", sourceInstance |-> "uuid1"]

\* For each operation the parameters and the body of a good request.
Good ==
    [AddEvent           |-> [params |-> <<>>, body |-> Event],
     DeleteTestPlanByID |-> [params |-> [id |-> "MQ-1"], body |-> None],
     DeleteTestPlans    |-> [params |-> <<>>, body |-> None],
     DeleteTestRunByID  |-> [params |-> [id |-> "MQ-1"], body |-> None],
     GetEvents          |-> [params |-> [class |-> None, sourceClass |-> None], body |-> None],
     GetTestPlanByID    |-> [params |-> [id |-> "MQ-1"], body |-> None],
     GetTestPlans       |-> [params |-> [defaultPlanOnly |-> None], body |-> None],
     GetTestRunByID     |-> [params |-> [id |-> "uuid1"], body |-> None],
     GetTestRuns        |-> [params |-> <<>>, body |-> None],
     PutTestPlanByID    |-> [params |-> [id |-> "MQ-1"], body |-> [status |-> "RUNNING"]],
     PutTestRunByID     |-> [params |-> [id |-> "uuid1"], body |-> [status |-> "PASSED", testKey |-> "MQ-1"]],
     DeleteWorkloadByRegistrant  |-> [params |-> [rid |-> "uuid1", wid |-> "uuid2"], body |-> None],
     DeleteWorkloadsByRegistrant |-> [params |-> [rid |-> "uuid1"], body |-> None],
     GetWorkloadByRegistrant     |-> [params |-> [rid |-> "uuid1", wid |-> "uuid2"], body |-> None],
     GetWorkloadsByRegistrant    |-> [params |-> [rid |-> "uuid1"], body |-> None],
     GetWorkloads                |-> [params |-> [name |-> None, namespace |-> None, registrantId |-> None],
                                      body |-> None],
     PutWorkloadByRegistrant     |-> [params |-> [rid |-> "uuid1", wid |-> "uuid2"],
                                      body |-> [violations |-> {"RESTARTED"}]]]

Values(n) ==
    CASE n = "class" -> {"FAIL", "strange"}
      [] n = "sourceClass" -> {"log-monitor", "test-conductor"}
      [] n = "defaultPlanOnly" -> {"true"}
      [] n = "registrantId" -> {"uuid1", "strange"}
      [] OTHER -> {"strange"}

\* r, and r with one of its fields set to another value.
OneChanged(r, values(_)) == {r} \cup UNION {{[r EXCEPT ![n] = v] : v \in values(n)} : n \in DOMAIN r}

FieldValues(n) == IF n = "violations" THEN {None, {"strange"}} ELSE {None, "strange"}

AllRequests ==
    UNION {[op : {op}, params : OneChanged(Good[op].params, Values), body : {Good[op].body}]
           \cup [op : {op}, params : {Good[op].params},
                 body : IF Good[op].body = None THEN {None} ELSE {None} \cup OneChanged(Good[op].body, FieldValues)]
              : op \in DOMAIN Good}

PlainRequests ==
    {[op |-> op, params |-> Good[op].params, body |-> Good[op].body] : op \in {"PutTestPlanByID", "GetWorkloads"}}

CallInputs == c1 :> ([req : AllRequests, scheme : {"http"}] \cup [req : PlainRequests, scheme : {"https"}])
=============================================================================
