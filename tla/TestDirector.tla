---------------------------- MODULE TestDirector ----------------------------
(***************************************************************************)
(* The test director: REST handlers over three in-memory caches (test      *)
(* plans, test runs, events) that push outcomes to XRay.                   *)
(*                                                                         *)
(* Every request is served by a goroutine of its own.  One cache operation *)
(* is atomic, a handler is not: it reads a copy, talks to Jira and XRay,   *)
(* and stores the copy back.  A handler step below is one cache operation  *)
(* or one remote call.                                                     *)
(***************************************************************************)
EXTENDS Naturals, FiniteSets

CONSTANTS
    RunIds,       \* keys of the test run cache
    JiraIds,      \* run ids of the shape of a Jira key, unlike a pod's uid
    TestKeys,     \* Jira keys of issues of type "Test"
    PlanKeys,     \* Jira keys of issues of type "Test Plan"
    DefaultPlan,  \* config.DefaultTestPlan
    DefaultTests, \* the tests XRay lists for the default plan
    Messages,     \* texts carried by events and by run updates
    Execs,        \* bound: XRay test executions that can be created
    Handlers,     \* goroutines serving REST requests
    Requests,     \* the requests the clients may send
    XrayAnswers   \* how an XRay query may end

RunStatus == {"TODO", "EXECUTING", "PASSED", "FAILED"}
PlanStatus == {"NOT_STARTED", "RUNNING", "COMPLETE_PASS", "COMPLETE_FAIL"}

PutRunRequest ==
    [op: {"put_run"}, id: RunIds, key: TestKeys \cup PlanKeys,
     status: RunStatus, msg: Messages]
DeleteRunRequest == [op: {"delete_run"}, id: JiraIds]
EventRequest ==
    [op: {"event"}, id: RunIds, class: {"INFO", "WARN", "FAIL"},
     src: {"log-monitor", "workload-monitor", "test-conductor"},
     msg: Messages]
PutPlanRequest ==
    [op: {"put_plan"}, key: PlanKeys \cup TestKeys, status: PlanStatus]
DeletePlanRequest == [op: {"delete_plan"}, key: PlanKeys]
DeletePlansRequest == [op: {"delete_plans"}]
Request == PutRunRequest \cup DeleteRunRequest \cup EventRequest \cup
           PutPlanRequest \cup DeletePlanRequest \cup DeletePlansRequest

NoExec == "no-exec"  \* the empty id left by a refused createTestExecution

ASSUME DirectorAssumption ==
    /\ PlanKeys \cap TestKeys = {}   \* a Jira issue has one type
    /\ DefaultPlan \in PlanKeys
    /\ JiraIds \subseteq RunIds
    /\ DefaultTests \subseteq TestKeys
    /\ Requests \subseteq Request
    /\ NoExec \notin Execs
    /\ XrayAnswers \subseteq {"ok", "refused", "error", "lost"}

VARIABLES
    plans,    \* planInterface: the test plan cache
    runs,     \* runInterface: the test run cache
    events,   \* eventInterface: the event cache
    xray,     \* XRay: status and comment of every test execution
    handler,  \* the goroutine of each request
    started   \* history: runs that have been stored as EXECUTING

vars == <<plans, runs, events, xray, handler, started>>

-----------------------------------------------------------------------------
NoRun == [status |-> "ABSENT"]
NoPlan == [status |-> "ABSENT"]
Run == [status: RunStatus, data: SUBSET Messages, key: TestKeys \cup PlanKeys,
        exec: Execs \cup {NoExec}]
Plan == [key: PlanKeys, status: PlanStatus, active: BOOLEAN,
         tests: SUBSET TestKeys]
Execution == [status: RunStatus \cup {"NOT_CREATED"},
              comment: SUBSET Messages]

\* A handler: where it is, its request, its copies of a run and of plans.
Pc == {"received", "jira", "create", "run_set", "event_set", "xray_status",
       "xray_comment", "plan_active", "plan_complete", "plan_set",
       "deactivate", "own_plan_set", "delete_all", "event_store"}
Busy == [pc: Pc, req: Request, run: Run \cup {NoRun},
         plan: Plan \cup {NoPlan}, todo: SUBSET Plan]
Idle == [pc: {"idle"}, ok: BOOLEAN]  \* ok: how the last request was answered

TypeOK ==
    /\ plans \in [PlanKeys -> Plan \cup {NoPlan}]
    /\ runs \in [RunIds -> Run \cup {NoRun}]
    /\ events \subseteq EventRequest
    /\ xray \in [Execs -> Execution]
    /\ handler \in [Handlers -> Busy \cup Idle]
    /\ started \subseteq RunIds

NewPlan(k, status, tests) ==
    [key |-> k, status |-> status, active |-> TRUE, tests |-> tests]

\* InitTestPlanCache: without Jira or XRay the director starts with no plan.
InitTestPlanCache ==
    plans \in {[k \in PlanKeys |-> NoPlan],
               [k \in PlanKeys |->
                  IF k = DefaultPlan
                  THEN NewPlan(k, "NOT_STARTED", DefaultTests) ELSE NoPlan]}

Init ==
    /\ InitTestPlanCache
    /\ runs = [id \in RunIds |-> NoRun]
    /\ events = {}
    /\ xray = [x \in Execs |-> [status |-> "NOT_CREATED", comment |-> {}]]
    /\ handler = [h \in Handlers |-> [pc |-> "idle", ok |-> TRUE]]
    /\ started = {}

-----------------------------------------------------------------------------
(* Handler plumbing.                                                       *)

At(h, pc) == handler[h].pc = pc
Goto(h, pc) == handler' = [handler EXCEPT ![h].pc = pc]
GotoWithRun(h, pc, run) ==
    handler' = [handler EXCEPT ![h].pc = pc, ![h].run = run]
GotoWithPlan(h, pc, plan) ==
    handler' = [handler EXCEPT ![h].pc = pc, ![h].plan = plan]
\* The answer: 200, or a refusal or the broken connection of a panic.
Reply(h) == handler' = [handler EXCEPT ![h] = [pc |-> "idle", ok |-> TRUE]]
Refuse(h) == handler' = [handler EXCEPT ![h] = [pc |-> "idle", ok |-> FALSE]]

\* A request arrives and its handler starts.
Receive(h) ==
    /\ At(h, "idle")
    /\ \E req \in Requests:
          handler' = [handler EXCEPT
                        ![h] = [pc |-> "received", req |-> req,
                                run |-> NoRun, plan |-> NoPlan, todo |-> {}]]
    /\ UNCHANGED <<plans, runs, events, xray, started>>

Received(h, op) == At(h, "received") /\ handler[h].req.op = op

ActivePlans == {plans[k] : k \in {k \in PlanKeys : plans[k] # NoPlan
                                                   /\ plans[k].active}}
\* GetActive: the first active plan in map order, that is, any.
GetActive == IF ActivePlans = {} THEN {NoPlan} ELSE ActivePlans

Hosts(plan, key) == plan # NoPlan /\ key \in plan.tests

-----------------------------------------------------------------------------
(* PUT /td/testruns/{id}                                                   *)

\* Mutant: a run that has not started can get a verdict.
MutUpdatedNoTodoGuard(run, req) ==
    CASE req.status = "FAILED" ->
           [run EXCEPT !.status = "FAILED", !.data = @ \cup {req.msg}]
      [] req.status \in {"PASSED", "EXECUTING"} ->
           [run EXCEPT !.status = req.status, !.data = {req.msg}]
      [] OTHER -> run

\* What the copy of an existing run becomes for the requested status.
Updated(run, req) ==
    IF run.status = "TODO"
    THEN IF req.status = "EXECUTING"
         THEN [run EXCEPT !.status = "EXECUTING", !.data = {req.msg}]
         ELSE run
    ELSE CASE req.status = "FAILED" ->
                [run EXCEPT !.status = "FAILED", !.data = @ \cup {req.msg}]
           [] req.status = "PASSED" ->
                [run EXCEPT !.status = "PASSED", !.data = {req.msg}]
           [] OTHER -> run

\* Mutant: only failures are pushed to XRay.
MutPushedFailuresOnly(run, req) ==
    IF run.status = "TODO" THEN req.status = "EXECUTING"
                           ELSE req.status = "FAILED"

\* Does the request change the run, and so have to reach XRay first?
Pushed(run, req) ==
    IF run.status = "TODO" THEN req.status = "EXECUTING"
                           ELSE req.status \in {"FAILED", "PASSED"}

PutRunGet(h) ==
    LET req == handler[h].req
        run == runs[req.id]
    IN  /\ Received(h, "put_run")
        /\ IF run = NoRun
           THEN Goto(h, "jira")
           ELSE GotoWithRun(h, IF Pushed(run, req) THEN "xray_status"
                                                   ELSE "run_set",
                            Updated(run, req))
        /\ UNCHANGED <<plans, runs, events, xray, started>>

\* GetJiraTaskDetails may fail, the issue may not be a test; then the active
\* plan has to hold the test.
PutRunJira(h) ==
    /\ At(h, "jira")
    /\ \/ Refuse(h)
       \/ \E plan \in GetActive:
             IF Hosts(plan, handler[h].req.key) THEN GotoWithPlan(h, "create", plan)
                                                ELSE Refuse(h)
    /\ UNCHANGED <<plans, runs, events, xray, started>>

\* CreateTestExecution.  An execution nobody learns the id of is left behind
\* when the answer is lost or it cannot be added to the plan; a query that
\* is refused five times leaves the empty id.
PutRunCreate(h) ==
    LET req == handler[h].req
        NewRun(x) == [status |-> "TODO", data |-> {req.msg}, key |-> req.key,
                      exec |-> x]
        Created(x) == xray' = [xray EXCEPT ![x].status = "TODO"]
        Free == {x \in Execs : xray[x].status = "NOT_CREATED"}
    IN  /\ At(h, "create")
        /\ \/ /\ "ok" \in XrayAnswers
              /\ \E x \in Free: Created(x) /\ GotoWithRun(h, "run_set", NewRun(x))
           \/ /\ "refused" \in XrayAnswers
              /\ GotoWithRun(h, "run_set", NewRun(NoExec))
              /\ UNCHANGED xray
           \/ /\ "lost" \in XrayAnswers
              /\ \E x \in Free: Created(x) /\ Refuse(h)
           \/ /\ "error" \in XrayAnswers
              /\ Refuse(h)
              /\ UNCHANGED xray
        /\ UNCHANGED <<plans, runs, events, started>>

\* runInterface.Set: the handler's copy replaces whatever is there.
PutRunSet(h) ==
    LET run == handler[h].run IN
    /\ At(h, "run_set")
    /\ runs' = [runs EXCEPT ![handler[h].req.id] = run]
    /\ started' = IF run.status = "EXECUTING"
                  THEN started \cup {handler[h].req.id} ELSE started
    /\ Reply(h)
    /\ UNCHANGED <<plans, events, xray>>

DeleteRun(h) ==
    /\ Received(h, "delete_run")
    /\ runs' = [runs EXCEPT ![handler[h].req.id] = NoRun]
    /\ IF runs[handler[h].req.id] = NoRun THEN Refuse(h) ELSE Reply(h)
    /\ UNCHANGED <<plans, events, xray, started>>

-----------------------------------------------------------------------------
(* xray.UpdateTestRun: first the status, then the comment.  "ok": done;    *)
(* "refused": five answers of status 300 or more, not done and no error;   *)
(* "error": not done, "lost": done, and the handler returns an error or    *)
(* panics.                                                                 *)

\* Where UpdateTestRun's caller goes on: a run that starts needs an active
\* plan, a verdict completes a plan.
AfterXray(req) ==
    IF req.op = "put_run" /\ req.status = "EXECUTING" THEN "plan_active"
                                                      ELSE "plan_complete"

XrayUpdateStatus(h) ==
    LET run == handler[h].run IN
    /\ At(h, "xray_status")
    /\ \E a \in XrayAnswers:
          /\ xray' = IF a \in {"ok", "lost"} /\ run.exec \in Execs
                     THEN [xray EXCEPT ![run.exec].status = run.status]
                     ELSE xray
          /\ IF a \in {"error", "lost"} THEN Refuse(h) ELSE Goto(h, "xray_comment")
    /\ UNCHANGED <<plans, runs, events, started>>

XrayUpdateComment(h) ==
    LET run == handler[h].run IN
    /\ At(h, "xray_comment")
    /\ \E a \in XrayAnswers:
          /\ xray' = IF a \in {"ok", "lost"} /\ run.exec \in Execs
                     THEN [xray EXCEPT ![run.exec].comment = run.data]
                     ELSE xray
          /\ IF a \in {"error", "lost"} THEN Refuse(h)
             ELSE Goto(h, AfterXray(handler[h].req))
    /\ UNCHANGED <<plans, runs, events, started>>

\* The run starts: its test has to be in the active plan, which is copied.
StartGetActive(h) ==
    /\ At(h, "plan_active")
    /\ \E plan \in GetActive:
          IF Hosts(plan, handler[h].run.key)
          THEN GotoWithPlan(h, "plan_set", [plan EXCEPT !.status = "RUNNING"])
          ELSE Refuse(h)
    /\ UNCHANGED <<plans, runs, events, xray, started>>

\* UpdateTestRun, after XRay: the plan is looked up by the key of the test.
Completed(plan, run) ==
    [plan EXCEPT !.status =
        IF run.status = "PASSED" /\ plan.status # "COMPLETE_FAIL"
        THEN "COMPLETE_PASS" ELSE "COMPLETE_FAIL"]

AfterPlan(req) == IF req.op = "event" THEN "event_store" ELSE "run_set"

CompletePlanGet(h) ==
    LET run == handler[h].run IN
    /\ At(h, "plan_complete")
    /\ IF run.key \in PlanKeys /\ plans[run.key] # NoPlan
       THEN GotoWithPlan(h, "plan_set", Completed(plans[run.key], run))
       ELSE Goto(h, AfterPlan(handler[h].req))
    /\ UNCHANGED <<plans, runs, events, xray, started>>

\* planInterface.Set of the copy.
PlanSet(h) ==
    LET plan == handler[h].plan IN
    /\ At(h, "plan_set")
    /\ plans' = [plans EXCEPT ![plan.key] = plan]
    /\ Goto(h, AfterPlan(handler[h].req))
    /\ UNCHANGED <<runs, events, xray, started>>

-----------------------------------------------------------------------------
(* POST /td/events                                                         *)

\* Mutant: the copy is marked FAILED before it is stored.
MutEventGetFails(h) ==
    LET req == handler[h].req
        run == runs[req.id]
    IN  /\ Received(h, "event")
        /\ IF req.class = "INFO" THEN Goto(h, "event_store")
           ELSE IF run = NoRun THEN Refuse(h)
           ELSE GotoWithRun(h, "event_set",
                            [run EXCEPT !.data = @ \cup {req.msg},
                                        !.status = "FAILED"])
        /\ UNCHANGED <<plans, runs, events, xray, started>>

\* An event other than INFO is added to the data of the run it names; a run
\* that is not there is a nil pointer, and the handler panics.
EventGet(h) ==
    LET req == handler[h].req
        run == runs[req.id]
    IN  /\ Received(h, "event")
        /\ IF req.class = "INFO" THEN Goto(h, "event_store")
           ELSE IF run = NoRun THEN Refuse(h)
           ELSE GotoWithRun(h, "event_set",
                            [run EXCEPT !.data = @ \cup {req.msg}])
        /\ UNCHANGED <<plans, runs, events, xray, started>>

\* The copy is stored; for a failure a FAILED copy goes to XRay, which the
\* cache never sees.
EventSet(h) ==
    LET req == handler[h].req
        run == handler[h].run
    IN  /\ At(h, "event_set")
        /\ runs' = [runs EXCEPT ![req.id] = run]
        /\ IF req.class = "FAIL" /\ req.src # "log-monitor"
           THEN GotoWithRun(h, "xray_status", [run EXCEPT !.status = "FAILED"])
           ELSE Goto(h, "event_store")
        /\ UNCHANGED <<plans, events, xray, started>>

EventStore(h) ==
    /\ At(h, "event_store")
    /\ events' = events \cup {handler[h].req}
    /\ Reply(h)
    /\ UNCHANGED <<plans, runs, xray, started>>

-----------------------------------------------------------------------------
(* Test plans                                                              *)

\* A new plan needs a Jira issue of type "Test Plan" and has no tests; an
\* existing one moves from NOT_STARTED to RUNNING to COMPLETE.  A plan that
\* becomes or is active deactivates the others, one by one.
PutPlanGet(h) ==
    LET req == handler[h].req
        old == plans[req.key]
        moves == \/ old.status = "NOT_STARTED" /\ req.status = "RUNNING"
                 \/ /\ old.status = "RUNNING"
                    /\ req.status \in {"COMPLETE_PASS", "COMPLETE_FAIL"}
        Prepared(plan) ==
            GotoWithPlan(h, IF plan.active THEN "deactivate" ELSE "own_plan_set",
                         plan)
    IN  /\ Received(h, "put_plan")
        /\ IF req.key \notin PlanKeys THEN Refuse(h)
           ELSE IF old = NoPlan
           THEN Refuse(h) \/ Prepared(NewPlan(req.key, req.status, {}))
           ELSE Prepared(IF moves
                         THEN [old EXCEPT !.status = req.status, !.active = TRUE]
                         ELSE old)
        /\ UNCHANGED <<plans, runs, events, xray, started>>

Cached == {plans[k] : k \in {k \in PlanKeys : plans[k] # NoPlan}}

\* Mutant: the other plans are not deactivated.
MutGetAllNothing(h) ==
    /\ At(h, "deactivate")
    /\ Goto(h, "own_plan_set")
    /\ UNCHANGED <<plans, runs, events, xray, started>>

\* GetAll: copies of all plans.
PutPlanGetAll(h) ==
    /\ At(h, "deactivate")
    /\ handler' = [handler EXCEPT ![h].pc = "own_plan_set", ![h].todo = Cached]
    /\ UNCHANGED <<plans, runs, events, xray, started>>

\* Mutant: the loop over the copies does not advance.
MutDeactivateStays(h) ==
    /\ At(h, "own_plan_set")
    /\ \E plan \in handler[h].todo:
          plans' = [plans EXCEPT ![plan.key] = [plan EXCEPT !.active = FALSE]]
    /\ UNCHANGED <<runs, events, xray, started, handler>>

\* Set of one copy, inactive now.
PutPlanDeactivate(h) ==
    /\ At(h, "own_plan_set")
    /\ \E plan \in handler[h].todo:
          /\ plans' = [plans EXCEPT ![plan.key] = [plan EXCEPT !.active = FALSE]]
          /\ handler' = [handler EXCEPT ![h].todo = @ \ {plan}]
    /\ UNCHANGED <<runs, events, xray, started>>

PutPlanSet(h) ==
    /\ At(h, "own_plan_set")
    /\ handler[h].todo = {}
    /\ plans' = [plans EXCEPT ![handler[h].plan.key] = handler[h].plan]
    /\ Reply(h)
    /\ UNCHANGED <<runs, events, xray, started>>

DeletePlan(h) ==
    /\ Received(h, "delete_plan")
    /\ plans' = [plans EXCEPT ![handler[h].req.key] = NoPlan]
    /\ IF plans[handler[h].req.key] = NoPlan THEN Refuse(h) ELSE Reply(h)
    /\ UNCHANGED <<runs, events, xray, started>>

\* DeleteAll: GetAll, then Delete for every copy that is not active.
DeletePlansGetAll(h) ==
    /\ Received(h, "delete_plans")
    /\ handler' = [handler EXCEPT ![h].pc = "delete_all",
                                  ![h].todo = {p \in Cached : ~p.active}]
    /\ UNCHANGED <<plans, runs, events, xray, started>>

DeletePlansNext(h) ==
    /\ At(h, "delete_all")
    /\ \E plan \in handler[h].todo:
          /\ plans' = [plans EXCEPT ![plan.key] = NoPlan]
          /\ handler' = [handler EXCEPT ![h].todo = @ \ {plan}]
    /\ UNCHANGED <<runs, events, xray, started>>

DeletePlansDone(h) ==
    /\ At(h, "delete_all")
    /\ handler[h].todo = {}
    /\ Reply(h)
    /\ UNCHANGED <<plans, runs, events, xray, started>>

-----------------------------------------------------------------------------
RunStep(h) ==
    \/ PutRunGet(h)
    \/ PutRunJira(h)
    \/ PutRunCreate(h)
    \/ PutRunSet(h)
    \/ DeleteRun(h)
    \/ XrayUpdateStatus(h)
    \/ XrayUpdateComment(h)
    \/ StartGetActive(h)
    \/ CompletePlanGet(h)
    \/ PlanSet(h)

EventStep(h) ==
    \/ EventGet(h)
    \/ EventSet(h)
    \/ EventStore(h)

PlanStep(h) ==
    \/ PutPlanGet(h)
    \/ PutPlanGetAll(h)
    \/ PutPlanDeactivate(h)
    \/ PutPlanSet(h)
    \/ DeletePlan(h)
    \/ DeletePlansGetAll(h)
    \/ DeletePlansNext(h)
    \/ DeletePlansDone(h)

HandlerStep(h) == RunStep(h) \/ EventStep(h) \/ PlanStep(h)

Next == \E h \in Handlers: Receive(h) \/ HandlerStep(h)

Spec == Init /\ [][Next]_vars

\* Goroutines are scheduled and every remote call has a timeout.
FairSpec == Spec /\ \A h \in Handlers: WF_vars(HandlerStep(h))

-----------------------------------------------------------------------------
(* Properties                                                              *)

Quiet == \A h \in Handlers: At(h, "idle")

\* A run is never PASSED or FAILED in the cache unless it was EXECUTING
\* before, however requests for it interleave and stale copies overwrite
\* each other (putTestRunImpl.Handle: Status != TODO guards a verdict).
NoVerdictWithoutStart ==
    \A id \in RunIds: runs[id].status \in {"PASSED", "FAILED"} => id \in started

\* When no request is in progress, a verdict the cache holds has reached
\* XRay ("pushes test outcomes to e.g. XRay").
VerdictReachesXray ==
    Quiet => \A id \in RunIds:
        runs[id].status \in {"PASSED", "FAILED"} =>
            /\ runs[id].exec # NoExec
            /\ xray[runs[id].exec].status \in {"PASSED", "FAILED"}

Lifecycle == INSTANCE RunLifecycle WITH status <- [id \in RunIds |-> runs[id].status]

\* As long as requests do not overlap, the statuses in the cache follow the
\* life of a run as RunLifecycle describes it (putTestRunImpl.Handle,
\* EventCache.Set, deleteTestRunImpl.Handle).
RunsFollowLifecycle == Lifecycle!Spec

\* At most one plan is active (GetActive returns the first it meets).
OneActivePlan == \A p, q \in ActivePlans: p = q

LogEventStores(h) ==
    At(h, "event_set") /\ handler[h].req.src = "log-monitor" /\ EventSet(h)

\* An event of the log monitor is "stored within the current test run, but
\* does not affect the state of the test run" (EventCache.Set).
LogEventsKeepStatus ==
    [][\A h \in Handlers: LogEventStores(h) =>
          runs'[handler[h].req.id].status = runs[handler[h].req.id].status]_vars

DeleteAllKeepsActive ==
    \A h \in Handlers: DeletePlansNext(h) =>
        \A k \in PlanKeys: plans[k] # NoPlan /\ plans[k].active => plans'[k] = plans[k]

\* Plans are deactivated one by one from copies (PutTestPlanByID) and deleted
\* by the activity that a copy shows (DeleteAll): no step leads to two active
\* plans, and the active one is not deleted with the others.
PlansKeepOneActive == [][OneActivePlan' /\ DeleteAllKeepsActive]_vars

\* Every request is answered.
RequestsAreAnswered ==
    \A h \in Handlers: ~At(h, "idle") ~> At(h, "idle")
=============================================================================
