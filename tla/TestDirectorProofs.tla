------------------------- MODULE TestDirectorProofs -------------------------
(***************************************************************************)
(* The test director for any number of runs, plans, messages and handlers. *)
(* Handlers work on copies, so every invariant of a cache needs its        *)
(* counterpart for the copies the handlers hold.                           *)
(***************************************************************************)
EXTENDS TestDirector, TLAPS

\* What a handler holds at each of its steps.
CopyOK(v) ==
    /\ v.pc \in {"jira", "create", "run_set", "plan_active"} =>
          v.req \in PutRunRequest
    /\ v.pc \in {"event_set", "event_store"} => v.req \in EventRequest
    /\ v.pc \in {"xray_status", "xray_comment", "plan_complete", "plan_set"} =>
          v.req \in PutRunRequest \cup EventRequest
    /\ v.pc \in {"run_set", "event_set", "xray_status", "xray_comment",
                 "plan_active", "plan_complete", "plan_set"} => v.run \in Run
    /\ v.pc \in {"plan_set", "deactivate", "own_plan_set"} => v.plan \in Plan

CopiesOK == \A h \in Handlers: CopyOK(handler[h])

TypeInv == TypeOK /\ CopiesOK

-----------------------------------------------------------------------------
LEMMA RequestOps ==
  \A r \in Request:
     /\ r.op = "put_run" => r \in PutRunRequest
     /\ r.op = "event" => r \in EventRequest
     /\ r.op = "delete_run" => r \in DeleteRunRequest
     /\ r.op = "put_plan" => r \in PutPlanRequest
     /\ r.op = "delete_plan" => r \in DeletePlanRequest
  BY DEF Request, PutRunRequest, EventRequest, DeleteRunRequest,
         PutPlanRequest, DeletePlanRequest, DeletePlansRequest

HandlersOK == handler \in [Handlers -> Busy \cup Idle] /\ CopiesOK

\* A handler that moves on to a well-typed record keeps all copies in order.
LEMMA HandlerMoves ==
  ASSUME TypeInv, NEW h \in Handlers, NEW v \in Busy \cup Idle, CopyOK(v),
         handler' = [handler EXCEPT ![h] = v]
  PROVE  HandlersOK'
  BY DEF TypeInv, TypeOK, HandlersOK, CopiesOK

LEMMA Answers ==
  ASSUME TypeInv, NEW h \in Handlers, Reply(h) \/ Refuse(h)
  PROVE  HandlersOK'
  <1> DEFINE v(b) == [pc |-> "idle", ok |-> b]
  <1>1. \A b \in BOOLEAN: v(b) \in Idle /\ CopyOK(v(b))
    BY DEF Idle, CopyOK
  <1>2. PICK b \in BOOLEAN: handler' = [handler EXCEPT ![h] = v(b)]
    BY Zenon DEF Reply, Refuse
  <1> QED BY <1>1, <1>2, HandlerMoves, Zenon

LEMMA BusyHandler ==
  ASSUME TypeInv, NEW h \in Handlers, ~At(h, "idle")
  PROVE  handler[h] \in Busy
  BY DEF TypeInv, TypeOK, At, Idle

\* The three ways in which a busy handler goes on.
LEMMA Goes ==
  ASSUME TypeInv, NEW h \in Handlers, ~At(h, "idle"), NEW pc \in Pc,
         Goto(h, pc), CopyOK([handler[h] EXCEPT !.pc = pc])
  PROVE  HandlersOK'
  <1>1. [handler[h] EXCEPT !.pc = pc] \in Busy
    BY BusyHandler DEF Busy
  <1> QED BY <1>1, HandlerMoves, Zenon DEF Goto

LEMMA GoesWithRun ==
  ASSUME TypeInv, NEW h \in Handlers, ~At(h, "idle"), NEW pc \in Pc,
         NEW run \in Run, GotoWithRun(h, pc, run),
         CopyOK([handler[h] EXCEPT !.pc = pc, !.run = run])
  PROVE  HandlersOK'
  <1>1. [handler[h] EXCEPT !.pc = pc, !.run = run] \in Busy
    BY BusyHandler, Zenon DEF Busy
  <1>2. handler' = [handler EXCEPT ![h] =
                      [handler[h] EXCEPT !.pc = pc, !.run = run]]
    BY BusyHandler, Zenon DEF GotoWithRun, TypeInv, TypeOK, Busy
  <1> QED BY <1>1, <1>2, HandlerMoves, Zenon

LEMMA GoesWithPlan ==
  ASSUME TypeInv, NEW h \in Handlers, ~At(h, "idle"), NEW pc \in Pc,
         NEW plan \in Plan, GotoWithPlan(h, pc, plan),
         CopyOK([handler[h] EXCEPT !.pc = pc, !.plan = plan])
  PROVE  HandlersOK'
  <1>1. [handler[h] EXCEPT !.pc = pc, !.plan = plan] \in Busy
    BY BusyHandler, Zenon DEF Busy
  <1>2. handler' = [handler EXCEPT ![h] =
                      [handler[h] EXCEPT !.pc = pc, !.plan = plan]]
    BY BusyHandler, Zenon DEF GotoWithPlan, TypeInv, TypeOK, Busy
  <1> QED BY <1>1, <1>2, HandlerMoves, Zenon

LEMMA GoesWithTodo ==
  ASSUME TypeInv, NEW h \in Handlers, ~At(h, "idle"), NEW pc \in Pc,
         NEW todo \in SUBSET Plan,
         handler' = [handler EXCEPT ![h].pc = pc, ![h].todo = todo],
         CopyOK([handler[h] EXCEPT !.pc = pc, !.todo = todo])
  PROVE  HandlersOK'
  <1>1. [handler[h] EXCEPT !.pc = pc, !.todo = todo] \in Busy
    BY BusyHandler, Zenon DEF Busy
  <1>2. handler' = [handler EXCEPT ![h] =
                      [handler[h] EXCEPT !.pc = pc, !.todo = todo]]
    BY BusyHandler, Zenon DEF TypeInv, TypeOK, Busy
  <1> QED BY <1>1, <1>2, HandlerMoves, Zenon

-----------------------------------------------------------------------------
LEMMA TypeInit == Init => TypeInv
  <1> SUFFICES ASSUME Init PROVE TypeInv
    OBVIOUS
  <1>1. plans \in [PlanKeys -> Plan \cup {NoPlan}]
    <2>1. NewPlan(DefaultPlan, "NOT_STARTED", DefaultTests) \in Plan
      BY DirectorAssumption DEF NewPlan, Plan, PlanStatus
    <2> QED BY <2>1 DEF Init, InitTestPlanCache
  <1>2. xray \in [Execs -> Execution]
    BY DEF Init, Execution
  <1>3. HandlersOK
    <2>1. [pc |-> "idle", ok |-> TRUE] \in Idle
      BY DEF Idle
    <2> QED BY <2>1 DEF Init, HandlersOK, CopiesOK, CopyOK
  <1> QED BY <1>1, <1>2, <1>3 DEF Init, TypeInv, TypeOK, HandlersOK

\* A copy of a plan that hosts a test is a plan, and the key is a test's.
LEMMA HostsPlan ==
  ASSUME TypeInv, NEW plan \in GetActive, NEW key, Hosts(plan, key)
  PROVE  plan \in Plan /\ key \in TestKeys
  BY DEF GetActive, ActivePlans, Hosts, TypeInv, TypeOK, Plan

LEMMA UpdatedType ==
  ASSUME NEW run \in Run, NEW req \in PutRunRequest
  PROVE  Updated(run, req) \in Run
  BY Zenon DEF Updated, Run, PutRunRequest, RunStatus

LEMMA RunTypes ==
  ASSUME TypeInv, NEW h \in Handlers, RunStep(h)
  PROVE  TypeInv'
  <1> DEFINE hd == handler[h]
             req == handler[h].req
             run == handler[h].run
  <1>0. TypeOK /\ CopyOK(hd) /\ CopiesOK
    BY DEF TypeInv, CopiesOK
  <1>a. ASSUME HandlersOK', TypeOK,
               plans' \in [PlanKeys -> Plan \cup {NoPlan}],
               runs' \in [RunIds -> Run \cup {NoRun}],
               UNCHANGED events, xray' \in [Execs -> Execution],
               started' \subseteq RunIds
        PROVE  TypeInv'
    BY <1>a DEF HandlersOK, TypeInv, TypeOK
  <1>1. CASE PutRunGet(h)
    <2>1. ~At(h, "idle") /\ hd \in Busy /\ req \in PutRunRequest
      BY <1>1, BusyHandler, RequestOps DEF PutRunGet, Received, At, Busy
    <2>2. CASE runs[req.id] = NoRun
      <3>1. CopyOK([hd EXCEPT !.pc = "jira"])
        BY <2>1 DEF CopyOK, Busy
      <3>2. HandlersOK'
        BY <1>1, <2>1, <2>2, <3>1, Goes, Zenon DEF PutRunGet, Pc
      <3> QED BY <1>0, <1>1, <1>a, <3>2 DEF PutRunGet, TypeOK
    <2>3. CASE runs[req.id] # NoRun
      <3> DEFINE old == runs[req.id]
                 pc == IF Pushed(old, req) THEN "xray_status" ELSE "run_set"
      <3>1. old \in Run
        BY <1>0, <2>1, <2>3 DEF TypeOK, PutRunRequest
      <3>2. Updated(old, req) \in Run
        BY <2>1, <3>1, UpdatedType
      <3>3. CopyOK([hd EXCEPT !.pc = pc, !.run = Updated(old, req)])
        BY <2>1, <3>2 DEF CopyOK, Busy
      <3>4. GotoWithRun(h, pc, Updated(old, req)) /\ pc \in Pc
        BY <1>1, <2>3 DEF PutRunGet, Pc
      <3> HIDE DEF pc
      <3>5. HandlersOK'
        BY <2>1, <3>2, <3>3, <3>4, GoesWithRun, Zenon
      <3> QED BY <1>0, <1>1, <1>a, <3>5 DEF PutRunGet, TypeOK
    <2> QED BY <2>2, <2>3
  <1>2. CASE PutRunJira(h)
    <2>1. ~At(h, "idle") /\ hd \in Busy /\ req \in PutRunRequest
      BY <1>0, <1>2, BusyHandler DEF PutRunJira, At, CopyOK
    <2>2. ASSUME NEW plan \in GetActive, Hosts(plan, req.key),
                 GotoWithPlan(h, "create", plan)
          PROVE  HandlersOK'
      <3>1. plan \in Plan
        BY <2>2, HostsPlan
      <3>2. CopyOK([hd EXCEPT !.pc = "create", !.plan = plan])
        BY <2>1, <3>1 DEF CopyOK, Busy
      <3> QED BY <2>1, <2>2, <3>1, <3>2, GoesWithPlan, Zenon DEF Pc
    <2>3. HandlersOK'
      BY <1>2, <2>2, Answers DEF PutRunJira
    <2> QED BY <1>0, <1>2, <1>a, <2>3 DEF PutRunJira, TypeOK
  <1>3. CASE PutRunCreate(h)
    <2>1. ~At(h, "idle") /\ hd \in Busy /\ req \in PutRunRequest
      BY <1>0, <1>3, BusyHandler DEF PutRunCreate, At, CopyOK
    <2> DEFINE NewRun(x) == [status |-> "TODO", data |-> {req.msg},
                             key |-> req.key, exec |-> x]
    <2>2. ASSUME NEW x \in Execs \cup {NoExec},
                 GotoWithRun(h, "run_set", NewRun(x))
          PROVE  HandlersOK'
      <3>1. NewRun(x) \in Run
        BY <2>1 DEF Run, PutRunRequest, RunStatus
      <3>2. CopyOK([hd EXCEPT !.pc = "run_set", !.run = NewRun(x)])
        BY <2>1, <3>1 DEF CopyOK, Busy
      <3> HIDE DEF NewRun
      <3> QED BY <2>1, <2>2, <3>1, <3>2, GoesWithRun, Zenon DEF Pc
    <2>3. HandlersOK'
      BY <1>3, <2>2, Answers, Zenon DEF PutRunCreate
    <2>4. xray' \in [Execs -> Execution]
      <3>1. \A x \in Execs: [xray[x] EXCEPT !.status = "TODO"] \in Execution
        BY <1>0 DEF TypeOK, Execution, RunStatus
      <3> QED BY <1>0, <1>3, <3>1, Zenon DEF PutRunCreate, TypeOK
    <2> QED BY <1>0, <1>3, <1>a, <2>3, <2>4 DEF PutRunCreate, TypeOK
  <1>4. CASE PutRunSet(h)
    <2>1. req \in PutRunRequest /\ run \in Run
      BY <1>0, <1>4 DEF PutRunSet, At, CopyOK
    <2>2. req.id \in RunIds
      BY <2>1 DEF PutRunRequest
    <2>3. HandlersOK'
      BY <1>4, Answers DEF PutRunSet
    <2> QED BY <1>0, <1>4, <1>a, <2>1, <2>2, <2>3 DEF PutRunSet, TypeOK
  <1>5. CASE DeleteRun(h)
    <2>1. HandlersOK'
      BY <1>5, Answers DEF DeleteRun
    <2> QED BY <1>0, <1>5, <1>a, <2>1, Zenon DEF DeleteRun, TypeOK
  <1>6. CASE XrayUpdateStatus(h)
    <2>1. /\ ~At(h, "idle") /\ hd \in Busy /\ run \in Run
          /\ req \in PutRunRequest \cup EventRequest
      BY <1>0, <1>6, BusyHandler DEF XrayUpdateStatus, At, CopyOK
    <2>2. CopyOK([hd EXCEPT !.pc = "xray_comment"])
      BY <2>1 DEF CopyOK, Busy
    <2>3. HandlersOK'
      BY <1>6, <2>1, <2>2, Answers, Goes, Zenon DEF XrayUpdateStatus, Pc
    <2>4. xray' \in [Execs -> Execution]
      <3>1. run.exec \in Execs =>
               [xray[run.exec] EXCEPT !.status = run.status] \in Execution
        BY <1>0, <2>1 DEF TypeOK, Execution, Run
      <3> QED BY <1>0, <1>6, <3>1 DEF XrayUpdateStatus, TypeOK
    <2> QED BY <1>0, <1>6, <1>a, <2>3, <2>4 DEF XrayUpdateStatus, TypeOK
  <1>7. CASE XrayUpdateComment(h)
    <2>1. /\ ~At(h, "idle") /\ hd \in Busy /\ run \in Run
          /\ req \in PutRunRequest \cup EventRequest
      BY <1>0, <1>7, BusyHandler DEF XrayUpdateComment, At, CopyOK
    <2>2. AfterXray(req) \in Pc /\ CopyOK([hd EXCEPT !.pc = AfterXray(req)])
      BY <2>1 DEF CopyOK, Busy, AfterXray, Pc, EventRequest, PutRunRequest
    <2>3. HandlersOK'
      BY <1>7, <2>1, <2>2, Answers, Goes DEF XrayUpdateComment
    <2>4. xray' \in [Execs -> Execution]
      <3>1. run.exec \in Execs =>
               [xray[run.exec] EXCEPT !.comment = run.data] \in Execution
        BY <1>0, <2>1 DEF TypeOK, Execution, Run
      <3> QED BY <1>0, <1>7, <3>1 DEF XrayUpdateComment, TypeOK
    <2> QED BY <1>0, <1>7, <1>a, <2>3, <2>4 DEF XrayUpdateComment, TypeOK
  <1>8. CASE StartGetActive(h)
    <2>1. /\ ~At(h, "idle") /\ hd \in Busy /\ run \in Run
          /\ req \in PutRunRequest
      BY <1>0, <1>8, BusyHandler DEF StartGetActive, At, CopyOK
    <2>2. ASSUME NEW plan \in GetActive, Hosts(plan, run.key),
                 GotoWithPlan(h, "plan_set", [plan EXCEPT !.status = "RUNNING"])
          PROVE  HandlersOK'
      <3>1. [plan EXCEPT !.status = "RUNNING"] \in Plan
        BY <2>2, HostsPlan DEF Plan, PlanStatus
      <3>2. CopyOK([hd EXCEPT !.pc = "plan_set",
                              !.plan = [plan EXCEPT !.status = "RUNNING"]])
        BY <2>1, <3>1 DEF CopyOK, Busy
      <3> QED BY <2>1, <2>2, <3>1, <3>2, GoesWithPlan, Zenon DEF Pc
    <2>3. HandlersOK'
      BY <1>8, <2>2, Answers DEF StartGetActive
    <2> QED BY <1>0, <1>8, <1>a, <2>3 DEF StartGetActive, TypeOK
  <1>9. CASE CompletePlanGet(h)
    <2>1. /\ ~At(h, "idle") /\ hd \in Busy /\ run \in Run
          /\ req \in PutRunRequest \cup EventRequest
      BY <1>0, <1>9, BusyHandler DEF CompletePlanGet, At, CopyOK
    <2>2. CASE run.key \in PlanKeys /\ plans[run.key] # NoPlan
      <3> DEFINE plan == Completed(plans[run.key], run)
      <3>1. plan \in Plan
        BY <1>0, <2>2 DEF TypeOK, Completed, Plan, PlanStatus
      <3>2. CopyOK([hd EXCEPT !.pc = "plan_set", !.plan = plan])
        BY <2>1, <3>1 DEF CopyOK, Busy
      <3>3. GotoWithPlan(h, "plan_set", plan)
        BY <1>9, <2>2 DEF CompletePlanGet
      <3> HIDE DEF plan
      <3>4. HandlersOK'
        BY <2>1, <3>1, <3>2, <3>3, GoesWithPlan, Zenon DEF Pc
      <3> QED BY <1>0, <1>9, <1>a, <3>4 DEF CompletePlanGet, TypeOK
    <2>3. CASE ~(run.key \in PlanKeys /\ plans[run.key] # NoPlan)
      <3>1. AfterPlan(req) \in Pc /\ CopyOK([hd EXCEPT !.pc = AfterPlan(req)])
        BY <2>1 DEF CopyOK, Busy, AfterPlan, Pc, EventRequest, PutRunRequest
      <3>2. HandlersOK'
        BY <1>9, <2>1, <2>3, <3>1, Goes DEF CompletePlanGet
      <3> QED BY <1>0, <1>9, <1>a, <3>2 DEF CompletePlanGet, TypeOK
    <2> QED BY <2>2, <2>3
  <1>10. CASE PlanSet(h)
    <2>1. /\ ~At(h, "idle") /\ hd \in Busy /\ run \in Run /\ hd.plan \in Plan
          /\ req \in PutRunRequest \cup EventRequest
      BY <1>0, <1>10, BusyHandler DEF PlanSet, At, CopyOK
    <2>2. AfterPlan(req) \in Pc /\ CopyOK([hd EXCEPT !.pc = AfterPlan(req)])
      BY <2>1 DEF CopyOK, Busy, AfterPlan, Pc, EventRequest, PutRunRequest
    <2>3. HandlersOK'
      BY <1>10, <2>1, <2>2, Goes DEF PlanSet
    <2> QED BY <1>0, <1>10, <1>a, <2>1, <2>3 DEF PlanSet, TypeOK, Plan
  <1> QED BY <1>1, <1>2, <1>3, <1>4, <1>5, <1>6, <1>7, <1>8, <1>9, <1>10
          DEF RunStep

LEMMA EventTypes ==
  ASSUME TypeInv, NEW h \in Handlers, EventStep(h)
  PROVE  TypeInv'
  <1> DEFINE hd == handler[h]
             req == handler[h].req
             run == handler[h].run
  <1>0. TypeOK /\ CopyOK(hd)
    BY DEF TypeInv, CopiesOK
  <1>1. CASE EventGet(h)
    <2>1. ~At(h, "idle") /\ hd \in Busy /\ req \in EventRequest
      BY <1>1, BusyHandler, RequestOps DEF EventGet, Received, At, Busy
    <2> DEFINE old == runs[req.id]
               new == [old EXCEPT !.data = @ \cup {req.msg}]
    <2>2. CopyOK([hd EXCEPT !.pc = "event_store"])
      BY <2>1 DEF CopyOK, Busy
    <2>3. ASSUME old # NoRun, GotoWithRun(h, "event_set", new)
          PROVE  HandlersOK'
      <3>0. old \in Run /\ req.msg \in Messages
        BY <1>0, <2>1, <2>3 DEF TypeOK, EventRequest
      <3>1. new \in Run
        BY <3>0 DEF Run
      <3>2. CopyOK([hd EXCEPT !.pc = "event_set", !.run = new])
        BY <2>1, <3>1 DEF CopyOK, Busy
      <3> HIDE DEF new
      <3> QED BY <2>1, <2>3, <3>1, <3>2, GoesWithRun, Zenon DEF Pc
    <2>4. HandlersOK'
      BY <1>1, <2>1, <2>2, <2>3, Goes, Answers, Zenon DEF EventGet, Pc
    <2> QED BY <1>0, <1>1, <2>4 DEF EventGet, TypeInv, TypeOK, HandlersOK
  <1>2. CASE EventSet(h)
    <2>1. /\ ~At(h, "idle") /\ hd \in Busy /\ run \in Run
          /\ req \in EventRequest
      BY <1>0, <1>2, BusyHandler DEF EventSet, At, CopyOK
    <2> DEFINE failed == [run EXCEPT !.status = "FAILED"]
    <2>2. failed \in Run /\ CopyOK([hd EXCEPT !.pc = "xray_status",
                                             !.run = failed])
      <3>1. failed \in Run
        BY <2>1 DEF Run, RunStatus
      <3> QED BY <2>1, <3>1 DEF CopyOK, Busy
    <2>3. CopyOK([hd EXCEPT !.pc = "event_store"])
      BY <2>1 DEF CopyOK, Busy
    <2>4. \/ GotoWithRun(h, "xray_status", failed)
          \/ Goto(h, "event_store")
      BY <1>2 DEF EventSet
    <2> HIDE DEF failed
    <2>5. HandlersOK'
      BY <2>1, <2>2, <2>3, <2>4, Goes, GoesWithRun DEF Pc
    <2>6. req.id \in RunIds
      BY <2>1 DEF EventRequest
    <2> QED BY <1>0, <1>2, <2>1, <2>5, <2>6
            DEF EventSet, TypeInv, TypeOK, HandlersOK
  <1>3. CASE EventStore(h)
    <2>1. req \in EventRequest
      BY <1>0, <1>3 DEF EventStore, At, CopyOK
    <2>2. HandlersOK'
      BY <1>3, Answers DEF EventStore
    <2> QED BY <1>0, <1>3, <2>1, <2>2
            DEF EventStore, TypeInv, TypeOK, HandlersOK
  <1> QED BY <1>1, <1>2, <1>3 DEF EventStep

LEMMA PlanTypes ==
  ASSUME TypeInv, NEW h \in Handlers, PlanStep(h)
  PROVE  TypeInv'
  <1> DEFINE hd == handler[h]
             req == handler[h].req
  <1>0. TypeOK /\ CopyOK(hd)
    BY DEF TypeInv, CopiesOK
  <1>a. ASSUME HandlersOK', plans' \in [PlanKeys -> Plan \cup {NoPlan}],
               UNCHANGED <<runs, events, xray, started>>
        PROVE  TypeInv'
    BY <1>0, <1>a DEF TypeInv, TypeOK, HandlersOK
  <1>1. CASE PutPlanGet(h)
    <2>1. ~At(h, "idle") /\ hd \in Busy /\ req \in PutPlanRequest
      BY <1>1, BusyHandler, RequestOps DEF PutPlanGet, Received, At, Busy
    <2>2. ASSUME NEW plan \in Plan, NEW pc \in {"deactivate", "own_plan_set"},
                 GotoWithPlan(h, pc, plan)
          PROVE  HandlersOK'
      <3>1. CopyOK([hd EXCEPT !.pc = pc, !.plan = plan])
        BY <2>1 DEF CopyOK, Busy
      <3> QED BY <2>1, <2>2, <3>1, GoesWithPlan DEF Pc
    <2>3. CASE Refuse(h)
      BY <1>0, <1>1, <1>a, <2>3, Answers DEF PutPlanGet, TypeOK
    <2>4. CASE ~Refuse(h)
      <3> DEFINE old == plans[req.key]
                 new == NewPlan(req.key, req.status, {})
                 moved == [old EXCEPT !.status = req.status, !.active = TRUE]
      <3>1. req.key \in PlanKeys /\ req.status \in PlanStatus
        BY <1>1, <2>1, <2>4 DEF PutPlanGet, PutPlanRequest
      <3>2. new \in Plan
        BY <3>1 DEF NewPlan, Plan
      <3>3. old # NoPlan => old \in Plan /\ moved \in Plan
        BY <1>0, <3>1 DEF TypeOK, Plan
      <3>4. \E plan \in Plan: \E pc \in {"deactivate", "own_plan_set"}:
               GotoWithPlan(h, pc, plan)
        <4>1. CASE old = NoPlan
          BY <1>1, <2>4, <3>1, <3>2, <4>1 DEF PutPlanGet
        <4>2. CASE old # NoPlan
          BY <1>1, <2>4, <3>1, <3>3, <4>2 DEF PutPlanGet
        <4> QED BY <4>1, <4>2
      <3> QED BY <1>0, <1>1, <1>a, <2>2, <3>4 DEF PutPlanGet, TypeOK
    <2> QED BY <2>3, <2>4
  <1>2. CASE PutPlanGetAll(h)
    <2>1. ~At(h, "idle") /\ hd \in Busy /\ hd.plan \in Plan
      BY <1>0, <1>2, BusyHandler DEF PutPlanGetAll, At, CopyOK
    <2>2. Cached \in SUBSET Plan
      BY <1>0 DEF Cached, TypeOK
    <2>3. CopyOK([hd EXCEPT !.pc = "own_plan_set", !.todo = Cached])
      BY <2>1 DEF CopyOK, Busy
    <2>4. HandlersOK'
      BY <1>2, <2>1, <2>2, <2>3, GoesWithTodo DEF PutPlanGetAll, Pc
    <2> QED BY <1>0, <1>2, <1>a, <2>4 DEF PutPlanGetAll, TypeOK
  <1>3. CASE PutPlanDeactivate(h) \/ DeletePlansNext(h)
    <2>1. ~At(h, "idle") /\ hd \in Busy
      BY <1>3, BusyHandler DEF PutPlanDeactivate, DeletePlansNext, At
    <2>2. PICK plan \in hd.todo:
             /\ \/ plans' = [plans EXCEPT ![plan.key] =
                                [plan EXCEPT !.active = FALSE]]
                \/ plans' = [plans EXCEPT ![plan.key] = NoPlan]
             /\ handler' = [handler EXCEPT ![h].todo = @ \ {plan}]
      BY <1>3 DEF PutPlanDeactivate, DeletePlansNext
    <2>3. plan \in Plan /\ [plan EXCEPT !.active = FALSE] \in Plan
          /\ plan.key \in PlanKeys
      BY <2>1, <2>2 DEF Busy, Plan
    <2>4. [hd EXCEPT !.todo = @ \ {plan}] \in Busy
      BY <2>1 DEF Busy
    <2>5. CopyOK([hd EXCEPT !.todo = @ \ {plan}])
      BY <1>0, <2>1 DEF CopyOK, Busy
    <2>6. HandlersOK'
      BY <2>2, <2>4, <2>5, HandlerMoves
    <2>7. plans' \in [PlanKeys -> Plan \cup {NoPlan}]
      BY <1>0, <2>2, <2>3 DEF TypeOK
    <2> QED BY <1>3, <1>a, <2>6, <2>7 DEF PutPlanDeactivate, DeletePlansNext
  <1>4. CASE PutPlanSet(h)
    <2>1. hd.plan \in Plan
      BY <1>0, <1>4 DEF PutPlanSet, At, CopyOK
    <2>2. HandlersOK'
      BY <1>4, Answers DEF PutPlanSet
    <2> QED BY <1>0, <1>4, <1>a, <2>1, <2>2 DEF PutPlanSet, TypeOK, Plan
  <1>5. CASE DeletePlan(h)
    <2>1. HandlersOK'
      BY <1>5, Answers DEF DeletePlan
    <2> QED BY <1>0, <1>5, <1>a, <2>1 DEF DeletePlan, TypeOK
  <1>6. CASE DeletePlansGetAll(h)
    <2>1. ~At(h, "idle") /\ hd \in Busy
      BY <1>6, BusyHandler DEF DeletePlansGetAll, Received, At
    <2> DEFINE todo == {p \in Cached : ~p.active}
    <2>2. todo \in SUBSET Plan
      BY <1>0 DEF Cached, TypeOK
    <2>3. CopyOK([hd EXCEPT !.pc = "delete_all", !.todo = todo])
      BY <2>1 DEF CopyOK, Busy
    <2>4. handler' = [handler EXCEPT ![h].pc = "delete_all", ![h].todo = todo]
      BY <1>6 DEF DeletePlansGetAll
    <2> HIDE DEF todo
    <2>5. HandlersOK'
      BY <2>1, <2>2, <2>3, <2>4, GoesWithTodo DEF Pc
    <2> QED BY <1>0, <1>6, <1>a, <2>5 DEF DeletePlansGetAll, TypeOK
  <1>7. CASE DeletePlansDone(h)
    <2>1. HandlersOK'
      BY <1>7, Answers DEF DeletePlansDone
    <2> QED BY <1>0, <1>7, <1>a, <2>1 DEF DeletePlansDone, TypeOK
  <1> QED BY <1>1, <1>2, <1>3, <1>4, <1>5, <1>6, <1>7 DEF PlanStep

LEMMA TypeStep == TypeInv /\ [Next]_vars => TypeInv'
  <1> SUFFICES ASSUME TypeInv, [Next]_vars PROVE TypeInv'
    OBVIOUS
  <1>1. ASSUME NEW h \in Handlers, Receive(h) PROVE TypeInv'
    <2>1. PICK req \in Requests:
             handler' = [handler EXCEPT
                ![h] = [pc |-> "received", req |-> req, run |-> NoRun,
                        plan |-> NoPlan, todo |-> {}]]
      BY <1>1 DEF Receive
    <2> DEFINE v == [pc |-> "received", req |-> req, run |-> NoRun,
                     plan |-> NoPlan, todo |-> {}]
    <2>2. v \in Busy
      BY DirectorAssumption DEF Busy, Pc
    <2>3. CopyOK(v)
      BY DEF CopyOK
    <2>4. HandlersOK'
      BY <2>1, <2>2, <2>3, HandlerMoves
    <2> QED BY <1>1, <2>4 DEF Receive, TypeInv, TypeOK, HandlersOK
  <1>2. CASE UNCHANGED vars
    BY <1>2 DEF vars, TypeInv, TypeOK, CopiesOK, CopyOK
  <1> QED BY <1>1, <1>2, RunTypes, EventTypes, PlanTypes DEF Next, HandlerStep

\* Caches, copies and XRay's records stay within their types, whatever
\* requests arrive and however their handlers interleave.
THEOREM TypeCorrect == Spec => []TypeOK
  <1>1. TypeInv => TypeOK
    BY DEF TypeInv
  <1> QED BY <1>1, TypeInit, TypeStep, PTL DEF Spec

-----------------------------------------------------------------------------
(* No verdict without a start.  A run that has begun, in the cache or in a *)
(* copy that will be stored, was once stored as EXECUTING.                 *)

Begun == {"EXECUTING", "PASSED", "FAILED"}
RunPcs == {"run_set", "xray_status", "xray_comment", "plan_active",
           "plan_complete", "plan_set"}

CopyStarted(v, ids) ==
    /\ v.pc = "event_set" /\ v.run.status \in Begun => v.req.id \in ids
    /\ v.pc \in RunPcs /\ v.req.op = "put_run"
          /\ v.run.status \in {"PASSED", "FAILED"} => v.req.id \in ids

StartInv ==
    /\ \A id \in RunIds: runs[id].status \in Begun => id \in started
    /\ \A h \in Handlers: CopyStarted(handler[h], started)

\* A step of one handler leaves the others' copies alone.
LEMMA OthersKeepCopies ==
  ASSUME TypeInv, StartInv, NEW h \in Handlers, NEW v,
         handler' = [handler EXCEPT ![h] = v], started \subseteq started',
         CopyStarted(v, started')
  PROVE  \A g \in Handlers: CopyStarted(handler'[g], started')
  <1>1. \A g \in Handlers: g # h => handler'[g] = handler[g]
    BY DEF TypeInv, TypeOK
  <1>2. handler'[h] = v
    BY DEF TypeInv, TypeOK
  <1>3. CopyStarted(handler'[h], started')
    BY <1>2 DEF CopyStarted
  <1>4. \A g \in Handlers: g # h => CopyStarted(handler'[g], started')
    BY <1>1 DEF StartInv, CopyStarted
  <1> QED BY <1>3, <1>4

LEMMA StartRunStep ==
  ASSUME TypeInv, StartInv, NEW h \in Handlers, RunStep(h)
  PROVE  StartInv'
  <1> DEFINE hd == handler[h]
             req == handler[h].req
             run == handler[h].run
  <1>0. TypeOK /\ CopyOK(hd) /\ CopyStarted(hd, started)
    BY DEF TypeInv, CopiesOK, StartInv
  <1>a. ASSUME NEW v, handler' = [handler EXCEPT ![h] = v],
               started \subseteq started', CopyStarted(v, started'),
               \A id \in RunIds: runs'[id].status \in Begun => id \in started'
        PROVE  StartInv'
    BY <1>a, OthersKeepCopies DEF StartInv
  <1>b. ASSUME Reply(h) \/ Refuse(h), started \subseteq started',
               \A id \in RunIds: runs'[id].status \in Begun => id \in started'
        PROVE  StartInv'
    <2>1. PICK b \in BOOLEAN:
             handler' = [handler EXCEPT ![h] = [pc |-> "idle", ok |-> b]]
      BY <1>b DEF Reply, Refuse
    <2>2. CopyStarted([pc |-> "idle", ok |-> b], started')
      BY DEF CopyStarted, RunPcs
    <2> QED BY <1>a, <1>b, <2>1, <2>2
  <1>c. ASSUME NEW pc \in Pc \ {"event_set"}, Goto(h, pc), hd \in Busy,
               UNCHANGED <<runs, started>>,
               pc \in RunPcs => hd.pc \in RunPcs
        PROVE  StartInv'
    <2>1. handler' = [handler EXCEPT ![h] = [hd EXCEPT !.pc = pc]]
      BY <1>c DEF Goto
    <2>2. CopyStarted([hd EXCEPT !.pc = pc], started')
      BY <1>0, <1>c DEF CopyStarted, Busy
    <2>3. started \subseteq started' /\
          \A id \in RunIds: runs'[id].status \in Begun => id \in started'
      BY <1>c DEF StartInv
    <2> QED BY <1>a, <2>1, <2>2, <2>3
  <1>d. ASSUME NEW pc \in Pc \ {"event_set"}, NEW plan,
               GotoWithPlan(h, pc, plan), hd \in Busy,
               UNCHANGED <<runs, started>>,
               pc \in RunPcs => hd.pc \in RunPcs
        PROVE  StartInv'
    <2>1. handler' = [handler EXCEPT
                        ![h] = [hd EXCEPT !.pc = pc, !.plan = plan]]
      BY <1>0, <1>d DEF GotoWithPlan, TypeOK, Busy
    <2>2. CopyStarted([hd EXCEPT !.pc = pc, !.plan = plan], started')
      BY <1>0, <1>d DEF CopyStarted, Busy
    <2>3. started \subseteq started' /\
          \A id \in RunIds: runs'[id].status \in Begun => id \in started'
      BY <1>d DEF StartInv
    <2> QED BY <1>a, <2>1, <2>2, <2>3
  <1>e. ASSUME NEW pc \in RunPcs, NEW new \in Run,
               GotoWithRun(h, pc, new), hd \in Busy,
               UNCHANGED <<runs, started>>,
               new.status \in {"PASSED", "FAILED"} => req.id \in started
        PROVE  StartInv'
    <2>1. handler' = [handler EXCEPT
                        ![h] = [hd EXCEPT !.pc = pc, !.run = new]]
      BY <1>0, <1>e DEF GotoWithRun, TypeOK, Busy
    <2>2. CopyStarted([hd EXCEPT !.pc = pc, !.run = new], started')
      BY <1>0, <1>e DEF CopyStarted, Busy, RunPcs
    <2>3. started \subseteq started' /\
          \A id \in RunIds: runs'[id].status \in Begun => id \in started'
      BY <1>e DEF StartInv
    <2> QED BY <1>a, <2>1, <2>2, <2>3
  <1>f. UNCHANGED <<runs, started>> =>
           started \subseteq started' /\
           \A id \in RunIds: runs'[id].status \in Begun => id \in started'
    BY DEF StartInv
  <1>1. CASE PutRunGet(h)
    <2>1. hd \in Busy /\ req \in PutRunRequest
      BY <1>1, BusyHandler, RequestOps DEF PutRunGet, Received, At, Busy
    <2>2. CASE runs[req.id] = NoRun
      BY <1>1, <1>c, <2>1, <2>2 DEF PutRunGet, Pc, RunPcs
    <2>3. CASE runs[req.id] # NoRun
      <3> DEFINE old == runs[req.id]
                 pc == IF Pushed(old, req) THEN "xray_status" ELSE "run_set"
      <3>1. old \in Run /\ req.id \in RunIds
        BY <1>0, <2>1, <2>3 DEF TypeOK, PutRunRequest
      <3>2. Updated(old, req) \in Run
        BY <2>1, <3>1, UpdatedType
      <3>3. Updated(old, req).status \in {"PASSED", "FAILED"} =>
               old.status \in Begun
        BY <2>1, <3>1 DEF Updated, Run, RunStatus, Begun
      <3>4. GotoWithRun(h, pc, Updated(old, req)) /\ pc \in RunPcs
        BY <1>1, <2>3 DEF PutRunGet, RunPcs
      <3>5. UNCHANGED <<runs, started>>
        BY <1>1 DEF PutRunGet
      <3>6. Updated(old, req).status \in {"PASSED", "FAILED"} =>
               req.id \in started
        BY <3>1, <3>3 DEF StartInv
      <3> QED BY <1>e, <2>1, <3>2, <3>4, <3>5, <3>6
    <2> QED BY <2>2, <2>3
  <1>2. CASE PutRunJira(h)
    <2>1. hd \in Busy
      BY <1>2, BusyHandler DEF PutRunJira, At
    <2> QED BY <1>2, <1>b, <1>d, <1>f, <2>1 DEF PutRunJira, Pc, RunPcs
  <1>3. CASE PutRunCreate(h)
    <2>1. hd \in Busy /\ req \in PutRunRequest
      BY <1>0, <1>3, BusyHandler DEF PutRunCreate, At, CopyOK
    <2> DEFINE NewRun(x) == [status |-> "TODO", data |-> {req.msg},
                             key |-> req.key, exec |-> x]
    <2>2. \A x \in Execs \cup {NoExec}: NewRun(x) \in Run
      BY <2>1 DEF Run, PutRunRequest, RunStatus
    <2>3. \/ Refuse(h)
          \/ \E x \in Execs \cup {NoExec}: GotoWithRun(h, "run_set", NewRun(x))
      BY <1>3 DEF PutRunCreate
    <2>4. UNCHANGED <<runs, started>>
      BY <1>3 DEF PutRunCreate
    <2>5. \A x: NewRun(x).status = "TODO"
      OBVIOUS
    <2> HIDE DEF NewRun
    <2> QED BY <1>b, <1>e, <1>f, <2>1, <2>2, <2>3, <2>4, <2>5 DEF RunPcs
  <1>4. CASE PutRunSet(h)
    <2>1. req \in PutRunRequest /\ run \in Run /\ hd.pc \in RunPcs
      BY <1>0, <1>4 DEF PutRunSet, At, CopyOK, RunPcs
    <2>2. run.status \in Begun => req.id \in started'
      BY <1>0, <1>4, <2>1 DEF PutRunSet, CopyStarted, Begun, PutRunRequest
    <2>3. \A id \in RunIds: runs'[id].status \in Begun => id \in started'
      <3>1. \A id \in RunIds: id # req.id => runs'[id] = runs[id]
        BY <1>0, <1>4 DEF PutRunSet, TypeOK
      <3>2. runs'[req.id] = run
        BY <1>0, <1>4, <2>1 DEF PutRunSet, TypeOK, PutRunRequest
      <3>3. started \subseteq started'
        BY <1>4 DEF PutRunSet
      <3> QED BY <2>2, <3>1, <3>2, <3>3 DEF StartInv
    <2> QED BY <1>4, <1>b, <2>3 DEF PutRunSet
  <1>5. CASE DeleteRun(h)
    <2>1. \A id \in RunIds: runs'[id] \in {runs[id], NoRun}
      BY <1>0, <1>5 DEF DeleteRun, TypeOK
    <2>2. NoRun.status \notin Begun
      BY DEF NoRun, Begun
    <2> QED BY <1>5, <1>b, <2>1, <2>2 DEF DeleteRun, StartInv
  <1>6. CASE XrayUpdateStatus(h)
    <2>1. hd \in Busy
      BY <1>6, BusyHandler DEF XrayUpdateStatus, At
    <2> QED BY <1>6, <1>b, <1>c, <1>f, <2>1
            DEF XrayUpdateStatus, Pc, RunPcs, At
  <1>7. CASE XrayUpdateComment(h)
    <2>1. hd \in Busy
      BY <1>7, BusyHandler DEF XrayUpdateComment, At
    <2> QED BY <1>7, <1>b, <1>c, <1>f, <2>1
            DEF XrayUpdateComment, Pc, RunPcs, At, AfterXray
  <1>8. CASE StartGetActive(h)
    <2>1. hd \in Busy
      BY <1>8, BusyHandler DEF StartGetActive, At
    <2> QED BY <1>8, <1>b, <1>d, <1>f, <2>1
            DEF StartGetActive, Pc, RunPcs, At
  <1>9. CASE CompletePlanGet(h)
    <2>1. hd \in Busy
      BY <1>9, BusyHandler DEF CompletePlanGet, At
    <2> QED BY <1>9, <1>c, <1>d, <2>1
            DEF CompletePlanGet, Pc, RunPcs, At, AfterPlan
  <1>10. CASE PlanSet(h)
    <2>1. hd \in Busy
      BY <1>10, BusyHandler DEF PlanSet, At
    <2> QED BY <1>10, <1>c, <2>1 DEF PlanSet, Pc, RunPcs, At, AfterPlan
  <1> QED BY <1>1, <1>2, <1>3, <1>4, <1>5, <1>6, <1>7, <1>8, <1>9, <1>10
          DEF RunStep

LEMMA StartEventStep ==
  ASSUME TypeInv, StartInv, NEW h \in Handlers, EventStep(h)
  PROVE  StartInv'
  <1> DEFINE hd == handler[h]
             req == handler[h].req
             run == handler[h].run
  <1>0. TypeOK /\ CopyOK(hd) /\ CopyStarted(hd, started)
    BY DEF TypeInv, CopiesOK, StartInv
  <1>a. ASSUME NEW v, handler' = [handler EXCEPT ![h] = v], UNCHANGED started,
               CopyStarted(v, started'),
               \A id \in RunIds: runs'[id].status \in Begun => id \in started
        PROVE  StartInv'
    BY <1>a, OthersKeepCopies DEF StartInv
  <1>b. ASSUME NEW v, v.pc = "idle" \/ v.pc = "event_store"
        PROVE  CopyStarted(v, started')
    BY <1>b DEF CopyStarted, RunPcs
  <1>1. CASE EventGet(h)
    <2>1. hd \in Busy /\ req \in EventRequest
      BY <1>1, BusyHandler, RequestOps DEF EventGet, Received, At, Busy
    <2>2. UNCHANGED <<runs, started>> /\
          \A id \in RunIds: runs'[id].status \in Begun => id \in started
      BY <1>1 DEF EventGet, StartInv
    <2> DEFINE old == runs[req.id]
               new == [old EXCEPT !.data = @ \cup {req.msg}]
    <2>3. CASE old # NoRun /\ GotoWithRun(h, "event_set", new)
      <3>0. old \in Run /\ req.msg \in Messages /\ req.id \in RunIds
        BY <1>0, <2>1, <2>3 DEF TypeOK, EventRequest
      <3>1. old \in Run /\ new \in Run /\ new.status = old.status
            /\ req.id \in RunIds
        BY <3>0 DEF Run
      <3>2. handler' = [handler EXCEPT
                          ![h] = [hd EXCEPT !.pc = "event_set", !.run = new]]
        BY <1>0, <2>1, <2>3 DEF GotoWithRun, TypeOK, Busy
      <3>3. CopyStarted([hd EXCEPT !.pc = "event_set", !.run = new], started')
        BY <2>1, <2>2, <3>1 DEF CopyStarted, Busy, StartInv, RunPcs
      <3> QED BY <1>a, <2>2, <3>2, <3>3
    <2>4. CASE Refuse(h)
      <3>1. CopyStarted([pc |-> "idle", ok |-> FALSE], started')
        BY <1>b
      <3> QED BY <1>a, <2>2, <2>4, <3>1 DEF Refuse
    <2>5. CASE Goto(h, "event_store")
      <3>1. handler' = [handler EXCEPT ![h] = [hd EXCEPT !.pc = "event_store"]]
        BY <2>5 DEF Goto
      <3>2. [hd EXCEPT !.pc = "event_store"].pc = "event_store"
        BY <2>1 DEF Busy
      <3>3. CopyStarted([hd EXCEPT !.pc = "event_store"], started')
        BY <1>b, <3>2
      <3> QED BY <1>a, <2>2, <3>1, <3>3
    <2> QED BY <1>1, <2>3, <2>4, <2>5 DEF EventGet
  <1>2. CASE EventSet(h)
    <2>1. hd \in Busy /\ run \in Run /\ req \in EventRequest
          /\ req.id \in RunIds
      BY <1>0, <1>2, BusyHandler DEF EventSet, At, CopyOK, EventRequest
    <2>2. run.status \in Begun => req.id \in started
      BY <1>0, <1>2 DEF EventSet, At, CopyStarted
    <2>3. UNCHANGED started /\
          \A id \in RunIds: runs'[id].status \in Begun => id \in started
      <3>1. runs' = [runs EXCEPT ![req.id] = run]
        BY <1>2 DEF EventSet
      <3> QED BY <1>0, <1>2, <2>2, <3>1 DEF EventSet, StartInv, TypeOK
    <2> DEFINE failed == [run EXCEPT !.status = "FAILED"]
    <2>4. CASE GotoWithRun(h, "xray_status", failed)
      <3>1. handler' = [handler EXCEPT
                          ![h] = [hd EXCEPT !.pc = "xray_status", !.run = failed]]
        BY <1>0, <2>1, <2>4 DEF GotoWithRun, TypeOK, Busy
      <3>2. CopyStarted([hd EXCEPT !.pc = "xray_status", !.run = failed],
                        started')
        BY <2>1 DEF CopyStarted, Busy, EventRequest
      <3> QED BY <1>a, <2>3, <3>1, <3>2
    <2>5. CASE Goto(h, "event_store")
      <3>1. handler' = [handler EXCEPT ![h] = [hd EXCEPT !.pc = "event_store"]]
        BY <2>5 DEF Goto
      <3>2. [hd EXCEPT !.pc = "event_store"].pc = "event_store"
        BY <2>1 DEF Busy
      <3>3. CopyStarted([hd EXCEPT !.pc = "event_store"], started')
        BY <1>b, <3>2
      <3> QED BY <1>a, <2>3, <3>1, <3>3
    <2> QED BY <1>2, <2>4, <2>5 DEF EventSet
  <1>3. CASE EventStore(h)
    <2>1. CopyStarted([pc |-> "idle", ok |-> TRUE], started')
      BY <1>b
    <2>2. UNCHANGED started /\
          \A id \in RunIds: runs'[id].status \in Begun => id \in started
      BY <1>3 DEF EventStore, StartInv
    <2> QED BY <1>3, <1>a, <2>1, <2>2 DEF EventStore, Reply
  <1> QED BY <1>1, <1>2, <1>3 DEF EventStep

\* Handlers of plan requests hold no copy of a run.
LEMMA PlanStepPcs ==
  ASSUME TypeInv, NEW h \in Handlers, PlanStep(h) \/ Receive(h)
  PROVE  /\ UNCHANGED <<runs, started>>
         /\ \A g \in Handlers: g # h => handler'[g] = handler[g]
         /\ handler'[h].pc \in {"idle", "received", "deactivate",
                                "own_plan_set", "delete_all"}
  <1>0. TypeOK /\ (At(h, "idle") \/ handler[h] \in Busy)
    BY BusyHandler DEF TypeInv
  <1>7. UNCHANGED <<runs, started>>
    BY DEF PlanStep, Receive, PutPlanGet, PutPlanGetAll, PutPlanDeactivate,
           PutPlanSet, DeletePlan, DeletePlansGetAll, DeletePlansNext,
           DeletePlansDone
  <1> SUFFICES /\ \A g \in Handlers: g # h => handler'[g] = handler[g]
               /\ handler'[h].pc \in {"idle", "received", "deactivate",
                                      "own_plan_set", "delete_all"}
    BY <1>7
  <1>1. CASE Receive(h)
    BY <1>0, <1>1 DEF Receive, TypeOK
  <1>5. CASE PutPlanGet(h)
    <2>1. handler[h] \in Busy
      BY <1>0, <1>5 DEF PutPlanGet, Received, At
    <2>2. \/ Refuse(h)
          \/ \E plan, pc: /\ GotoWithPlan(h, pc, plan)
                          /\ pc \in {"deactivate", "own_plan_set"}
      BY <1>5 DEF PutPlanGet
    <2>3. CASE Refuse(h)
      BY <1>0, <2>3 DEF Refuse, TypeOK
    <2>4. ASSUME NEW plan, NEW pc \in {"deactivate", "own_plan_set"},
                 GotoWithPlan(h, pc, plan)
          PROVE  /\ \A g \in Handlers: g # h => handler'[g] = handler[g]
                 /\ handler'[h].pc = pc
      <3>1. handler'[h] = [handler[h] EXCEPT !.pc = pc, !.plan = plan]
        BY <1>0, <2>1, <2>4 DEF GotoWithPlan, TypeOK, Busy
      <3> QED BY <1>0, <2>1, <2>4, <3>1 DEF GotoWithPlan, TypeOK, Busy
    <2> QED BY <2>2, <2>3, <2>4
  <1>2. CASE PutPlanGetAll(h)
    BY <1>0, <1>2 DEF PutPlanGetAll, At, Busy, TypeOK
  <1>6. CASE DeletePlansGetAll(h)
    BY <1>0, <1>6 DEF DeletePlansGetAll, Received, At, Busy, TypeOK
  <1>3. CASE PutPlanDeactivate(h) \/ DeletePlansNext(h)
    <2>1. /\ handler[h] \in Busy
          /\ handler[h].pc \in {"own_plan_set", "delete_all"}
      BY <1>0, <1>3 DEF PutPlanDeactivate, DeletePlansNext, At
    <2>2. PICK plan: handler' = [handler EXCEPT ![h].todo = @ \ {plan}]
      BY <1>3 DEF PutPlanDeactivate, DeletePlansNext
    <2> QED BY <1>0, <2>1, <2>2 DEF Busy, TypeOK
  <1>4. CASE PutPlanSet(h) \/ DeletePlan(h) \/ DeletePlansDone(h)
    BY <1>0, <1>4 DEF PutPlanSet, DeletePlan, DeletePlansDone, Reply, Refuse,
                      TypeOK
  <1> QED BY <1>1, <1>2, <1>3, <1>4, <1>5, <1>6 DEF PlanStep

LEMMA StartPlanStep ==
  ASSUME TypeInv, StartInv, NEW h \in Handlers, PlanStep(h) \/ Receive(h)
  PROVE  StartInv'
  <1>1. CopyStarted(handler'[h], started')
    BY PlanStepPcs DEF CopyStarted, RunPcs
  <1> QED BY <1>1, PlanStepPcs DEF StartInv, CopyStarted

\* A verdict in the run cache is always preceded by a start of that run,
\* for any number of clients whose requests overlap in any way.
THEOREM VerdictsFollowStarts == Spec => []NoVerdictWithoutStart
  <1>1. Init => TypeInv /\ StartInv
    <2>1. Init => StartInv
      BY DEF Init, StartInv, CopyStarted, NoRun, Begun, RunPcs
    <2> QED BY <2>1, TypeInit
  <1>2. TypeInv /\ StartInv /\ [Next]_vars => (TypeInv /\ StartInv)'
    <2>1. ASSUME StartInv, UNCHANGED vars PROVE StartInv'
      BY <2>1 DEF vars, StartInv, CopyStarted
    <2> QED BY <2>1, TypeStep, StartRunStep, StartEventStep, StartPlanStep
            DEF Next, HandlerStep
  <1>3. TypeInv /\ StartInv => NoVerdictWithoutStart
    BY DEF StartInv, NoVerdictWithoutStart, Begun
  <1> QED BY <1>1, <1>2, <1>3, PTL DEF Spec

-----------------------------------------------------------------------------
(* Requests that do not overlap.  Nothing changes a cache while the one    *)
(* handler holds a copy, so the copy can be compared with what it will     *)
(* replace: the life of runs (a refinement of RunLifecycle), verdicts in   *)
(* XRay, and the activity of plans.                                        *)

OneAtATime == \A g, h \in Handlers: g = h

\* What a busy handler keeps when it goes on.
LEMMA Keeps ==
  ASSUME TypeInv, NEW h \in Handlers, ~At(h, "idle"), NEW pc, Goto(h, pc)
  PROVE  /\ handler'[h].pc = pc /\ handler'[h].req = handler[h].req
         /\ handler'[h].run = handler[h].run /\ handler'[h].plan = handler[h].plan
         /\ handler'[h].todo = handler[h].todo
  <1>1. handler[h] \in Busy /\ h \in DOMAIN handler
    BY BusyHandler DEF TypeInv, TypeOK
  <1>2. handler'[h] = [handler[h] EXCEPT !.pc = pc]
    BY <1>1 DEF Goto
  <1> QED BY <1>1, <1>2 DEF Busy

LEMMA KeepsWithRun ==
  ASSUME TypeInv, NEW h \in Handlers, ~At(h, "idle"), NEW pc, NEW run, GotoWithRun(h, pc, run)
  PROVE  handler'[h].pc = pc /\ handler'[h].req = handler[h].req /\ handler'[h].run = run
  <1>1. handler[h] \in Busy /\ h \in DOMAIN handler
    BY BusyHandler DEF TypeInv, TypeOK
  <1>2. handler'[h] = [handler[h] EXCEPT !.pc = pc, !.run = run]
    BY <1>1 DEF GotoWithRun, Busy
  <1> QED BY <1>1, <1>2 DEF Busy

LEMMA KeepsWithPlan ==
  ASSUME TypeInv, NEW h \in Handlers, ~At(h, "idle"), NEW pc, NEW plan, GotoWithPlan(h, pc, plan)
  PROVE  /\ handler'[h].pc = pc /\ handler'[h].req = handler[h].req
         /\ handler'[h].run = handler[h].run /\ handler'[h].plan = plan
         /\ handler'[h].todo = handler[h].todo
  <1>1. handler[h] \in Busy /\ h \in DOMAIN handler
    BY BusyHandler DEF TypeInv, TypeOK
  <1>2. handler'[h] = [handler[h] EXCEPT !.pc = pc, !.plan = plan]
    BY <1>1 DEF GotoWithPlan, Busy
  <1> QED BY <1>1, <1>2 DEF Busy

LEMMA Finishes ==
  ASSUME TypeInv, NEW h \in Handlers, Reply(h) \/ Refuse(h)
  PROVE  handler'[h].pc = "idle"
  BY DEF TypeInv, TypeOK, Reply, Refuse

Verdicts == {"PASSED", "FAILED"}
PushPcs == {"xray_status", "xray_comment", "plan_active", "plan_complete", "plan_set"}

\* How a handler's copy of a run differs from the run in the cache.
LifeCopy(v, rs) ==
    /\ v.pc \in {"jira", "create"} => rs[v.req.id] = NoRun
    /\ v.pc = "run_set" =>
          IF rs[v.req.id] = NoRun THEN v.run.status = "TODO"
                                  ELSE v.run = Updated(rs[v.req.id], v.req)
    /\ v.pc \in PushPcs /\ v.req.op = "put_run" =>
          rs[v.req.id] # NoRun /\ v.run = Updated(rs[v.req.id], v.req)
    /\ v.pc = "event_set" =>
          /\ rs[v.req.id] # NoRun /\ v.run.status = rs[v.req.id].status
          /\ v.run.exec = rs[v.req.id].exec

LifeInv == \A h \in Handlers: LifeCopy(handler[h], runs)

LEMMA LifeRunStep ==
  ASSUME OneAtATime, TypeInv, LifeInv, NEW h \in Handlers, RunStep(h)
  PROVE  LifeInv'
  <1> DEFINE hd == handler[h]
             req == handler[h].req
             run == handler[h].run
  <1>0. TypeOK /\ CopyOK(hd) /\ LifeCopy(hd, runs)
    BY DEF TypeInv, CopiesOK, LifeInv
  <1> SUFFICES LifeCopy(handler'[h], runs')
    BY DEF LifeInv, OneAtATime
  <1>a. Reply(h) \/ Refuse(h) => LifeCopy(handler'[h], runs')
    BY Finishes DEF LifeCopy, PushPcs
  <1>1. CASE PutRunGet(h)
    <2>1. ~At(h, "idle") /\ hd \in Busy /\ req \in PutRunRequest /\ UNCHANGED runs
      BY <1>1, BusyHandler, RequestOps DEF PutRunGet, Received, At, Busy
    <2>2. CASE runs[req.id] = NoRun
      <3>1. Goto(h, "jira")
        BY <1>1, <2>2 DEF PutRunGet
      <3>2. handler'[h].pc = "jira" /\ handler'[h].req = req
        BY <2>1, <3>1, Keeps
      <3> QED BY <2>1, <2>2, <3>2 DEF LifeCopy, PushPcs
    <2>3. CASE runs[req.id] # NoRun
      <3>1. PICK pc \in {"xray_status", "run_set"}: GotoWithRun(h, pc, Updated(runs[req.id], req))
        BY <1>1, <2>3 DEF PutRunGet
      <3>2. /\ handler'[h].pc = pc /\ handler'[h].req = req
            /\ handler'[h].run = Updated(runs[req.id], req)
        BY <2>1, <3>1, KeepsWithRun
      <3> QED BY <2>1, <2>3, <3>1, <3>2 DEF LifeCopy, PushPcs
    <2> QED BY <2>2, <2>3
  <1>2. CASE PutRunJira(h)
    <2>1. ~At(h, "idle") /\ UNCHANGED runs
      BY <1>2 DEF PutRunJira, At
    <2>2. ASSUME NEW plan, GotoWithPlan(h, "create", plan)
          PROVE  LifeCopy(handler'[h], runs')
      <3>1. handler'[h].pc = "create" /\ handler'[h].req = req
        BY <2>1, <2>2, KeepsWithPlan
      <3> QED BY <1>0, <1>2, <2>1, <3>1 DEF LifeCopy, PutRunJira, At, PushPcs
    <2> QED BY <1>2, <1>a, <2>2 DEF PutRunJira
  <1>3. CASE PutRunCreate(h)
    <2>1. ~At(h, "idle") /\ UNCHANGED runs
      BY <1>3 DEF PutRunCreate, At
    <2> DEFINE NewRun(x) == [status |-> "TODO", data |-> {req.msg},
                             key |-> req.key, exec |-> x]
    <2>2. ASSUME NEW x, GotoWithRun(h, "run_set", NewRun(x))
          PROVE  LifeCopy(handler'[h], runs')
      <3>2. NewRun(x).status = "TODO"
        OBVIOUS
      <3> HIDE DEF NewRun
      <3>1. handler'[h].pc = "run_set" /\ handler'[h].req = req /\ handler'[h].run = NewRun(x)
        BY <2>1, <2>2, KeepsWithRun
      <3> QED BY <1>0, <1>3, <2>1, <3>1, <3>2 DEF LifeCopy, PutRunCreate, At, PushPcs
    <2> QED BY <1>3, <1>a, <2>2, Zenon DEF PutRunCreate
  <1>4. CASE PutRunSet(h) \/ DeleteRun(h)
    BY <1>4, <1>a DEF PutRunSet, DeleteRun
  <1>b. ASSUME ~At(h, "idle"), UNCHANGED runs, handler'[h].req = req, handler'[h].run = run,
               hd.pc \in PushPcs, handler'[h].pc \in PushPcs
        PROVE  LifeCopy(handler'[h], runs')
    BY <1>0, <1>b DEF LifeCopy, PushPcs
  <1>c. ASSUME UNCHANGED runs, handler'[h].req = req, handler'[h].run = run,
               hd.pc \in PushPcs, handler'[h].pc = AfterPlan(req)
        PROVE  LifeCopy(handler'[h], runs')
    <2>1. CASE req.op = "event"
      BY <1>c, <2>1 DEF LifeCopy, PushPcs, AfterPlan
    <2>2. CASE req.op # "event"
      <3>1. req \in PutRunRequest \cup EventRequest
        BY <1>0, <1>c DEF CopyOK, PushPcs
      <3>2. req.op = "put_run"
        BY <2>2, <3>1 DEF PutRunRequest, EventRequest
      <3> QED BY <1>0, <1>c, <2>2, <3>2 DEF LifeCopy, PushPcs, AfterPlan
    <2> QED BY <2>1, <2>2
  <1>5. CASE XrayUpdateStatus(h)
    <2>1. ~At(h, "idle") /\ hd.pc \in PushPcs
      BY <1>5 DEF XrayUpdateStatus, At, PushPcs
    <2> QED BY <1>5, <1>a, <1>b, <2>1, Keeps DEF XrayUpdateStatus, PushPcs
  <1>6. CASE XrayUpdateComment(h)
    <2>1. ~At(h, "idle") /\ hd.pc \in PushPcs /\ AfterXray(req) \in PushPcs
      BY <1>6 DEF XrayUpdateComment, At, PushPcs, AfterXray
    <2> QED BY <1>6, <1>a, <1>b, <2>1, Keeps DEF XrayUpdateComment
  <1>7. CASE StartGetActive(h)
    <2>1. ~At(h, "idle") /\ hd.pc \in PushPcs
      BY <1>7 DEF StartGetActive, At, PushPcs
    <2>2. UNCHANGED runs /\ (Refuse(h) \/ \E plan: GotoWithPlan(h, "plan_set", plan))
      BY <1>7 DEF StartGetActive
    <2> QED BY <1>a, <1>b, <2>1, <2>2, KeepsWithPlan DEF PushPcs
  <1>8. CASE CompletePlanGet(h)
    <2>1. ~At(h, "idle") /\ hd.pc \in PushPcs
      BY <1>8 DEF CompletePlanGet, At, PushPcs
    <2>2. /\ UNCHANGED runs
          /\ Goto(h, AfterPlan(req)) \/ \E plan: GotoWithPlan(h, "plan_set", plan)
      BY <1>8 DEF CompletePlanGet
    <2>3. CASE Goto(h, AfterPlan(req))
      BY <1>c, <2>1, <2>2, <2>3, Keeps
    <2>4. ASSUME NEW plan, GotoWithPlan(h, "plan_set", plan) PROVE LifeCopy(handler'[h], runs')
      BY <1>b, <2>1, <2>2, <2>4, KeepsWithPlan DEF PushPcs
    <2> QED BY <2>2, <2>3, <2>4
  <1>9. CASE PlanSet(h)
    <2>1. ~At(h, "idle") /\ hd.pc \in PushPcs
      BY <1>9 DEF PlanSet, At, PushPcs
    <2> QED BY <1>9, <1>c, <2>1, Keeps DEF PlanSet
  <1> QED BY <1>1, <1>2, <1>3, <1>4, <1>5, <1>6, <1>7, <1>8, <1>9 DEF RunStep

LEMMA LifeEventStep ==
  ASSUME OneAtATime, TypeInv, LifeInv, NEW h \in Handlers, EventStep(h)
  PROVE  LifeInv'
  <1> DEFINE req == handler[h].req
             run == handler[h].run
  <1>0. TypeOK /\ CopyOK(handler[h]) /\ ~At(h, "idle")
    BY DEF TypeInv, CopiesOK, EventStep, EventGet, EventSet, EventStore, Received, At
  <1> SUFFICES LifeCopy(handler'[h], runs')
    BY DEF LifeInv, OneAtATime
  <1>a. handler'[h].pc \in {"idle", "event_store"} => LifeCopy(handler'[h], runs')
    BY DEF LifeCopy, PushPcs
  <1>1. CASE EventGet(h)
    <2> DEFINE old == runs[req.id]
               new == [old EXCEPT !.data = @ \cup {req.msg}]
    <2>1. CASE old # NoRun /\ GotoWithRun(h, "event_set", new)
      <3>1. req \in EventRequest
        BY <1>0, <1>1, BusyHandler, RequestOps DEF EventGet, Received, Busy
      <3>2. old \in Run
        BY <1>0, <2>1, <3>1 DEF TypeOK, EventRequest
      <3>3. new.status = old.status /\ new.exec = old.exec
        BY <3>2 DEF Run
      <3> HIDE DEF new
      <3>4. handler'[h].pc = "event_set" /\ handler'[h].req = req /\ handler'[h].run = new
        BY <1>0, <2>1, KeepsWithRun
      <3> QED BY <1>1, <2>1, <3>3, <3>4 DEF LifeCopy, EventGet, PushPcs
    <2>2. CASE Refuse(h) \/ Goto(h, "event_store")
      BY <1>0, <1>a, <2>2, Keeps, Finishes
    <2> QED BY <1>1, <2>1, <2>2 DEF EventGet
  <1>2. CASE EventSet(h)
    <2>1. req \in EventRequest /\ req.op = "event"
      BY <1>0, <1>2 DEF EventSet, At, CopyOK, EventRequest
    <2>2. Goto(h, "event_store") \/ \E new: GotoWithRun(h, "xray_status", new)
      BY <1>2 DEF EventSet
    <2>3. handler'[h].pc \in {"xray_status", "event_store"} /\ handler'[h].req = req
      BY <1>0, <2>2, Keeps, KeepsWithRun
    <2> QED BY <1>a, <2>1, <2>3 DEF LifeCopy, PushPcs
  <1>3. CASE EventStore(h)
    BY <1>3, <1>a, Finishes DEF EventStore
  <1> QED BY <1>1, <1>2, <1>3 DEF EventStep

LEMMA LifeStep ==
  ASSUME OneAtATime, TypeInv, LifeInv, [Next]_vars
  PROVE  LifeInv'
  <1>1. ASSUME NEW h \in Handlers, PlanStep(h) \/ Receive(h) PROVE LifeInv'
    <2>1. LifeCopy(handler'[h], runs')
      BY <1>1, PlanStepPcs DEF LifeCopy, PushPcs
    <2> QED BY <2>1 DEF LifeInv, OneAtATime
  <1>2. CASE UNCHANGED vars
    BY <1>2 DEF vars, LifeInv, LifeCopy
  <1> QED BY <1>1, <1>2, LifeRunStep, LifeEventStep DEF Next, HandlerStep

LEMMA LifeInit == Init => LifeInv
  BY DEF Init, LifeInv, LifeCopy, PushPcs

\* The statuses in the cache, as RunLifecycle sees them.
Status == [id \in RunIds |-> runs[id].status]

LEMMA StatusMoves ==
  ASSUME TypeInv, NEW id \in RunIds, NEW run \in Run \cup {NoRun},
         runs' = [runs EXCEPT ![id] = run]
  PROVE  Status' = [Status EXCEPT ![id] = run.status]
  <1>1. runs \in [RunIds -> Run \cup {NoRun}]
    BY DEF TypeInv, TypeOK
  <1>2. \A i \in RunIds: runs'[i] = IF i = id THEN run ELSE runs[i]
    BY <1>1
  <1>3. Status' = [i \in RunIds |-> IF i = id THEN run.status ELSE runs[i].status]
    BY <1>2 DEF Status
  <1> QED BY <1>3, Zenon DEF Status

\* A move of one run as RunLifecycle allows it.
LEMMA Moves ==
  ASSUME NEW id \in RunIds, NEW to, Status' = [Status EXCEPT ![id] = to],
         \/ Status[id] = "ABSENT" /\ to = "TODO"
         \/ Status[id] = "TODO" /\ to = "EXECUTING"
         \/ Status[id] \in Begun /\ to \in Verdicts
         \/ id \in JiraIds /\ Status[id] \in RunStatus /\ to = "ABSENT"
  PROVE  Lifecycle!Next
  BY Zenon DEF Lifecycle!Next, Lifecycle!Create, Lifecycle!Start, Lifecycle!Finish, Lifecycle!Delete,
         Lifecycle!Move, Begun, Verdicts, RunStatus, Status

LEMMA NoMove ==
  ASSUME NEW id \in RunIds, Status' = [Status EXCEPT ![id] = Status[id]]
  PROVE  Status' = Status
  BY Zenon DEF Status

LEMMA LifecycleStep ==
  ASSUME OneAtATime, TypeInv, LifeInv, [Next]_vars
  PROVE  [Lifecycle!Next]_Status
  <1>0. TypeOK
    BY DEF TypeInv
  <1>1. ASSUME UNCHANGED runs PROVE UNCHANGED Status
    BY <1>1 DEF Status
  <1>2. ASSUME NEW h \in Handlers, PutRunSet(h) PROVE [Lifecycle!Next]_Status
    <2> DEFINE req == handler[h].req
               run == handler[h].run
               old == runs[req.id]
    <2>1. /\ req \in PutRunRequest /\ run \in Run /\ LifeCopy(handler[h], runs)
          /\ handler[h].pc = "run_set" /\ runs' = [runs EXCEPT ![req.id] = run]
      BY <1>2 DEF PutRunSet, At, CopyOK, TypeInv, CopiesOK, LifeInv
    <2>2. req.id \in RunIds /\ old \in Run \cup {NoRun}
      BY <1>0, <2>1 DEF PutRunRequest, TypeOK
    <2>3. Status' = [Status EXCEPT ![req.id] = run.status] /\ Status[req.id] = old.status
      BY <2>1, <2>2, StatusMoves, Zenon DEF Status
    <2>4. CASE old = NoRun
      <3>1. run.status = "TODO" /\ Status[req.id] = "ABSENT"
        BY <2>1, <2>3, <2>4 DEF LifeCopy, NoRun
      <3> QED BY <2>2, <2>3, <3>1, Moves, Zenon
    <2>5. CASE old # NoRun
      <3>1. old \in Run /\ run = Updated(old, req)
        BY <2>1, <2>2, <2>5 DEF LifeCopy
      <3>2. \/ run.status = old.status
            \/ old.status = "TODO" /\ run.status = "EXECUTING"
            \/ old.status \in Begun /\ run.status \in Verdicts
        BY <3>1 DEF Updated, Run, RunStatus, Begun, Verdicts
      <3> QED BY <2>2, <2>3, <3>2, Moves, NoMove, Zenon
    <2> QED BY <2>4, <2>5
  <1>3. ASSUME NEW h \in Handlers, DeleteRun(h) PROVE [Lifecycle!Next]_Status
    <2> DEFINE req == handler[h].req
    <2>1. req.id \in JiraIds /\ req.id \in RunIds
      <3>1. ~At(h, "idle")
        BY <1>3 DEF DeleteRun, Received, At
      <3>2. req \in DeleteRunRequest
        BY <1>3, <3>1, BusyHandler, RequestOps DEF DeleteRun, Received, Busy
      <3> QED BY <3>2, DirectorAssumption DEF DeleteRunRequest
    <2>2. runs[req.id] \in Run \cup {NoRun} /\ Status[req.id] = runs[req.id].status
      BY <1>0, <2>1 DEF TypeOK, Status
    <2>3. Status' = [Status EXCEPT ![req.id] = "ABSENT"]
      <3>1. Status' = [Status EXCEPT ![req.id] = NoRun.status]
        BY <1>3, <2>1, StatusMoves, Zenon DEF DeleteRun
      <3> QED BY <3>1 DEF NoRun
    <2>4. CASE runs[req.id] = NoRun
      <3>1. Status[req.id] = "ABSENT"
        BY <2>2, <2>4 DEF NoRun
      <3> QED BY <2>1, <2>3, <3>1, NoMove, Zenon
    <2>5. CASE runs[req.id] \in Run
      <3>1. Status[req.id] \in RunStatus
        BY <2>2, <2>5 DEF Run
      <3> QED BY <2>1, <2>3, <3>1, Moves, Zenon
    <2> QED BY <2>2, <2>4, <2>5
  <1>4. ASSUME NEW h \in Handlers, EventSet(h) PROVE UNCHANGED Status
    <2> DEFINE req == handler[h].req
               run == handler[h].run
    <2>1. /\ req \in EventRequest /\ run \in Run /\ run.status = runs[req.id].status
          /\ runs' = [runs EXCEPT ![req.id] = run]
      BY <1>4 DEF EventSet, At, CopyOK, TypeInv, CopiesOK, LifeInv, LifeCopy
    <2>2. req.id \in RunIds
      BY <2>1 DEF EventRequest
    <2>3. Status' = [Status EXCEPT ![req.id] = run.status] /\ Status[req.id] = run.status
      BY <2>1, <2>2, StatusMoves DEF Status
    <2> QED BY <2>2, <2>3, NoMove, Zenon
  <1>5. ASSUME NEW h \in Handlers, PlanStep(h) \/ Receive(h) PROVE UNCHANGED runs
    BY <1>5, PlanStepPcs
  <1>6. ASSUME NEW h \in Handlers, RunStep(h), ~PutRunSet(h), ~DeleteRun(h) PROVE UNCHANGED runs
    BY <1>6, Zenon DEF RunStep, PutRunGet, PutRunJira, PutRunCreate, XrayUpdateStatus, XrayUpdateComment,
                StartGetActive, CompletePlanGet, PlanSet
  <1>7. ASSUME NEW h \in Handlers, EventStep(h), ~EventSet(h) PROVE UNCHANGED runs
    BY <1>7 DEF EventStep, EventGet, EventStore
  <1>8. CASE UNCHANGED vars
    BY <1>1, <1>8 DEF vars
  <1> QED BY <1>1, <1>2, <1>3, <1>4, <1>5, <1>6, <1>7, <1>8 DEF Next, HandlerStep

\* Requests that do not overlap take every run through the life RunLifecycle
\* describes: created once, started once, judged only after that.
THEOREM SerialRunsFollowLifecycle ==
  ASSUME OneAtATime
  PROVE  Spec => RunsFollowLifecycle
  <1>1. Init => Lifecycle!Init
    BY DEF Init, Lifecycle!Init, NoRun
  <1>2. Init => TypeInv /\ LifeInv
    BY TypeInit, LifeInit
  <1>3. TypeInv /\ LifeInv /\ [Next]_vars => (TypeInv /\ LifeInv)' /\ [Lifecycle!Next]_Status
    BY TypeStep, LifeStep, LifecycleStep
  <1> QED BY <1>1, <1>2, <1>3, PTL DEF Spec, RunsFollowLifecycle, Lifecycle!Spec, Status

\* Requests that do not overlap: an event of the log monitor is stored "within
\* the current test run, but does not affect the state of the test run"
\* (EventCache.Set), as the copy it stores still has the status of the cache.
THEOREM SerialLogEventsKeepStatus ==
  ASSUME OneAtATime
  PROVE  Spec => LogEventsKeepStatus
  <1>1. Init => TypeInv /\ LifeInv
    BY TypeInit, LifeInit
  <1>2. TypeInv /\ LifeInv /\ [Next]_vars => (TypeInv /\ LifeInv)'
    BY TypeStep, LifeStep
  <1>3. ASSUME TypeInv, LifeInv, NEW h \in Handlers, LogEventStores(h)
        PROVE  runs'[handler[h].req.id].status = runs[handler[h].req.id].status
    <2>1. /\ handler[h].req \in EventRequest /\ handler[h].run.status = runs[handler[h].req.id].status
          /\ runs' = [runs EXCEPT ![handler[h].req.id] = handler[h].run]
      BY <1>3 DEF LogEventStores, EventSet, At, CopyOK, TypeInv, CopiesOK, LifeInv, LifeCopy
    <2>2. handler[h].req.id \in DOMAIN runs
      BY <1>3, <2>1 DEF EventRequest, TypeInv, TypeOK
    <2> QED BY <2>1, <2>2
  <1>4. TypeInv /\ LifeInv =>
          [\A h \in Handlers: LogEventStores(h) =>
             runs'[handler[h].req.id].status = runs[handler[h].req.id].status]_vars
    BY <1>3
  <1> QED BY <1>1, <1>2, <1>4, PTL DEF Spec, LogEventsKeepStatus

-----------------------------------------------------------------------------
(* Verdicts reach XRay.  As long as XRay answers or the handler learns that *)
(* it did not, every run in the cache has an execution of its own, and its *)
(* verdict is there before it is in the cache.                             *)

XrayCache(rs, xs) ==
    /\ \A id \in RunIds: rs[id] # NoRun =>
          rs[id].exec \in Execs /\ xs[rs[id].exec].status # "NOT_CREATED"
    /\ \A i, j \in RunIds:
          rs[i] # NoRun /\ rs[j] # NoRun /\ rs[i].exec = rs[j].exec => i = j
    /\ \A id \in RunIds: rs[id].status \in Verdicts => xs[rs[id].exec].status \in Verdicts

XrayCopy(v, rs, xs) ==
    /\ v.pc = "run_set" /\ rs[v.req.id] = NoRun =>
          /\ v.run.exec \in Execs /\ xs[v.run.exec].status # "NOT_CREATED"
          /\ \A i \in RunIds: rs[i] # NoRun => rs[i].exec # v.run.exec
    /\ v.pc \in PushPcs \cup {"event_set"} =>
          rs[v.req.id] # NoRun /\ v.run.exec = rs[v.req.id].exec
    /\ v.pc = "xray_status" =>
          v.run.status \in Verdicts \/ rs[v.req.id].status = "TODO"
    /\ v.pc \in (PushPcs \ {"xray_status"}) \cup {"run_set"} =>
          (v.run.status \in Verdicts => xs[v.run.exec].status \in Verdicts)

XrayInv == XrayCache(runs, xray) /\ \A h \in Handlers: XrayCopy(handler[h], runs, xray)

LEMMA UpdatedFields ==
  ASSUME NEW run \in Run, NEW req \in PutRunRequest
  PROVE  /\ Updated(run, req).exec = run.exec
         /\ Pushed(run, req) =>
              Updated(run, req).status \in Verdicts \/ run.status = "TODO"
         /\ ~Pushed(run, req) => Updated(run, req) = run
  BY DEF Updated, Pushed, Run, PutRunRequest, RunStatus, Verdicts

LEMMA XrayRunStep ==
  ASSUME OneAtATime, "refused" \notin XrayAnswers, TypeInv, LifeInv, XrayInv,
         NEW h \in Handlers, RunStep(h)
  PROVE  XrayInv'
  <1> DEFINE hd == handler[h]
             req == handler[h].req
             run == handler[h].run
  <1>0. /\ TypeOK /\ CopyOK(hd) /\ LifeCopy(hd, runs) /\ XrayCache(runs, xray)
        /\ XrayCopy(hd, runs, xray) /\ runs \in [RunIds -> Run \cup {NoRun}]
        /\ xray \in [Execs -> Execution]
    BY DEF TypeInv, TypeOK, CopiesOK, LifeInv, XrayInv
  <1>x. XrayCache(runs, xray)
    BY <1>0
  <1> SUFFICES XrayCache(runs', xray') /\ XrayCopy(handler'[h], runs', xray')
    BY DEF XrayInv, OneAtATime
  <1>a. Reply(h) \/ Refuse(h) => XrayCopy(handler'[h], runs', xray')
    BY Finishes DEF XrayCopy, PushPcs
  <1>b. UNCHANGED <<runs, xray>> => XrayCache(runs', xray')
    BY <1>0
  <1>1. CASE PutRunGet(h)
    <2>1. ~At(h, "idle") /\ hd \in Busy /\ req \in PutRunRequest /\ UNCHANGED <<runs, xray>>
      BY <1>1, BusyHandler, RequestOps DEF PutRunGet, Received, At, Busy
    <2>2. CASE runs[req.id] = NoRun
      <3>1. Goto(h, "jira")
        BY <1>1, <2>2 DEF PutRunGet
      <3>2. handler'[h].pc = "jira"
        BY <2>1, <3>1, Keeps
      <3> QED BY <1>b, <2>1, <3>2 DEF XrayCopy, PushPcs
    <2>3. CASE runs[req.id] # NoRun
      <3> DEFINE old == runs[req.id]
                 new == Updated(runs[req.id], req)
      <3>1. old \in Run /\ req.id \in RunIds
        BY <1>0, <2>1, <2>3 DEF PutRunRequest
      <3>2. /\ new.exec = old.exec
            /\ Pushed(old, req) => new.status \in Verdicts \/ old.status = "TODO"
            /\ ~Pushed(old, req) => new = old
        BY <2>1, <3>1, UpdatedFields
      <3>3. \/ GotoWithRun(h, "xray_status", new) /\ Pushed(old, req)
            \/ GotoWithRun(h, "run_set", new) /\ new = old
        BY <1>1, <2>3, <3>2 DEF PutRunGet
      <3> HIDE DEF new
      <3>4. CASE GotoWithRun(h, "xray_status", new) /\ Pushed(old, req)
        <4>1. handler'[h].pc = "xray_status" /\ handler'[h].req = req /\ handler'[h].run = new
          BY <2>1, <3>4, KeepsWithRun
        <4> QED BY <1>b, <2>1, <2>3, <3>2, <3>4, <4>1 DEF XrayCopy, PushPcs
      <3>5. CASE GotoWithRun(h, "run_set", new) /\ new = old
        <4>1. handler'[h].pc = "run_set" /\ handler'[h].req = req /\ handler'[h].run = old
          BY <2>1, <3>5, KeepsWithRun
        <4>2. old.status \in Verdicts => xray[old.exec].status \in Verdicts
          BY <1>0, <3>1 DEF XrayCache
        <4> QED BY <1>b, <2>1, <2>3, <4>1, <4>2, Zenon DEF XrayCopy, PushPcs
      <3> QED BY <3>3, <3>4, <3>5
    <2> QED BY <2>2, <2>3
  <1>2. CASE PutRunJira(h)
    <2>1. ~At(h, "idle") /\ UNCHANGED <<runs, xray>>
      BY <1>2 DEF PutRunJira, At
    <2>2. ASSUME NEW plan, GotoWithPlan(h, "create", plan)
          PROVE  XrayCopy(handler'[h], runs', xray')
      <3>1. handler'[h].pc = "create"
        BY <2>1, <2>2, KeepsWithPlan
      <3> QED BY <3>1 DEF XrayCopy, PushPcs
    <2> QED BY <1>2, <1>a, <1>b, <2>1, <2>2 DEF PutRunJira
  <1>3. CASE PutRunCreate(h)
    <2>1. ~At(h, "idle") /\ UNCHANGED runs /\ req \in PutRunRequest /\ runs[req.id] = NoRun
      BY <1>0, <1>3 DEF PutRunCreate, At, LifeCopy, CopyOK
    <2>2. CASE Refuse(h) /\ UNCHANGED xray
      BY <1>a, <1>b, <2>1, <2>2
    <2>3. ASSUME NEW x \in Execs, xray[x].status = "NOT_CREATED",
                 xray' = [xray EXCEPT ![x].status = "TODO"]
          PROVE  XrayCache(runs', xray') /\ xray'[x].status = "TODO"
                 /\ \A i \in RunIds: runs[i] # NoRun => runs[i].exec # x
      <3>1. \A y \in Execs: xray'[y].status = IF y = x THEN "TODO" ELSE xray[y].status
        BY <1>0, <2>3 DEF Execution
      <3>2. \A i \in RunIds: runs[i] # NoRun => runs[i].exec # x /\ runs[i].exec \in Execs
        BY <1>0, <2>3 DEF XrayCache
      <3>3. \A i \in RunIds: runs[i].status \in Verdicts => runs[i] # NoRun
        BY DEF NoRun, Verdicts
      <3> QED BY <1>0, <2>1, <2>3, <3>1, <3>2, <3>3 DEF XrayCache
    <2> DEFINE NewRun(x) == [status |-> "TODO", data |-> {req.msg},
                             key |-> req.key, exec |-> x]
    <2>4. \/ Refuse(h) /\ UNCHANGED xray
          \/ \E x \in Execs: /\ xray[x].status = "NOT_CREATED"
                             /\ xray' = [xray EXCEPT ![x].status = "TODO"]
                             /\ GotoWithRun(h, "run_set", NewRun(x)) \/ Refuse(h)
      BY <1>3, Zenon DEF PutRunCreate
    <2>5. \A x: NewRun(x).status = "TODO" /\ NewRun(x).exec = x
      OBVIOUS
    <2> HIDE DEF NewRun
    <2>6. ASSUME NEW x \in Execs, xray[x].status = "NOT_CREATED",
                 xray' = [xray EXCEPT ![x].status = "TODO"],
                 GotoWithRun(h, "run_set", NewRun(x))
          PROVE  XrayCopy(handler'[h], runs', xray')
      <3>1. handler'[h].pc = "run_set" /\ handler'[h].req = req /\ handler'[h].run = NewRun(x)
        BY <2>1, <2>6, KeepsWithRun
      <3>2. handler'[h].run.status = "TODO" /\ handler'[h].run.exec = x
        BY <2>5, <3>1
      <3>3. xray'[x].status = "TODO" /\ \A i \in RunIds: runs'[i] # NoRun => runs'[i].exec # x
        BY <2>1, <2>3, <2>6, Zenon
      <3> QED BY <3>1, <3>2, <3>3 DEF XrayCopy, PushPcs, Verdicts
    <2> QED BY <1>a, <2>2, <2>3, <2>4, <2>6
  <1>4. CASE PutRunSet(h)
    <2>1. /\ req \in PutRunRequest /\ run \in Run /\ req.id \in RunIds /\ At(h, "run_set")
          /\ UNCHANGED xray /\ runs' = [runs EXCEPT ![req.id] = run]
      BY <1>0, <1>4 DEF PutRunSet, At, CopyOK, PutRunRequest
    <2>2. \A i \in RunIds: runs'[i] = IF i = req.id THEN run ELSE runs[i]
      BY <1>0, <2>1
    <2>3. run.exec \in Execs /\ xray[run.exec].status # "NOT_CREATED"
          /\ \A i \in RunIds: i # req.id /\ runs[i] # NoRun => runs[i].exec # run.exec
      <3>1. CASE runs[req.id] = NoRun
        BY <1>0, <2>1, <3>1 DEF XrayCopy, At
      <3>2. CASE runs[req.id] # NoRun
        <4>1. run = Updated(runs[req.id], req) /\ runs[req.id] \in Run
          BY <1>0, <2>1, <3>2 DEF LifeCopy, At
        <4>2. run.exec = runs[req.id].exec
          BY <2>1, <4>1, UpdatedFields
        <4> QED BY <1>0, <2>1, <3>2, <4>2 DEF XrayCache
      <3> QED BY <3>1, <3>2
    <2>4. run.status \in Verdicts => xray[run.exec].status \in Verdicts
      BY <1>0, <2>1 DEF XrayCopy, At
    <2>5. XrayCache(runs', xray')
      BY <1>0, <2>1, <2>2, <2>3, <2>4 DEF XrayCache
    <2> QED BY <1>4, <1>a, <2>5 DEF PutRunSet
  <1>5. CASE DeleteRun(h)
    <2>1. UNCHANGED xray /\ \A i \in RunIds: runs'[i] = runs[i] \/ runs'[i] = NoRun
      BY <1>0, <1>5 DEF DeleteRun
    <2>2. XrayCache(runs', xray')
      BY <1>0, <2>1 DEF XrayCache, NoRun, Verdicts
    <2> QED BY <1>5, <1>a, <2>2 DEF DeleteRun
  <1>c. ASSUME UNCHANGED runs, NEW pc, hd.pc \in PushPcs, handler'[h].pc = pc,
               handler'[h].req = req, handler'[h].run = run,
               pc \in {"xray_comment", "plan_active", "plan_complete", "plan_set"} \/ pc = AfterPlan(req),
               run.status \in Verdicts => xray'[run.exec].status \in Verdicts
        PROVE  XrayCopy(handler'[h], runs', xray')
    BY <1>0, <1>c, Zenon DEF XrayCopy, PushPcs, AfterPlan
  <1>6. CASE XrayUpdateStatus(h)
    <2>1. ~At(h, "idle") /\ hd.pc = "xray_status" /\ hd.pc \in PushPcs /\ UNCHANGED runs /\ run \in Run
      BY <1>0, <1>6 DEF XrayUpdateStatus, At, PushPcs, CopyOK
    <2>2. req.id \in RunIds /\ runs[req.id] # NoRun /\ run.exec = runs[req.id].exec
      <3>1. req \in PutRunRequest \cup EventRequest
        BY <1>0, <2>1 DEF CopyOK
      <3>2. req.id \in RunIds
        BY <3>1 DEF PutRunRequest, EventRequest
      <3> QED BY <1>0, <2>1, <3>2 DEF XrayCopy
    <2>3. run.exec \in Execs
      BY <1>0, <2>2 DEF XrayCache
    <2>4. PICK a \in {"ok", "error", "lost"}:
            /\ xray' = IF a \in {"ok", "lost"} THEN [xray EXCEPT ![run.exec].status = run.status] ELSE xray
            /\ IF a = "ok" THEN Goto(h, "xray_comment") ELSE Refuse(h)
      BY <1>6, <2>3, DirectorAssumption DEF XrayUpdateStatus
    <2>5. CASE a = "error"
      BY <1>a, <1>b, <2>1, <2>4, <2>5
    <2>6. CASE a \in {"ok", "lost"}
      <3>1. \A y \in Execs: xray'[y].status = IF y = run.exec THEN run.status ELSE xray[y].status
        BY <1>0, <2>3, <2>4, <2>6 DEF Execution
      <3>2. run.status # "NOT_CREATED" /\ (run.status \in Verdicts \/ runs[req.id].status = "TODO")
        BY <1>0, <2>1 DEF Run, RunStatus, XrayCopy
      <3>3. \A i \in RunIds: runs[i].status \in Verdicts => runs[i] # NoRun
        BY DEF NoRun, Verdicts
      <3>4. \A i \in RunIds: runs[i] # NoRun => runs[i].exec \in Execs
        BY <1>0 DEF XrayCache
      <3>5. \A i \in RunIds: runs[i].status \in Verdicts => xray'[runs[i].exec].status \in Verdicts
        <4> SUFFICES ASSUME NEW i \in RunIds, runs[i].status \in Verdicts
                     PROVE  xray'[runs[i].exec].status \in Verdicts
          OBVIOUS
        <4>1. CASE i = req.id
          BY <2>2, <2>3, <3>1, <3>2, <4>1 DEF Verdicts
        <4>2. CASE i # req.id
          <5>1. runs[i] # NoRun /\ runs[i].exec # run.exec /\ xray[runs[i].exec].status \in Verdicts
            BY <1>x, <2>2, <3>3, <4>2 DEF XrayCache
          <5> QED BY <3>1, <3>4, <5>1
        <4> QED BY <4>1, <4>2
      <3>6. XrayCache(runs', xray')
        BY <1>0, <2>1, <3>1, <3>2, <3>4, <3>5 DEF XrayCache
      <3>7. run.status \in Verdicts => xray'[run.exec].status \in Verdicts
        BY <2>3, <3>1
      <3>8. CASE Goto(h, "xray_comment")
        <4>1. handler'[h].pc = "xray_comment" /\ handler'[h].req = req /\ handler'[h].run = run
          BY <2>1, <3>8, Keeps
        <4> QED BY <1>c, <2>1, <3>6, <3>7, <4>1
      <3> QED BY <1>a, <2>4, <3>6, <3>8
    <2> QED BY <2>5, <2>6
  <1>d. hd.pc \in PushPcs \ {"xray_status"} =>
           (run.status \in Verdicts => xray[run.exec].status \in Verdicts)
    BY <1>0 DEF XrayCopy
  <1>7. CASE XrayUpdateComment(h)
    <2>1. ~At(h, "idle") /\ hd.pc = "xray_comment" /\ hd.pc \in PushPcs /\ UNCHANGED runs
      BY <1>7 DEF XrayUpdateComment, At, PushPcs
    <2>2. \A y \in Execs: xray'[y].status = xray[y].status
      BY <1>0, <1>7 DEF XrayUpdateComment, Execution
    <2>3. \A i \in RunIds: runs[i].status \in Verdicts => runs[i] # NoRun
      BY DEF NoRun, Verdicts
    <2>4. XrayCache(runs', xray')
      BY <1>0, <2>1, <2>2, <2>3 DEF XrayCache
    <2>5. req.id \in RunIds
      BY <1>0, <2>1 DEF CopyOK, PutRunRequest, EventRequest
    <2>6. run.exec \in Execs
      BY <1>0, <2>1, <2>5 DEF XrayCopy, XrayCache
    <2>7. run.status \in Verdicts => xray'[run.exec].status \in Verdicts
      BY <1>d, <2>1, <2>2, <2>6
    <2>8. Refuse(h) \/ Goto(h, AfterXray(req))
      BY <1>7 DEF XrayUpdateComment
    <2>9. CASE Goto(h, AfterXray(req))
      <3>1. /\ handler'[h].pc = AfterXray(req) /\ handler'[h].req = req /\ handler'[h].run = run
            /\ AfterXray(req) \in {"plan_active", "plan_complete"}
        BY <2>1, <2>9, Keeps DEF AfterXray
      <3> QED BY <1>c, <2>1, <2>4, <2>7, <3>1
    <2> QED BY <1>a, <2>4, <2>8, <2>9
  <1>8. CASE StartGetActive(h)
    <2>1. ~At(h, "idle") /\ hd.pc \in PushPcs \ {"xray_status"} /\ UNCHANGED <<runs, xray>>
      BY <1>8 DEF StartGetActive, At, PushPcs
    <2>2. Refuse(h) \/ \E plan: GotoWithPlan(h, "plan_set", plan)
      BY <1>8 DEF StartGetActive
    <2>3. ASSUME NEW plan, GotoWithPlan(h, "plan_set", plan)
          PROVE  XrayCopy(handler'[h], runs', xray')
      <3>1. handler'[h].pc = "plan_set" /\ handler'[h].req = req /\ handler'[h].run = run
        BY <2>1, <2>3, KeepsWithPlan
      <3> QED BY <1>c, <1>d, <2>1, <3>1
    <2> QED BY <1>a, <1>b, <2>1, <2>2, <2>3
  <1>9. CASE CompletePlanGet(h)
    <2>1. ~At(h, "idle") /\ hd.pc \in PushPcs \ {"xray_status"} /\ UNCHANGED <<runs, xray>>
      BY <1>9 DEF CompletePlanGet, At, PushPcs
    <2>2. Goto(h, AfterPlan(req)) \/ \E plan: GotoWithPlan(h, "plan_set", plan)
      BY <1>9 DEF CompletePlanGet
    <2>3. ASSUME NEW plan, GotoWithPlan(h, "plan_set", plan)
          PROVE  XrayCopy(handler'[h], runs', xray')
      <3>1. handler'[h].pc = "plan_set" /\ handler'[h].req = req /\ handler'[h].run = run
        BY <2>1, <2>3, KeepsWithPlan
      <3> QED BY <1>c, <1>d, <2>1, <3>1
    <2>4. CASE Goto(h, AfterPlan(req))
      <3>1. handler'[h].pc = AfterPlan(req) /\ handler'[h].req = req /\ handler'[h].run = run
        BY <2>1, <2>4, Keeps
      <3> QED BY <1>b, <1>c, <1>d, <2>1, <3>1
    <2> QED BY <1>b, <2>1, <2>2, <2>3, <2>4
  <1>10. CASE PlanSet(h)
    <2>1. ~At(h, "idle") /\ hd.pc \in PushPcs \ {"xray_status"} /\ UNCHANGED <<runs, xray>>
      BY <1>10 DEF PlanSet, At, PushPcs
    <2>2. handler'[h].pc = AfterPlan(req) /\ handler'[h].req = req /\ handler'[h].run = run
      BY <1>10, <2>1, Keeps DEF PlanSet
    <2> QED BY <1>b, <1>c, <1>d, <2>1, <2>2
  <1> QED BY <1>1, <1>2, <1>3, <1>4, <1>5, <1>6, <1>7, <1>8, <1>9, <1>10 DEF RunStep

LEMMA XrayEventStep ==
  ASSUME OneAtATime, TypeInv, LifeInv, XrayInv, NEW h \in Handlers, EventStep(h)
  PROVE  XrayInv'
  <1> DEFINE req == handler[h].req
             run == handler[h].run
  <1>0. /\ TypeOK /\ CopyOK(handler[h]) /\ ~At(h, "idle") /\ XrayCache(runs, xray)
        /\ LifeCopy(handler[h], runs) /\ runs \in [RunIds -> Run \cup {NoRun}] /\ UNCHANGED xray
    BY DEF TypeInv, TypeOK, CopiesOK, EventStep, EventGet, EventSet, EventStore, Received, At, LifeInv,
           XrayInv
  <1>i. ~At(h, "idle")
    BY <1>0
  <1> SUFFICES XrayCache(runs', xray') /\ XrayCopy(handler'[h], runs', xray')
    BY DEF XrayInv, OneAtATime
  <1>a. handler'[h].pc \in {"idle", "event_store"} => XrayCopy(handler'[h], runs', xray')
    BY DEF XrayCopy, PushPcs
  <1>b. UNCHANGED runs => XrayCache(runs', xray')
    BY <1>0
  <1>1. CASE EventGet(h)
    <2> DEFINE old == runs[req.id]
               new == [old EXCEPT !.data = @ \cup {req.msg}]
    <2>1. CASE old # NoRun /\ GotoWithRun(h, "event_set", new)
      <3>1. req \in EventRequest
        BY <1>0, <1>1, BusyHandler, RequestOps DEF EventGet, Received, Busy
      <3>2. old \in Run
        BY <1>0, <2>1, <3>1 DEF EventRequest
      <3>3. new.exec = old.exec
        BY <3>2 DEF Run
      <3> HIDE DEF new
      <3>4. handler'[h].pc = "event_set" /\ handler'[h].req = req /\ handler'[h].run = new
        BY <1>0, <2>1, KeepsWithRun
      <3> QED BY <1>1, <1>b, <2>1, <3>3, <3>4 DEF XrayCopy, EventGet, PushPcs
    <2>2. CASE Refuse(h) \/ Goto(h, "event_store")
      BY <1>0, <1>1, <1>a, <1>b, <2>2, Keeps, Finishes DEF EventGet
    <2> QED BY <1>1, <2>1, <2>2 DEF EventGet
  <1>2. CASE EventSet(h)
    <2>1. /\ req \in EventRequest /\ run \in Run /\ req.id \in RunIds
          /\ runs' = [runs EXCEPT ![req.id] = run]
      BY <1>0, <1>2 DEF EventSet, At, CopyOK, EventRequest
    <2>2. runs[req.id] # NoRun /\ run.status = runs[req.id].status /\ run.exec = runs[req.id].exec
      BY <1>0, <1>2 DEF EventSet, At, LifeCopy
    <2>3. \A i \in RunIds: /\ runs'[i] # NoRun => runs[i] # NoRun
                           /\ runs'[i].status = runs[i].status
                           /\ runs[i] # NoRun => runs'[i].exec = runs[i].exec
      BY <1>0, <2>1, <2>2
    <2>4. XrayCache(runs', xray')
      <3>1. \A i \in RunIds: runs[i].status \in Verdicts => runs[i] # NoRun
        BY DEF NoRun, Verdicts
      <3>2. XrayCache(runs, xray) /\ UNCHANGED xray
        BY <1>0
      <3> QED BY <2>3, <3>1, <3>2 DEF XrayCache
    <2> DEFINE failed == [run EXCEPT !.status = "FAILED"]
    <2>5. CASE GotoWithRun(h, "xray_status", failed)
      <3>1. failed.exec = run.exec /\ failed.status = "FAILED"
        BY <2>1 DEF Run
      <3> HIDE DEF failed
      <3>2. handler'[h].pc = "xray_status" /\ handler'[h].req = req /\ handler'[h].run = failed
        BY <1>i, <2>5, KeepsWithRun
      <3>3. runs'[req.id] = run
        BY <1>0, <2>1
      <3>4. run # NoRun
        BY <2>1 DEF Run, NoRun, RunStatus
      <3>5. XrayCopy(handler'[h], runs', xray')
        BY <3>1, <3>2, <3>3, <3>4 DEF XrayCopy, PushPcs, Verdicts
      <3> QED BY <2>4, <3>5
    <2>6. CASE Goto(h, "event_store")
      BY <1>0, <1>a, <2>4, <2>6, Keeps
    <2> QED BY <1>2, <2>5, <2>6 DEF EventSet
  <1>3. CASE EventStore(h)
    BY <1>3, <1>a, <1>b, Finishes DEF EventStore
  <1> QED BY <1>1, <1>2, <1>3 DEF EventStep

LEMMA XrayStep ==
  ASSUME OneAtATime, "refused" \notin XrayAnswers, TypeInv, LifeInv, XrayInv, [Next]_vars
  PROVE  XrayInv'
  <1>1. ASSUME NEW h \in Handlers, PlanStep(h) \/ Receive(h) PROVE XrayInv'
    <2>1. XrayCopy(handler'[h], runs', xray')
      BY <1>1, PlanStepPcs DEF XrayCopy, PushPcs
    <2>2. UNCHANGED xray
      BY <1>1, Zenon DEF PlanStep, Receive, PutPlanGet, PutPlanGetAll, PutPlanDeactivate, PutPlanSet,
                  DeletePlan, DeletePlansGetAll, DeletePlansNext, DeletePlansDone
    <2>3. UNCHANGED runs
      BY <1>1, PlanStepPcs
    <2> QED BY <2>1, <2>2, <2>3 DEF XrayInv, OneAtATime
  <1>2. CASE UNCHANGED vars
    BY <1>2 DEF vars, XrayInv, XrayCopy
  <1> QED BY <1>1, <1>2, XrayRunStep, XrayEventStep DEF Next, HandlerStep

\* Requests that do not overlap: a verdict in the cache is in XRay, whichever
\* calls to Jira and XRay fail, before or after they took effect.  (A query
\* that XRay refuses five times is taken for done; such answers are excluded.)
THEOREM SerialVerdictsReachXray ==
  ASSUME OneAtATime, "refused" \notin XrayAnswers
  PROVE  Spec => []VerdictReachesXray
  <1>1. Init => TypeInv /\ LifeInv /\ XrayInv
    <2>1. Init => XrayCache(runs, xray)
      BY DEF Init, XrayCache, NoRun, Verdicts
    <2>2. Init => \A h \in Handlers: XrayCopy(handler[h], runs, xray)
      BY DEF Init, XrayCopy, PushPcs
    <2> QED BY <2>1, <2>2, TypeInit, LifeInit DEF XrayInv
  <1>2. TypeInv /\ LifeInv /\ XrayInv /\ [Next]_vars => (TypeInv /\ LifeInv /\ XrayInv)'
    BY TypeStep, LifeStep, XrayStep
  <1>3. XrayInv => VerdictReachesXray
    <2> SUFFICES ASSUME XrayInv, NEW id \in RunIds, runs[id].status \in {"PASSED", "FAILED"}
                 PROVE  runs[id].exec # NoExec /\ xray[runs[id].exec].status \in {"PASSED", "FAILED"}
      BY DEF VerdictReachesXray
    <2>1. runs[id] # NoRun
      BY DEF NoRun
    <2> QED BY <2>1, DirectorAssumption DEF XrayInv, XrayCache, Verdicts
  <1> QED BY <1>1, <1>2, <1>3, PTL DEF Spec

-----------------------------------------------------------------------------
(* Plans.  A copy of an active plan is stored only when no other plan is   *)
(* active any more, and DeleteAll holds copies that are still current.     *)

IsActive(ps, k) == ps[k] # NoPlan /\ ps[k].active

PlanCache(ps) ==
    /\ \A k \in PlanKeys: ps[k] # NoPlan => ps[k].key = k
    /\ \A j, k \in PlanKeys: IsActive(ps, j) /\ IsActive(ps, k) => j = k

PlanCopy(v, ps) ==
    /\ v.pc = "plan_set" =>
          ps[v.plan.key] # NoPlan /\ v.plan.active = ps[v.plan.key].active
    /\ v.pc = "own_plan_set" /\ v.plan.active =>
          \A k \in PlanKeys: IsActive(ps, k) => ps[k] \in v.todo
    /\ v.pc = "delete_all" =>
          \A plan \in v.todo: ps[plan.key] = plan /\ ~plan.active

PlanInv == PlanCache(plans) /\ \A h \in Handlers: PlanCopy(handler[h], plans)

\* A step that sets one plan: what the new plan has to be.
LEMMA SetsOne ==
  ASSUME TypeInv, PlanInv, NEW key \in PlanKeys, NEW plan \in Plan \cup {NoPlan},
         plans' = [plans EXCEPT ![key] = plan], plan # NoPlan => plan.key = key,
         plan # NoPlan /\ plan.active => \A k \in PlanKeys: IsActive(plans, k) => k = key
  PROVE  PlanCache(plans')
  <1>1. \A k \in PlanKeys: plans'[k] = IF k = key THEN plan ELSE plans[k]
    BY DEF TypeInv, TypeOK
  <1> QED BY <1>1 DEF PlanInv, PlanCache, IsActive

\* Handlers of runs and events touch one plan, and leave its activity.
LEMMA PlanRunStep ==
  ASSUME OneAtATime, TypeInv, PlanInv, NEW h \in Handlers, RunStep(h) \/ EventStep(h)
  PROVE  PlanInv'
  <1> DEFINE hd == handler[h]
             req == handler[h].req
             run == handler[h].run
  <1>0. /\ TypeOK /\ CopyOK(hd) /\ PlanCache(plans) /\ PlanCopy(hd, plans) /\ ~At(h, "idle")
        /\ plans \in [PlanKeys -> Plan \cup {NoPlan}]
    BY Zenon DEF TypeInv, TypeOK, CopiesOK, PlanInv, RunStep, EventStep, PutRunGet, PutRunJira, PutRunCreate,
           PutRunSet, DeleteRun, XrayUpdateStatus, XrayUpdateComment, StartGetActive, CompletePlanGet,
           PlanSet, EventGet, EventSet, EventStore, Received, At
  <1>i. ~At(h, "idle")
    BY <1>0
  <1> SUFFICES PlanCache(plans') /\ PlanCopy(handler'[h], plans')
    BY DEF PlanInv, OneAtATime
  <1>a. handler'[h].pc \notin {"plan_set", "own_plan_set", "delete_all"} => PlanCopy(handler'[h], plans')
    BY DEF PlanCopy
  <1>b. UNCHANGED plans => PlanCache(plans')
    BY <1>0
  <1>1. CASE PlanSet(h)
    <2> DEFINE plan == hd.plan
    <2>1. /\ plan \in Plan /\ plans[plan.key] # NoPlan /\ plan.active = plans[plan.key].active
          /\ plans' = [plans EXCEPT ![plan.key] = plan] /\ Goto(h, AfterPlan(req))
      BY <1>0, <1>1 DEF PlanSet, At, CopyOK, PlanCopy
    <2>2. plan.key \in PlanKeys
      BY <2>1 DEF Plan
    <2>3. plan.active => \A k \in PlanKeys: IsActive(plans, k) => k = plan.key
      BY <1>0, <2>1, <2>2, Zenon DEF PlanCache, IsActive
    <2> HIDE DEF plan
    <2>4. PlanCache(plans')
      BY <2>1, <2>2, <2>3, SetsOne, Zenon
    <2>5. handler'[h].pc = AfterPlan(req)
      BY <1>0, <2>1, Keeps
    <2> QED BY <1>a, <2>4, <2>5 DEF AfterPlan
  <1>2. CASE StartGetActive(h)
    <2>1. UNCHANGED plans /\ (Refuse(h) \/ \E plan \in GetActive:
             Hosts(plan, run.key) /\ GotoWithPlan(h, "plan_set", [plan EXCEPT !.status = "RUNNING"]))
      BY <1>2 DEF StartGetActive
    <2>2. ASSUME NEW plan \in GetActive, Hosts(plan, run.key),
                 GotoWithPlan(h, "plan_set", [plan EXCEPT !.status = "RUNNING"])
          PROVE  PlanCopy(handler'[h], plans')
      <3> DEFINE new == [plan EXCEPT !.status = "RUNNING"]
      <3>1. plan \in Plan /\ plan # NoPlan
        BY <2>2, HostsPlan DEF Hosts
      <3>2. plan \in ActivePlans
        BY <2>2, <3>1 DEF GetActive
      <3>3. PICK k \in PlanKeys: plans[k] # NoPlan /\ plans[k].active /\ plan = plans[k]
        BY <3>2 DEF ActivePlans
      <3>4. plan.key = k
        BY <1>0, <3>3 DEF PlanCache
      <3>5. new.key = k /\ new.active = plan.active
        BY <3>1, <3>4 DEF Plan
      <3> HIDE DEF new
      <3>6. handler'[h].pc = "plan_set" /\ handler'[h].plan = new
        BY <1>0, <2>2, KeepsWithPlan DEF new
      <3> QED BY <2>1, <3>3, <3>5, <3>6 DEF PlanCopy
    <2> QED BY <1>a, <1>b, <2>1, <2>2, Finishes, Zenon
  <1>3. CASE CompletePlanGet(h)
    <2>1. /\ UNCHANGED plans
          /\ \/ Goto(h, AfterPlan(req))
             \/ /\ run.key \in PlanKeys /\ plans[run.key] # NoPlan
                /\ GotoWithPlan(h, "plan_set", Completed(plans[run.key], run))
      BY <1>3 DEF CompletePlanGet
    <2>2. CASE Goto(h, AfterPlan(req))
      <3>1. handler'[h].pc = AfterPlan(req)
        BY <1>0, <2>2, Keeps
      <3> QED BY <1>a, <1>b, <2>1, <3>1 DEF AfterPlan
    <2>3. CASE /\ run.key \in PlanKeys /\ plans[run.key] # NoPlan
               /\ GotoWithPlan(h, "plan_set", Completed(plans[run.key], run))
      <3>1. plans[run.key] \in Plan /\ plans[run.key].key = run.key
        BY <1>0, <2>3 DEF PlanCache
      <3>2. /\ Completed(plans[run.key], run).key = run.key
            /\ Completed(plans[run.key], run).active = plans[run.key].active
        BY <3>1 DEF Completed, Plan
      <3>3. handler'[h].pc = "plan_set" /\ handler'[h].plan = Completed(plans[run.key], run)
        BY <1>i, <2>3, KeepsWithPlan
      <3> QED BY <1>b, <2>1, <2>3, <3>2, <3>3, Zenon DEF PlanCopy
    <2> QED BY <2>1, <2>2, <2>3
  <1>4. CASE PutRunJira(h)
    <2>1. UNCHANGED plans /\ (Refuse(h) \/ \E plan: GotoWithPlan(h, "create", plan))
      BY <1>4 DEF PutRunJira
    <2>2. handler'[h].pc \in {"idle", "create"}
      <3>1. CASE Refuse(h)
        BY <3>1, Finishes
      <3>2. ASSUME NEW plan, GotoWithPlan(h, "create", plan) PROVE handler'[h].pc = "create"
        BY <1>i, <3>2, KeepsWithPlan
      <3> QED BY <2>1, <3>1, <3>2
    <2> QED BY <1>a, <1>b, <2>1, <2>2
  <1>5. CASE PutRunGet(h) \/ PutRunCreate(h) \/ EventGet(h) \/ EventSet(h)
    <2>1. UNCHANGED plans /\ (\/ Refuse(h) \/ Goto(h, "jira") \/ Goto(h, "event_store")
                              \/ \E new, pc: /\ GotoWithRun(h, pc, new)
                                             /\ pc \in {"xray_status", "run_set", "event_set"})
      <3>1. CASE PutRunGet(h)
        BY <3>1 DEF PutRunGet
      <3>2. CASE PutRunCreate(h)
        BY <3>2, Zenon DEF PutRunCreate
      <3>3. CASE EventGet(h) \/ EventSet(h)
        BY <3>3 DEF EventGet, EventSet
      <3> QED BY <1>5, <3>1, <3>2, <3>3
    <2>2. handler'[h].pc \in {"idle", "jira", "event_store", "xray_status", "run_set", "event_set"}
      <3>1. CASE Refuse(h)
        BY <3>1, Finishes
      <3>2. CASE Goto(h, "jira") \/ Goto(h, "event_store")
        BY <1>i, <3>2, Keeps
      <3>3. ASSUME NEW new, NEW pc, GotoWithRun(h, pc, new), pc \in {"xray_status", "run_set", "event_set"}
            PROVE  handler'[h].pc = pc
        BY <1>i, <3>3, KeepsWithRun
      <3> QED BY <2>1, <3>1, <3>2, <3>3
    <2> QED BY <1>a, <1>b, <2>1, <2>2
  <1>6. CASE XrayUpdateStatus(h) \/ XrayUpdateComment(h)
    <2>1. UNCHANGED plans /\ (\/ Refuse(h) \/ Goto(h, "xray_comment") \/ Goto(h, AfterXray(req)))
      BY <1>6 DEF XrayUpdateStatus, XrayUpdateComment
    <2>2. AfterXray(req) \in {"plan_active", "plan_complete"}
      BY DEF AfterXray
    <2>3. handler'[h].pc \in {"idle", "xray_comment", "plan_active", "plan_complete"}
      <3>1. CASE Refuse(h)
        BY <3>1, Finishes
      <3>2. CASE Goto(h, "xray_comment")
        BY <1>i, <3>2, Keeps
      <3>3. CASE Goto(h, AfterXray(req))
        BY <1>i, <2>2, <3>3, Keeps
      <3> QED BY <2>1, <3>1, <3>2, <3>3
    <2> QED BY <1>a, <1>b, <2>1, <2>3
  <1>7. CASE PutRunSet(h) \/ DeleteRun(h) \/ EventStore(h)
    <2>1. UNCHANGED plans /\ (Reply(h) \/ Refuse(h))
      BY <1>7 DEF PutRunSet, DeleteRun, EventStore
    <2> QED BY <1>a, <1>b, <2>1, Finishes
  <1> QED BY <1>1, <1>2, <1>3, <1>4, <1>5, <1>6, <1>7 DEF RunStep, EventStep

LEMMA PlanPlanStep ==
  ASSUME OneAtATime, TypeInv, PlanInv, NEW h \in Handlers, PlanStep(h)
  PROVE  PlanInv'
  <1> DEFINE hd == handler[h]
             req == handler[h].req
             todo == handler[h].todo
  <1>0. /\ TypeOK /\ CopyOK(hd) /\ PlanCache(plans) /\ PlanCopy(hd, plans) /\ ~At(h, "idle")
        /\ plans \in [PlanKeys -> Plan \cup {NoPlan}] /\ hd \in Busy /\ h \in DOMAIN handler
    BY BusyHandler, Zenon
       DEF TypeInv, TypeOK, CopiesOK, PlanInv, PlanStep, PutPlanGet, PutPlanGetAll, PutPlanDeactivate,
           PutPlanSet, DeletePlan, DeletePlansGetAll, DeletePlansNext, DeletePlansDone, Received, At
  <1>i. ~At(h, "idle")
    BY <1>0
  <1> SUFFICES PlanCache(plans') /\ PlanCopy(handler'[h], plans')
    BY DEF PlanInv, OneAtATime
  <1>a. Reply(h) \/ Refuse(h) => PlanCopy(handler'[h], plans')
    BY Finishes DEF PlanCopy
  <1>b. UNCHANGED plans => PlanCache(plans')
    BY <1>0
  <1>1. CASE PutPlanGet(h)
    <2>1. UNCHANGED plans /\ (Refuse(h) \/ \E plan:
             GotoWithPlan(h, IF plan.active THEN "deactivate" ELSE "own_plan_set", plan))
      BY <1>1, Zenon DEF PutPlanGet
    <2>2. ASSUME NEW plan, GotoWithPlan(h, IF plan.active THEN "deactivate" ELSE "own_plan_set", plan)
          PROVE  PlanCopy(handler'[h], plans')
      <3>1. /\ handler'[h].pc = IF plan.active THEN "deactivate" ELSE "own_plan_set"
            /\ handler'[h].plan = plan
        BY <1>i, <2>2, KeepsWithPlan
      <3> QED BY <3>1 DEF PlanCopy
    <2> QED BY <1>a, <1>b, <2>1, <2>2
  <1>2. CASE PutPlanGetAll(h)
    <2>1. handler'[h].pc = "own_plan_set" /\ handler'[h].todo = Cached
      BY <1>0, <1>2, Zenon DEF PutPlanGetAll, Busy
    <2>2. \A k \in PlanKeys: IsActive(plans, k) => plans[k] \in Cached
      BY DEF IsActive, Cached
    <2> QED BY <1>2, <1>b, <2>1, <2>2, Zenon DEF PutPlanGetAll, PlanCopy
  <1>c. ASSUME NEW plan \in todo, handler' = [handler EXCEPT ![h].todo = @ \ {plan}]
        PROVE  /\ handler'[h].pc = hd.pc /\ handler'[h].plan = hd.plan
               /\ handler'[h].todo = todo \ {plan} /\ plan \in Plan /\ plan.key \in PlanKeys
    BY <1>0, <1>c DEF Busy, Plan
  <1>3. CASE PutPlanDeactivate(h)
    <2>1. PICK plan \in todo: /\ plans' = [plans EXCEPT ![plan.key] = [plan EXCEPT !.active = FALSE]]
                              /\ handler' = [handler EXCEPT ![h].todo = @ \ {plan}]
      BY <1>3, Zenon DEF PutPlanDeactivate
    <2> DEFINE new == [plan EXCEPT !.active = FALSE]
    <2>2. new \in Plan /\ new.key = plan.key /\ new.active = FALSE
      BY <1>c, <2>1, Zenon DEF Plan
    <2>3. plan.key \in PlanKeys /\ plans' = [plans EXCEPT ![plan.key] = new]
      BY <1>c, <2>1, Zenon
    <2> HIDE DEF new
    <2>4. PlanCache(plans')
      BY <2>2, <2>3, SetsOne, Zenon
    <2>5. \A k \in PlanKeys: plans'[k] = IF k = plan.key THEN new ELSE plans[k]
      BY <1>0, <2>3
    <2>6. \A k \in PlanKeys: IsActive(plans', k) => k # plan.key /\ IsActive(plans, k) /\ plans'[k] = plans[k]
      BY <2>2, <2>5 DEF IsActive
    <2>7. \A k \in PlanKeys: IsActive(plans', k) => plans'[k] # plan
      <3>1. \A k \in PlanKeys: IsActive(plans, k) => plans[k].key = k
        BY <1>0 DEF IsActive, PlanCache
      <3> QED BY <2>6, <3>1
    <2>8. hd.pc = "own_plan_set"
      BY <1>3 DEF PutPlanDeactivate, At
    <2>9. ASSUME hd.plan.active, NEW k \in PlanKeys, IsActive(plans', k)
          PROVE  plans'[k] \in todo \ {plan}
      <3>1. IsActive(plans, k) /\ plans'[k] = plans[k] /\ plans'[k] # plan
        BY <2>6, <2>7, <2>9
      <3> QED BY <1>0, <2>8, <2>9, <3>1 DEF PlanCopy
    <2>10. handler'[h].pc = "own_plan_set" /\ handler'[h].plan = hd.plan /\ handler'[h].todo = todo \ {plan}
      BY <1>c, <2>1, <2>8, Zenon
    <2>11. PlanCopy(handler'[h], plans')
      BY <2>9, <2>10 DEF PlanCopy
    <2> QED BY <2>4, <2>11
  <1>4. CASE PutPlanSet(h)
    <2> DEFINE plan == hd.plan
    <2>1. /\ plan \in Plan /\ plans' = [plans EXCEPT ![plan.key] = plan]
          /\ plan.active => \A k \in PlanKeys: ~IsActive(plans, k)
      BY <1>0, <1>4 DEF PutPlanSet, At, CopyOK, PlanCopy
    <2>2. plan.key \in PlanKeys
      BY <2>1 DEF Plan
    <2> HIDE DEF plan
    <2>3. PlanCache(plans')
      BY <2>1, <2>2, SetsOne, Zenon
    <2> QED BY <1>4, <1>a, <2>3 DEF PutPlanSet
  <1>5. CASE DeletePlan(h)
    <2>1. \A k \in PlanKeys: plans'[k] = plans[k] \/ plans'[k] = NoPlan
      BY <1>0, <1>5 DEF DeletePlan
    <2>2. PlanCache(plans')
      BY <1>0, <2>1 DEF PlanCache, IsActive
    <2> QED BY <1>5, <1>a, <2>2 DEF DeletePlan
  <1>6. CASE DeletePlansGetAll(h)
    <2>1. handler'[h].pc = "delete_all" /\ handler'[h].todo = {p \in Cached : ~p.active}
      BY <1>0, <1>6, Zenon DEF DeletePlansGetAll, Busy
    <2>2. \A p \in Cached: plans[p.key] = p
      BY <1>0 DEF Cached, PlanCache
    <2> QED BY <1>6, <1>b, <2>1, <2>2, Zenon DEF DeletePlansGetAll, PlanCopy
  <1>7. CASE DeletePlansNext(h)
    <2>1. PICK plan \in todo: /\ plans' = [plans EXCEPT ![plan.key] = NoPlan]
                              /\ handler' = [handler EXCEPT ![h].todo = @ \ {plan}]
      BY <1>7, Zenon DEF DeletePlansNext
    <2>2. \A k \in PlanKeys: plans'[k] = IF k = plan.key THEN NoPlan ELSE plans[k]
      BY <1>0, <2>1
    <2>3. PlanCache(plans')
      BY <1>0, <2>2 DEF PlanCache, IsActive
    <2>4. hd.pc = "delete_all"
      BY <1>7 DEF DeletePlansNext, At
    <2>5. ASSUME NEW p \in todo \ {plan} PROVE plans'[p.key] = p /\ ~p.active
      <3>1. plans[p.key] = p /\ plans[plan.key] = plan /\ ~p.active
        BY <1>0, <2>4, <2>5 DEF PlanCopy
      <3>2. p.key # plan.key /\ p.key \in PlanKeys
        BY <1>0, <2>5, <3>1 DEF Busy, Plan
      <3> QED BY <2>2, <3>1, <3>2
    <2>6. PlanCopy(handler'[h], plans')
      BY <1>c, <2>1, <2>4, <2>5, Zenon DEF PlanCopy
    <2> QED BY <2>3, <2>6
  <1>8. CASE DeletePlansDone(h)
    BY <1>8, <1>a, <1>b DEF DeletePlansDone
  <1> QED BY <1>1, <1>2, <1>3, <1>4, <1>5, <1>6, <1>7, <1>8 DEF PlanStep

LEMMA PlanInvStep ==
  ASSUME OneAtATime, TypeInv, PlanInv, [Next]_vars
  PROVE  PlanInv'
  <1>1. ASSUME NEW h \in Handlers, Receive(h) PROVE PlanInv'
    <2>1. handler'[h].pc = "received" /\ UNCHANGED plans
      BY <1>1 DEF Receive, TypeInv, TypeOK
    <2>2. PlanCopy(handler'[h], plans')
      BY <2>1 DEF PlanCopy
    <2> QED BY <2>1, <2>2 DEF PlanInv, OneAtATime
  <1>2. CASE UNCHANGED vars
    BY <1>2 DEF vars, PlanInv, PlanCopy
  <1> QED BY <1>1, <1>2, PlanRunStep, PlanPlanStep DEF Next, HandlerStep

\* Requests that do not overlap: there is never more than one active plan,
\* though PutTestPlanByID deactivates the others from copies one at a time,
\* and DeleteAll does not delete a plan that is active.
THEOREM SerialPlansKeepOneActive ==
  ASSUME OneAtATime
  PROVE  Spec => PlansKeepOneActive
  <1>1. Init => TypeInv /\ PlanInv
    <2> SUFFICES ASSUME Init PROVE PlanInv
      BY TypeInit
    <2>1. PlanCache(plans)
      BY DEF Init, InitTestPlanCache, PlanCache, IsActive, NewPlan
    <2> QED BY <2>1 DEF Init, PlanInv, PlanCopy
  <1>2. TypeInv /\ PlanInv /\ [Next]_vars => (TypeInv /\ PlanInv)'
    BY TypeStep, PlanInvStep
  <1>3. PlanInv => OneActivePlan
    BY DEF PlanInv, PlanCache, IsActive, OneActivePlan, ActivePlans
  <1>4. TypeInv /\ PlanInv => DeleteAllKeepsActive
    <2> SUFFICES ASSUME TypeInv, PlanInv, NEW h \in Handlers, DeletePlansNext(h), NEW k \in PlanKeys,
                        plans[k] # NoPlan, plans[k].active
                 PROVE  plans'[k] = plans[k]
      BY DEF DeleteAllKeepsActive
    <2>1. PICK plan \in handler[h].todo: plans' = [plans EXCEPT ![plan.key] = NoPlan]
      BY Zenon DEF DeletePlansNext
    <2>2. plans[plan.key] = plan /\ ~plan.active
      BY DEF PlanInv, PlanCopy, DeletePlansNext, At
    <2>3. k # plan.key
      BY <2>2
    <2> QED BY <2>1, <2>3 DEF TypeInv, TypeOK
  <1>5. (TypeInv /\ PlanInv)' => OneActivePlan'
    BY <1>3, PTL
  <1> QED BY <1>1, <1>2, <1>4, <1>5, PTL DEF Spec, PlansKeepOneActive
=========================================================================
