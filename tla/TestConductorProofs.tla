------------------------ MODULE TestConductorProofs ------------------------
(***************************************************************************)
(* What a verdict PASSED says, for every test, network and number of the   *)
(* director's handlers: the test has cleaned up, and the verdict is final. *)
(***************************************************************************)
EXTENDS TestConductor, TestDirectorProofs

-----------------------------------------------------------------------------
(* The programs of the tests                                               *)

UnwatchAll == Noted("unwatch", "all")

\* What a test makes it deletes later, and what it has watched it withdraws
\* later; the verdict is not among its own reports.
Tidy(body) ==
    \A i \in DOMAIN body:
       /\ body[i].do = "put" => body[i].arg \in {"TODO", "EXECUTING"}
       /\ body[i].do = "create" =>
             \E j \in DOMAIN body: j > i /\ body[j] = Noted("delete", body[i].arg)
       /\ body[i].do = "watch" =>
             \E j \in DOMAIN body: j > i /\ body[j] = UnwatchAll
       /\ body[i].fail = "leave" => \E j \in DOMAIN body: body[j] = UnwatchAll

\* The report comes after the test's own steps.
Reports(body) ==
    LET all == body \o SendTestRunFinished IN
    /\ Len(body) \in Nat /\ DOMAIN body = 1 .. Len(body)
    /\ Len(all) = Len(body) + 2 /\ DOMAIN all = 1 .. Len(body) + 2
    /\ \A i \in 1 .. Len(body): all[i] = body[i]
    /\ all[Len(body) + 1] = Noted("put", "verdict")
    /\ all[Len(body) + 2] = Noted("event", "verdict")

LEMMA SteadyStateTidy == Reports(SteadyStateTest) /\ Tidy(SteadyStateTest)
  <1> DEFINE body == SteadyStateTest
             made == {"fio", "pvc", "sc"}
             place == [x \in made |-> IF x = "fio" THEN 14 ELSE IF x = "pvc" THEN 15 ELSE 16]
  <1>1. /\ DOMAIN body = 1 .. 16
        /\ body[13] = UnwatchAll
        /\ \A x \in made: body[place[x]] = Noted("delete", x)
    BY DEF SteadyStateTest, UnwatchAll, SendTestRunToDo, SendTestRunStarted, GetDuration,
           AddCommonWorkloads, DeleteWorkloads
  <1>2. \A i \in 1 .. 16:
           /\ body[i].do = "put" => body[i].arg \in {"TODO", "EXECUTING"}
           /\ body[i].do = "create" =>
                 body[i].arg \in made /\ i < place[body[i].arg]
           /\ body[i].do = "watch" => i < 13
    BY DEF SteadyStateTest, SendTestRunToDo, SendTestRunStarted, GetDuration,
           AddCommonWorkloads, DeleteWorkloads,
           Must, Inner, Noted
  <1>3. Reports(body)
    BY DEF Reports, SendTestRunFinished, SteadyStateTest,
           SendTestRunToDo, SendTestRunStarted, GetDuration,
           AddCommonWorkloads, DeleteWorkloads
  <1>4. place \in [made -> 1 .. 16]
    OBVIOUS
  <1> HIDE DEF body, place, made
  <1>5. Tidy(body)
    BY <1>1, <1>2, <1>4 DEF Tidy
  <1> QED
    BY <1>3, <1>5 DEF body

LEMMA NonSteadyStateTidy == Reports(NonSteadyStateTest) /\ Tidy(NonSteadyStateTest)
  <1> DEFINE body == NonSteadyStateTest
             made == {"sc", "sc-local"}
             place == [x \in made |-> IF x = "sc" THEN 12 ELSE 13]
  <1>1. /\ DOMAIN body = 1 .. 13
        /\ body[11] = UnwatchAll
        /\ \A x \in made: body[place[x]] = Noted("delete", x)
    BY DEF NonSteadyStateTest, UnwatchAll, SendTestRunToDo, SendTestRunStarted, GetDuration,
           AddCommonWorkloads, DeleteWorkloads
  <1>2. \A i \in 1 .. 13:
           /\ body[i].do = "put" => body[i].arg \in {"TODO", "EXECUTING"}
           /\ body[i].do = "create" =>
                 body[i].arg \in made /\ i < place[body[i].arg]
           /\ body[i].do = "watch" => i < 11
    BY DEF NonSteadyStateTest, SendTestRunToDo, SendTestRunStarted, GetDuration,
           AddCommonWorkloads, DeleteWorkloads,
           Must, Inner, Noted
  <1>3. Reports(body)
    BY DEF Reports, SendTestRunFinished, NonSteadyStateTest,
           SendTestRunToDo, SendTestRunStarted, GetDuration,
           AddCommonWorkloads, DeleteWorkloads
  <1>4. place \in [made -> 1 .. 13]
    OBVIOUS
  <1> HIDE DEF body, place, made
  <1>5. Tidy(body)
    BY <1>1, <1>2, <1>4 DEF Tidy
  <1> QED
    BY <1>3, <1>5 DEF body

LEMMA PoolDeletionTidy == Reports(PrimitivePoolDeletionTest) /\ Tidy(PrimitivePoolDeletionTest)
  <1> DEFINE body == PrimitivePoolDeletionTest
  <1>1. DOMAIN body = 1 .. 5
    BY DEF PrimitivePoolDeletionTest, SendTestRunToDo, SendTestRunStarted
  <1>2. \A i \in 1 .. 5:
           /\ body[i].do = "put" => body[i].arg \in {"TODO", "EXECUTING"}
           /\ body[i].do \notin {"create", "watch"}
           /\ body[i].fail # "leave"
    BY DEF PrimitivePoolDeletionTest, SendTestRunToDo, SendTestRunStarted,
           Must, Inner, Noted
  <1>3. Reports(body)
    BY DEF Reports, SendTestRunFinished, PrimitivePoolDeletionTest,
           SendTestRunToDo, SendTestRunStarted
  <1> HIDE DEF body
  <1>4. Tidy(body)
    BY <1>1, <1>2 DEF Tidy
  <1> QED
    BY <1>3, <1>4 DEF body

LEMMA PerturbationTidy == Reports(ReplicaPerturbationTest) /\ Tidy(ReplicaPerturbationTest)
  <1> DEFINE body == ReplicaPerturbationTest
             made == {"fio", "pvc", "sc"}
             place == [x \in made |-> IF x = "fio" THEN 14 ELSE IF x = "pvc" THEN 15 ELSE 17]
  <1>1. /\ DOMAIN body = 1 .. 17
        /\ body[16] = UnwatchAll
        /\ \A x \in made: body[place[x]] = Noted("delete", x)
    BY DEF ReplicaPerturbationTest, UnwatchAll, SendTestRunToDo, SendTestRunStarted, GetDuration,
           AddCommonWorkloads, DeleteWorkloads
  <1>2. \A i \in 1 .. 17:
           /\ body[i].do = "put" => body[i].arg \in {"TODO", "EXECUTING"}
           /\ body[i].do = "create" =>
                 body[i].arg \in made /\ i < place[body[i].arg]
           /\ body[i].do = "watch" => i < 16
    BY DEF ReplicaPerturbationTest, SendTestRunToDo, SendTestRunStarted, GetDuration,
           AddCommonWorkloads, DeleteWorkloads,
           Must, Inner, Noted
  <1>3. Reports(body)
    BY DEF Reports, SendTestRunFinished, ReplicaPerturbationTest,
           SendTestRunToDo, SendTestRunStarted, GetDuration,
           AddCommonWorkloads, DeleteWorkloads
  <1>4. place \in [made -> 1 .. 17]
    OBVIOUS
  <1> HIDE DEF body, place, made
  <1>5. Tidy(body)
    BY <1>1, <1>2, <1>4 DEF Tidy
  <1> QED
    BY <1>3, <1>5 DEF body

LEMMA EliminationTidy == Reports(ReplicaEliminationTest) /\ Tidy(ReplicaEliminationTest)
  <1> DEFINE body == ReplicaEliminationTest
             made == {"pvc", "sc"}
             place == [x \in made |-> IF x = "pvc" THEN 11 ELSE 13]
  <1>1. /\ DOMAIN body = 1 .. 13
        /\ body[12] = UnwatchAll
        /\ \A x \in made: body[place[x]] = Noted("delete", x)
    BY DEF ReplicaEliminationTest, UnwatchAll, SendTestRunToDo, SendTestRunStarted, GetDuration,
           AddCommonWorkloads, DeleteWorkloads
  <1>2. \A i \in 1 .. 13:
           /\ body[i].do = "put" => body[i].arg \in {"TODO", "EXECUTING"}
           /\ body[i].do = "create" =>
                 body[i].arg \in made /\ i < place[body[i].arg]
           /\ body[i].do = "watch" => i < 12
    BY DEF ReplicaEliminationTest, SendTestRunToDo, SendTestRunStarted, GetDuration,
           AddCommonWorkloads, DeleteWorkloads,
           Must, Inner, Noted
  <1>3. Reports(body)
    BY DEF Reports, SendTestRunFinished, ReplicaEliminationTest,
           SendTestRunToDo, SendTestRunStarted, GetDuration,
           AddCommonWorkloads, DeleteWorkloads
  <1>4. place \in [made -> 1 .. 13]
    OBVIOUS
  <1> HIDE DEF body, place, made
  <1>5. Tidy(body)
    BY <1>1, <1>2, <1>4 DEF Tidy
  <1> QED
    BY <1>3, <1>5 DEF body

LEMMA BodiesTidy == \A t: Reports(Body(t)) /\ Tidy(Body(t))
  <1>1. Reports(<<>>) /\ Tidy(<<>>)
    BY DEF Reports, Tidy, SendTestRunFinished
  <1> QED
    BY <1>1, SteadyStateTidy, NonSteadyStateTidy, PoolDeletionTidy,
       PerturbationTidy, EliminationTidy DEF Body

-----------------------------------------------------------------------------
(* Where the conductor is                                                  *)

Lives == {"new", "waiting", "running", "exited", "panicked"}

TcType ==
    tc \in [test: Tests, life: Lives, pc: Nat, err: BOOLEAN,
            calls: SUBSET Handlers, over: BOOLEAN, code: Nat]

\* The step a test is at is one of its own or one of the two reports.
LEMMA Steps ==
  ASSUME TcType, NEW do, Doing(do)
  PROVE  /\ Len(Body(tc.test)) \in Nat /\ tc.pc \in 1 .. Len(Body(tc.test)) + 2
         /\ DOMAIN Body(tc.test) = 1 .. Len(Body(tc.test))
         /\ tc.pc <= Len(Body(tc.test)) => Step = Body(tc.test)[tc.pc]
         /\ tc.pc = Len(Body(tc.test)) + 1 => Step = Noted("put", "verdict")
         /\ tc.pc = Len(Body(tc.test)) + 2 => Step = Noted("event", "verdict")
         /\ Step.do = do
  BY BodiesTidy DEF Reports, Doing, Step, Program, TcType

LEMMA FailureGoesOn ==
  ASSUME TcType, NEW do, Doing(do)
  PROVE  /\ AfterFailure \in Nat
         /\ tc.pc > Len(Body(tc.test)) => AfterFailure = tc.pc + 1
  <1> DEFINE body == Body(tc.test)
  <1>1. tc.pc > Len(body) => Step.fail = "note"
    BY Steps DEF Noted
  <1>2. Step.fail = "leave" => \E j \in DOMAIN body: body[j] = Noted("unwatch", "all")
    BY Steps, BodiesTidy DEF Tidy, Noted, UnwatchAll
  <1>3. Step.fail = "leave" =>
          (CHOOSE i \in DOMAIN body : body[i] = Noted("unwatch", "all")) \in DOMAIN body
    BY <1>2, Zenon
  <1> QED
    BY <1>1, <1>3, Steps DEF AfterFailure, TcType

\* The end of a step, as the next state shows it.
LEMMA Ends ==
  ASSUME TcType, NEW do, Doing(do), NEW ok \in BOOLEAN, Done(ok)
  PROVE  /\ TcType' /\ tc'.test = tc.test /\ tc'.calls = {}
         /\ tc'.life = tc.life /\ tc'.err = (tc.err \/ ~ok)
         /\ ok \/ tc.pc > Len(Body(tc.test)) => tc'.pc = tc.pc + 1
  <1> DEFINE next == IF ok THEN tc.pc + 1 ELSE AfterFailure
             err == tc.err \/ ~ok
  <1>1. next \in Nat /\ (ok \/ tc.pc > Len(Body(tc.test)) => next = tc.pc + 1)
    BY FailureGoesOn DEF TcType
  <1>2. err \in BOOLEAN
    BY DEF TcType
  <1>3. tc' = [tc EXCEPT !.pc = next, !.err = err, !.calls = {}, !.over = FALSE]
    BY DEF Done, TcType
  <1> HIDE DEF next, err
  <1>4. /\ TcType' /\ tc'.test = tc.test /\ tc'.calls = {}
        /\ tc'.life = tc.life /\ tc'.err = err /\ tc'.pc = next
    BY <1>1, <1>2, <1>3, Zenon DEF TcType
  <1> QED
    BY <1>1, <1>4, Zenon DEF err

LEMMA TcTypes ==
  ASSUME TypeInv, TcType, TcStep
  PROVE  TcType' /\ tc'.test = tc.test /\ (tc.err => tc'.err)
  <1>0. ASSUME NEW do, Doing(do), NEW ok \in BOOLEAN, Done(ok)
        PROVE  TcType' /\ tc'.test = tc.test /\ (tc.err => tc'.err)
    BY <1>0, Ends, Zenon
  <1>1. CASE NewTestConductor \/ WaitTestDirector \/ GetTestOutcome
    <2>1. PICK life \in Lives, code \in Nat:
             tc' = [tc EXCEPT !.life = life, !.code = code]
      <3>1. tc' = [tc EXCEPT !.life = "waiting"]
               => tc' = [tc EXCEPT !.life = "waiting", !.code = tc.code]
        BY Zenon DEF TcType
      <3>2. tc' = [tc EXCEPT !.life = "running"]
               => tc' = [tc EXCEPT !.life = "running", !.code = tc.code]
        BY Zenon DEF TcType
      <3>3. tc.code \in Nat
        BY DEF TcType
      <3>4. CASE GetTestOutcome
        <4>1. PICK got \in BOOLEAN:
                 tc' = [tc EXCEPT !.life = "exited",
                          !.code = IF got /\ runs[RunId].status = "PASSED" /\ ~tc.err
                                   THEN 0 ELSE 1]
          BY <3>4, Zenon DEF GetTestOutcome
        <4> QED BY <4>1, Zenon DEF Lives
      <3>5. CASE WaitTestDirector
        BY <3>2, <3>3, <3>5, Zenon DEF WaitTestDirector, Lives
      <3>6. CASE NewTestConductor
        BY <3>1, <3>3, <3>6, Zenon DEF NewTestConductor, Lives
      <3> QED BY <1>1, <3>4, <3>5, <3>6, Zenon
    <2> QED BY <2>1, Zenon DEF TcType
  <1>2. CASE Call \/ WorkEvent
    BY <1>2 DEF Call, WorkEvent, TcType
  <1>3. CASE CallLost \/ CallTimeout \/ UnwatchFails \/ Create \/ Delete \/ Work
    BY <1>3, <1>0, Zenon DEF CallLost, CallTimeout, UnwatchFails, Create, Delete, Work, Working
  <1>4. CASE Parse \/ Unwatch
    BY <1>4, <1>0, Zenon DEF Parse, Unwatch
  <1>5. CASE Watch \/ WatchFails
    <2>1. CASE Done(TRUE) \/ Done(FALSE)
      BY <1>5, <2>1, <1>0, Zenon DEF Watch, WatchFails
    <2>2. CASE tc' = [tc EXCEPT !.life = "panicked", !.code = 2]
      BY <2>2, Zenon DEF TcType, Lives
    <2> QED BY <1>5, <2>1, <2>2, Zenon DEF Watch, WatchFails, Unanswered
  <1>6. CASE WorkOver \/ WorkEventEnds
    BY <1>6, Zenon DEF WorkOver, WorkEventEnds, TcType
  <1>7. CASE Answered
    <2>1. PICK h \in tc.calls: At(h, "idle") /\ Done(handler[h].ok)
      BY <1>7, Zenon DEF Answered
    <2>2. handler[h].ok \in BOOLEAN
      BY <2>1 DEF At, TypeInv, TypeOK, TcType, Busy, Pc, Idle
    <2> QED BY <2>1, <2>2, <1>7, <1>0, Zenon DEF Answered
  <1> QED
    BY <1>1, <1>2, <1>3, <1>4, <1>5, <1>6, <1>7 DEF TcStep

-----------------------------------------------------------------------------
(* The calls of the conductor and of the monitor are requests              *)

LEMMA EventsAreRequests ==
  ASSUME NEW src \in {"workload-monitor", "test-conductor"},
         NEW class \in {"INFO", "FAIL"}, NEW m \in {Note, Alarm}
  PROVE  EventFrom(src, class, m) \in EventRequest
  BY ConductorAssumption DEF EventFrom, EventRequest

LEMMA ReportsAreRequests ==
  ASSUME TcType, Doing("put") \/ Doing("event")
  PROVE  /\ Report \in PutRunRequest \cup EventRequest
         /\ Report.op = "put_run" /\ Report.status = "PASSED" =>
              ~tc.err /\ tc.pc = Len(Body(tc.test)) + 1
  <1>1. CASE Step.do = "put"
    <2>1. Step.arg \in {"TODO", "EXECUTING"} \/ Step.arg = "verdict"
      BY <1>1, Steps, BodiesTidy DEF Tidy, Noted
    <2>2. Step.arg = "verdict" => tc.pc = Len(Body(tc.test)) + 1
      BY <1>1, Steps, BodiesTidy DEF Tidy, Noted
    <2>3. \E s \in RunStatus:
            /\ Report = [op |-> "put_run", id |-> RunId, key |-> TestKey,
                         msg |-> Note, status |-> s]
            /\ s = "PASSED" => Step.arg = "verdict" /\ ~tc.err
      BY <1>1, <2>1 DEF Report, RunStatus
    <2> QED
      BY <2>2, <2>3, ConductorAssumption DEF PutRunRequest
  <1>2. CASE Step.do # "put"
    <2>1. \E class \in {"INFO", "FAIL"}: Report = EventFrom("test-conductor", class, Note)
      BY <1>2, Zenon DEF Report
    <2> QED
      BY <2>1, EventsAreRequests DEF EventRequest
  <1> QED BY <1>1, <1>2

LEMMA ServeTypes ==
  ASSUME TypeInv, NEW h \in Handlers, NEW req \in PutRunRequest \cup EventRequest,
         Serve(h, req)
  PROVE  TypeInv'
  <1> DEFINE v == [pc |-> "received", req |-> req, run |-> NoRun,
                   plan |-> NoPlan, todo |-> {}]
  <1>1. v \in Busy /\ CopyOK(v)
    BY DEF Busy, Pc, CopyOK, Request
  <1>2. HandlersOK'
    BY <1>1, HandlerMoves, Zenon DEF Serve
  <1> QED
    BY <1>2 DEF Serve, TypeInv, TypeOK, HandlersOK

\* The steps that send a request, and those that leave the director alone.
LEMMA Sends ==
  ASSUME TcType, TcStep \/ WmStep
  PROVE  \/ UNCHANGED directorVars
         \/ \E h \in Handlers, req \in PutRunRequest \cup EventRequest:
               /\ Serve(h, req)
               /\ \/ req.op = "event"
                  \/ Call /\ req = Report
  <1>1. CASE Call
    <2>1. PICK h \in Handlers: Serve(h, Report)
      BY <1>1, Zenon DEF Call
    <2>2. Report \in PutRunRequest \cup EventRequest
      BY <1>1, ReportsAreRequests, Zenon DEF Call
    <2> QED BY <1>1, <2>1, <2>2, Zenon
  <1>2. CASE WorkEvent \/ WmReport
    <2>1. \E h \in Handlers, req \in EventRequest: Serve(h, req)
      BY <1>2, EventsAreRequests, Zenon DEF WorkEvent, WmReport
    <2> QED BY <2>1 DEF EventRequest
  <1> QED
    BY <1>1, <1>2, Zenon
    DEF TcStep, WmStep, NewTestConductor, WaitTestDirector, CallLost, Answered,
        CallTimeout, Parse, Watch, WatchFails, Unwatch, UnwatchFails, Create, Delete,
        WorkOver, Work, WorkEventEnds, GetTestOutcome, WmAnswered, WmTimeout

LEMMA TypeStepAll ==
  TypeInv /\ TcType /\ [NextAll]_allVars
    => TypeInv' /\ TcType' /\ tc'.test = tc.test /\ (tc.err => tc'.err)
  <1> SUFFICES ASSUME TypeInv, TcType, [NextAll]_allVars
               PROVE  TypeInv' /\ TcType' /\ tc'.test = tc.test /\ (tc.err => tc'.err)
    OBVIOUS
  <1>1. CASE TcStep \/ WmStep
    <2>1. TypeInv'
      <3>1. UNCHANGED directorVars => TypeInv'
        BY DEF directorVars, TypeInv, TypeOK, CopiesOK
      <3> QED BY <1>1, <3>1, Sends, ServeTypes, Zenon
    <2>2. WmStep => UNCHANGED tc
      BY Zenon DEF WmStep, WmReport, WmAnswered, WmTimeout
    <2> QED BY <1>1, <2>1, <2>2, TcTypes DEF TcType
  <1>2. ASSUME NEW h \in Handlers, DirectorStep(h)
        PROVE  TypeInv' /\ UNCHANGED tc
    BY <1>2, RunTypes, EventTypes, PlanTypes, Zenon DEF DirectorStep, HandlerStep
  <1>3. CASE UNCHANGED allVars
    BY <1>3 DEF allVars, TypeInv, TypeOK, CopiesOK, TcType
  <1> QED
    BY <1>1, <1>2, <1>3 DEF NextAll, TcType

-----------------------------------------------------------------------------
(* PASSED: the director makes no verdict of its own.                       *)

PassedCopy(v) ==
    /\ v.pc # "idle"
    /\ \/ v.req.op = "put_run" /\ v.req.status = "PASSED"
       \/ v.run.status = "PASSED"

\* A verdict PASSED is in the director or in XRay.
Passing ==
    \/ \E id \in RunIds: runs[id].status = "PASSED"
    \/ \E x \in Execs: xray[x].status = "PASSED"
    \/ \E h \in Handlers: PassedCopy(handler[h])

LEMMA OneHandlerPasses ==
  ASSUME TypeInv, ~Passing, NEW h \in Handlers, NEW v,
         handler' = [handler EXCEPT ![h] = v], ~PassedCopy(v),
         \A id \in RunIds: runs'[id].status # "PASSED",
         \A x \in Execs: xray'[x].status # "PASSED"
  PROVE  ~Passing'
  BY DEF TypeInv, TypeOK, Passing

LEMMA DirectorPasses ==
  ASSUME TypeInv, ~Passing, NEW h \in Handlers, HandlerStep(h)
  PROVE  ~Passing'
  <1> DEFINE v == handler[h]
             req == handler[h].req
             run == handler[h].run
             NonePassed == /\ \A id \in RunIds: runs'[id].status # "PASSED"
                           /\ \A x \in Execs: xray'[x].status # "PASSED"
  <1>0. /\ \A id \in RunIds: runs[id].status # "PASSED"
        /\ \A x \in Execs: xray[x].status # "PASSED"
        /\ ~PassedCopy(v)
    BY DEF Passing
  <1>u. UNCHANGED <<runs, xray>> => NonePassed
    BY <1>0
  <1>i. ~PassedCopy([pc |-> "idle", ok |-> TRUE]) /\ ~PassedCopy([pc |-> "idle", ok |-> FALSE])
    BY DEF PassedCopy
  <1>a. ASSUME Reply(h) \/ Refuse(h), NonePassed
        PROVE  ~Passing'
    BY <1>a, <1>0, <1>i, OneHandlerPasses, Zenon DEF Reply, Refuse
  <1>b. ASSUME ~At(h, "idle")
        PROVE  /\ v \in Busy /\ run.status # "PASSED"
               /\ ~(req.op = "put_run" /\ req.status = "PASSED")
    BY <1>b, <1>0, BusyHandler DEF PassedCopy, At
  <1>c. ASSUME ~At(h, "idle"), NonePassed, NEW pc, Goto(h, pc)
        PROVE  ~Passing'
    <2>1. handler' = [handler EXCEPT ![h] = [v EXCEPT !.pc = pc]]
      BY <1>c, Zenon DEF Goto
    <2>2. ~PassedCopy([v EXCEPT !.pc = pc])
      BY <1>b, <1>c DEF PassedCopy, Busy
    <2> QED BY <1>0, <1>c, <2>1, <2>2, OneHandlerPasses, Zenon
  <1>d. ASSUME ~At(h, "idle"), NonePassed, NEW pc, NEW plan, GotoWithPlan(h, pc, plan)
        PROVE  ~Passing'
    <2>1. handler' = [handler EXCEPT ![h] = [v EXCEPT !.pc = pc, !.plan = plan]]
      BY <1>d, Zenon DEF GotoWithPlan
    <2>2. ~PassedCopy([v EXCEPT !.pc = pc, !.plan = plan])
      BY <1>b, <1>d DEF PassedCopy, Busy
    <2> QED BY <1>0, <1>d, <2>1, <2>2, OneHandlerPasses, Zenon
  <1>e. ASSUME ~At(h, "idle"), NEW pc, NEW r, r.status # "PASSED", GotoWithRun(h, pc, r),
               NonePassed
        PROVE  ~Passing'
    <2>1. handler' = [handler EXCEPT ![h] = [v EXCEPT !.pc = pc, !.run = r]]
      BY <1>e, Zenon DEF GotoWithRun
    <2>2. ~PassedCopy([v EXCEPT !.pc = pc, !.run = r])
      BY <1>b, <1>e DEF PassedCopy, Busy
    <2> QED BY <1>e, <2>1, <2>2, OneHandlerPasses, Zenon
  <1>f. ASSUME ~At(h, "idle"), NonePassed, NEW pc, NEW todo,
               handler' = [handler EXCEPT ![h].pc = pc, ![h].todo = todo]
        PROVE  ~Passing'
    <2>1. handler' = [handler EXCEPT ![h] = [v EXCEPT !.pc = pc, !.todo = todo]]
      BY <1>f, Zenon
    <2>2. ~PassedCopy([v EXCEPT !.pc = pc, !.todo = todo])
      BY <1>b, <1>f DEF PassedCopy, Busy
    <2> QED BY <1>0, <1>f, <2>1, <2>2, OneHandlerPasses, Zenon
  <1>g. ASSUME ~At(h, "idle"), NonePassed, NEW todo,
               handler' = [handler EXCEPT ![h].todo = todo]
        PROVE  ~Passing'
    <2>1. handler' = [handler EXCEPT ![h] = [v EXCEPT !.todo = todo]]
      BY <1>g, Zenon
    <2>2. ~PassedCopy([v EXCEPT !.todo = todo])
      BY <1>b, <1>g DEF PassedCopy, Busy
    <2> QED BY <1>0, <1>g, <2>1, <2>2, OneHandlerPasses, Zenon
  <1>t. CopyOK(v) /\ runs \in [RunIds -> Run \cup {NoRun}] /\ xray \in [Execs -> Execution]
    BY DEF TypeInv, TypeOK, CopiesOK
  <1> HIDE DEF NonePassed
  <1>1. CASE PutRunGet(h)
    <2>1. ~At(h, "idle") /\ req \in PutRunRequest /\ NonePassed
      BY <1>1, <1>b, <1>u, RequestOps DEF PutRunGet, Received, At, Busy
    <2>2. runs[req.id].status # "PASSED" /\ req.status # "PASSED"
      BY <1>0, <1>b, <2>1 DEF PutRunRequest
    <2>3. runs[req.id] # NoRun => Updated(runs[req.id], req).status # "PASSED"
      BY <1>t, <2>1, <2>2 DEF Updated, Run, PutRunRequest
    <2> QED BY <1>1, <1>c, <1>e, <2>1, <2>3, Zenon DEF PutRunGet
  <1>2. CASE PutRunJira(h)
    BY <1>2, <1>a, <1>d, <1>u, Zenon DEF PutRunJira, At
  <1>3. CASE PutRunCreate(h)
    <2>1. ~At(h, "idle")
      BY <1>3 DEF PutRunCreate, At
    <2>2. /\ UNCHANGED xray => NonePassed
          /\ \A x \in Execs: xray' = [xray EXCEPT ![x].status = "TODO"] => NonePassed
      BY <1>0, <1>3, <1>t DEF PutRunCreate, NonePassed, Execution
    <2> QED BY <1>3, <1>a, <1>e, <2>1, <2>2, Zenon DEF PutRunCreate
  <1>4. CASE PutRunSet(h) \/ EventSet(h)
    <2>1. ~At(h, "idle")
      BY <1>4 DEF PutRunSet, EventSet, At
    <2>2. NonePassed
      BY <1>0, <1>4, <1>b, <1>t, <2>1 DEF PutRunSet, EventSet, NonePassed
    <2>3. run \in Run => [run EXCEPT !.status = "FAILED"].status # "PASSED"
      BY DEF Run
    <2> QED BY <1>4, <1>a, <1>c, <1>e, <1>t, <2>1, <2>2, <2>3, Zenon
            DEF PutRunSet, EventSet, CopyOK, At
  <1>5. CASE DeleteRun(h)
    <2>1. NonePassed
      BY <1>0, <1>5, <1>t DEF DeleteRun, NonePassed, NoRun
    <2> QED BY <1>5, <1>a, <2>1 DEF DeleteRun
  <1>6. CASE XrayUpdateStatus(h) \/ XrayUpdateComment(h)
    <2>1. ~At(h, "idle")
      BY <1>6 DEF XrayUpdateStatus, XrayUpdateComment, At
    <2>2. NonePassed
      BY <1>0, <1>6, <1>b, <1>t, <2>1
      DEF XrayUpdateStatus, XrayUpdateComment, NonePassed, Execution
    <2> QED BY <1>6, <1>a, <1>c, <2>1, <2>2, Zenon DEF XrayUpdateStatus, XrayUpdateComment
  <1>7. CASE StartGetActive(h) \/ CompletePlanGet(h) \/ PlanSet(h)
    BY <1>7, <1>a, <1>c, <1>d, <1>u, Zenon DEF StartGetActive, CompletePlanGet, PlanSet, At
  <1>8. CASE EventGet(h)
    <2>1. ~At(h, "idle") /\ req \in EventRequest /\ NonePassed
      BY <1>8, <1>b, <1>u, RequestOps DEF EventGet, Received, At, Busy
    <2>2. runs[req.id] # NoRun =>
            [runs[req.id] EXCEPT !.data = @ \cup {req.msg}].status # "PASSED"
      BY <1>0, <1>t, <2>1 DEF EventRequest, Run
    <2> QED BY <1>8, <1>a, <1>c, <1>e, <2>1, <2>2, Zenon DEF EventGet
  <1>9. CASE EventStore(h) \/ PutPlanSet(h) \/ DeletePlan(h) \/ DeletePlansDone(h)
    BY <1>9, <1>a, <1>u, Zenon DEF EventStore, PutPlanSet, DeletePlan, DeletePlansDone
  <1>10. CASE PutPlanGet(h)
    BY <1>10, <1>a, <1>d, <1>u, Zenon DEF PutPlanGet, Received, At
  <1>11. CASE PutPlanGetAll(h) \/ DeletePlansGetAll(h)
    BY <1>11, <1>f, <1>u, Zenon DEF PutPlanGetAll, DeletePlansGetAll, Received, At
  <1>12. CASE PutPlanDeactivate(h) \/ DeletePlansNext(h)
    BY <1>12, <1>g, <1>u, Zenon DEF PutPlanDeactivate, DeletePlansNext, At
  <1> QED
    BY <1>1, <1>2, <1>3, <1>4, <1>5, <1>6, <1>7, <1>8, <1>9, <1>10, <1>11, <1>12
    DEF HandlerStep, RunStep, EventStep, PlanStep


-----------------------------------------------------------------------------
(* A test without errors will delete what there is and withdraw what is    *)
(* watched; when it can say PASSED nothing is left to do.                  *)

Tidies ==
    LET body == Body(tc.test) IN
    /\ \A x \in res: \E j \in DOMAIN body: j >= tc.pc /\ body[j] = Noted("delete", x)
    /\ watched # {} => \E j \in DOMAIN body: j >= tc.pc /\ body[j] = UnwatchAll

Clean == tc.pc > Len(Body(tc.test)) /\ res = {} /\ watched = {}

CleanInv == (~tc.err => Tidies) /\ (Passing => Clean)

TypeInvAll == TypeInv /\ TcType

\* A step of the test that does not fail keeps what is to be done after it,
\* one that fails makes an error, and none but the reports is left in the end.
LEMMA StepTidies ==
  ASSUME TypeInvAll, CleanInv, NEW do, Doing(do), NEW ok \in BOOLEAN, Done(ok),
         UNCHANGED directorVars,
         tc.pc > Len(Body(tc.test)) => UNCHANGED <<watched, res>>,
         ok /\ ~tc.err =>
           LET body == Body(tc.test) IN
           /\ \A x \in res': \E j \in DOMAIN body:
                 j > tc.pc /\ body[j] = Noted("delete", x)
           /\ watched' # {} => \E j \in DOMAIN body:
                 j > tc.pc /\ body[j] = UnwatchAll
  PROVE  CleanInv'
  <1>1. /\ tc'.test = tc.test /\ tc'.err = (tc.err \/ ~ok) /\ tc'.pc \in Nat /\ tc.pc \in Nat
        /\ ok \/ tc.pc > Len(Body(tc.test)) => tc'.pc = tc.pc + 1
    BY Ends DEF TypeInvAll, TcType
  <1>2. ~tc'.err => Tidies'
    <2> SUFFICES ASSUME ~tc'.err PROVE Tidies'
      OBVIOUS
    <2>1. ok /\ ~tc.err /\ tc'.pc = tc.pc + 1
      BY <1>1, Zenon
    <2>2. DOMAIN Body(tc.test) \subseteq Nat
      BY BodiesTidy DEF Reports
    <2> QED BY <1>1, <2>1, <2>2 DEF Tidies
  <1>3. Passing' = Passing
    BY DEF directorVars, Passing
  <1>4. Passing => Clean'
    <2>1. Len(Body(tc.test)) \in Nat
      BY BodiesTidy DEF Reports
    <2> QED BY <1>1, <2>1 DEF CleanInv, Clean
  <1> QED BY <1>2, <1>3, <1>4 DEF CleanInv

\* Without errors the next step is not the one that others will follow.
LEMMA Later ==
  ASSUME TypeInvAll, Tidies, NEW do, Doing(do)
  PROVE  LET body == Body(tc.test) IN
         /\ \A x \in res: do # "delete" \/ Step.arg # x =>
              \E j \in DOMAIN body: j > tc.pc /\ body[j] = Noted("delete", x)
         /\ watched # {} /\ (do # "unwatch" \/ Step.arg # "all") =>
              \E j \in DOMAIN body: j > tc.pc /\ body[j] = UnwatchAll
  <1> DEFINE body == Body(tc.test)
  <1>1. tc.pc \in Nat /\ DOMAIN body \subseteq Nat /\ Step.do = do
        /\ (tc.pc \in DOMAIN body => Step = body[tc.pc])
    BY Steps DEF TypeInvAll
  <1>2. /\ \A x: Noted("delete", x).do = "delete" /\ Noted("delete", x).arg = x
        /\ UnwatchAll.do = "unwatch" /\ UnwatchAll.arg = "all"
    BY DEF Noted, UnwatchAll
  <1> HIDE DEF body
  <1>3. ASSUME NEW x \in res, do # "delete" \/ Step.arg # x
        PROVE  \E j \in DOMAIN body: j > tc.pc /\ body[j] = Noted("delete", x)
    <2>1. PICK j \in DOMAIN body: j >= tc.pc /\ body[j] = Noted("delete", x)
      BY Zenon DEF Tidies, body
    <2>2. j # tc.pc
      BY <1>1, <1>2, <1>3, <2>1
    <2> QED BY <1>1, <2>1, <2>2
  <1>4. ASSUME watched # {}, do # "unwatch" \/ Step.arg # "all"
        PROVE  \E j \in DOMAIN body: j > tc.pc /\ body[j] = UnwatchAll
    <2>1. PICK j \in DOMAIN body: j >= tc.pc /\ body[j] = UnwatchAll
      BY <1>4, Zenon DEF Tidies, body
    <2>2. j # tc.pc
      BY <1>1, <1>2, <1>4, <2>1
    <2> QED BY <1>1, <2>1, <2>2
  <1> QED BY <1>3, <1>4, Zenon DEF body

LEMMA SameStepClean ==
  ASSUME CleanInv, tc'.test = tc.test, tc'.pc = tc.pc, tc'.err = tc.err,
         res' = res, watched' \subseteq watched, Passing' => Passing \/ Clean
  PROVE  CleanInv'
  <1>1. Tidies => Tidies'
    BY DEF Tidies
  <1>2. Clean => Clean'
    BY DEF Clean
  <1> QED BY <1>1, <1>2 DEF CleanInv

\* A request brings PASSED to the director only as the conductor's verdict.
LEMMA SendsPassed ==
  ASSUME TypeInvAll, TcStep \/ WmStep
  PROVE  Passing' => Passing \/ (Call /\ Report.op = "put_run" /\ Report.status = "PASSED")
  <1>1. CASE UNCHANGED directorVars
    BY <1>1 DEF directorVars, Passing
  <1>2. ASSUME NEW h \in Handlers, NEW req \in PutRunRequest \cup EventRequest,
               Serve(h, req), ~(req.op = "put_run" /\ req.status = "PASSED"), ~Passing
        PROVE  ~Passing'
    <2> DEFINE v == [pc |-> "received", req |-> req, run |-> NoRun,
                     plan |-> NoPlan, todo |-> {}]
    <2>1. ~PassedCopy(v)
      BY <1>2 DEF PassedCopy, NoRun
    <2>2. /\ \A id \in RunIds: runs'[id].status # "PASSED"
          /\ \A x \in Execs: xray'[x].status # "PASSED"
          /\ handler' = [handler EXCEPT ![h] = v]
      BY <1>2 DEF Serve, Passing
    <2> QED BY <1>2, <2>1, <2>2, OneHandlerPasses, Zenon DEF TypeInvAll
  <1>3. \A req \in PutRunRequest \cup EventRequest: req.op = "event" => req.op # "put_run"
    OBVIOUS
  <1> QED BY <1>1, <1>2, <1>3, Sends, Zenon DEF TypeInvAll

LEMMA SendsClean ==
  ASSUME TypeInvAll, CleanInv, TcStep \/ WmStep
  PROVE  Passing' => Passing \/ Clean
  <1>1. ASSUME Call, Report.op = "put_run", Report.status = "PASSED"
        PROVE  Clean
    <2>1. ~tc.err /\ tc.pc = Len(Body(tc.test)) + 1
      BY <1>1, ReportsAreRequests DEF Call, TypeInvAll
    <2>2. Len(Body(tc.test)) \in Nat /\ DOMAIN Body(tc.test) = 1 .. Len(Body(tc.test))
      BY BodiesTidy DEF Reports
    <2> QED BY <2>1, <2>2 DEF CleanInv, Tidies, Clean
  <1> QED BY <1>1, SendsPassed

LEMMA TestStepClean ==
  ASSUME TypeInvAll, CleanInv, TcStep
  PROVE  CleanInv'
  <1> DEFINE body == Body(tc.test)
  <1>b. /\ Len(body) \in Nat /\ DOMAIN body = 1 .. Len(body) /\ Tidy(body)
        /\ tc.pc \in Nat /\ tc.err \in BOOLEAN
    BY BodiesTidy DEF Reports, TypeInvAll, TcType
  <1>s. ASSUME NEW do, Doing(do)
        PROVE  /\ Step.do = do /\ (do \notin {"put", "event"} => tc.pc \in DOMAIN body)
               /\ tc.pc \in DOMAIN body => Step = body[tc.pc]
    BY <1>s, Steps DEF TypeInvAll, Noted
  <1>l. ASSUME NEW do, Doing(do), ~tc.err
        PROVE  /\ \A x \in res: do # "delete" \/ Step.arg # x =>
                    \E j \in DOMAIN body: j > tc.pc /\ body[j] = Noted("delete", x)
               /\ watched # {} /\ (do # "unwatch" \/ Step.arg # "all") =>
                    \E j \in DOMAIN body: j > tc.pc /\ body[j] = UnwatchAll
    BY <1>l, Later DEF CleanInv
  <1>k. ASSUME NEW do, Doing(do), do \notin {"delete", "unwatch"}, NEW ok \in BOOLEAN,
               Done(ok), UNCHANGED <<directorVars, watched, res>>
        PROVE  CleanInv'
    BY <1>k, <1>l, StepTidies
  <1>f. ASSUME NEW do, Doing(do), Done(FALSE), UNCHANGED directorVars,
               do \notin {"put", "event"} \/ UNCHANGED <<watched, res>>
        PROVE  CleanInv'
    <2>1. do \in {"put", "event"} \/ ~(tc.pc > Len(body))
      BY <1>f, <1>b, <1>s
    <2> QED BY <1>f, <2>1, StepTidies, Zenon
  <1> HIDE DEF body
  <1>1. CASE NewTestConductor \/ WaitTestDirector \/ GetTestOutcome \/ WorkOver \/ WorkEventEnds
    <2>1. /\ tc'.test = tc.test /\ tc'.pc = tc.pc /\ tc'.err = tc.err
          /\ UNCHANGED <<res, watched>>
      BY <1>1, Zenon DEF NewTestConductor, WaitTestDirector, GetTestOutcome, WorkOver,
                  WorkEventEnds, TypeInvAll, TcType
    <2> QED BY <2>1, SendsClean, SameStepClean
  <1>2. CASE Call \/ WorkEvent
    <2>1. /\ tc'.test = tc.test /\ tc'.pc = tc.pc /\ tc'.err = tc.err
          /\ UNCHANGED <<res, watched>>
      BY <1>2 DEF Call, WorkEvent, TypeInvAll, TcType
    <2> QED BY <2>1, SendsClean, SameStepClean
  <1>3. CASE CallLost \/ CallTimeout \/ UnwatchFails
    BY <1>3, <1>f, Zenon DEF CallLost, CallTimeout, UnwatchFails
  <1>4. CASE Answered
    <2>1. PICK h \in tc.calls: At(h, "idle") /\ Done(handler[h].ok)
      BY <1>4, Zenon DEF Answered
    <2>2. handler[h].ok \in BOOLEAN
      BY <2>1 DEF At, TypeInvAll, TypeInv, TypeOK, TcType, Busy, Pc, Idle
    <2> QED BY <2>1, <2>2, <1>4, <1>k DEF Answered
  <1>5. CASE Parse
    BY <1>5, <1>k DEF Parse
  <1>6. CASE Watch \/ WatchFails
    <2>1. Doing("watch") /\ UNCHANGED <<directorVars, res>>
      BY <1>6, Zenon DEF Watch, WatchFails
    <2>2. tc.pc \in DOMAIN body /\ \E j \in DOMAIN body: j > tc.pc /\ body[j] = UnwatchAll
      BY <1>b, <1>s, <2>1 DEF Tidy
    <2>3. CASE Done(FALSE)
      BY <1>f, <2>1, <2>3, Zenon
    <2>4. CASE Done(TRUE)
      <3>1. ~tc.err => \A x \in res: \E j \in DOMAIN body: j > tc.pc /\ body[j] = Noted("delete", x)
        BY <1>l, <2>1
      <3>2. ~(tc.pc > Len(body))
        BY <1>b, <2>2
      <3> QED BY <2>1, <2>2, <2>4, <3>1, <3>2, StepTidies, Zenon DEF body
    <2>5. CASE tc' = [tc EXCEPT !.life = "panicked", !.code = 2]
      <3>1. tc'.test = tc.test /\ tc'.pc = tc.pc /\ tc'.err = tc.err
        BY <2>5 DEF TypeInvAll, TcType
      <3>2. ~Clean
        BY <1>b, <2>2 DEF Clean, body
      <3>3. Passing' => Passing
        BY <2>1 DEF directorVars, Passing
      <3>4. Tidies => Tidies'
        BY <1>b, <2>1, <2>2, <3>1 DEF Tidies, body
      <3> QED BY <3>1, <3>2, <3>3, <3>4 DEF CleanInv
    <2> QED BY <1>6, <2>3, <2>4, <2>5, Zenon DEF Watch, WatchFails, Unanswered
  <1>7. CASE Unwatch
    <2>1. Doing("unwatch") /\ UNCHANGED <<directorVars, res>>
      BY <1>7 DEF Unwatch
    <2>2. PICK ok \in BOOLEAN: Done(ok)
      BY <1>7 DEF Unwatch
    <2>3. watched' \subseteq watched /\ (Step.arg = "all" => watched' = {})
      BY <1>7 DEF Unwatch
    <2>4. ~(tc.pc > Len(body))
      BY <1>b, <1>s, <2>1
    <2>5. ~tc.err =>
            /\ \A x \in res: \E j \in DOMAIN body: j > tc.pc /\ body[j] = Noted("delete", x)
            /\ watched' # {} => \E j \in DOMAIN body: j > tc.pc /\ body[j] = UnwatchAll
      BY <1>l, <2>1, <2>3
    <2> QED BY <2>1, <2>2, <2>4, <2>5, StepTidies, Zenon DEF body
  <1>8. CASE Create
    <2>1. Doing("create") /\ UNCHANGED <<directorVars, watched>>
      BY <1>8 DEF Create
    <2>2. tc.pc \in DOMAIN body
          /\ \E j \in DOMAIN body: j > tc.pc /\ body[j] = Noted("delete", Step.arg)
      BY <1>b, <1>s, <2>1 DEF Tidy
    <2>3. CASE Done(FALSE)
      BY <1>f, <2>1, <2>3, Zenon
    <2>4. CASE Done(TRUE) /\ res' = res \cup {Step.arg}
      <3>1. ~tc.err =>
              /\ \A x \in res': \E j \in DOMAIN body: j > tc.pc /\ body[j] = Noted("delete", x)
              /\ watched' # {} => \E j \in DOMAIN body: j > tc.pc /\ body[j] = UnwatchAll
        BY <1>l, <2>1, <2>2, <2>4
      <3>2. ~(tc.pc > Len(body))
        BY <1>b, <2>2
      <3> QED BY <2>1, <2>4, <3>1, <3>2, StepTidies, Zenon DEF body
    <2> QED BY <1>8, <2>3, <2>4, Zenon DEF Create
  <1>9. CASE Delete
    <2>1. Doing("delete") /\ UNCHANGED <<directorVars, watched>>
      BY <1>9 DEF Delete
    <2>2. tc.pc \in DOMAIN body
      BY <1>s, <2>1
    <2>3. CASE Done(FALSE)
      BY <1>f, <2>1, <2>3, Zenon
    <2>4. CASE Done(TRUE) /\ res' = res \ {Step.arg}
      <3>1. ~tc.err =>
              /\ \A x \in res': \E j \in DOMAIN body: j > tc.pc /\ body[j] = Noted("delete", x)
              /\ watched' # {} => \E j \in DOMAIN body: j > tc.pc /\ body[j] = UnwatchAll
        BY <1>l, <2>1, <2>4
      <3>2. ~(tc.pc > Len(body))
        BY <1>b, <2>2
      <3> QED BY <2>1, <2>4, <3>1, <3>2, StepTidies, Zenon DEF body
    <2> QED BY <1>9, <2>3, <2>4, Zenon DEF Delete
  <1>10. CASE Work
    <2>1. PICK do \in {"monitor", "volumes", "work"}: Doing(do)
      BY <1>10 DEF Work, Working
    <2>2. CASE Done(FALSE)
      BY <1>10, <1>f, <2>1, <2>2, Zenon DEF Work
    <2>3. CASE Done(TRUE) /\ UNCHANGED res
      BY <1>10, <1>k, <2>1, <2>3, Zenon DEF Work
    <2> QED BY <1>10, <2>2, <2>3, Zenon DEF Work
  <1> QED
    BY <1>1, <1>2, <1>3, <1>4, <1>5, <1>6, <1>7, <1>8, <1>9, <1>10 DEF TcStep

LEMMA CleanStep ==
  TypeInvAll /\ CleanInv /\ [NextAll]_allVars => TypeInvAll' /\ CleanInv'
  <1> SUFFICES ASSUME TypeInvAll, CleanInv, [NextAll]_allVars
               PROVE  TypeInvAll' /\ CleanInv'
    OBVIOUS
  <1>0. TypeInvAll'
    BY TypeStepAll DEF TypeInvAll
  <1>1. CASE WmStep
    <2>1. UNCHANGED <<tc, res>> /\ watched' \subseteq watched
      BY <1>1 DEF WmStep, WmReport, WmAnswered, WmTimeout
    <2> QED BY <1>0, <1>1, <2>1, SendsClean, SameStepClean
  <1>2. ASSUME NEW h \in Handlers, DirectorStep(h)
        PROVE  CleanInv'
    <2>1. UNCHANGED <<tc, res, watched>> /\ HandlerStep(h)
      BY <1>2 DEF DirectorStep
    <2>2. Passing' => Passing
      BY <2>1, DirectorPasses DEF TypeInvAll
    <2> QED BY <1>0, <2>1, <2>2, SameStepClean
  <1>3. CASE UNCHANGED allVars
    <2>1. UNCHANGED <<tc, res, watched>>
      BY <1>3 DEF allVars
    <2>2. Passing' => Passing
      BY <1>3 DEF allVars, Passing
    <2> QED BY <1>0, <2>1, <2>2, SameStepClean
  <1> QED
    BY <1>0, <1>1, <1>2, <1>3, TestStepClean DEF NextAll

LEMMA CleanInit == InitAll => TypeInvAll /\ CleanInv
  <1> SUFFICES ASSUME InitAll PROVE TypeInvAll /\ CleanInv
    OBVIOUS
  <1>1. TypeInv
    BY TypeInit DEF InitAll
  <1>2. TcType
    BY DEF InitAll, TcType, Lives
  <1>3. ~Passing
    BY DEF InitAll, Init, Passing, PassedCopy, NoRun
  <1>4. Tidies
    BY DEF InitAll, Tidies
  <1> QED BY <1>1, <1>2, <1>3, <1>4 DEF TypeInvAll, CleanInv

\* A test is PASSED in the cache or in XRay only when it has withdrawn its
\* workloads and removed what it made, whichever calls are lost or time out
\* and however the director's handlers interleave (RunTests).
THEOREM PassedIsClean == SpecAll => []PassedMeansClean
  <1>1. TypeInvAll /\ CleanInv => PassedMeansClean
    BY ConductorAssumption DEF CleanInv, Passing, Clean, PassedMeansClean
  <1> QED BY <1>1, CleanInit, CleanStep, PTL DEF SpecAll

-----------------------------------------------------------------------------
(* When the verdict PASSED arrives no other call is on its way: without a  *)
(* client that gave up, whoever is served is waited for by the conductor,  *)
(* since the monitor calls only while a pod is watched.                    *)

EventPcs == {"received", "event_set", "event_store", "xray_status",
             "xray_comment", "plan_complete", "plan_set"}

\* An event handler that will not change the status of a PASSED run.
KeepsPassed(v) ==
    v.pc # "idle" =>
       /\ v.pc \in EventPcs /\ v.req.op = "event"
       /\ v.pc = "event_set" /\ v.req.id = RunId => v.run.status = "PASSED"

CallsInv ==
    /\ wm # WmIdle => watched # {}
    /\ ~gaveUp => \A h \in Handlers: ~Orphaned(h)
    /\ tc.pc > Len(Body(tc.test)) => \A g, h \in tc.calls: g = h
    /\ Passing /\ tc.pc <= Len(Body(tc.test)) + 1 => tc.calls # {}

FinalInv ==
    runs[RunId].status = "PASSED" /\ ~gaveUp =>
       \A h \in Handlers: KeepsPassed(handler[h])

\* What a step of the conductor does to its calls.
LEMMA TcMoves ==
  ASSUME TypeInvAll, TcStep
  PROVE  \/ tc'.pc = tc.pc /\ tc'.calls = tc.calls
         \/ \E do: \E ok \in BOOLEAN: Doing(do) /\ Done(ok) /\ ~Call
         \/ Call /\ tc'.pc = tc.pc /\ \E h: tc'.calls = {h}
         \/ ~Call /\ tc'.pc = tc.pc /\ tc.pc <= Len(Body(tc.test))
  <1>0. tc.pc \in Nat
    BY DEF TypeInvAll, TcType
  <1>1. CASE NewTestConductor \/ WaitTestDirector \/ GetTestOutcome \/ WorkOver
    BY <1>1, Zenon DEF NewTestConductor, WaitTestDirector, GetTestOutcome, WorkOver,
                TypeInvAll, TcType
  <1>2. CASE Call
    BY <1>2, Zenon DEF Call, TypeInvAll, TcType
  <1>3. CASE ~Call /\ (WorkEvent \/ WorkEventEnds)
    <2>1. tc'.pc = tc.pc
      BY <1>3 DEF WorkEvent, WorkEventEnds, TypeInvAll, TcType
    <2>2. PICK do \in {"monitor", "volumes", "work"}: Doing(do)
      BY <1>3 DEF WorkEvent, WorkEventEnds, Working
    <2>3. tc.pc <= Len(Body(tc.test))
      BY <2>2, Steps DEF TypeInvAll, Noted
    <2> QED BY <1>3, <2>1, <2>3
  <1>4. CASE ~Call /\ (CallLost \/ CallTimeout \/ UnwatchFails \/ Create \/ Delete \/ Work)
    BY <1>4, Zenon DEF CallLost, CallTimeout, UnwatchFails, Create, Delete, Work, Working
  <1>5. CASE ~Call /\ (Parse \/ Unwatch)
    BY <1>5, Zenon DEF Parse, Unwatch
  <1>6. CASE ~Call /\ (Watch \/ WatchFails)
    <2>1. CASE tc' = [tc EXCEPT !.life = "panicked", !.code = 2]
      BY <2>1 DEF TypeInvAll, TcType
    <2> QED BY <1>6, <2>1, Zenon DEF Watch, WatchFails, Unanswered
  <1>7. CASE ~Call /\ Answered
    <2>1. PICK h \in tc.calls: At(h, "idle") /\ Done(handler[h].ok)
      BY <1>7, Zenon DEF Answered
    <2>2. handler[h].ok \in BOOLEAN
      BY <2>1 DEF At, TypeInvAll, TypeInv, TypeOK, TcType, Busy, Pc, Idle
    <2> QED BY <2>1, <2>2, <1>7, Zenon DEF Answered
  <1> QED
    BY <1>1, <1>2, <1>3, <1>4, <1>5, <1>6, <1>7, Zenon DEF TcStep

LEMMA CallsStep ==
  ASSUME TypeInvAll, CleanInv, CallsInv, NextAll
  PROVE  CallsInv'
  <1> DEFINE body == Body(tc.test)
  <1>t. Len(body) \in Nat /\ tc.pc \in Nat /\ tc'.test = tc.test /\ tc'.pc \in Nat
    BY BodiesTidy, TypeStepAll DEF Reports, TypeInvAll, TcType
  <1>1. ~gaveUp' => \A h \in Handlers: ~Orphaned(h)'
    BY Zenon DEF NextAll, History
  <1>2. ASSUME NEW h \in Handlers, DirectorStep(h)
        PROVE  CallsInv'
    <2>1. UNCHANGED <<tc, watched, wm>> /\ HandlerStep(h)
      BY <1>2 DEF DirectorStep
    <2>2. Passing' => Passing
      BY <2>1, DirectorPasses DEF TypeInvAll
    <2> QED BY <1>1, <2>1, <2>2 DEF CallsInv
  <1>3. CASE WmStep
    <2>1. wm' # WmIdle => watched' # {}
      BY <1>3 DEF WmStep, WmReport, WmAnswered, WmTimeout
    <2>2. UNCHANGED tc
      BY <1>3 DEF WmStep, WmReport, WmAnswered, WmTimeout
    <2>3. CASE Call
      BY <2>2, <2>3 DEF Call, TypeInvAll, TcType
    <2>4. CASE ~Call
      <3>1. Passing' => Passing
        BY <1>3, <2>4, SendsPassed
      <3> QED BY <1>1, <2>1, <2>2, <3>1 DEF CallsInv
    <2> QED BY <2>3, <2>4
  <1>4. CASE TcStep
    <2>1. wm' # WmIdle => watched' # {}
      BY <1>4, Zenon DEF TcStep, CallsInv, NewTestConductor, WaitTestDirector, Call, CallLost,
         Answered, CallTimeout, Parse, Watch, WatchFails, Unwatch, UnwatchFails, WmLocked,
         Create, Delete, WorkOver, Work, WorkEvent, WorkEventEnds, GetTestOutcome
    <2>2. Passing' => Passing \/ Call
      BY <1>4, SendsPassed
    <2>3. CASE tc'.pc = tc.pc /\ tc'.calls = tc.calls
      <3>1. ~Call
        BY <2>3 DEF Call, TypeInvAll, TcType
      <3> QED BY <1>1, <1>t, <2>1, <2>2, <2>3, <3>1 DEF CallsInv
    <2>4. ASSUME NEW do, NEW ok \in BOOLEAN, Doing(do), Done(ok), ~Call
          PROVE  CallsInv'
      <3>1. tc'.calls = {} /\ (tc.pc > Len(body) => tc'.pc = tc.pc + 1)
        BY <2>4, Ends DEF TypeInvAll
      <3>2. Passing' => tc.pc > Len(body)
        BY <2>2, <2>4 DEF CleanInv, Clean
      <3> QED BY <1>1, <1>t, <2>1, <3>1, <3>2 DEF CallsInv
    <2>5. CASE Call /\ tc'.pc = tc.pc /\ \E h: tc'.calls = {h}
      BY <1>1, <1>t, <2>1, <2>5 DEF CallsInv
    <2>6. CASE ~Call /\ tc'.pc = tc.pc /\ tc.pc <= Len(body)
      <3>1. Passing' => tc.pc > Len(body)
        BY <2>2, <2>6 DEF CleanInv, Clean
      <3> QED BY <1>1, <1>t, <2>1, <2>6, <3>1 DEF CallsInv
    <2> QED BY <1>4, <2>3, <2>4, <2>5, <2>6, TcMoves, Zenon
  <1> QED BY <1>2, <1>3, <1>4 DEF NextAll

LEMMA OneHandlerKeeps ==
  ASSUME TypeInv, NEW h \in Handlers, NEW v, handler' = [handler EXCEPT ![h] = v],
         KeepsPassed(v), \A g \in Handlers: g # h => KeepsPassed(handler[g])
  PROVE  \A g \in Handlers: KeepsPassed(handler'[g])
  BY DEF TypeInv, TypeOK

\* A PASSED run while events are served: they store it as it is.
LEMMA EventKeepsPassed ==
  ASSUME TypeInvAll, NEW h \in Handlers, HandlerStep(h),
         runs[RunId].status = "PASSED",
         \A g \in Handlers: KeepsPassed(handler[g])
  PROVE  /\ runs'[RunId].status = "PASSED"
         /\ \A g \in Handlers: KeepsPassed(handler'[g])
  <1> DEFINE v == handler[h]
             req == handler[h].req
             run == handler[h].run
  <1>t. /\ CopyOK(v) /\ runs \in [RunIds -> Run \cup {NoRun}] /\ RunId \in RunIds
        /\ TypeInv
    BY ConductorAssumption DEF TypeInvAll, TypeInv, TypeOK, CopiesOK
  <1>i. KeepsPassed([pc |-> "idle", ok |-> TRUE]) /\ KeepsPassed([pc |-> "idle", ok |-> FALSE])
    BY DEF KeepsPassed
  <1>0. ~At(h, "idle")
    BY Zenon DEF HandlerStep, RunStep, EventStep, PlanStep, At, Received, PutRunGet, PutRunJira,
       PutRunCreate, PutRunSet, DeleteRun, XrayUpdateStatus, XrayUpdateComment,
       StartGetActive, CompletePlanGet, PlanSet, EventGet, EventSet, EventStore,
       PutPlanGet, PutPlanGetAll, PutPlanDeactivate, PutPlanSet, DeletePlan,
       DeletePlansGetAll, DeletePlansNext, DeletePlansDone
  <1>b. /\ v \in Busy /\ v.pc \in EventPcs /\ req.op = "event" /\ req \in EventRequest
        /\ v.pc = "event_set" /\ req.id = RunId => run.status = "PASSED"
    <2>1. v \in Busy /\ v.pc \in EventPcs /\ req.op = "event"
          /\ (v.pc = "event_set" /\ req.id = RunId => run.status = "PASSED")
      BY <1>0, <1>t, BusyHandler DEF KeepsPassed, At
    <2> QED BY <2>1, RequestOps DEF Busy
  <1>a. ASSUME Reply(h) \/ Refuse(h)
        PROVE  \A g \in Handlers: KeepsPassed(handler'[g])
    BY <1>a, <1>i, <1>t, OneHandlerKeeps, Zenon DEF Reply, Refuse
  <1>c. ASSUME NEW pc \in EventPcs \ {"event_set"},
               \/ Goto(h, pc)
               \/ \E plan: GotoWithPlan(h, pc, plan)
               \/ \E r: GotoWithRun(h, pc, r)
        PROVE  \A g \in Handlers: KeepsPassed(handler'[g])
    <2>1. CASE Goto(h, pc)
      <3>1. handler' = [handler EXCEPT ![h] = [v EXCEPT !.pc = pc]]
        BY <2>1, Zenon DEF Goto
      <3>2. KeepsPassed([v EXCEPT !.pc = pc])
        BY <1>b, <1>c DEF Busy, KeepsPassed
      <3> QED BY <1>t, <3>1, <3>2, OneHandlerKeeps
    <2>2. CASE \E plan: GotoWithPlan(h, pc, plan)
      <3>1. PICK plan: handler' = [handler EXCEPT ![h] = [v EXCEPT !.pc = pc, !.plan = plan]]
        BY <2>2, Zenon DEF GotoWithPlan
      <3>2. KeepsPassed([v EXCEPT !.pc = pc, !.plan = plan])
        BY <1>b, <1>c DEF Busy, KeepsPassed
      <3> QED BY <1>t, <3>1, <3>2, OneHandlerKeeps
    <2>3. CASE \E r: GotoWithRun(h, pc, r)
      <3>1. PICK r: handler' = [handler EXCEPT ![h] = [v EXCEPT !.pc = pc, !.run = r]]
        BY <2>3, Zenon DEF GotoWithRun
      <3>2. KeepsPassed([v EXCEPT !.pc = pc, !.run = r])
        BY <1>b, <1>c DEF Busy, KeepsPassed
      <3> QED BY <1>t, <3>1, <3>2, OneHandlerKeeps
    <2> QED BY <1>c, <2>1, <2>2, <2>3
  <1>1. CASE EventGet(h)
    <2>1. CASE Goto(h, "event_store") \/ Refuse(h)
      BY <1>1, <1>a, <1>c, <2>1 DEF EventGet, EventPcs
    <2>2. CASE /\ runs[req.id] # NoRun
               /\ GotoWithRun(h, "event_set", [runs[req.id] EXCEPT !.data = @ \cup {req.msg}])
      <3> DEFINE r == [runs[req.id] EXCEPT !.data = @ \cup {req.msg}]
                 w == [v EXCEPT !.pc = "event_set", !.run = r]
      <3>1. handler' = [handler EXCEPT ![h] = w]
        BY <2>2, Zenon DEF GotoWithRun
      <3>2. req.id = RunId => r.status = "PASSED"
        BY <1>t, <2>2 DEF Run
      <3>3. w.pc = "event_set" /\ w.req = req /\ w.run = r
        BY <1>b DEF Busy
      <3> HIDE DEF w, r
      <3>4. KeepsPassed(w)
        BY <1>b, <3>2, <3>3 DEF KeepsPassed, EventPcs
      <3> QED BY <1>1, <1>t, <3>1, <3>4, OneHandlerKeeps DEF EventGet
    <2> QED BY <1>1, <2>1, <2>2, Zenon DEF EventGet
  <1>2. CASE EventSet(h)
    <2>1. runs'[RunId].status = "PASSED"
      BY <1>2, <1>b, <1>t DEF EventSet, At
    <2> QED BY <1>2, <1>c, <2>1 DEF EventSet, EventPcs
  <1>3. CASE EventStore(h)
    BY <1>3, <1>a DEF EventStore
  <1>4. CASE XrayUpdateStatus(h) \/ XrayUpdateComment(h)
    <2>1. AfterXray(req) = "plan_complete"
      BY <1>b DEF AfterXray
    <2>2. \/ Refuse(h)
          \/ \E pc \in {"xray_comment", "plan_complete"}: Goto(h, pc)
      BY <1>4, <2>1 DEF XrayUpdateStatus, XrayUpdateComment
    <2>3. UNCHANGED runs
      BY <1>4 DEF XrayUpdateStatus, XrayUpdateComment
    <2> QED BY <1>a, <1>c, <2>2, <2>3 DEF EventPcs
  <1>5. CASE CompletePlanGet(h) \/ PlanSet(h)
    <2>1. AfterPlan(req) = "event_store"
      BY <1>b DEF AfterPlan
    <2>2. \E pc \in {"plan_set", "event_store"}: Goto(h, pc) \/ \E plan: GotoWithPlan(h, pc, plan)
      BY <1>5, <2>1 DEF CompletePlanGet, PlanSet
    <2>3. UNCHANGED runs
      BY <1>5 DEF CompletePlanGet, PlanSet
    <2> QED BY <1>c, <2>2, <2>3 DEF EventPcs
  <1>6. CASE \/ PutRunGet(h) \/ PutRunJira(h) \/ PutRunCreate(h) \/ DeleteRun(h)
             \/ StartGetActive(h) \/ PutRunSet(h) \/ PlanStep(h)
    <2>1. FALSE
      BY <1>6, <1>b DEF PutRunGet, PutRunJira, PutRunCreate, DeleteRun, StartGetActive,
         PutRunSet, PlanStep, PutPlanGet, PutPlanGetAll, PutPlanDeactivate, PutPlanSet,
         DeletePlan, DeletePlansGetAll, DeletePlansNext, DeletePlansDone, Received, At,
         EventPcs
    <2> QED BY <2>1
  <1> QED
    BY <1>1, <1>2, <1>3, <1>4, <1>5, <1>6 DEF HandlerStep, RunStep, EventStep

\* The step that stores PASSED in the cache is of the only handler at work.
LEMMA PassedArrives ==
  ASSUME TypeInvAll, CleanInv, CallsInv, NEW h \in Handlers, HandlerStep(h), ~gaveUp,
         runs[RunId].status # "PASSED", runs'[RunId].status = "PASSED"
  PROVE  \A g \in Handlers: KeepsPassed(handler'[g])
  <1> DEFINE v == handler[h]
             run == handler[h].run
  <1>t. runs \in [RunIds -> Run \cup {NoRun}] /\ RunId \in RunIds /\ TypeInv
    BY ConductorAssumption DEF TypeInvAll, TypeInv, TypeOK
  <1>1. PutRunSet(h) \/ EventSet(h)
    <2>1. PutRunSet(h) \/ EventSet(h) \/ DeleteRun(h) \/ UNCHANGED runs
      BY Zenon DEF HandlerStep, RunStep, EventStep, PlanStep, PutRunGet, PutRunJira,
         PutRunCreate, XrayUpdateStatus, XrayUpdateComment,
         StartGetActive, CompletePlanGet, PlanSet, EventGet, EventStore,
         PutPlanGet, PutPlanGetAll, PutPlanDeactivate, PutPlanSet, DeletePlan,
         DeletePlansGetAll, DeletePlansNext, DeletePlansDone
    <2>2. DeleteRun(h) => runs'[RunId] \in {runs[RunId], NoRun}
      BY <1>t DEF DeleteRun
    <2> QED BY <2>1, <2>2 DEF NoRun
  <1>2. ~At(h, "idle") /\ run.status = "PASSED"
    BY <1>1, <1>t DEF PutRunSet, EventSet, At
  <1>3. Clean
    BY <1>2 DEF CleanInv, Passing, PassedCopy, At
  <1>4. wm.call = {}
    BY <1>3 DEF CallsInv, Clean, WmIdle
  <1>5. \A g \in Handlers: g # h => handler[g].pc = "idle"
    <2>1. \A g \in Handlers: At(g, "idle") \/ g \in tc.calls
      BY <1>4 DEF CallsInv, Orphaned
    <2> QED BY <1>2, <1>3, <2>1 DEF CallsInv, Clean, At
  <1>6. \A g \in Handlers: g # h => KeepsPassed(handler[g])
    BY <1>5 DEF KeepsPassed
  <1>7. CASE PutRunSet(h)
    <2>1. KeepsPassed([pc |-> "idle", ok |-> TRUE])
      BY DEF KeepsPassed
    <2> QED BY <1>t, <1>6, <1>7, <2>1, OneHandlerKeeps, Zenon DEF PutRunSet, Reply
  <1>8. CASE EventSet(h)
    <2>1. v \in Busy /\ v.req.op = "event"
      <3>1. CopyOK(v)
        BY <1>t DEF TypeInv, CopiesOK
      <3> QED BY <1>2, <1>8, <1>t, <3>1, BusyHandler DEF EventSet, At, CopyOK, EventRequest
    <2> DEFINE r == [run EXCEPT !.status = "FAILED"]
               stores == [v EXCEPT !.pc = "event_store"]
               pushes == [v EXCEPT !.pc = "xray_status", !.run = r]
    <2>2. \/ handler' = [handler EXCEPT ![h] = stores]
          \/ handler' = [handler EXCEPT ![h] = pushes]
      BY <1>8, Zenon DEF EventSet, Goto, GotoWithRun
    <2>3. KeepsPassed(stores) /\ KeepsPassed(pushes)
      BY <2>1 DEF KeepsPassed, Busy, EventPcs
    <2> QED BY <1>t, <1>6, <2>2, <2>3, OneHandlerKeeps
  <1> QED BY <1>1, <1>7, <1>8

LEMMA FinalStep ==
  ASSUME TypeInvAll, CleanInv, CallsInv, FinalInv, NextAll
  PROVE  /\ FinalInv'
         /\ runs[RunId].status = "PASSED" /\ ~gaveUp => runs'[RunId].status = "PASSED"
  <1>g. ~gaveUp' => ~gaveUp
    BY Zenon DEF NextAll, History
  <1>1. ASSUME NEW h \in Handlers, DirectorStep(h)
        PROVE  /\ FinalInv'
               /\ runs[RunId].status = "PASSED" /\ ~gaveUp => runs'[RunId].status = "PASSED"
    BY <1>1, <1>g, EventKeepsPassed, PassedArrives DEF FinalInv, DirectorStep
  <1>2. CASE TcStep \/ WmStep
    <2>1. CASE UNCHANGED directorVars
      BY <1>g, <2>1 DEF directorVars, FinalInv
    <2>2. ASSUME NEW h \in Handlers, NEW req \in PutRunRequest \cup EventRequest,
                 Serve(h, req), req.op = "event" \/ (Call /\ req = Report)
          PROVE  /\ FinalInv'
                 /\ runs[RunId].status = "PASSED" /\ ~gaveUp => runs'[RunId].status = "PASSED"
      <3>1. UNCHANGED runs
        BY <2>2 DEF Serve
      <3> SUFFICES ASSUME runs[RunId].status = "PASSED", ~gaveUp
                   PROVE  \A g \in Handlers: KeepsPassed(handler'[g])
        BY <1>g, <3>1 DEF FinalInv
      <3>2. Passing
        BY ConductorAssumption DEF Passing
      <3>3. req.op = "event"
        <4> SUFFICES ASSUME Call, req = Report PROVE Report.op = "event"
          BY <2>2
        <4>1. PICK do \in {"put", "event"}: Doing(do)
          BY DEF Call
        <4>2. tc.pc > Len(Body(tc.test)) + 1
          <5>1. tc.calls = {}
            BY DEF Call
          <5>2. tc.pc \in Nat /\ Len(Body(tc.test)) \in Nat
            BY <4>1, Steps DEF TypeInvAll, TcType
          <5> QED BY <3>2, <5>1, <5>2 DEF CallsInv
        <4>3. Step = Noted("event", "verdict")
          BY <4>1, <4>2, Steps DEF TypeInvAll, TcType
        <4> QED BY <4>3 DEF Report, EventFrom, Noted
      <3> DEFINE v == [pc |-> "received", req |-> req, run |-> NoRun,
                       plan |-> NoPlan, todo |-> {}]
      <3>4. KeepsPassed(v)
        BY <3>3 DEF KeepsPassed, EventPcs
      <3> QED BY <2>2, <3>4, OneHandlerKeeps DEF Serve, TypeInvAll, FinalInv
    <2> QED BY <1>2, <2>1, <2>2, Sends, Zenon DEF TypeInvAll
  <1> QED BY <1>1, <1>2 DEF NextAll

AllInv == TypeInvAll /\ CleanInv /\ CallsInv /\ FinalInv

LEMMA AllStep == AllInv /\ [NextAll]_allVars => AllInv'
  <1> SUFFICES ASSUME AllInv, [NextAll]_allVars PROVE AllInv'
    OBVIOUS
  <1>1. TypeInvAll' /\ CleanInv'
    BY CleanStep DEF AllInv
  <1>2. CASE NextAll
    BY <1>1, <1>2, CallsStep, FinalStep DEF AllInv
  <1>3. CASE UNCHANGED allVars
    <2>1. CallsInv'
      BY <1>3 DEF AllInv, allVars, CallsInv, Orphaned, At, Passing
    <2>2. FinalInv'
      BY <1>3 DEF AllInv, allVars, FinalInv
    <2> QED BY <1>1, <2>1, <2>2 DEF AllInv
  <1> QED BY <1>2, <1>3

\* A PASSED run stays PASSED in the cache unless a client has given up on a
\* call: an event stores an old copy of the run, but none is on its way when
\* the verdict is sent (DeleteWorkloads, testVolumes).
THEOREM PassedStays == SpecAll => PassedIsFinal
  <1>1. InitAll => AllInv
    <2> SUFFICES ASSUME InitAll PROVE CallsInv /\ FinalInv
      BY CleanInit DEF AllInv
    <2>1. CallsInv
      <3>1. ~Passing
        BY DEF InitAll, Init, Passing, PassedCopy, NoRun
      <3> QED BY <3>1 DEF InitAll, Init, CallsInv, Orphaned, At
    <2>2. FinalInv
      BY ConductorAssumption DEF InitAll, Init, FinalInv, NoRun
    <2> QED BY <2>1, <2>2
  <1>2. AllInv /\ [NextAll]_allVars =>
          [runs[RunId].status = "PASSED" /\ ~gaveUp
              => runs'[RunId].status = "PASSED"]_allVars
    BY FinalStep DEF AllInv
  <1> QED BY <1>1, <1>2, AllStep, PTL DEF SpecAll, PassedIsFinal
=============================================================================
