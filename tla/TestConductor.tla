--------------------------- MODULE TestConductor ---------------------------
(***************************************************************************)
(* The test conductor at work: it runs one test, reports to the director   *)
(* (module TestDirector, whose handlers serve its calls here) and has its  *)
(* pods watched by the workload monitor, of which this module keeps what   *)
(* WorkloadMonitor shows of it: the list of watched pods, whose lock is    *)
(* held while an event is sent to the director.                            *)
(*                                                                         *)
(* A test is a program: a sequence of steps on the director, the workload  *)
(* monitor and the cluster, each of which may fail.  What a failure leads  *)
(* to differs from step to step, and so is part of the step.               *)
(***************************************************************************)
EXTENDS TestDirector, Sequences

CONSTANTS
    RunId,    \* the uid of the conductor's pod, which is also the run's key
    TestKey,  \* config.XrayTestID
    Note,     \* the text of the conductor's reports
    Alarm,    \* the text of the workload monitor's reports
    Tests,    \* the tests the configuration may select
    Network   \* what happens to calls: "lost", "timeout"

ASSUME ConductorAssumption ==
    /\ RunId \in RunIds \ JiraIds
    /\ TestKey \in TestKeys
    /\ {Note, Alarm} \subseteq Messages
    /\ Network \subseteq {"lost", "timeout"}

VARIABLES
    tc,       \* the conductor's process: its life, the step it is at, has there been an error,
              \* the calls it waits for, is the test proper over, its exit code
    watched,  \* the pods it has registered with the workload monitor
    wm,       \* the monitor's call to the director, if it is in one
    res,      \* what the test has created in the cluster
    marked,   \* history: has XRay's test ever been marked as failed?
    gaveUp    \* history: has a client ever given up on a call being served?

allVars == <<plans, runs, events, xray, handler, started,
             tc, watched, wm, res, marked, gaveUp>>
directorVars == <<plans, runs, events, xray, handler, started>>

-----------------------------------------------------------------------------
(* The tests.  A step that fails makes the test return, or leaves an inner *)
(* function of the test, or is noted (CombineErrors) and the test goes on. *)

Must(do, arg) == [do |-> do, arg |-> arg, fail |-> "return"]
Inner(do, arg) == [do |-> do, arg |-> arg, fail |-> "leave"]
Noted(do, arg) == [do |-> do, arg |-> arg, fail |-> "note"]

SendTestRunToDo == <<Must("put", "TODO"), Must("event", "INFO")>>
SendTestRunStarted == <<Must("put", "EXECUTING"), Must("event", "INFO")>>
GetDuration == <<Must("parse", "duration")>>

\* Mutant: the conductor registers itself last.
MutAddSelfLast == <<Must("watch", "mayastor"), Must("watch", "test-conductor")>>

AddCommonWorkloads == <<Must("watch", "test-conductor"), Must("watch", "mayastor")>>
DeleteWorkloads == <<Noted("unwatch", "all")>>

SteadyStateTest ==
    SendTestRunToDo \o GetDuration \o SendTestRunStarted \o AddCommonWorkloads
    \o <<Must("create", "sc"), Must("create", "pvc"), Must("create", "fio"),
         Must("watch", "fio"), Noted("monitor", {})>>
    \o DeleteWorkloads
    \o <<Noted("delete", "fio"), Noted("delete", "pvc"), Noted("delete", "sc")>>

\* testVolumes makes and removes its volumes and pods; an error leaves some.
NonSteadyStateTest ==
    SendTestRunToDo \o GetDuration \o SendTestRunStarted \o AddCommonWorkloads
    \o <<Must("create", "sc"), Must("create", "sc-local"),
         Noted("volumes", {"pvc", "fio"})>>
    \o DeleteWorkloads
    \o <<Noted("delete", "sc"), Noted("delete", "sc-local")>>

PrimitivePoolDeletionTest ==
    SendTestRunToDo \o SendTestRunStarted \o <<Must("work", {"replicas"})>>

ReplicaPerturbationTest ==
    SendTestRunToDo \o SendTestRunStarted \o AddCommonWorkloads \o GetDuration
    \o <<Must("create", "sc"), Inner("create", "pvc"), Inner("create", "fio"),
         Inner("watch", "fio"), Noted("work", {}), Noted("unwatch", "fio"),
         Noted("delete", "fio"), Noted("delete", "pvc")>>
    \o DeleteWorkloads \o <<Noted("delete", "sc")>>

\* After an error the volume is kept.
ReplicaEliminationTest ==
    SendTestRunToDo \o SendTestRunStarted \o AddCommonWorkloads \o GetDuration
    \o <<Must("create", "sc"), Inner("create", "pvc"), Inner("work", {"tester"}),
         Noted("delete", "pvc")>>
    \o DeleteWorkloads \o <<Noted("delete", "sc")>>

SendTestRunFinished == <<Noted("put", "verdict"), Noted("event", "verdict")>>

TestNames == {"steady_state", "non_steady_state", "primitive_pool_deletion",
              "replica_perturbation", "replica_elimination", "other"}

\* RunTests: any other name is an error and goes straight to the report.
Body(test) ==
    CASE test = "steady_state" -> SteadyStateTest
      [] test = "non_steady_state" -> NonSteadyStateTest
      [] test = "primitive_pool_deletion" -> PrimitivePoolDeletionTest
      [] test = "replica_perturbation" -> ReplicaPerturbationTest
      [] test = "replica_elimination" -> ReplicaEliminationTest
      [] OTHER -> <<>>

Program(test) == Body(test) \o SendTestRunFinished

-----------------------------------------------------------------------------
Things == {"sc", "sc-local", "pvc", "fio", "replicas", "tester"}
Pods == {"test-conductor", "mayastor", "fio"}

WmIdle == [call |-> {}, pod |-> {}]

InitAll ==
    /\ Init
    /\ \E t \in Tests:
          tc = [test |-> t, life |-> "new", pc |-> 1, err |-> t = "other",
                calls |-> {}, over |-> FALSE, code |-> 0]
    /\ watched = {}
    /\ wm = WmIdle
    /\ res = {}
    /\ marked = FALSE
    /\ gaveUp = FALSE

Step == Program(tc.test)[tc.pc]
Doing(do) ==
    /\ tc.life = "running"
    /\ tc.pc \in DOMAIN Program(tc.test)
    /\ Step.do = do

\* Where a test goes on after a failed step.
AfterFailure ==
    LET body == Body(tc.test) IN
    CASE Step.fail = "return" -> Len(body) + 1
      [] Step.fail = "leave" ->
           CHOOSE i \in DOMAIN body : body[i] = Noted("unwatch", "all")
      [] OTHER -> tc.pc + 1

\* Mutant: an error that is only noted gets lost.
MutDoneForgets(ok) ==
    tc' = [tc EXCEPT !.pc = IF ok THEN @ + 1 ELSE AfterFailure,
                     !.err = @ \/ (~ok /\ Step.fail # "note"),
                     !.calls = {}, !.over = FALSE]

\* The end of a step.
Done(ok) ==
    tc' = [tc EXCEPT !.pc = IF ok THEN @ + 1 ELSE AfterFailure,
                     !.err = @ \/ ~ok,
                     !.calls = {}, !.over = FALSE]

-----------------------------------------------------------------------------
(* Calls to the director                                                   *)

\* A handler of the director that no client is waiting for.
Free(h) == At(h, "idle") /\ h \notin tc.calls \cup wm.call

Serve(h, req) ==
    /\ Free(h)
    /\ handler' = [handler EXCEPT
                     ![h] = [pc |-> "received", req |-> req,
                             run |-> NoRun, plan |-> NoPlan, todo |-> {}]]
    /\ UNCHANGED <<plans, runs, events, xray, started>>

EventFrom(src, class, m) ==
    [op |-> "event", id |-> RunId, class |-> class, src |-> src, msg |-> m]

\* The verdict a test reports follows from the errors so far.
Report ==
    LET verdict == Step.arg = "verdict" IN
    IF Step.do = "put"
    THEN [op |-> "put_run", id |-> RunId, key |-> TestKey, msg |-> Note,
          status |-> IF ~verdict THEN Step.arg
                     ELSE IF tc.err THEN "FAILED" ELSE "PASSED"]
    ELSE EventFrom("test-conductor",
                   IF verdict /\ tc.err THEN "FAIL" ELSE "INFO", Note)

Call ==
    /\ Doing("put") \/ Doing("event")
    /\ tc.calls = {}
    /\ \E h \in Handlers: Serve(h, Report) /\ tc' = [tc EXCEPT !.calls = {h}]
    /\ UNCHANGED <<watched, wm, res>>

CallLost ==
    /\ "lost" \in Network
    /\ Doing("put") \/ Doing("event")
    /\ tc.calls = {}
    /\ Done(FALSE)
    /\ UNCHANGED <<directorVars, watched, wm, res>>

\* Mutant: a refusal is not taken for an answer.
MutAnsweredOk ==
    /\ Doing("put") \/ Doing("event")
    /\ \E h \in tc.calls: At(h, "idle") /\ handler[h].ok /\ Done(TRUE)
    /\ UNCHANGED <<directorVars, watched, wm, res>>

Answered ==
    /\ Doing("put") \/ Doing("event")
    /\ \E h \in tc.calls: At(h, "idle") /\ Done(handler[h].ok)
    /\ UNCHANGED <<directorVars, watched, wm, res>>

\* The client gives up; the director's handler does not notice.
CallTimeout ==
    /\ "timeout" \in Network
    /\ Doing("put") \/ Doing("event")
    /\ tc.calls # {}
    /\ Done(FALSE)
    /\ UNCHANGED <<directorVars, watched, wm, res>>

-----------------------------------------------------------------------------
(* The other steps of a test                                               *)

\* It finds the configuration and the other pods, or gives up.
NewTestConductor ==
    /\ tc.life = "new"
    /\ \/ tc' = [tc EXCEPT !.life = "waiting"]
       \/ tc' = [tc EXCEPT !.life = "exited", !.code = 1]
    /\ UNCHANGED <<directorVars, watched, wm, res>>

\* It polls until the director has a test plan.
WaitTestDirector ==
    /\ tc.life = "waiting"
    /\ Cached # {}
    /\ tc' = [tc EXCEPT !.life = "running"]
    /\ UNCHANGED <<directorVars, watched, wm, res>>

Parse ==
    /\ Doing("parse")
    /\ \E ok \in BOOLEAN: Done(ok)
    /\ UNCHANGED <<directorVars, watched, wm, res>>

WmLocked == wm # WmIdle

\* AddWorkload and AddNamespaceWorkloads try a call five times.  The latter
\* prints the answer of a failed call, a nil pointer, and panics.
Unanswered ==
    IF Step.arg = "mayastor"
    THEN tc' = [tc EXCEPT !.life = "panicked", !.code = 2]
    ELSE Done(FALSE)

Watch ==
    /\ Doing("watch")
    /\ ~WmLocked
    /\ watched' = watched \cup {Step.arg}
    /\ Done(TRUE) \/ Unanswered
    /\ UNCHANGED <<directorVars, wm, res>>

\* The pod is not found, or no call gets through.
WatchFails ==
    /\ Doing("watch")
    /\ Done(FALSE) \/ Unanswered
    /\ UNCHANGED <<directorVars, watched, wm, res>>

\* Mutant: the monitor does not hold the lock while it calls the director.
MutUnwatchUnlocked ==
    /\ Doing("unwatch")
    /\ watched' = IF Step.arg = "all" THEN {} ELSE watched \ {Step.arg}
    /\ \E ok \in BOOLEAN: (ok => Step.arg \in watched \cup {"all"}) /\ Done(ok)
    /\ UNCHANGED <<directorVars, wm, res>>

\* tc.DeleteWorkload(s): a pod that is not, or no longer, on the list is an
\* error unless all are deleted.
Unwatch ==
    /\ Doing("unwatch")
    /\ ~WmLocked
    /\ watched' = IF Step.arg = "all" THEN {} ELSE watched \ {Step.arg}
    /\ \E ok \in BOOLEAN: (ok => Step.arg \in watched \cup {"all"}) /\ Done(ok)
    /\ UNCHANGED <<directorVars, wm, res>>

UnwatchFails ==
    /\ Doing("unwatch")
    /\ Done(FALSE)
    /\ UNCHANGED <<directorVars, watched, wm, res>>

\* Storage classes, volumes and pods are created and deleted; after an error
\* (a call that failed, a wait that timed out) the thing may exist or not.
Create ==
    /\ Doing("create")
    /\ \/ Done(TRUE) /\ res' = res \cup {Step.arg}
       \/ Done(FALSE) /\ res' \in {res, res \cup {Step.arg}}
    /\ UNCHANGED <<directorVars, watched, wm>>

Delete ==
    /\ Doing("delete")
    /\ \/ Done(TRUE) /\ res' = res \ {Step.arg}
       \/ Done(FALSE) /\ res' \in {res, res \ {Step.arg}}
    /\ UNCHANGED <<directorVars, watched, wm>>

Working == Doing("monitor") \/ Doing("volumes") \/ Doing("work")

\* The test proper: its duration is over, or it has met an error.
WorkOver ==
    /\ Working
    /\ ~tc.over
    /\ tc' = [tc EXCEPT !.over = TRUE]
    /\ UNCHANGED <<directorVars, watched, wm, res>>

\* Its goroutines have ended.
Work ==
    /\ Working
    /\ tc.over
    /\ tc.calls = {}
    /\ \/ Done(TRUE) /\ UNCHANGED res
       \/ Done(FALSE) /\ \E left \in SUBSET Step.arg: res' = res \cup left
    /\ UNCHANGED <<directorVars, watched, wm>>

\* MonitorCRs finds a faulted volume: a FAIL event, and no error of the test.
\* testVolumes sends one from every goroutine that ends with an error, and
\* these overlap.
WorkEvent ==
    /\ ~tc.over
    /\ \/ Doing("monitor") /\ tc.calls = {}
       \/ Doing("volumes")
    /\ \E h \in Handlers:
          /\ Serve(h, EventFrom("test-conductor", "FAIL", Note))
          /\ tc' = [tc EXCEPT !.calls = @ \cup {h}]
    /\ UNCHANGED <<watched, wm, res>>

\* The answer is only logged; without one the client gives up.
WorkEventEnds ==
    /\ Working
    /\ \E h \in tc.calls:
          /\ At(h, "idle") \/ "timeout" \in Network
          /\ tc' = [tc EXCEPT !.calls = @ \ {h}]
    /\ UNCHANGED <<directorVars, watched, wm, res>>

\* GetTestOutcome: GET of the run, then the conductor's own error.
GetTestOutcome ==
    /\ tc.life = "running"
    /\ tc.pc = Len(Program(tc.test)) + 1
    /\ \E got \in BOOLEAN:
          /\ ~got => "lost" \in Network
          /\ tc' = [tc EXCEPT
                      !.life = "exited",
                      !.code = IF got /\ runs[RunId].status = "PASSED" /\ ~tc.err
                               THEN 0 ELSE 1]
    /\ UNCHANGED <<directorVars, watched, wm, res>>

-----------------------------------------------------------------------------
(* The workload monitor: it sees a violation of a watched pod and, holding *)
(* the lock, sends an event.  A pod whose end was reported is dropped.     *)

WmReport ==
    /\ wm = WmIdle
    /\ \E p \in watched, h \in Handlers:
          /\ Serve(h, EventFrom("workload-monitor", "FAIL", Alarm))
          /\ wm' = [call |-> {h}, pod |-> {p}]
    /\ UNCHANGED <<tc, watched, res>>

WmAnswered ==
    /\ \E h \in wm.call:
          /\ At(h, "idle")
          /\ watched' \in IF handler[h].ok THEN {watched, watched \ wm.pod}
                                           ELSE {watched}
    /\ wm' = WmIdle
    /\ UNCHANGED <<directorVars, tc, res>>

WmTimeout ==
    /\ "timeout" \in Network
    /\ WmLocked
    /\ wm' = WmIdle
    /\ UNCHANGED <<directorVars, tc, watched, res>>

-----------------------------------------------------------------------------
TcStep ==
    \/ NewTestConductor \/ WaitTestDirector \/ Call \/ CallLost \/ Answered \/ CallTimeout
    \/ Parse \/ Watch \/ WatchFails \/ Unwatch \/ UnwatchFails
    \/ Create \/ Delete \/ WorkOver \/ Work \/ WorkEvent \/ WorkEventEnds
    \/ GetTestOutcome

WmStep == WmReport \/ WmAnswered \/ WmTimeout

DirectorStep(h) == HandlerStep(h) /\ UNCHANGED <<tc, watched, wm, res>>

\* A call whose client has given up while the director still serves it.
Orphaned(h) == ~At(h, "idle") /\ h \notin tc.calls \cup wm.call

History ==
    /\ marked' = (marked \/ \E x \in Execs: xray'[x].status = "FAILED")
    /\ gaveUp' = (gaveUp \/ \E h \in Handlers: Orphaned(h)')

NextAll ==
    /\ TcStep \/ WmStep \/ \E h \in Handlers: DirectorStep(h)
    /\ History

SpecAll == InitAll /\ [][NextAll]_allVars

\* Goroutines are scheduled, and the server starts one for every call (it is
\* the model that has a bound on them); a test ends at the end of its duration; XRay
\* answers again and again; the monitor polls for ever, and sees the
\* failed pod of a conductor that has panicked in every pass.
FairSpecAll ==
    /\ SpecAll
    /\ WF_allVars(TcStep /\ History)
    /\ SF_allVars(Call /\ History)
    /\ SF_allVars(WorkOver /\ History)
    /\ WF_allVars((WmAnswered \/ WmTimeout) /\ History)
    /\ SF_allVars(tc.life = "panicked" /\ WmReport /\ History)
    /\ \A h \in Handlers:
          /\ WF_allVars(DirectorStep(h) /\ History)
          /\ SF_allVars(/\ XrayUpdateStatus(h) /\ handler'[h].pc # "idle"
                        /\ UNCHANGED <<tc, watched, wm, res>> /\ History)

-----------------------------------------------------------------------------
(* Properties                                                              *)

\* A test is PASSED, in the director's cache or in XRay, only when it has
\* withdrawn its workloads and has removed everything it made in the
\* cluster: whatever went wrong on the way is an error of the test
\* (RunTests, SendTestRunFinished).
PassedMeansClean ==
    (runs[RunId].status = "PASSED" \/ \E x \in Execs: xray[x].status = "PASSED")
        => res = {} /\ watched = {}

\* A PASSED run stays PASSED in the cache unless a client has given up on a
\* call.  An event stores an old copy of the run, but none is on its way when
\* the verdict is sent: DeleteWorkloads waits for the lock the monitor holds
\* while it calls the director, and testVolumes waits for its goroutines.
PassedIsFinal ==
    [][runs[RunId].status = "PASSED" /\ ~gaveUp
          => runs'[RunId].status = "PASSED"]_allVars

Ended == tc.life \in {"exited", "panicked"}

\* A conductor that has a test plan comes to an end (RunTests).
ConductorEnds == Cached # {} ~> Ended

\* A conductor that panics cannot report: the workload monitor, where it has
\* registered itself first, makes XRay show a failure (AddCommonWorkloads).
PanicReachesXray ==
    tc.life = "panicked" ~> \E x \in Execs: xray[x].status = "FAILED"

\* "return 1 if either the XRay test has been marked as failed, or if the
\* test-conductor has itself found an error or test failure."
OutcomeRespectsXray ==
    tc.life = "exited" /\ tc.code = 0 => ~marked /\ ~tc.err
=============================================================================
