---------------------------- MODULE SuiteHarness ----------------------------
(***************************************************************************)
(* The harness of the Ginkgo suites.  The script e2e-test.sh runs one "go  *)
(* test" process after the other: install, the test directories, uninstall *)
(* and, when a directory has failed, the tools that clean up or restart    *)
(* Mayastor.  In a directory every test case is preceded and followed by a *)
(* check that nothing is left in the cluster.                              *)
(*                                                                         *)
(* A process is a sequence of steps still to do, each with a failure that  *)
(* is noted, or that gives up the function the step belongs to.  Between   *)
(* two steps the cluster moves on its own: what was deleted goes away, and *)
(* with it what depends on it; pods come back.                             *)
(***************************************************************************)
EXTENDS Naturals, Sequences, FiniteSets

CONSTANTS
    Configs,   \* the configurations to run with
    Debris,    \* what a test case may leave in the cluster
    MsPods,    \* the pods of Mayastor, etcd's excepted
    MaxCases   \* bound: test cases in a directory

\* What tests make and should remove again.  Nexuses and NVMe controllers go
\* with "replicas".
Kinds == {"deployments", "pods", "pvcs", "pvs", "msvs", "scs", "usage", "replicas"}

\* e2e_config, the options of the script with its list of tests, and whether
\* calls can fail.
Config ==
    [tests: Seq({"install", "directory", "uninstall"}),
     failQuick: BOOLEAN, restart: BOOLEAN, selfTest: BOOLEAN, grpc: BOOLEAN,
     poolDevice: BOOLEAN, cleanup: BOOLEAN, callsFail: BOOLEAN,
     onFail: {"stop", "uninstall", "reinstall", "restart"}]

ASSUME HarnessAssumption ==
    /\ Configs \subseteq Config
    /\ Debris \subseteq SUBSET Kinds
    /\ IsFiniteSet(MsPods)
    /\ MaxCases \in Nat \ {0}

VARIABLES
    cfg,     \* the configuration
    left,    \* kinds of things that are in the cluster
    doomed,  \* kinds whose deletion has been requested
    ms,      \* the state of each pod of Mayastor
    pools,   \* the pools
    proc,    \* the "go test" process
    script,  \* the script
    passed   \* history: positions of the tests that have passed

vars == <<cfg, left, doomed, ms, pools, proc, script, passed>>
Tests == cfg.tests

Retries == 3  \* restartRetries

-----------------------------------------------------------------------------
(* Steps of a process.  A failure of a Try step is noted or ignored, one   *)
(* of a Must step makes its function return: the process goes on at the    *)
(* next of the marks "expect", "again" and "restored".                     *)

Try(do, arg) == [do |-> do, arg |-> arg, must |-> FALSE]
Must(do, arg) == [do |-> do, arg |-> arg, must |-> TRUE]
Marks == {"expect", "again", "restored"}

\* Mutant: Mayastor volumes are not looked for.
MutResourceCheck(waitForPools) ==
    <<Try("see", "health"), Try("see", "pods"), Try("see", "pvcs"), Try("see", "pvs"),
      Try("see", "scs"), Try("see", "pools"),
      Try("see", IF waitForPools THEN "usage" ELSE "usage-now")>>
    \o IF cfg.grpc THEN <<Try("see", "usage"), Try("see", "replicas")>> ELSE <<>>

\* What resourceCheck looks at, and how: without waiting for the pools a
\* failure to read their usage is not an error.
resourceCheck(waitForPools) ==
    <<Try("see", "health"), Try("see", "pods"), Try("see", "pvcs"), Try("see", "pvs"),
      Try("see", "msvs"), Try("see", "scs"), Try("see", "pools"),
      Try("see", IF waitForPools THEN "usage" ELSE "usage-now")>>
    \o IF cfg.grpc THEN <<Try("see", "usage"), Try("see", "replicas")>> ELSE <<>>

\* DeleteAllMsvs does nothing; the result of DeleteAllPoolFinalizers is not
\* one of CleanUp.
CleanUp ==
    <<Try("delete", "deployments"), Try("delete", "pods"), Try("delete", "pvcs"),
      Try("delete", "pvs"), Try("delete", "scs"), Try("delete", "namespaces"),
      Try("call", "EnsureNodeLabels")>>
    \o IF cfg.grpc THEN <<Try("rmReplicas", "ignore")>> ELSE <<>>

RestartMayastorPods ==
    <<Must("listPods", ""), Must("deletePods", ""), Must("awaitPods", "")>>

restartMayastor ==
    CleanUp \o <<Try("forget", ""), Try("rmPools", "ignore")>>
    \o RestartMayastorPods \o <<Must("ready", "")>>
    \o (IF cfg.poolDevice
        THEN <<Try("rmPools", "ignore"), Must("mkPools", "")>> ELSE <<>>)
    \o <<Must("online", "")>>
    \o IF cfg.grpc THEN <<Must("rmReplicas", "report")>> ELSE <<>>

\* One of the tries of RestartMayastor.
RestartMayastor ==
    restartMayastor \o <<Must("healthy", "")>> \o resourceCheck(TRUE)
    \o <<Try("again", "")>>

\* Mutant: the pools are deleted, not made again.
MutRestoreConfiguredPools ==
    <<Must("call", "DeleteAllPoolFinalizers"), Must("rmPools", "report"),
      Must("destroyPools", ""), Must("online", ""), Try("restored", "")>>

RestoreConfiguredPools ==
    <<Must("call", "DeleteAllPoolFinalizers"), Must("rmPools", "report"),
      Must("destroyPools", ""), Must("mkPools", ""), Must("online", ""),
      Try("restored", "")>>

Case == <<Try("before", ""), Try("it", ""), Try("after", "")>>

TeardownMayastor ==
    <<Must("controlPlane", "")>>
    \o (IF cfg.cleanup
        THEN CleanUp \o <<Try("forget", "")>>
        ELSE <<Must("none", "pods"), Must("none", "pvcs"), Must("none", "pvs"),
               Must("online", "")>>)
    \o <<Must("rmPools", "report"), Must("teardown", "")>>

\* What a process does, by the directory it is started in.
Program(name, cases) ==
    CASE name = "install" -> <<Must("install", ""), Try("expect", "")>>
      [] name = "uninstall" -> TeardownMayastor \o <<Try("expect", "")>>
      [] name = "cleanup" ->
           CleanUp \o <<Try("expect", "")>>
           \o IF cfg.poolDevice
              THEN RestoreConfiguredPools \o <<Try("expect", "")>> ELSE <<>>
      [] name = "restart" -> RestartMayastor \o <<Try("expect", "")>>
      [] name = "directory" -> [i \in 1..(3 * cases) |-> Case[((i - 1) % 3) + 1]]

-----------------------------------------------------------------------------
Absent == [p \in MsPods |-> "absent"]
AllRunning == [p \in MsPods |-> "running"]
PodStates == {"absent", "pending", "running", "renewed", "restarted", "terminating"}

\* No process is running.
NoProc == [name |-> "none"]
Process ==
    [name: {"install", "uninstall", "cleanup", "restart", "directory"},
     todo: Seq([do: STRING, arg: STRING, must: BOOLEAN]),
     err: BOOLEAN,         \* errors noted by the current function
     resourceCheckError: BOOLEAN,
     podCount: Nat,        \* mayastorInitialPodCount
     tries: 1..Retries,    \* of RestartMayastor
     caseFailed: BOOLEAN,
     failed: BOOLEAN,      \* has a test case failed?
     soured: BOOLEAN]      \* history: has an AfterEachCheck found something?

HarnessTypeOK ==
    /\ cfg \in Configs
    /\ left \subseteq Kinds
    /\ doomed \subseteq left
    /\ ms \in [MsPods -> PodStates]
    /\ pools \in {"absent", "offline", "online"}
    /\ proc = NoProc \/ proc \in Process
    /\ script \in [at: 1..(Len(Tests) + 1), failed: BOOLEAN, fix: Seq(STRING),
                   exit: {"none", "ok", "failed", "failed_cluster_ok"}]
    /\ passed \subseteq 1..Len(Tests)

Init ==
    /\ cfg \in Configs
    /\ left = {}
    /\ doomed = {}
    \* A list of tests without "install" is for a cluster that has Mayastor.
    /\ IF \E i \in DOMAIN Tests: Tests[i] = "install"
       THEN ms = Absent /\ pools = "absent"
       ELSE ms = AllRunning /\ pools = "online"
    /\ proc = NoProc
    /\ script = [at |-> 1, failed |-> FALSE, fix |-> <<>>, exit |-> "none"]
    /\ passed = {}

-----------------------------------------------------------------------------
(* The cluster                                                             *)

\* What keeps a thing that has been deleted, or that goes with another.
Held(k) ==
    CASE k = "deployments" -> k \notin doomed
      [] k = "pods" -> k \notin doomed \/ "deployments" \in left
      [] k = "pvcs" -> k \notin doomed \/ "pods" \in left
      [] k = "pvs" -> k \notin doomed /\ "pvcs" \in left
      [] k = "msvs" -> "pvs" \in left
      [] k = "scs" -> TRUE
      [] OTHER -> "msvs" \in left

Vanish(k) ==
    /\ k \in left
    /\ ~Held(k)
    /\ left' = left \ {k}
    /\ doomed' = (doomed \ {k}) \cup
                 IF k = "deployments" THEN {"pods"} \cap left ELSE {}
    /\ UNCHANGED <<cfg, ms, pools, proc, script, passed>>

\* A deleted pod is replaced, a pod's containers may restart at any time.
PodMoves(p) ==
    /\ \/ ms[p] = "terminating" /\ ms' = [ms EXCEPT ![p] = "pending"]
       \/ ms[p] = "pending" /\ ms' = [ms EXCEPT ![p] = "renewed"]
       \/ ms[p] \in {"running", "renewed"} /\ ms' = [ms EXCEPT ![p] = "restarted"]
    /\ UNCHANGED <<cfg, left, doomed, pools, proc, script, passed>>

PoolsMove ==
    /\ \/ pools = "offline" /\ pools' = "online"
       \/ pools = "online" /\ ms # AllRunning /\ pools' = "offline"
    /\ UNCHANGED <<cfg, left, doomed, ms, proc, script, passed>>

-----------------------------------------------------------------------------
(* Steps of a process                                                      *)

Busy == proc # NoProc /\ proc.todo # <<>>
Doing(do) == Busy /\ Head(proc.todo).do = do
Arg == Head(proc.todo).arg

\* The rest of the process when the function of the current step gives up.
Handler ==
    LET rest == Tail(proc.todo)
        first == CHOOSE i \in DOMAIN rest :
                    /\ rest[i].do \in Marks
                    /\ \A j \in 1..(i - 1): rest[j].do \notin Marks
    IN  SubSeq(rest, first, Len(rest))

StepEnds(ok) ==
    proc' = [proc EXCEPT
               !.todo = IF ok \/ ~Head(@).must THEN Tail(@) ELSE Handler,
               !.err = @ \/ ~ok]

\* The results of a call that would succeed.
Results == IF cfg.callsFail THEN {TRUE, FALSE} ELSE {TRUE}

\* What a check can report: claims and volumes are only recognised by their
\* storage class; that there are no pools at all is not noticed.
Sights(k) ==
    CASE k = "health" ->
           {~cfg.selfTest /\ \E p \in MsPods: ms[p] = "restarted"}
           \cup {~cfg.selfTest : p \in {p \in MsPods : ms[p] = "terminating"}}
      [] k \in {"pvcs", "pvs"} -> {{k, "scs"} \subseteq left}
      [] k = "pools" -> {pools = "offline"}
      [] k = "usage-now" -> {"usage" \in left}
      [] OTHER -> {k \in left}

\* A call that fails is an error, but for lists within a loop whose err is
\* another variable, and for the usage of pools that is not waited for.
FailedCall(k) ==
    CASE k = "health" -> {~cfg.selfTest}
      [] k \in {"pods", "pvcs"} -> BOOLEAN
      [] OTHER -> {k # "usage-now"}

Reports(k) == Sights(k) \cup IF cfg.callsFail THEN FailedCall(k) ELSE {}

See ==
    /\ Doing("see")
    /\ \E bad \in Reports(Arg): StepEnds(~bad)
    /\ UNCHANGED <<cfg, left, doomed, ms, pools, script, passed>>

\* The checks of TeardownMayastor only log a call that fails.
SeeNone ==
    /\ Doing("none")
    /\ \E bad \in Sights(Arg) \cup IF cfg.callsFail THEN {FALSE} ELSE {}:
          StepEnds(~bad)
    /\ UNCHANGED <<cfg, left, doomed, ms, pools, script, passed>>

\* CheckTestPodsHealth, whatever SelfTest says.
Healthy ==
    /\ Doing("healthy")
    /\ \E ok \in {~(\E p \in MsPods: ms[p] = "restarted")} \cup
                 {FALSE : p \in {p \in MsPods : cfg.callsFail \/ ms[p] = "terminating"}}:
          StepEnds(ok)
    /\ UNCHANGED <<cfg, left, doomed, ms, pools, script, passed>>

\* A deletion is requested.  A list that fails is noted, a request that
\* fails is not.  Storage classes go at once.
DeleteKind ==
    /\ Doing("delete")
    /\ \/ /\ left' = IF Arg = "scs" THEN left \ {"scs"} ELSE left
          /\ doomed' = doomed \cup
               (left \cap
                CASE Arg = "scs" -> {}
                  [] Arg \in {"pvcs", "pvs"} -> {k \in {Arg} : "scs" \in left}
                  [] Arg = "namespaces" -> {"deployments", "pods", "pvcs"}
                  [] OTHER -> {Arg})
          /\ StepEnds(TRUE)
       \/ /\ cfg.callsFail \/ Arg = "namespaces"
          /\ \E ok \in Results: StepEnds(ok)
          /\ UNCHANGED <<left, doomed>>
    /\ UNCHANGED <<cfg, ms, pools, script, passed>>

Call ==
    /\ Doing("call")
    /\ \E ok \in Results: StepEnds(ok)
    /\ UNCHANGED <<cfg, left, doomed, ms, pools, script, passed>>

-----------------------------------------------------------------------------
(* Mayastor's pods, replicas and pools                                     *)

\* RmNodeReplicas: an error is overwritten by the next replica's success.
RmReplicas ==
    /\ Doing("rmReplicas")
    /\ \/ left' = left \ {"replicas", "usage"} /\ StepEnds(TRUE)
       \/ /\ cfg.callsFail
          /\ \E ok \in {TRUE, Arg = "ignore"}: StepEnds(ok)
          /\ UNCHANGED left
    /\ doomed' = doomed \cap left'
    /\ UNCHANGED <<cfg, ms, pools, script, passed>>

\* The list of pods to delete, and the time: what runs now is old.
ListPods ==
    /\ Doing("listPods")
    /\ \E ok \in Results:
          /\ StepEnds(ok)
          /\ ms' = IF ok THEN [p \in MsPods |-> IF ms[p] = "renewed" THEN "running"
                                                                     ELSE ms[p]]
                         ELSE ms
    /\ UNCHANGED <<cfg, left, doomed, pools, script, passed>>

DeletePods ==
    /\ Doing("deletePods")
    /\ \E kept \in IF cfg.callsFail THEN SUBSET MsPods ELSE {{}}:
          /\ ms' = [p \in MsPods |-> IF p \in kept \/ ms[p] = "absent" THEN ms[p]
                                                                       ELSE "terminating"]
          /\ StepEnds(kept = {})
    /\ UNCHANGED <<cfg, left, doomed, pools, script, passed>>

Renewed == {p \in MsPods : ms[p] \in {"renewed", "restarted"}}

\* Polls until as many new pods run as there were at first, or the time is up.
AwaitPods ==
    /\ Doing("awaitPods")
    /\ \/ Cardinality(Renewed) >= proc.podCount /\ StepEnds(TRUE)
       \/ /\ Cardinality(Renewed) < proc.podCount \/ cfg.callsFail
          /\ StepEnds(FALSE)
    /\ UNCHANGED <<cfg, left, doomed, ms, pools, script, passed>>

\* MayastorReady: the daemon sets still count pods that are terminating.
Ready ==
    /\ Doing("ready")
    /\ \E ok \in BOOLEAN:
          /\ ok => \A p \in MsPods: ms[p] \notin {"absent", "pending"}
          /\ StepEnds(ok)
    /\ UNCHANGED <<cfg, left, doomed, ms, pools, script, passed>>

PoolsGone ==
    /\ pools' = "absent"
    /\ left' = left \ {"usage", "replicas"}
    /\ doomed' = doomed \cap left'

\* DeleteAllPools: without a list of them the pools count as deleted; pools
\* that are not deleted in time are reported.
RmPools ==
    /\ Doing("rmPools")
    /\ \/ PoolsGone /\ StepEnds(TRUE)
       \/ /\ pools # "absent"
          /\ \E ok \in {Arg = "ignore"} \cup IF cfg.callsFail THEN {TRUE} ELSE {}:
                StepEnds(ok)
          /\ UNCHANGED <<left, doomed, pools>>
    /\ UNCHANGED <<cfg, ms, script, passed>>

\* ListPools and DestroyAllPools, with gRPC.
DestroyPools ==
    /\ Doing("destroyPools")
    /\ \/ cfg.grpc /\ PoolsGone /\ StepEnds(TRUE)
       \/ /\ ~cfg.grpc \/ cfg.callsFail
          /\ StepEnds(FALSE)
          /\ UNCHANGED <<left, doomed, pools>>
    /\ UNCHANGED <<cfg, ms, script, passed>>

\* CreateConfiguredPools; a pool that exists cannot be created.
MkPools ==
    /\ Doing("mkPools")
    /\ \E ok \in Results:
          /\ StepEnds(ok /\ pools = "absent" /\ cfg.poolDevice)
          /\ pools' \in IF pools = "absent" /\ cfg.poolDevice
                        THEN {"offline"} \cup (IF ok THEN {} ELSE {"absent"})
                        ELSE {pools}
    /\ UNCHANGED <<cfg, left, doomed, ms, script, passed>>

\* CheckAllMsPoolsAreOnline, repeated until the time is up.
Online ==
    /\ Doing("online")
    /\ \E ok \in Results: StepEnds(ok /\ pools # "offline")
    /\ UNCHANGED <<cfg, left, doomed, ms, pools, script, passed>>

\* CheckAndSetControlPlane; an installation that has failed may lack it.
HasControlPlane ==
    IF ms = Absent THEN {FALSE}
    ELSE IF \E p \in MsPods: ms[p] = "pending" THEN BOOLEAN ELSE {TRUE}

ControlPlane ==
    /\ Doing("controlPlane")
    /\ \E there \in HasControlPlane, ok \in Results: StepEnds(there /\ ok)
    /\ UNCHANGED <<cfg, left, doomed, ms, pools, script, passed>>

\* InstallMayastor: nothing without a pool device; MkNamespace fails when
\* Mayastor is there; after that a failure leaves what has been made so far.
Install ==
    /\ Doing("install")
    /\ \/ /\ ms = Absent /\ cfg.poolDevice
          /\ \/ ms' = AllRunning /\ pools' = "online" /\ StepEnds(TRUE)
             \/ ms' = AllRunning /\ pools' \in {"absent", "offline"} /\ StepEnds(FALSE)
             \/ ms' = [p \in MsPods |-> "pending"] /\ UNCHANGED pools /\ StepEnds(FALSE)
       \/ UNCHANGED <<ms, pools>> /\ StepEnds(FALSE)
    /\ UNCHANGED <<cfg, left, doomed, script, passed>>

\* The rest of TeardownMayastor, which deletes the namespace at the end.
Teardown ==
    /\ Doing("teardown")
    /\ \/ ms' = Absent /\ pools' = "absent" /\ StepEnds(TRUE)
       \/ /\ ms' \in {ms, Absent}
          /\ StepEnds(FALSE)
          /\ UNCHANGED pools
    /\ UNCHANGED <<cfg, left, doomed, script, passed>>

-----------------------------------------------------------------------------
(* Control                                                                 *)

Goto(todo) == [proc EXCEPT !.todo = todo]
Rest == Tail(proc.todo)

\* The result of the function just called is thrown away.
Forget ==
    /\ Doing("forget")
    /\ proc' = [Goto(Rest) EXCEPT !.err = FALSE]
    /\ UNCHANGED <<cfg, left, doomed, ms, pools, script, passed>>

\* Mutant: one try too many.
MutAgain ==
    /\ Doing("again")
    /\ proc' = IF proc.err /\ proc.tries <= Retries
               THEN [Goto(RestartMayastor \o Rest) EXCEPT !.err = FALSE, !.tries = @ + 1]
               ELSE Goto(Rest)
    /\ UNCHANGED <<cfg, left, doomed, ms, pools, script, passed>>

\* The end of a try of RestartMayastor.
Again ==
    /\ Doing("again")
    /\ proc' = IF proc.err /\ proc.tries < Retries
               THEN [Goto(RestartMayastor \o Rest) EXCEPT !.err = FALSE, !.tries = @ + 1]
               ELSE Goto(Rest)
    /\ UNCHANGED <<cfg, left, doomed, ms, pools, script, passed>>

Restored ==
    /\ Doing("restored")
    /\ proc' = Goto(Rest)
    /\ UNCHANGED <<cfg, left, doomed, ms, pools, script, passed>>

\* An assertion of a test.
Expect ==
    /\ Doing("expect")
    /\ proc' = IF proc.err THEN [Goto(<<>>) EXCEPT !.failed = TRUE] ELSE Goto(Rest)
    /\ UNCHANGED <<cfg, left, doomed, ms, pools, script, passed>>

\* What BeforeEachCheck does before it decides: the check, and the restart
\* that may come before.
Check == resourceCheck(FALSE) \o <<Try("checked", "")>>
Revive == RestartMayastor \o RestoreConfiguredPools \o <<Try("forget", "")>> \o Check

FailBefore(p) == [p EXCEPT !.caseFailed = TRUE, !.err = FALSE, !.todo = Tail(Rest)]

BeforeEach ==
    /\ Doing("before")
    /\ LET p == [proc EXCEPT !.caseFailed = FALSE, !.err = FALSE, !.tries = 1] IN
       proc' =
         IF cfg.failQuick /\ p.resourceCheckError THEN FailBefore(p)
         ELSE [p EXCEPT !.todo = (IF ~cfg.restart THEN Check
                                  ELSE IF p.resourceCheckError THEN Revive
                                  ELSE resourceCheck(FALSE) \o <<Try("precheck", "")>>)
                                 \o Rest]
    /\ UNCHANGED <<cfg, left, doomed, ms, pools, script, passed>>

\* Nothing found: the case starts, and the pods are not counted.
Precheck ==
    /\ Doing("precheck")
    /\ proc' = IF proc.err
               THEN [Goto(Revive \o Rest) EXCEPT !.resourceCheckError = TRUE,
                                                 !.err = FALSE]
               ELSE Goto(Rest)
    /\ UNCHANGED <<cfg, left, doomed, ms, pools, script, passed>>

\* The list of pods has those that are terminating and their replacements.
Checked ==
    LET p == [proc EXCEPT !.resourceCheckError = proc.err]
        there == Cardinality({x \in MsPods : ms[x] # "absent"})
        leaving == Cardinality({x \in MsPods : ms[x] = "terminating"})
    IN  /\ Doing("checked")
        /\ IF proc.err THEN proc' = FailBefore(p)
           ELSE \/ \E n \in there..(there + leaving):
                     proc' = [p EXCEPT !.podCount = n, !.todo = Rest]
                \/ cfg.callsFail /\ proc' = FailBefore(p)
        /\ UNCHANGED <<cfg, left, doomed, ms, pools, script, passed>>

Deletable == {"deployments", "pods", "pvcs", "pvs"}
NeedsPools == {"pvs", "msvs", "usage", "replicas"}

\* The test case itself: it may leave things behind, deleted or not, and may
\* fail.
It ==
    /\ Doing("it")
    /\ \E made \in Debris, ok \in BOOLEAN:
          /\ pools = "absent" => made \cap NeedsPools = {}
          /\ left' = left \cup made
          /\ doomed' \in {doomed, doomed \cup (left' \cap Deletable)}
          /\ proc' = [Goto(Rest) EXCEPT !.caseFailed = ~ok, !.err = FALSE]
    /\ UNCHANGED <<cfg, ms, pools, script, passed>>

CaseEnds(p) == [p EXCEPT !.failed = @ \/ p.caseFailed, !.err = FALSE, !.todo = Rest]

\* AfterEachCheck runs after a failed BeforeEachCheck, too.
AfterEach ==
    /\ Doing("after")
    /\ proc' = IF cfg.failQuick /\ proc.resourceCheckError
               THEN CaseEnds([proc EXCEPT !.caseFailed = TRUE])
               ELSE Goto(resourceCheck(TRUE) \o <<Try("rechecked", "")>> \o Rest)
    /\ UNCHANGED <<cfg, left, doomed, ms, pools, script, passed>>

Rechecked ==
    /\ Doing("rechecked")
    /\ proc' = CaseEnds([proc EXCEPT !.resourceCheckError = proc.err,
                                     !.soured = @ \/ proc.err,
                                     !.caseFailed = @ \/ proc.err])
    /\ UNCHANGED <<cfg, left, doomed, ms, pools, script, passed>>

\* go test -timeout, or a panic.
Killed ==
    /\ Busy
    /\ proc' = [proc EXCEPT !.todo = <<>>, !.failed = TRUE]
    /\ UNCHANGED <<cfg, left, doomed, ms, pools, script, passed>>

-----------------------------------------------------------------------------
(* The script                                                              *)

\* A process starts, or fails to set up its environment: SetupTestEnv wants
\* the control plane, SetupTestEnvBasic does not.
runGoTest(name) ==
    /\ \E n \in 1..MaxCases, ready \in BOOLEAN:
          /\ ready /\ name \notin {"install", "uninstall"} => TRUE \in HasControlPlane
          /\ proc' = [name |-> name, todo |-> IF ready THEN Program(name, n) ELSE <<>>,
                      err |-> FALSE, resourceCheckError |-> FALSE, podCount |-> 0,
                      tries |-> 1, caseFailed |-> FALSE, failed |-> ~ready,
                      soured |-> FALSE]
    /\ UNCHANGED <<cfg, left, doomed, ms, pools, script, passed>>

Idle == proc = NoProc /\ script.exit = "none"
Listed(i) == i <= Len(Tests) /\ script.fix = <<>>

Verdict == IF script.failed THEN "failed" ELSE "ok"
Exit(code) == script' = [script EXCEPT !.exit = code] /\ UNCHANGED proc

NextTest ==
    /\ Idle /\ Listed(script.at)
    /\ Tests[script.at] # "uninstall"
    /\ runGoTest(Tests[script.at])

DeferUninstall ==
    /\ Idle /\ Listed(script.at)
    /\ Tests[script.at] = "uninstall"
    /\ script' = [script EXCEPT !.at = @ + 1]
    /\ UNCHANGED <<cfg, left, doomed, ms, pools, proc, passed>>

NextFix ==
    /\ Idle /\ script.fix # <<>>
    /\ runGoTest(Head(script.fix))

Uninstalls == {i \in DOMAIN Tests : Tests[i] = "uninstall"}

\* After the loop: with "stop" a failure ends the script before uninstall.
Finish ==
    /\ Idle /\ script.at = Len(Tests) + 1
    /\ IF Uninstalls = {} \/ (script.failed /\ cfg.onFail = "stop")
       THEN Exit(Verdict) /\ UNCHANGED <<cfg, left, doomed, ms, pools, passed>>
       ELSE runGoTest("uninstall")

Ended == proc # NoProc /\ proc.todo = <<>>

\* Mutant: test_failed is not set.
MutTestEnds ==
    /\ Ended /\ Listed(script.at)
    /\ script' = [script EXCEPT !.at = IF proc.failed THEN Len(Tests) + 1 ELSE @ + 1]
    /\ passed' = IF proc.failed THEN passed ELSE passed \cup {script.at}
    /\ proc' = NoProc
    /\ UNCHANGED <<cfg, left, doomed, ms, pools>>

\* A test of the list has ended.
TestEnds ==
    /\ Ended /\ Listed(script.at)
    /\ script' =
         IF ~proc.failed THEN [script EXCEPT !.at = @ + 1]
         ELSE [script EXCEPT
                 !.failed = TRUE,
                 !.fix = IF proc.name = "install" THEN <<>>
                         ELSE CASE cfg.onFail = "restart" -> <<"restart">>
                                [] cfg.onFail = "reinstall" -> <<"cleanup", "uninstall", "install">>
                                [] OTHER -> <<>>,
                 !.at = IF proc.name = "install" THEN @ + 1
                        ELSE IF cfg.onFail \in {"restart", "reinstall"} THEN @
                        ELSE Len(Tests) + 1]
    /\ passed' = IF proc.failed THEN passed ELSE passed \cup {script.at}
    /\ proc' = NoProc
    /\ UNCHANGED <<cfg, left, doomed, ms, pools>>

\* A repair has ended; that of "cleanup" is not looked at.
FixEnds ==
    /\ Ended /\ script.fix # <<>>
    /\ script' =
         IF proc.failed /\ proc.name # "cleanup" THEN [script EXCEPT !.exit = "failed"]
         ELSE [script EXCEPT !.fix = Tail(@),
                             !.at = IF Len(script.fix) = 1 THEN @ + 1 ELSE @]
    /\ proc' = NoProc
    /\ UNCHANGED <<cfg, left, doomed, ms, pools, passed>>

\* The deferred uninstall has ended.
UninstallEnds ==
    /\ Ended /\ script.fix = <<>> /\ script.at = Len(Tests) + 1
    /\ script' = [script EXCEPT
                    !.failed = @ \/ proc.failed,
                    !.exit = IF proc.failed THEN "failed"
                             ELSE IF script.failed THEN "failed_cluster_ok" ELSE "ok"]
    /\ passed' = IF proc.failed THEN passed ELSE passed \cup Uninstalls
    /\ proc' = NoProc
    /\ UNCHANGED <<cfg, left, doomed, ms, pools>>

-----------------------------------------------------------------------------
ClusterStep ==
    (\E k \in Kinds: Vanish(k)) \/ (\E p \in MsPods: PodMoves(p)) \/ PoolsMove

ProcStep ==
    \/ See \/ SeeNone \/ Healthy \/ DeleteKind \/ Call \/ RmReplicas
    \/ ListPods \/ DeletePods \/ AwaitPods \/ Ready
    \/ RmPools \/ DestroyPools \/ MkPools \/ Online
    \/ ControlPlane \/ Install \/ Teardown
    \/ Forget \/ Again \/ Restored \/ Expect
    \/ BeforeEach \/ Precheck \/ Checked \/ It \/ AfterEach \/ Rechecked
    \/ Killed

ScriptStep ==
    \/ NextTest \/ DeferUninstall \/ NextFix \/ Finish
    \/ TestEnds \/ FixEnds \/ UninstallEnds

Next == ClusterStep \/ ProcStep \/ ScriptStep

Spec == Init /\ [][Next]_vars

-----------------------------------------------------------------------------
(* Properties                                                              *)

\* What resourceCheck cannot miss, even if calls fail; claims and volumes
\* are not among it.
Detected ==
    {"msvs", "scs"} \cup (IF cfg.grpc THEN {"usage", "replicas"} ELSE {})
    \cup (IF cfg.callsFail THEN {} ELSE {"pods", "usage"})

\* A test case starts only in a cluster without pods, Mayastor volumes,
\* storage classes and used pools: after the check, on every path through
\* restart and repair, nothing makes new ones (BeforeEachCheck).
SweptAtStart == Doing("it") => left \cap Detected = {}

\* "All tests have PASSED!": every test of the list was run and has passed,
\* and what the checks can see is gone from the cluster.
PassedMeansSwept ==
    script.exit = "ok" => passed = 1..Len(Tests) /\ left \cap Detected = {}

\* In a cluster that had its pools at first, no restart and no repair that is
\* cut short leaves the next test case without pools, provided that there is a
\* device to make them on, that gRPC works and that calls do not fail
\* (restartMayastor and RestoreConfiguredPools delete the pools and make them
\* again; that there are none is no error for CheckAllMsPoolsAreOnline).
PoolsAtStart ==
    /\ Doing("it") /\ Tests[1] # "install"
    /\ cfg.poolDevice /\ cfg.grpc /\ ~cfg.callsFail
    => pools # "absent"

\* "Wait (with timeout) for all pods to have restarted" (RestartMayastorPods).
RestartWaits ==
    [][Doing("awaitPods") /\ proc' # proc /\ proc'.todo # <<>> /\ Head(proc'.todo).do = "ready"
          => Renewed = MsPods]_vars
=============================================================================
