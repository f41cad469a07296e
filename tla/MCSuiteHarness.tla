--------------------------- MODULE MCSuiteHarness ---------------------------
(* Small instances of SuiteHarness.                                        *)
EXTENDS SuiteHarness, TLC

Full == <<"install", "directory", "directory", "uninstall">>

DefaultConfig ==
    [tests |-> Full, failQuick |-> FALSE, restart |-> FALSE, selfTest |-> FALSE,
     grpc |-> TRUE, poolDevice |-> TRUE, cleanup |-> FALSE, callsFail |-> FALSE,
     onFail |-> "stop"]

\* Stop at the first failure, quickly or not; or uninstall after it.
Stops ==
    {[DefaultConfig EXCEPT !.failQuick = q, !.callsFail = f] :
        q \in BOOLEAN, f \in BOOLEAN}
    \cup {[DefaultConfig EXCEPT !.onFail = "uninstall", !.cleanup = TRUE,
                                !.callsFail = TRUE]}

\* In a cluster that has Mayastor: the ways to go on after a failure, and
\* restarts before a test case.
Present == [DefaultConfig EXCEPT !.tests = <<"directory">>]
Repairs ==
    {[Present EXCEPT !.tests = <<"directory", "directory">>, !.cleanup = TRUE,
                     !.onFail = o] :
        o \in {"reinstall", "restart"}}
    \cup {[Present EXCEPT !.onFail = "reinstall", !.callsFail = TRUE],
          [Present EXCEPT !.onFail = "reinstall", !.poolDevice = FALSE]}
Restarts ==
    {[Present EXCEPT !.restart = TRUE, !.failQuick = q, !.callsFail = q] : q \in BOOLEAN}
    \cup {[Present EXCEPT !.restart = TRUE, !.failQuick = TRUE, !.grpc = FALSE,
                          !.selfTest = TRUE],
          [Present EXCEPT !.restart = TRUE, !.failQuick = TRUE, !.poolDevice = FALSE]}

AllConfigs == Stops \cup Repairs \cup Restarts

RestartTool == {[Present EXCEPT !.onFail = "restart"]}

\* Nothing; a deployment with its pod and volume; a claim that is not bound.
SomeDebris == {{}, Kinds, {"pvcs"}}
=============================================================================
