----------------------------- MODULE Workloads -----------------------------
(***************************************************************************)
(* The helpers of the two test libraries that create, scale, restart and   *)
(* wait for pods and deployments (src/common/k8stest and                   *)
(* src/tools/extended-test-framework/common/k8sclient).                    *)
(*                                                                         *)
(* A helper is a sequence of requests to the API server.  Each request is  *)
(* a step, may fail, and sees the cluster as it is at that moment; between *)
(* two requests pods start, end, are deleted or come back under the same   *)
(* name, and other clients change the objects.  A wait gives up after      *)
(* Rounds polls.  A behaviour is about pods or about one application's     *)
(* deployment and stateful set.                                            *)
(***************************************************************************)
EXTENDS Integers, FiniteSets, Sequences, FiniteSetsExt

CONSTANTS Idle,          \* no call in progress, nothing returned yet
          N,             \* pods are 1..N; a list has them in this order
          Hosts,         \* the nodes pods run on
          Rounds,        \* polls of a wait (timeout / sleep time in the code)
          Attempts,      \* attempts of an update (10 in the code)
          MaxCalls,      \* bound: calls of a behaviour
          MaxWrites      \* bound: changes of the application by other clients

ASSUME NAssumption == N \in Nat \ {0}

VARIABLES part,          \* what the behaviour is about
          pods,          \* the pods
          app,           \* the application's deployment and stateful set
          proc,          \* the call in progress
          res,           \* what the last call returned
          calls, writes  \* counters for the bounds

wvars == <<part, pods, app, proc, res, calls, writes>>

Pods == 1..N

\* Exited: the container ended with exit code 0, the pod's phase is not updated.
Phases == {"Pending", "Running", "Exited", "Succeeded", "Failed"}

AnyHost == CHOOSE h \in Hosts : TRUE
Absent == [phase |-> "none", node |-> AnyHost, term |-> FALSE, new |-> FALSE]
Pod(phase, node, term) == [phase |-> phase, node |-> node, term |-> term, new |-> FALSE]

\* n: how many objects carry the application's label; rv: the resource version.
Object(n) == [n |-> n, rv |-> 0, replicas |-> 1, selector |-> "none"]

WorkloadsInit ==
  /\ pods \in [Pods -> {Absent} \cup {Pod(ph, h, t) : ph \in Phases, h \in Hosts, t \in BOOLEAN}]
  /\ app \in {[dep |-> Object(d), sts |-> Object(s)] : d \in 0..2, s \in 0..1}
  /\ part # "app" => app = [dep |-> Object(1), sts |-> Object(0)]
  /\ part # "pods" => pods = [p \in Pods |-> Absent]
  /\ proc = Idle
  /\ res = Idle
  /\ calls = 0
  /\ writes = 0

-----------------------------------------------------------------------------
(* What the waits look for                                                 *)

Present(ps, p) == ps[p].phase # "none"
Running(ps, p) == ps[p].phase \in {"Running", "Exited"}

\* The pods of a list that the regular expression matches, on the given node.
Matching(c, ps) == {p \in c.match : Present(ps, p) /\ ps[p].node = c.node}

\* The phase of the first of them.
getPodStatus(c, ps) == IF Matching(c, ps) = {} THEN "none" ELSE ps[Min(Matching(c, ps))].phase

\* The phases by node: of two pods on a node the later one's.
GetNodeListForPods(c, ps) ==
  LET listed == {p \in c.match : Present(ps, p)} IN
    [h \in {ps[p].node : p \in listed} |-> ps[Max({p \in listed : ps[p].node = h})].phase]

\* A container that completed counts before the pod's phase says so.
CheckPodContainerCompleted(ps, p) == IF ps[p].phase = "Exited" THEN "Succeeded" ELSE ps[p].phase

RunningPhase == {"Running", "Exited"}

Goal(c, ps) ==
  CASE c.op = "WaitForPodAbsentFromNode"   -> Matching(c, ps) = {}
    [] c.op = "WaitForPodRunningOnNode"    -> getPodStatus(c, ps) \in RunningPhase
    [] c.op = "WaitForPodNotRunningOnNode" -> getPodStatus(c, ps) \notin RunningPhase
    [] c.op = "PodPresentOnNode"           -> Matching(c, ps) # {}
    [] c.op = "IsPodWithLabelsRunning"     -> \E p \in c.match : Running(ps, p)
    [] c.op = "VerifyPodsOnNode"           ->
         LET l == GetNodeListForPods(c, ps) IN DOMAIN l = {c.node} /\ l[c.node] \in RunningPhase
    [] c.op = "WaitPodComplete"            -> CheckPodContainerCompleted(ps, c.pod) = "Succeeded"
    [] c.op \in {"DeletePod", "CheckPodAndDelete"} -> ~Present(ps, c.pod)
    [] c.op = "GetPod"                     -> Present(ps, c.pod)
    [] OTHER                               -> Running(ps, c.pod)

\* The ghosts of a call.  seen: its goal held at some time; always: at all
\* times; kept: the pods that were there all the time without being deleted;
\* stuck: those that were being deleted all the time.
Note(c, ps) ==
  IF c = Idle THEN Idle
  ELSE [c EXCEPT !.seen = @ \/ Goal(c, ps), !.always = @ /\ Goal(c, ps),
                 !.kept = {p \in @ : Present(ps, p) /\ ~ps[p].term},
                 !.stuck = {p \in @ : Present(ps, p) /\ ps[p].term}]

-----------------------------------------------------------------------------
(* The cluster, during a call: what it is like before is in the initial    *)
(* states                                                                  *)

Becomes(p, s) ==
  /\ pods' = [pods EXCEPT ![p] = s]
  /\ proc' = Note(proc, pods')
  /\ UNCHANGED <<part, app, res, calls, writes>>

\* A pod moves on to its next phase.
Advance ==
  /\ part = "pods" /\ proc # Idle
  /\ \E p \in Pods, ph \in Phases :
       /\ <<pods[p].phase, ph>> \in {<<"Pending", "Running">>, <<"Pending", "Failed">>, <<"Running", "Exited">>,
                                     <<"Running", "Failed">>, <<"Exited", "Succeeded">>}
       /\ Becomes(p, [pods[p] EXCEPT !.phase = ph])

\* A pod being deleted is gone.
Vanish ==
  /\ part = "pods" /\ proc # Idle
  /\ \E p \in Pods : pods[p].term /\ Becomes(p, Absent)

\* Another client deletes a pod.
Evict ==
  /\ part = "pods" /\ proc # Idle
  /\ \E p \in Pods : Present(pods, p) /\ ~pods[p].term /\ Becomes(p, [pods[p] EXCEPT !.term = TRUE])

\* A controller creates a pod.  new: its creation time is after the moment a
\* restart noted; within the second the restart then sleeps it may be either.
Recreate ==
  /\ part = "pods" /\ proc # Idle
  /\ \E p \in proc.match, h \in Hosts, new \in BOOLEAN :
       /\ ~Present(pods, p)
       /\ new => proc.op = "RestartMayastorPods" /\ proc.at # "begin"
       /\ proc.op = "RestartMayastorPods" /\ proc.at = "wait" => new
       /\ Becomes(p, [Pod("Pending", h, FALSE) EXCEPT !.new = new])

\* Another client writes the deployment or the stateful set, or one of them
\* comes or goes.
OtherWrites ==
  /\ part = "app" /\ proc # Idle /\ writes < MaxWrites
  /\ \E k \in {"dep", "sts"} :
       \/ app[k].n > 0 /\ app' = [app EXCEPT ![k].replicas = 0, ![k].rv = @ + 1]
       \/ app[k].n > 0 /\ app' = [app EXCEPT ![k].selector = "theirs", ![k].rv = @ + 1]
       \/ app' = [app EXCEPT ![k].n = IF @ = 0 THEN 1 ELSE @ - 1, ![k].rv = @ + 1]
  /\ writes' = writes + 1
  /\ UNCHANGED <<part, pods, proc, res, calls>>

-----------------------------------------------------------------------------
(* Calls and requests                                                      *)

At(op, at) == proc # Idle /\ proc.op = op /\ proc.at = at

Return(c, r) ==
  /\ proc' = Idle
  /\ res' = [op |-> c.op, ret |-> r, i |-> c.i, seen |-> c.seen, always |-> c.always, kept |-> c.kept,
             stuck |-> c.stuck, old |-> c.old, applied |-> c.applied, faulty |-> c.faulty]

Continue(c) == proc' = c /\ UNCHANGED res
Goto(at) == Continue([proc EXCEPT !.at = at])

ReadOnly == UNCHANGED <<part, pods, app, calls, writes>>

\* One more poll, or the end of the wait.
Again(c, timeout) == IF c.i + 1 < Rounds THEN Continue([c EXCEPT !.i = @ + 1]) ELSE Return(c, timeout)

Faulty == [proc EXCEPT !.faulty = TRUE]

\* A poll of the pods: the request fails, which ends some waits and is
\* overlooked by others, or it answers.
Poll(goal, failing, timeout) ==
  /\ \/ IF failing = "return" THEN Return(proc, "error") ELSE Again(Faulty, timeout)
     \/ IF goal THEN Return(proc, "nil") ELSE Again(proc, timeout)
  /\ ReadOnly

-----------------------------------------------------------------------------
(* Waiting for pods                                                        *)

\* Giving up is not reported.
MutWaitForPodAbsentFromNode ==
  /\ At("WaitForPodAbsentFromNode", "begin")
  /\ Poll(Goal(proc, pods), "return", "nil")

WaitForPodAbsentFromNode ==
  /\ At("WaitForPodAbsentFromNode", "begin")
  /\ Poll(Goal(proc, pods), "return", "timeout")

WaitForPodRunningOnNode ==
  /\ At("WaitForPodRunningOnNode", "begin")
  /\ Poll(getPodStatus(proc, pods) \in RunningPhase, "return", "timeout")

\* Only a pod that is not there counts as not running.
MutWaitForPodNotRunningOnNode ==
  /\ At("WaitForPodNotRunningOnNode", "begin")
  /\ Poll(getPodStatus(proc, pods) = "none", "return", "timeout")

WaitForPodNotRunningOnNode ==
  /\ At("WaitForPodNotRunningOnNode", "begin")
  /\ Poll(getPodStatus(proc, pods) \notin RunningPhase, "return", "timeout")

\* Single reads.
PodPresentOnNode ==
  /\ At("PodPresentOnNode", "begin")
  /\ Return(proc, "error") \/ Return(proc, IF Matching(proc, pods) # {} THEN "nil" ELSE "false")
  /\ ReadOnly

IsPodWithLabelsRunning ==
  /\ At("IsPodWithLabelsRunning", "begin")
  /\ Return(proc, "error") \/ Return(proc, IF \E p \in proc.match : Running(pods, p) THEN "nil" ELSE "false")
  /\ ReadOnly

GetPod ==
  /\ At("GetPod", "begin")
  /\ Return(proc, "error") \/ Return(proc, IF Present(pods, proc.pod) THEN "nil" ELSE "false")
  /\ ReadOnly

\* The rounds are not counted.
MutWaitPodRunning ==
  \/ /\ At("WaitPodRunning", "begin")
     /\ Continue(Faulty) \/ (IF Running(pods, proc.pod) THEN Goto("last") ELSE Continue(proc))
     /\ ReadOnly
  \/ /\ At("WaitPodRunning", "last")
     /\ \/ Return(Faulty, "timeout")
        \/ Return(proc, IF Running(pods, proc.pod) THEN "nil" ELSE "timeout")
     /\ ReadOnly

\* A failed read counts as not running.  One more read follows the loop, whether
\* it ended with a running pod or not.
WaitPodRunning ==
  \/ /\ At("WaitPodRunning", "begin")
     /\ LET sleep(c) == IF c.i + 1 < Rounds THEN Continue([c EXCEPT !.i = @ + 1])
                       ELSE Continue([c EXCEPT !.at = "last"]) IN
          \/ sleep(Faulty)
          \/ IF Running(pods, proc.pod) THEN Goto("last") ELSE sleep(proc)
     /\ ReadOnly
  \/ /\ At("WaitPodRunning", "last")
     /\ \/ Return(Faulty, "timeout")
        \/ Return(proc, IF Running(pods, proc.pod) THEN "nil" ELSE "timeout")
     /\ ReadOnly

WaitForPodReady ==
  /\ At("WaitForPodReady", "begin")
  /\ Poll(Running(pods, proc.pod), "return", "timeout")

\* A pod that is not there is an error of the read; a failed one ends the wait.
WaitPodComplete ==
  /\ At("WaitPodComplete", "begin")
  /\ LET phase == CheckPodContainerCompleted(pods, proc.pod) IN
       \/ Return(proc, "error")
       \/ CASE phase = "none"      -> Return(proc, "error")
            [] phase = "Succeeded" -> Return(proc, "nil")
            [] phase = "Failed"    -> Return(proc, "failed")
            [] OTHER               -> Again(proc, "timeout")
  /\ ReadOnly

\* For one label: only the error of the last list is looked at after the loop.
VerifyPodsOnNode ==
  /\ At("VerifyPodsOnNode", "begin")
  /\ \/ Again(Faulty, "error")
     \/ IF Goal(proc, pods) THEN Return(proc, "nil") ELSE Again(proc, "nil")
  /\ ReadOnly

-----------------------------------------------------------------------------
(* Creating and deleting pods                                              *)

\* The pods after a request about one of them.
Write(p, s) == pods' = [pods EXCEPT ![p] = s] /\ UNCHANGED <<part, app, calls, writes>>

Terminating(p) == [pods[p] EXCEPT !.term = TRUE]

\* The pod object itself comes from the pod builder.
CreatePod ==
  /\ proc # Idle /\ proc.at = "begin" /\ proc.op \in {"DeployFio", "DeployStorageTester"}
  /\ \/ Return(proc, "error") /\ ReadOnly
     \/ Present(pods, proc.pod) /\ Return(proc, "error") /\ ReadOnly
     \/ /\ ~Present(pods, proc.pod)
        /\ \E h \in Hosts : Write(proc.pod, Pod("Pending", h, FALSE))
        /\ Continue(Note([proc EXCEPT !.at = "wait"], pods'))

\* There is no look at failed pods.
DeployFio ==
  /\ At("DeployFio", "wait")
  /\ Poll(Running(pods, proc.pod), "retry", "timeout")

\* Two reads per poll; failed reads count as neither running nor failed.
DeployStorageTester ==
  \/ /\ At("DeployStorageTester", "wait")
     /\ \/ Continue([Faulty EXCEPT !.at = "failed"])
        \/ IF Running(pods, proc.pod) THEN Return(proc, "nil") ELSE Goto("failed")
     /\ ReadOnly
  \/ /\ At("DeployStorageTester", "failed")
     /\ \/ Again([Faulty EXCEPT !.at = "wait"], "timeout")
        \/ IF pods[proc.pod].phase = "Failed" THEN Return(proc, "failed")
           ELSE Again([proc EXCEPT !.at = "wait"], "timeout")
     /\ ReadOnly

\* Only a pod that succeeded is deleted.
CheckPodAndDelete ==
  /\ At("CheckPodAndDelete", "begin")
  /\ \/ Return(proc, "error")
     \/ IF pods[proc.pod].phase = "Succeeded" THEN Goto("delete") ELSE Return(proc, "error")
  /\ ReadOnly

\* The deletion, then the wait for the pod to be gone.
DeletePod ==
  \/ /\ proc # Idle /\ <<proc.op, proc.at>> \in {<<"DeletePod", "begin">>, <<"CheckPodAndDelete", "delete">>}
     /\ \/ Return(proc, "error") /\ ReadOnly
        \/ ~Present(pods, proc.pod) /\ Return(proc, "error") /\ ReadOnly
        \/ /\ Present(pods, proc.pod)
           /\ Write(proc.pod, Terminating(proc.pod))
           /\ Continue(Note([proc EXCEPT !.at = "wait"], pods'))
  \/ /\ proc # Idle /\ proc.op \in {"DeletePod", "CheckPodAndDelete"} /\ proc.at = "wait"
     /\ Poll(~Present(pods, proc.pod), "return", "timeout")

\* The deletions follow the list one by one, up to the first that fails.  A pod
\* that has vanished since fails, one that came back under the name is deleted.
ForceDeleteTerminatingPods ==
  \/ /\ At("ForceDeleteTerminatingPods", "begin")
     /\ \/ Return(proc, "error")
        \/ Continue([proc EXCEPT !.at = "delete", !.old = {p \in proc.match : Present(pods, p) /\ pods[p].term}])
     /\ ReadOnly
  \/ /\ At("ForceDeleteTerminatingPods", "delete") /\ proc.old = {}
     /\ Return(proc, "nil") /\ ReadOnly
  \/ /\ At("ForceDeleteTerminatingPods", "delete") /\ proc.old # {}
     /\ LET p == Min(proc.old) IN
          \/ Return(proc, "error") /\ ReadOnly
          \/ Present(pods, p) /\ Write(p, Absent) /\ Continue(Note([proc EXCEPT !.old = @ \ {p}], pods'))

\* Pods that do not run are never listed.
MutListMayastorPods(timestamp) ==
  {p \in Pods : pods[p].phase \in RunningPhase /\ (timestamp => pods[p].new)}

\* With a timestamp only the new pods that run.
listMayastorPods(timestamp) ==
  {p \in Pods : Present(pods, p) /\ (timestamp => pods[p].phase \in RunningPhase /\ pods[p].new)}

\* Every pod of the list is deleted, whatever became of the ones before it.
DeleteAll ==
  /\ At("RestartMayastorPods", "delete") /\ proc.todo # {}
  /\ LET p == Min(proc.todo)
         c == [proc EXCEPT !.todo = @ \ {p}] IN
       \/ Continue([c EXCEPT !.faulty = TRUE]) /\ ReadOnly
       \/ /\ Present(pods, p)
          /\ Write(p, Terminating(p))
          /\ Continue(Note(c, pods'))

\* The list, the deletions, and the wait for as many new pods as were listed.
RestartMayastorPods ==
  \/ /\ At("RestartMayastorPods", "begin")
     /\ \/ Return(proc, "error")
        \/ Continue([proc EXCEPT !.at = "delete", !.old = listMayastorPods(FALSE), !.todo = listMayastorPods(FALSE)])
     /\ ReadOnly
  \/ DeleteAll
  \/ /\ At("RestartMayastorPods", "delete") /\ proc.todo = {}
     /\ IF proc.faulty THEN Return(proc, "error") ELSE Goto("wait")
     /\ ReadOnly
  \/ /\ At("RestartMayastorPods", "wait")
     /\ Poll(Cardinality(listMayastorPods(TRUE)) >= Cardinality(proc.old), "retry", "timeout")

-----------------------------------------------------------------------------
(* Scaling and node selectors                                              *)

\* The deployments, then the stateful sets with the application's label.
SetReplication ==
  \/ /\ At("SetReplication", "begin")
     /\ Return(proc, "error") \/ Continue([proc EXCEPT !.at = "sts", !.old = 1..app.dep.n])
     /\ ReadOnly
  \/ /\ At("SetReplication", "sts")
     /\ \/ Return(proc, "error")
        \/ IF proc.old = {1} THEN Continue([proc EXCEPT !.at = "get", !.obj = "dep"])
           ELSE IF app.sts.n = 1 THEN Continue([proc EXCEPT !.at = "get", !.obj = "sts"])
           ELSE Return(proc, "error")
     /\ ReadOnly

\* Get: the object as it is now, or an error if it is gone.
Get(next) ==
  /\ proc # Idle /\ proc.at = "get"
  /\ \/ Return(proc, "error")
     \/ IF app[proc.obj].n = 0 THEN Return(proc, "error")
        ELSE Continue([proc EXCEPT !.at = next, !.read = app[proc.obj]])
  /\ ReadOnly

\* Update: refused if the object has another resource version by now; the
\* answer to one that was carried out may be lost.
Update(obj, ok(_), failed(_)) ==
  \/ failed(proc) /\ UNCHANGED app
  \/ /\ app[proc.obj].n > 0 /\ app[proc.obj].rv = obj.rv
     /\ app' = [app EXCEPT ![proc.obj] = [obj EXCEPT !.rv = @ + 1, !.n = app[proc.obj].n]]
     /\ LET c == [proc EXCEPT !.applied = TRUE] IN ok(c) \/ failed(c)

\* The object of an earlier attempt is sent, over whatever version there is.
MutUpdateReplicas ==
  /\ At("SetReplication", "update")
  /\ app[proc.obj].n > 0
  /\ app' = [app EXCEPT ![proc.obj] = [proc.read EXCEPT !.replicas = 2, !.rv = app[proc.obj].rv + 1]]
  /\ Return([proc EXCEPT !.applied = TRUE], "nil")
  /\ UNCHANGED <<part, pods, calls, writes>>

\* SetDeploymentReplication and SetStatefulsetReplication.  The err of the loop
\* is its own: when every attempt failed, the one looked at afterwards is nil.
UpdateReplicas ==
  /\ At("SetReplication", "update")
  /\ Update([proc.read EXCEPT !.replicas = 2],
            LAMBDA c : Return(c, "nil"),
            LAMBDA c : IF c.i + 1 < Attempts THEN Continue([c EXCEPT !.i = @ + 1, !.at = "get"])
                       ELSE Return([c EXCEPT !.i = @ + 1], "nil"))
  /\ UNCHANGED <<part, pods, calls, writes>>

SetDeploymentReplication ==
  (At("SetReplication", "get") /\ Get("update")) \/ UpdateReplicas

\* One attempt.
ApplyNodeSelectorToDeployment ==
  \/ At("ApplyNodeSelectorToDeployment", "get") /\ Get("update")
  \/ /\ At("ApplyNodeSelectorToDeployment", "update")
     /\ Update([proc.read EXCEPT !.selector = "ours"],
               LAMBDA c : Return(c, "nil"), LAMBDA c : Return(c, "error"))
     /\ UNCHANGED <<part, pods, calls, writes>>

\* Nothing is sent when the object read has no selector.
RemoveAllNodeSelectorsFromDeployment ==
  \/ At("RemoveAllNodeSelectorsFromDeployment", "get") /\ Get("update")
  \/ /\ At("RemoveAllNodeSelectorsFromDeployment", "update")
     /\ IF proc.read.selector = "none" THEN Return(proc, "nil") /\ UNCHANGED app
        ELSE Update([proc.read EXCEPT !.selector = "none"],
                    LAMBDA c : Return(c, "nil"), LAMBDA c : Return(c, "error"))
     /\ UNCHANGED <<part, pods, calls, writes>>

-----------------------------------------------------------------------------
PodOps ==
  {"WaitForPodAbsentFromNode", "WaitForPodRunningOnNode", "WaitForPodNotRunningOnNode", "PodPresentOnNode",
   "IsPodWithLabelsRunning", "GetPod", "WaitPodRunning", "WaitForPodReady", "WaitPodComplete", "VerifyPodsOnNode",
   "DeployFio", "DeployStorageTester", "DeletePod", "CheckPodAndDelete", "ForceDeleteTerminatingPods",
   "RestartMayastorPods"}
ByPattern == {"WaitForPodAbsentFromNode", "WaitForPodRunningOnNode", "WaitForPodNotRunningOnNode",
              "PodPresentOnNode", "IsPodWithLabelsRunning", "VerifyPodsOnNode", "ForceDeleteTerminatingPods",
              "RestartMayastorPods"}
AppOps == {"SetReplication", "ApplyNodeSelectorToDeployment", "RemoveAllNodeSelectorsFromDeployment"}

\* A call about pod 1, or about the pods that match on one node.
NewCall(op, match) ==
  [op |-> op, at |-> IF op \in AppOps \ {"SetReplication"} THEN "get" ELSE "begin",
   i |-> 0, pod |-> 1, match |-> match, node |-> AnyHost, obj |-> "dep", read |-> app.dep,
   old |-> {}, todo |-> {}, faulty |-> FALSE, applied |-> FALSE, seen |-> FALSE, always |-> TRUE,
   kept |-> {p \in Pods : Present(pods, p) /\ ~pods[p].term},
   stuck |-> {p \in match : Present(pods, p) /\ pods[p].term}]

Begin(c) ==
  /\ proc = Idle /\ calls < MaxCalls
  /\ proc' = c
  /\ calls' = calls + 1
  /\ UNCHANGED <<part, pods, app, res, writes>>

\* Pods that the call does not look at are left out.
CallPods ==
  /\ part = "pods"
  /\ \E op \in PodOps, match \in {{1}, Pods} :
       /\ op \notin ByPattern => match = {1}
       /\ op = "RestartMayastorPods" => match = Pods
       /\ \A p \in Pods \ match : ~Present(pods, p)
       /\ Begin(Note(NewCall(op, match), pods))

CallApp == part = "app" /\ \E op \in AppOps : Begin(Note(NewCall(op, {}), pods))

WorkloadsStep ==
  \/ WaitForPodAbsentFromNode \/ WaitForPodRunningOnNode \/ WaitForPodNotRunningOnNode
  \/ PodPresentOnNode \/ IsPodWithLabelsRunning \/ GetPod
  \/ WaitPodRunning \/ WaitForPodReady \/ WaitPodComplete \/ VerifyPodsOnNode
  \/ CreatePod \/ DeployFio \/ DeployStorageTester \/ CheckPodAndDelete \/ DeletePod
  \/ ForceDeleteTerminatingPods \/ RestartMayastorPods
  \/ SetReplication \/ SetDeploymentReplication
  \/ ApplyNodeSelectorToDeployment \/ RemoveAllNodeSelectorsFromDeployment

WorkloadsNext ==
  Advance \/ Vanish \/ Evict \/ Recreate \/ OtherWrites \/ CallPods \/ CallApp \/ WorkloadsStep

\* The API server answers every request, with what there is or with an error.
WorkloadsSpec ==
  part \in {"pods", "app"} /\ WorkloadsInit /\ [][WorkloadsNext]_wvars /\ WF_wvars(WorkloadsStep)

-----------------------------------------------------------------------------
(* Properties                                                              *)

\* Pods, counters and the rounds of a call are of their kinds and in bounds.
WorkloadsTypeOK ==
  /\ \A p \in Pods : pods[p].phase \in Phases \cup {"none"} /\ pods[p].node \in Hosts
  /\ \A p \in Pods : pods[p].phase = "none" => pods[p] = Absent
  /\ \A k \in {"dep", "sts"} : app[k].n \in 0..2 /\ app[k].replicas \in 0..2
  /\ proc # Idle => proc.i < IF proc.op = "SetReplication" THEN Attempts ELSE Rounds

Waits == PodOps \ {"RestartMayastorPods", "ForceDeleteTerminatingPods", "VerifyPodsOnNode"}

\* A wait that reports success has had its goal at some time during the call:
\* the pod ran, completed, or was off the node.  VerifyPodsOnNode promises
\* nothing of the kind: after the last poll it returns nil all the same.
WaitsAreEarned == res # Idle /\ res.op \in Waits /\ res.ret = "nil" => res.seen

\* A wait only times out if its goal did not hold all the time, or a read failed.
NoFalseTimeout ==
  res # Idle /\ res.op \in Waits /\ res.ret \in {"timeout", "failed", "false"} => res.faulty \/ ~res.always

\* A restart that returns nil has left no pod alone that was there when it
\* began: each was deleted, so the pods that run now are not the old ones.
RestartReplacesAll ==
  res # Idle /\ res.op = "RestartMayastorPods" /\ res.ret = "nil" => res.kept = {}

\* ForceDeleteTerminatingPods returns nil only when none of the pods that were
\* stuck in their deletion when it began is still there.
StuckPodsGone ==
  res # Idle /\ res.op = "ForceDeleteTerminatingPods" /\ res.ret = "nil" => res.stuck = {}

\* Scaling and node selectors: nil means that the update was carried out, that
\* there was nothing to do, or, for scaling, that every attempt failed.
UpdatesReported ==
  res # Idle /\ res.ret = "nil" =>
    /\ res.op = "SetReplication" => res.applied \/ res.i = Attempts
    /\ res.op = "ApplyNodeSelectorToDeployment" => res.applied

\* A helper changes nothing of a deployment or stateful set but what it is for,
\* whatever other clients wrote since it read the object.
OthersChangesKept ==
  [][\A k \in {"dep", "sts"} :
       app'[k] # app[k] /\ writes' = writes =>
         /\ proc.op = "SetReplication" => app'[k].selector = app[k].selector
         /\ proc.op # "SetReplication" => app'[k].replicas = app[k].replicas]_wvars

\* Every helper returns.
HelpersReturn == proc # Idle ~> proc = Idle
=============================================================================
