--------------------------- MODULE K8stestProofs ---------------------------
(***************************************************************************)
(* The library the suites use on Kubernetes: what the results of the pod   *)
(* helpers stand for, for every number of pods, nodes, rounds and calls,   *)
(* and that no error gets lost in a builder of objects.                    *)
(***************************************************************************)
EXTENDS Builders, Workloads, TLAPS

-----------------------------------------------------------------------------
(* Pods and deployments.  The four properties speak of what a call         *)
(* returned; the invariant adds what is true of the call in progress: its  *)
(* ghosts agree with the pods as they are now, and a restart or forced     *)
(* deletion has still to do with the pods on its list, and with no others. *)

CallFields == {"op", "at", "i", "pod", "match", "node", "obj", "read", "old", "todo", "faulty", "applied",
               "seen", "always", "kept", "stuck"}

\* Pods are records, and only the pods of the model.
PodShape ==
  /\ DOMAIN pods = Pods
  /\ \A p \in Pods : DOMAIN pods[p] = {"phase", "node", "term", "new"}

LivePods(ps) == {p \in Pods : Present(ps, p) /\ ~ps[p].term}
DyingPods(ps) == {p \in Pods : Present(ps, p) /\ ps[p].term}

\* The ghosts say of the present what Note takes down.
Ghosts(c, ps) ==
  /\ DOMAIN c = CallFields
  /\ Goal(c, ps) => c.seen
  /\ c.always => Goal(c, ps)
  /\ c.kept \subseteq LivePods(ps)
  /\ c.stuck \subseteq c.match \cap DyingPods(ps)

\* What is left to do covers what must not be left over.
Progress(c) ==
  /\ c.op = "ForceDeleteTerminatingPods" /\ c.at = "delete" => c.stuck \subseteq c.old
  /\ c.op = "RestartMayastorPods" /\ c.at = "delete" => c.faulty \/ c.kept \subseteq c.todo
  /\ c.op = "RestartMayastorPods" /\ c.at = "wait" => c.kept = {}
  /\ c.op = "DeployStorageTester" /\ c.at = "failed" => c.faulty \/ ~c.always

ResultInv == WaitsAreEarned /\ NoFalseTimeout /\ RestartReplacesAll /\ StuckPodsGone

EarnedInv ==
  /\ PodShape
  /\ proc # Idle => Ghosts(proc, pods) /\ Progress(proc)
  /\ ResultInv

-----------------------------------------------------------------------------
(* Goals and ghosts                                                        *)

\* Two calls that differ in nothing a goal or a ghost depends on.
Alike(c, d) ==
  /\ DOMAIN d = CallFields
  /\ d.op = c.op /\ d.match = c.match /\ d.node = c.node /\ d.pod = c.pod
  /\ d.seen = c.seen /\ d.always = c.always /\ d.kept = c.kept /\ d.stuck = c.stuck

LEMMA GoalDependsOn ==
  ASSUME NEW c, NEW d, NEW ps,
         d.op = c.op, d.match = c.match, d.node = c.node, d.pod = c.pod
  PROVE  Goal(d, ps) = Goal(c, ps)
  <1>1. Matching(d, ps) = Matching(c, ps)
    BY DEF Matching
  <1>2. getPodStatus(d, ps) = getPodStatus(c, ps)
    BY <1>1 DEF getPodStatus
  <1>3. GetNodeListForPods(d, ps) = GetNodeListForPods(c, ps)
    BY DEF GetNodeListForPods
  <1> QED BY <1>1, <1>2, <1>3 DEF Goal

LEMMA AlikeGhosts ==
  ASSUME NEW c, NEW d, NEW ps, Ghosts(c, ps), Alike(c, d)
  PROVE  Ghosts(d, ps)
  <1>1. Goal(d, ps) = Goal(c, ps)
    BY GoalDependsOn DEF Alike
  <1> QED BY <1>1 DEF Alike, Ghosts

\* What Note does to a call.
LEMMA NoteFields ==
  ASSUME NEW c, NEW ps, c # Idle, DOMAIN c = CallFields
  PROVE  LET d == Note(c, ps) IN
           /\ DOMAIN d = CallFields
           /\ d.op = c.op /\ d.match = c.match /\ d.node = c.node /\ d.pod = c.pod
           /\ d.at = c.at /\ d.old = c.old /\ d.todo = c.todo /\ d.faulty = c.faulty
           /\ d.seen = (c.seen \/ Goal(c, ps))
           /\ d.always = (c.always /\ Goal(c, ps))
           /\ d.kept = {p \in c.kept : Present(ps, p) /\ ~ps[p].term}
           /\ d.stuck = {p \in c.stuck : Present(ps, p) /\ ps[p].term}
  BY DEF Note, CallFields

LEMMA NoteGhosts ==
  ASSUME NEW c, NEW ps, c # Idle, DOMAIN c = CallFields,
         c.kept \subseteq Pods, c.stuck \subseteq c.match \cap Pods
  PROVE  Ghosts(Note(c, ps), ps)
  <1> DEFINE d == Note(c, ps)
  <1>1. Goal(d, ps) = Goal(c, ps)
    BY NoteFields, GoalDependsOn
  <1>2. (Goal(d, ps) => d.seen) /\ (d.always => Goal(d, ps))
    BY <1>1, NoteFields, Zenon
  <1>3. d.kept \subseteq LivePods(ps) /\ d.stuck \subseteq d.match \cap DyingPods(ps)
    BY NoteFields DEF LivePods, DyingPods
  <1> QED BY <1>2, <1>3, NoteFields DEF Ghosts

-----------------------------------------------------------------------------
(* The ways a step ends                                                    *)

\* When a call may return r.
Earned(c, r) ==
  /\ c.op \in Waits /\ r = "nil" => c.seen
  /\ c.op \in Waits /\ r \in {"timeout", "failed", "false"} => c.faulty \/ ~c.always
  /\ c.op = "RestartMayastorPods" /\ r = "nil" => c.kept = {}
  /\ c.op = "ForceDeleteTerminatingPods" /\ r = "nil" => c.stuck = {}

LEMMA ReturnStep ==
  ASSUME EarnedInv, NEW c, NEW r, Return(c, r), Earned(c, r), UNCHANGED pods
  PROVE  EarnedInv'
  BY DEF EarnedInv, PodShape, ResultInv, WaitsAreEarned, NoFalseTimeout, RestartReplacesAll, StuckPodsGone,
         Return, Earned

LEMMA ResultsKept ==
  ASSUME ResultInv, UNCHANGED res
  PROVE  ResultInv'
  BY DEF ResultInv, WaitsAreEarned, NoFalseTimeout, RestartReplacesAll, StuckPodsGone

LEMMA ContinueStep ==
  ASSUME EarnedInv, proc # Idle, NEW d, Continue(d), Alike(proc, d), Progress(d), UNCHANGED pods
  PROVE  EarnedInv'
  <1>1. Ghosts(d, pods)
    BY AlikeGhosts DEF EarnedInv
  <1> QED BY <1>1, ResultsKept DEF EarnedInv, PodShape, Continue

\* The pods change, and the call takes it down.
LEMMA NoteStep ==
  ASSUME EarnedInv, proc # Idle, NEW d, Alike(proc, d), proc' = Note(d, pods'), UNCHANGED res,
         PodShape', d # Idle => Progress(Note(d, pods'))
  PROVE  EarnedInv'
  <1>1. CASE d = Idle
    <2>1. proc' = Idle
      BY <1>1 DEF Note
    <2> QED BY <2>1, ResultsKept DEF EarnedInv
  <1>2. CASE d # Idle
    <2>1. /\ DOMAIN d = CallFields
          /\ d.kept \subseteq Pods
          /\ d.stuck \subseteq d.match \cap Pods
      BY DEF EarnedInv, Ghosts, Alike, LivePods, DyingPods
    <2>2. Ghosts(proc', pods')
      BY <1>2, <2>1, NoteGhosts
    <2> QED BY <1>2, <2>2, ResultsKept DEF EarnedInv
  <1> QED BY <1>1, <1>2

LEMMA PodShapeKept ==
  ASSUME PodShape, NEW p, NEW s, DOMAIN s = {"phase", "node", "term", "new"},
         pods' = [pods EXCEPT ![p] = s]
  PROVE  PodShape' /\ (p \in Pods => pods'[p] = s)
  BY DEF PodShape

-----------------------------------------------------------------------------
(* Polls                                                                   *)

\* The steps of a wait that is about Goal.
LEMMA PollStep ==
  ASSUME EarnedInv, proc # Idle, proc.op \in Waits, proc.op # "DeployStorageTester",
         NEW goal, goal <=> Goal(proc, pods), NEW failing, Poll(goal, failing, "timeout")
  PROVE  EarnedInv'
  <1>1. Ghosts(proc, pods) /\ Progress(proc) /\ UNCHANGED pods
    BY DEF EarnedInv, Poll, ReadOnly
  <1>2. ASSUME NEW c \in {proc, Faulty}, c.faulty \/ ~c.always, Again(c, "timeout") PROVE EarnedInv'
    <2>1. Alike(proc, c)
      BY <1>1, <1>2 DEF Alike, Faulty, Ghosts, CallFields
    <2>2. CASE c.i + 1 < Rounds
      <3> DEFINE d == [c EXCEPT !.i = @ + 1]
      <3>1. Continue(d)
        BY <1>2, <2>2 DEF Again
      <3>2. Alike(proc, d)
        BY <2>1 DEF Alike, CallFields
      <3>3. Progress(d)
        BY <3>2 DEF Progress, Alike, Waits
      <3> QED BY <1>1, <3>1, <3>2, <3>3, ContinueStep
    <2>3. CASE ~(c.i + 1 < Rounds)
      <3>1. Return(c, "timeout")
        BY <1>2, <2>3 DEF Again
      <3>2. Earned(c, "timeout")
        BY <1>2, <2>1 DEF Earned, Alike, Waits
      <3> QED BY <1>1, <3>1, <3>2, ReturnStep
    <2> QED BY <2>2, <2>3
  <1>3. CASE Return(proc, "error")
    BY <1>1, <1>3, ReturnStep DEF Earned
  <1>4. CASE Again(Faulty, "timeout")
    <2>1. Faulty.faulty
      BY <1>1 DEF Faulty, Ghosts, CallFields
    <2> QED BY <1>2, <1>4, <2>1
  <1>5. CASE goal /\ Return(proc, "nil")
    <2>1. Earned(proc, "nil")
      BY <1>1, <1>5 DEF Earned, Ghosts, Waits
    <2> QED BY <1>1, <1>5, <2>1, ReturnStep
  <1>6. CASE ~goal /\ Again(proc, "timeout")
    BY <1>1, <1>2, <1>6 DEF Ghosts
  <1> QED BY <1>3, <1>4, <1>5, <1>6 DEF Poll

LEMMA WaitStep ==
  ASSUME EarnedInv,
         \/ WaitForPodAbsentFromNode \/ WaitForPodRunningOnNode \/ WaitForPodNotRunningOnNode
         \/ WaitForPodReady \/ DeployFio
  PROVE  EarnedInv'
  <1>1. CASE WaitForPodAbsentFromNode
    BY <1>1, PollStep DEF WaitForPodAbsentFromNode, At, Waits, PodOps
  <1>2. CASE WaitForPodRunningOnNode
    <2>1. At("WaitForPodRunningOnNode", "begin")
      BY <1>2 DEF WaitForPodRunningOnNode
    <2>2. Goal(proc, pods) <=> getPodStatus(proc, pods) \in RunningPhase
      BY <2>1 DEF Goal, At
    <2> QED BY <1>2, <2>1, <2>2, PollStep, Zenon DEF WaitForPodRunningOnNode, At, Waits, PodOps
  <1>3. CASE WaitForPodNotRunningOnNode
    <2>1. At("WaitForPodNotRunningOnNode", "begin")
      BY <1>3 DEF WaitForPodNotRunningOnNode
    <2>2. Goal(proc, pods) <=> getPodStatus(proc, pods) \notin RunningPhase
      BY <2>1 DEF Goal, At
    <2> QED BY <1>3, <2>1, <2>2, PollStep, Zenon DEF WaitForPodNotRunningOnNode, At, Waits, PodOps
  <1>4. CASE WaitForPodReady
    <2>1. At("WaitForPodReady", "begin")
      BY <1>4 DEF WaitForPodReady
    <2>2. Goal(proc, pods) <=> Running(pods, proc.pod)
      BY <2>1 DEF Goal, At
    <2> QED BY <1>4, <2>1, <2>2, PollStep DEF WaitForPodReady, At, Waits, PodOps
  <1>5. CASE DeployFio
    <2>1. At("DeployFio", "wait")
      BY <1>5 DEF DeployFio
    <2>2. Goal(proc, pods) <=> Running(pods, proc.pod)
      BY <2>1 DEF Goal, At
    <2> QED BY <1>5, <2>1, <2>2, PollStep DEF DeployFio, At, Waits, PodOps
  <1> QED BY <1>1, <1>2, <1>3, <1>4, <1>5

\* A single read that answers TRUE or FALSE, or fails.
LEMMA ReadStep ==
  ASSUME EarnedInv, PodPresentOnNode \/ IsPodWithLabelsRunning \/ GetPod
  PROVE  EarnedInv'
  <1>1. PICK op \in {"PodPresentOnNode", "IsPodWithLabelsRunning", "GetPod"} :
          /\ proc # Idle /\ proc.op = op
          /\ Return(proc, "error") \/ Return(proc, IF Goal(proc, pods) THEN "nil" ELSE "false")
          /\ UNCHANGED pods
    <2>1. CASE PodPresentOnNode
      BY <2>1 DEF PodPresentOnNode, At, ReadOnly, Goal
    <2>2. CASE IsPodWithLabelsRunning
      BY <2>2 DEF IsPodWithLabelsRunning, At, ReadOnly, Goal
    <2>3. CASE GetPod
      BY <2>3 DEF GetPod, At, ReadOnly, Goal
    <2> QED BY <2>1, <2>2, <2>3
  <1>2. Ghosts(proc, pods)
    BY <1>1 DEF EarnedInv
  <1>3. Earned(proc, "error") /\ Earned(proc, IF Goal(proc, pods) THEN "nil" ELSE "false")
    BY <1>1, <1>2 DEF Earned, Ghosts
  <1> QED BY <1>1, <1>3, ReturnStep

-----------------------------------------------------------------------------
(* Waits of their own shape                                                *)

LEMMA WaitPodRunningStep ==
  ASSUME EarnedInv, WaitPodRunning
  PROVE  EarnedInv'
  <1>1. /\ proc # Idle /\ proc.op = "WaitPodRunning" /\ UNCHANGED pods
        /\ Ghosts(proc, pods)
        /\ Goal(proc, pods) <=> Running(pods, proc.pod)
    BY DEF WaitPodRunning, At, ReadOnly, EarnedInv, Goal
  <1>2. Alike(proc, proc) /\ Alike(proc, Faulty) /\ Faulty.faulty
    BY <1>1 DEF Alike, Faulty, Ghosts, CallFields
  <1>3. ASSUME NEW c \in {proc, Faulty},
               \/ Continue([c EXCEPT !.i = @ + 1])
               \/ Continue([c EXCEPT !.at = "last"])
        PROVE  EarnedInv'
    <2>1. PICK d \in {[c EXCEPT !.i = @ + 1], [c EXCEPT !.at = "last"]} : Continue(d)
      BY <1>3
    <2>2. Alike(proc, d)
      BY <1>2, <2>1 DEF Alike, CallFields
    <2>3. Progress(d)
      BY <1>1, <2>2 DEF Progress, Alike
    <2> QED BY <1>1, <2>1, <2>2, <2>3, ContinueStep
  <1>4. CASE Return(Faulty, "timeout")
    <2>1. Earned(Faulty, "timeout")
      BY <1>1, <1>2 DEF Earned, Alike
    <2> QED BY <1>1, <1>4, <2>1, ReturnStep
  <1>5. CASE Return(proc, IF Running(pods, proc.pod) THEN "nil" ELSE "timeout")
    <2>1. Earned(proc, IF Running(pods, proc.pod) THEN "nil" ELSE "timeout")
      BY <1>1 DEF Earned, Ghosts
    <2> QED BY <1>1, <1>5, <2>1, ReturnStep
  <1> QED BY <1>3, <1>4, <1>5 DEF WaitPodRunning, Goto

LEMMA WaitPodCompleteStep ==
  ASSUME EarnedInv, WaitPodComplete
  PROVE  EarnedInv'
  <1> DEFINE phase == CheckPodContainerCompleted(pods, proc.pod)
  <1>1. /\ proc # Idle /\ proc.op = "WaitPodComplete" /\ UNCHANGED pods
        /\ Ghosts(proc, pods)
        /\ Goal(proc, pods) <=> phase = "Succeeded"
    BY DEF WaitPodComplete, At, ReadOnly, EarnedInv, Goal
  <1>2. \/ Return(proc, "error")
        \/ phase = "Succeeded" /\ Return(proc, "nil")
        \/ phase # "Succeeded" /\ (Return(proc, "failed") \/ Return(proc, "timeout"))
        \/ Continue([proc EXCEPT !.i = @ + 1])
    BY DEF WaitPodComplete, Again
  <1>3. CASE Continue([proc EXCEPT !.i = @ + 1])
    <2>1. Alike(proc, [proc EXCEPT !.i = @ + 1])
      BY <1>1 DEF Alike, Ghosts, CallFields
    <2>2. Progress([proc EXCEPT !.i = @ + 1])
      BY <1>1, <2>1 DEF Progress, Alike
    <2> QED BY <1>1, <1>3, <2>1, <2>2, ContinueStep
  <1>4. CASE Return(proc, "error")
    BY <1>1, <1>4, ReturnStep DEF Earned
  <1>5. CASE phase = "Succeeded" /\ Return(proc, "nil")
    <2>1. Earned(proc, "nil")
      BY <1>1, <1>5 DEF Earned, Ghosts
    <2> QED BY <1>1, <1>5, <2>1, ReturnStep
  <1>6. CASE phase # "Succeeded" /\ (Return(proc, "failed") \/ Return(proc, "timeout"))
    <2>1. Earned(proc, "failed") /\ Earned(proc, "timeout")
      BY <1>1, <1>6 DEF Earned, Ghosts
    <2> QED BY <1>1, <1>6, <2>1, ReturnStep
  <1> QED BY <1>2, <1>3, <1>4, <1>5, <1>6

\* VerifyPodsOnNode, and the helpers that write the application: whatever they
\* return, the properties do not speak of it.
LEMMA OtherReturn ==
  ASSUME EarnedInv, UNCHANGED pods, NEW c, NEW r, Return(c, r),
         c.op \in {"VerifyPodsOnNode"} \cup AppOps
  PROVE  EarnedInv'
  <1>1. Earned(c, r)
    BY DEF Earned, Waits, PodOps, AppOps
  <1> QED BY <1>1, ReturnStep

LEMMA OtherContinue ==
  ASSUME EarnedInv, proc # Idle, UNCHANGED pods, NEW d, Continue(d), Alike(proc, d),
         proc.op \in {"VerifyPodsOnNode", "WaitPodRunning"} \cup AppOps
  PROVE  EarnedInv'
  <1>1. Progress(d)
    BY DEF Progress, Alike, AppOps
  <1> QED BY <1>1, ContinueStep

LEMMA VerifyPodsStep ==
  ASSUME EarnedInv, VerifyPodsOnNode
  PROVE  EarnedInv'
  <1>1. proc # Idle /\ proc.op = "VerifyPodsOnNode" /\ UNCHANGED pods /\ DOMAIN proc = CallFields
    BY DEF VerifyPodsOnNode, At, ReadOnly, EarnedInv, Ghosts
  <1>2. PICK c \in {proc, Faulty} :
          (\E r \in {"error", "nil"} : Return(c, r)) \/ Continue([c EXCEPT !.i = @ + 1])
    BY DEF VerifyPodsOnNode, Again
  <1>3. c.op = proc.op /\ Alike(proc, [c EXCEPT !.i = @ + 1])
    BY <1>1, <1>2 DEF Alike, Faulty, CallFields
  <1> QED BY <1>1, <1>2, <1>3, OtherReturn, OtherContinue

-----------------------------------------------------------------------------
(* Creating and deleting pods                                              *)

\* A request about pod p that leaves it as s, after which the call goes on as d.
LEMMA WriteStep ==
  ASSUME EarnedInv, proc # Idle, NEW p, NEW s, DOMAIN s = {"phase", "node", "term", "new"},
         Write(p, s), NEW d, Alike(proc, d), Continue(Note(d, pods')),
         d # Idle => Progress(Note(d, pods'))
  PROVE  EarnedInv'
  <1>1. PodShape'
    BY PodShapeKept, Zenon DEF EarnedInv, Write
  <1> QED BY <1>1, NoteStep DEF Continue

\* A call that has neither a list of pods to delete nor found its pod failed.
LEMMA PlainProgress ==
  ASSUME NEW c, NEW ps, c # Idle, DOMAIN c = CallFields, c.at = "wait",
         c.op \notin {"ForceDeleteTerminatingPods", "RestartMayastorPods"}
  PROVE  Progress(Note(c, ps))
  <1> DEFINE d == Note(c, ps)
  <1>1. d.op = c.op /\ d.at = "wait"
    BY NoteFields
  <1> HIDE DEF d
  <1>2. Progress(d)
    BY <1>1 DEF Progress
  <1> QED BY <1>2 DEF d

LEMMA CreatePodStep ==
  ASSUME EarnedInv, CreatePod
  PROVE  EarnedInv'
  <1>1. /\ proc # Idle /\ proc.op \in {"DeployFio", "DeployStorageTester"}
        /\ DOMAIN proc = CallFields
    BY DEF CreatePod, EarnedInv, Ghosts
  <1>2. CASE Return(proc, "error") /\ ReadOnly
    BY <1>1, <1>2, ReturnStep DEF Earned, ReadOnly
  <1>3. CASE /\ \E h \in Hosts : Write(proc.pod, Pod("Pending", h, FALSE))
             /\ Continue(Note([proc EXCEPT !.at = "wait"], pods'))
    <2> DEFINE d == [proc EXCEPT !.at = "wait"]
    <2>1. PICK h \in Hosts : Write(proc.pod, Pod("Pending", h, FALSE))
      BY <1>3, Zenon
    <2>2. DOMAIN Pod("Pending", h, FALSE) = {"phase", "node", "term", "new"}
      BY DEF Pod
    <2>3. Alike(proc, d) /\ d.at = "wait"
      BY <1>1 DEF Alike, CallFields
    <2>4. d # Idle => Progress(Note(d, pods'))
      <3>1. DOMAIN d = CallFields /\ d.op \notin {"ForceDeleteTerminatingPods", "RestartMayastorPods"}
        BY <1>1, <2>3 DEF Alike
      <3> HIDE DEF d
      <3> QED BY <2>3, <3>1, PlainProgress
    <2> QED BY <1>1, <1>3, <2>1, <2>2, <2>3, <2>4, WriteStep, Zenon
  <1> QED BY <1>2, <1>3, Zenon DEF CreatePod

LEMMA StorageTesterStep ==
  ASSUME EarnedInv, DeployStorageTester
  PROVE  EarnedInv'
  <1>1. /\ proc # Idle /\ proc.op = "DeployStorageTester" /\ UNCHANGED pods
        /\ Ghosts(proc, pods) /\ Progress(proc)
        /\ Goal(proc, pods) <=> Running(pods, proc.pod)
    BY DEF DeployStorageTester, At, ReadOnly, EarnedInv, Goal
  <1>2. Alike(proc, Faulty) /\ Faulty.faulty
    BY <1>1 DEF Alike, Faulty, Ghosts, CallFields
  <1>3. ASSUME proc.at = "wait", Continue([Faulty EXCEPT !.at = "failed"]) PROVE EarnedInv'
    <2> DEFINE d == [Faulty EXCEPT !.at = "failed"]
    <2>1. Alike(proc, d) /\ d.faulty
      BY <1>2 DEF Alike, CallFields
    <2>2. Progress(d)
      BY <1>1, <2>1 DEF Progress, Alike
    <2> QED BY <1>1, <1>3, <2>1, <2>2, ContinueStep
  <1>4. ASSUME Return(proc, "nil"), Running(pods, proc.pod) PROVE EarnedInv'
    <2>1. Earned(proc, "nil")
      BY <1>1, <1>4 DEF Earned, Ghosts
    <2> QED BY <1>1, <1>4, <2>1, ReturnStep
  <1>5. ASSUME Goto("failed"), ~Running(pods, proc.pod) PROVE EarnedInv'
    <2> DEFINE d == [proc EXCEPT !.at = "failed"]
    <2>1. Alike(proc, d) /\ ~d.always
      BY <1>1, <1>5 DEF Alike, Ghosts, CallFields
    <2>2. Progress(d)
      BY <1>1, <2>1 DEF Progress, Alike
    <2> QED BY <1>1, <1>5, <2>1, <2>2, ContinueStep DEF Goto
  <1>6. ASSUME proc.at = "failed", NEW c \in {proc, Faulty}, Again([c EXCEPT !.at = "wait"], "timeout")
        PROVE  EarnedInv'
    <2> DEFINE d == [c EXCEPT !.at = "wait"]
               e == [d EXCEPT !.i = @ + 1]
    <2>1. Alike(proc, d) /\ (d.faulty \/ ~d.always) /\ d.at = "wait"
      BY <1>1, <1>2, <1>6 DEF Alike, Progress, Ghosts, CallFields
    <2>2. Alike(proc, e) /\ e.at = "wait"
      BY <2>1 DEF Alike, CallFields
    <2>3. Progress(e) /\ Earned(d, "timeout")
      BY <1>1, <2>1, <2>2 DEF Progress, Earned, Alike
    <2> QED BY <1>1, <1>6, <2>2, <2>3, ContinueStep, ReturnStep DEF Again
  <1>7. ASSUME proc.at = "failed", Return(proc, "failed") PROVE EarnedInv'
    <2>1. Earned(proc, "failed")
      BY <1>1, <1>7 DEF Earned, Progress
    <2> QED BY <1>1, <1>7, <2>1, ReturnStep
  <1> QED BY <1>3, <1>4, <1>5, <1>6, <1>7 DEF DeployStorageTester, At

LEMMA DeletePodStep ==
  ASSUME EarnedInv, DeletePod \/ CheckPodAndDelete
  PROVE  EarnedInv'
  <1>1. /\ proc # Idle /\ proc.op \in {"DeletePod", "CheckPodAndDelete"}
        /\ Ghosts(proc, pods)
        /\ Goal(proc, pods) <=> ~Present(pods, proc.pod)
    BY DEF DeletePod, CheckPodAndDelete, At, EarnedInv, Goal
  <1>2. CASE Return(proc, "error") /\ ReadOnly
    BY <1>1, <1>2, ReturnStep DEF Earned, ReadOnly
  <1>3. CASE Goto("delete") /\ ReadOnly
    <2>1. Alike(proc, [proc EXCEPT !.at = "delete"])
      BY <1>1 DEF Alike, Ghosts, CallFields
    <2>2. Progress([proc EXCEPT !.at = "delete"])
      BY <1>1, <2>1 DEF Progress, Alike
    <2> QED BY <1>1, <1>3, <2>1, <2>2, ContinueStep DEF Goto, ReadOnly
  <1>4. CASE /\ Present(pods, proc.pod)
             /\ Write(proc.pod, Terminating(proc.pod))
             /\ Continue(Note([proc EXCEPT !.at = "wait"], pods'))
    <2> DEFINE d == [proc EXCEPT !.at = "wait"]
    <2>1. Alike(proc, d) /\ d.at = "wait"
      BY <1>1 DEF Alike, Ghosts, CallFields
    <2>2. d # Idle => Progress(Note(d, pods'))
      <3>1. DOMAIN d = CallFields /\ d.op \notin {"ForceDeleteTerminatingPods", "RestartMayastorPods"}
        BY <1>1, <2>1 DEF Alike
      <3> HIDE DEF d
      <3> QED BY <2>1, <3>1, PlainProgress
    <2>3. PodShape'
      <3>1. CASE proc.pod \in Pods
        <4>1. DOMAIN Terminating(proc.pod) = {"phase", "node", "term", "new"}
          BY <3>1 DEF Terminating, EarnedInv, PodShape
        <4> QED BY <1>4, <4>1, PodShapeKept, Zenon DEF EarnedInv, Write
      <3>2. CASE proc.pod \notin Pods
        BY <1>4, <3>2 DEF EarnedInv, PodShape, Write
      <3> QED BY <3>1, <3>2
    <2> QED BY <1>1, <1>4, <2>1, <2>2, <2>3, NoteStep DEF Continue
  <1>5. CASE Poll(~Present(pods, proc.pod), "return", "timeout")
    BY <1>1, <1>5, PollStep, Zenon DEF Waits, PodOps
  <1> QED BY <1>2, <1>3, <1>4, <1>5 DEF DeletePod, CheckPodAndDelete

\* A pod of the list is deleted, so it does not count as stuck any more.
LEMMA ForceDeleteStep ==
  ASSUME EarnedInv, ForceDeleteTerminatingPods
  PROVE  EarnedInv'
  <1>1. /\ proc # Idle /\ proc.op = "ForceDeleteTerminatingPods"
        /\ Ghosts(proc, pods) /\ Progress(proc)
    BY DEF ForceDeleteTerminatingPods, At, EarnedInv
  <1>2. CASE Return(proc, "error") /\ ReadOnly
    BY <1>1, <1>2, ReturnStep DEF Earned, ReadOnly, Waits
  <1>3. CASE Return(proc, "nil") /\ proc.at = "delete" /\ proc.old = {} /\ ReadOnly
    BY <1>1, <1>3, ReturnStep DEF Earned, ReadOnly, Progress, Waits
  <1>4. ASSUME NEW d, Continue(d), ReadOnly,
               d = [proc EXCEPT !.at = "delete", !.old = {p \in proc.match : Present(pods, p) /\ pods[p].term}]
        PROVE  EarnedInv'
    <2>1. /\ Alike(proc, d)
          /\ d.old = {p \in proc.match : Present(pods, p) /\ pods[p].term}
      BY <1>1, <1>4 DEF Alike, Ghosts, CallFields
    <2>2. d.stuck \subseteq d.old
      BY <1>1, <2>1 DEF Alike, Ghosts, DyingPods
    <2>3. Progress(d)
      BY <1>1, <2>1, <2>2 DEF Progress, Alike
    <2> QED BY <1>1, <1>4, <2>1, <2>3, ContinueStep DEF ReadOnly
  <1>5. ASSUME NEW p, proc.at = "delete", Write(p, Absent), NEW d, d = [proc EXCEPT !.old = @ \ {p}],
               Continue(Note(d, pods'))
        PROVE  EarnedInv'
    <2>1. Alike(proc, d) /\ d.at = "delete" /\ d.old = proc.old \ {p}
      BY <1>1, <1>5 DEF Alike, Ghosts, CallFields
    <2>2. DOMAIN Absent = {"phase", "node", "term", "new"} /\ Absent.phase = "none"
      BY DEF Absent
    <2>3. p \in Pods => ~Present(pods', p)
      BY <1>5, <2>2, PodShapeKept, Zenon DEF Write, Present, EarnedInv
    <2>4. ASSUME d # Idle PROVE Progress(Note(d, pods'))
      <3>1. /\ Note(d, pods').op = d.op
            /\ Note(d, pods').old = d.old
            /\ Note(d, pods').stuck = {x \in d.stuck : Present(pods', x) /\ pods'[x].term}
        BY <2>1, <2>4, NoteFields DEF Alike
      <3>2. d.stuck \subseteq proc.old \cap Pods
        BY <1>1, <1>5, <2>1 DEF Progress, Alike, Ghosts, DyingPods
      <3> QED BY <1>1, <2>1, <2>3, <3>1, <3>2 DEF Progress, Alike
    <2> QED BY <1>1, <1>5, <2>1, <2>2, <2>4, WriteStep
  <1> QED BY <1>2, <1>3, <1>4, <1>5, Zenon DEF ForceDeleteTerminatingPods, At

\* A pod of the list is deleted, so it is not kept; one that cannot be deleted
\* makes the restart fail.
LEMMA RestartStep ==
  ASSUME EarnedInv, RestartMayastorPods
  PROVE  EarnedInv'
  <1>1. /\ proc # Idle /\ proc.op = "RestartMayastorPods"
        /\ Ghosts(proc, pods) /\ Progress(proc)
    BY Zenon DEF RestartMayastorPods, DeleteAll, At, EarnedInv
  <1>2. ASSUME NEW c, NEW r, Return(c, r), ReadOnly, c.op = "RestartMayastorPods", r = "nil" => c.kept = {}
        PROVE  EarnedInv'
    <2>1. Earned(c, r)
      BY <1>2 DEF Earned, Waits
    <2> QED BY <1>2, <2>1, ReturnStep DEF ReadOnly
  <1>3. ASSUME NEW d, Continue(d), ReadOnly,
               d = [proc EXCEPT !.at = "delete", !.old = listMayastorPods(FALSE), !.todo = listMayastorPods(FALSE)]
        PROVE  EarnedInv'
    <2>1. Alike(proc, d) /\ d.todo = listMayastorPods(FALSE) /\ d.at = "delete"
      BY <1>1, <1>3 DEF Alike, Ghosts, CallFields
    <2>2. d.kept \subseteq d.todo
      BY <1>1, <2>1 DEF Alike, Ghosts, LivePods, listMayastorPods
    <2>3. Progress(d)
      BY <1>1, <2>1, <2>2, Zenon DEF Progress, Alike
    <2> QED BY <1>1, <1>3, <2>1, <2>3, ContinueStep DEF ReadOnly
  <1>4. ASSUME NEW p, NEW c, c = [proc EXCEPT !.todo = @ \ {p}], proc.at = "delete",
               Continue([c EXCEPT !.faulty = TRUE]), ReadOnly
        PROVE  EarnedInv'
    <2> DEFINE d == [c EXCEPT !.faulty = TRUE]
    <2>1. Alike(proc, d) /\ d.faulty /\ d.at = "delete"
      BY <1>1, <1>4 DEF Alike, Ghosts, CallFields
    <2>2. Progress(d)
      BY <1>1, <2>1 DEF Progress, Alike
    <2> QED BY <1>1, <1>4, <2>1, <2>2, ContinueStep DEF ReadOnly
  <1>5. ASSUME NEW p, NEW d, d = [proc EXCEPT !.todo = @ \ {p}], proc.at = "delete",
               Write(p, Terminating(p)), Continue(Note(d, pods'))
        PROVE  EarnedInv'
    <2>1. Alike(proc, d) /\ d.at = "delete" /\ d.todo = proc.todo \ {p} /\ d.faulty = proc.faulty
      BY <1>1, <1>5 DEF Alike, Ghosts, CallFields
    <2>2. PodShape' /\ (p \in Pods => pods'[p].term)
      BY <1>5 DEF EarnedInv, PodShape, Write, Terminating
    <2>3. ASSUME d # Idle PROVE Progress(Note(d, pods'))
      <3>1. /\ Note(d, pods').op = d.op
            /\ Note(d, pods').at = d.at
            /\ Note(d, pods').todo = d.todo
            /\ Note(d, pods').faulty = d.faulty
            /\ Note(d, pods').kept = {x \in d.kept : Present(pods', x) /\ ~pods'[x].term}
        BY <2>1, <2>3, NoteFields DEF Alike
      <3>2. d.kept \subseteq Pods /\ (d.faulty \/ d.kept \subseteq proc.todo)
        BY <1>1, <1>5, <2>1 DEF Progress, Alike, Ghosts, LivePods
      <3> QED BY <1>1, <2>1, <2>2, <3>1, <3>2 DEF Progress, Alike
    <2> QED BY <1>1, <1>5, <2>1, <2>2, <2>3, NoteStep DEF Continue
  <1>6. ASSUME proc.at = "delete", proc.todo = {}, ~proc.faulty, Goto("wait"), ReadOnly
        PROVE  EarnedInv'
    <2> DEFINE d == [proc EXCEPT !.at = "wait"]
    <2>1. Alike(proc, d) /\ d.at = "wait"
      BY <1>1 DEF Alike, Ghosts, CallFields
    <2>2. d.kept = {}
      BY <1>1, <1>6, <2>1 DEF Progress, Alike
    <2>3. Progress(d)
      BY <1>1, <2>1, <2>2 DEF Progress, Alike
    <2> QED BY <1>1, <1>6, <2>1, <2>3, ContinueStep DEF Goto, ReadOnly
  <1>7. ASSUME proc.at = "wait", NEW c \in {proc, Faulty}, Continue([c EXCEPT !.i = @ + 1]), ReadOnly
        PROVE  EarnedInv'
    <2> DEFINE d == [c EXCEPT !.i = @ + 1]
    <2>1. Alike(proc, d) /\ d.at = "wait"
      BY <1>1, <1>7 DEF Alike, Faulty, Ghosts, CallFields
    <2>2. Progress(d)
      BY <1>1, <1>7, <2>1 DEF Progress, Alike
    <2> QED BY <1>1, <1>7, <2>1, <2>2, ContinueStep DEF ReadOnly
  <1>8. proc.at = "wait" => proc.kept = {}
    BY <1>1 DEF Progress
  <1>9. Faulty.op = proc.op
    BY <1>1 DEF Faulty, Ghosts, CallFields
  <1>10. CASE DeleteAll
    BY <1>4, <1>5, <1>10, Zenon DEF DeleteAll, At
  <1>11. ASSUME NEW goal, proc.at = "wait", Poll(goal, "retry", "timeout") PROVE EarnedInv'
    BY <1>1, <1>2, <1>7, <1>8, <1>9, <1>11 DEF Poll, Again
  <1> QED BY <1>1, <1>2, <1>3, <1>6, <1>10, <1>11, Zenon DEF RestartMayastorPods, At

-----------------------------------------------------------------------------
(* Scaling and node selectors                                              *)

LEMMA AppStep ==
  ASSUME EarnedInv,
         \/ SetReplication \/ SetDeploymentReplication
         \/ ApplyNodeSelectorToDeployment \/ RemoveAllNodeSelectorsFromDeployment
  PROVE  EarnedInv'
  <1>1. /\ proc # Idle /\ proc.op \in AppOps /\ UNCHANGED pods
        /\ DOMAIN proc = CallFields
    BY DEF SetReplication, SetDeploymentReplication, UpdateReplicas, ApplyNodeSelectorToDeployment,
           RemoveAllNodeSelectorsFromDeployment, Get, At, ReadOnly, AppOps, EarnedInv, Ghosts
  <1>2. ASSUME NEW d, Continue(d), Alike(proc, d) PROVE EarnedInv'
    BY <1>1, <1>2, OtherContinue
  <1>3. ASSUME NEW c, NEW r, Return(c, r), c.op = proc.op PROVE EarnedInv'
    BY <1>1, <1>3, OtherReturn
  <1>4. \A next, v : Alike(proc, [proc EXCEPT !.at = next, !.read = v])
    BY <1>1 DEF Alike, CallFields
  <1>5. ASSUME NEW next, Get(next) PROVE EarnedInv'
    BY <1>2, <1>3, <1>4, <1>5, Zenon DEF Get
  <1>6. CASE SetReplication
    <2>1. \A v : /\ Alike(proc, [proc EXCEPT !.at = "sts", !.old = v])
                 /\ Alike(proc, [proc EXCEPT !.at = "get", !.obj = v])
      BY <1>1 DEF Alike, CallFields
    <2> QED BY <1>2, <1>3, <1>6, <2>1, Zenon DEF SetReplication
  <1> DEFINE done == [proc EXCEPT !.applied = TRUE]
  <1>7. done.op = proc.op /\ Alike(proc, done)
    BY <1>1 DEF Alike, CallFields
  <1>8. CASE UpdateReplicas
    <2>1. ASSUME NEW c \in {proc, done} 
          PROVE  /\ Alike(proc, [c EXCEPT !.i = @ + 1, !.at = "get"])
                 /\ [c EXCEPT !.i = @ + 1].op = proc.op
      BY <1>1, <1>7, <2>1 DEF Alike, CallFields
    <2>2. PICK c \in {proc, done} :
            \/ Return(c, "nil")
            \/ Continue([c EXCEPT !.i = @ + 1, !.at = "get"])
            \/ Return([c EXCEPT !.i = @ + 1], "nil")
      BY <1>8 DEF UpdateReplicas, Update
    <2> QED BY <1>2, <1>3, <1>7, <2>1, <2>2, Zenon
  <1>9. CASE SetDeploymentReplication
    BY <1>5, <1>8, <1>9 DEF SetDeploymentReplication
  <1>10. CASE ApplyNodeSelectorToDeployment
    BY <1>3, <1>5, <1>7, <1>10, Zenon DEF ApplyNodeSelectorToDeployment, Update
  <1>11. CASE RemoveAllNodeSelectorsFromDeployment
    BY <1>3, <1>5, <1>7, <1>11, Zenon DEF RemoveAllNodeSelectorsFromDeployment, Update
  <1> QED BY <1>6, <1>9, <1>10, <1>11

-----------------------------------------------------------------------------
(* The cluster and new calls                                               *)

LEMMA ClusterStep ==
  ASSUME EarnedInv, Advance \/ Vanish \/ Evict \/ Recreate
  PROVE  EarnedInv'
  <1>1. proc # Idle /\ Ghosts(proc, pods) /\ Progress(proc) /\ PodShape
    BY Zenon DEF Advance, Vanish, Evict, Recreate, EarnedInv
  <1>2. PICK p, s : Becomes(p, s) /\ (p \in Pods => DOMAIN s = {"phase", "node", "term", "new"})
    <2>1. CASE Advance
      <3>1. PICK p \in Pods, ph \in Phases : Becomes(p, [pods[p] EXCEPT !.phase = ph])
        BY <2>1 DEF Advance
      <3> QED BY <1>1, <3>1 DEF PodShape
    <2>2. CASE Vanish
      BY <2>2 DEF Vanish, Absent
    <2>3. CASE Evict
      <3>1. PICK p \in Pods : Becomes(p, [pods[p] EXCEPT !.term = TRUE])
        BY <2>3, Zenon DEF Evict
      <3> QED BY <1>1, <3>1 DEF PodShape
    <2>4. CASE Recreate
      <3>1. PICK p \in proc.match, h \in Hosts, new \in BOOLEAN :
              Becomes(p, [Pod("Pending", h, FALSE) EXCEPT !.new = new])
        BY <2>4, Zenon DEF Recreate
      <3> QED BY <3>1 DEF Pod
    <2> QED BY <2>1, <2>2, <2>3, <2>4
  <1>3. PodShape'
    BY <1>1, <1>2 DEF PodShape, Becomes
  <1>4. Alike(proc, proc)
    BY <1>1 DEF Alike, Ghosts
  <1>5. Progress(Note(proc, pods'))
    <2>1. /\ Note(proc, pods').op = proc.op
          /\ Note(proc, pods').at = proc.at
          /\ Note(proc, pods').todo = proc.todo
          /\ Note(proc, pods').old = proc.old
          /\ Note(proc, pods').faulty = proc.faulty
      BY <1>1, NoteFields DEF Ghosts
    <2>2. Note(proc, pods').always = (proc.always /\ Goal(proc, pods'))
      BY <1>1, NoteFields DEF Ghosts
    <2>3. /\ Note(proc, pods').kept \subseteq proc.kept
          /\ Note(proc, pods').stuck \subseteq proc.stuck
      BY <1>1, NoteFields DEF Ghosts
    <2> QED BY <1>1, <2>1, <2>2, <2>3, Zenon DEF Progress
  <1> QED BY <1>1, <1>2, <1>3, <1>4, <1>5, NoteStep, Zenon DEF Becomes

LEMMA BeginStep ==
  ASSUME EarnedInv, CallPods \/ CallApp
  PROVE  EarnedInv'
  <1>1. PICK op, match : Begin(Note(NewCall(op, match), pods)) /\ match \subseteq Pods
    BY NAssumption DEF CallPods, CallApp, Pods
  <1> DEFINE c == NewCall(op, match)
  <1>2. PodShape' /\ UNCHANGED <<pods, res>> /\ proc' = Note(c, pods)
    BY <1>1 DEF EarnedInv, PodShape, Begin
  <1>3. CASE c = Idle
    BY <1>2, <1>3, ResultsKept DEF EarnedInv, Note
  <1>4. CASE c # Idle
    <2>1. /\ DOMAIN c = CallFields
          /\ c.kept \subseteq Pods
          /\ c.at \in {"get", "begin"}
          /\ c.match = match
          /\ c.stuck = {p \in match : Present(pods, p) /\ pods[p].term}
      BY DEF NewCall, CallFields
    <2>2. c.stuck \subseteq c.match \cap Pods
      BY <1>1, <2>1
    <2>3. Ghosts(Note(c, pods), pods)
      BY <1>4, <2>1, <2>2, NoteGhosts
    <2>4. Progress(Note(c, pods))
      BY <1>4, <2>1, NoteFields DEF Progress
    <2> QED BY <1>2, <2>3, <2>4, ResultsKept DEF EarnedInv
  <1> QED BY <1>3, <1>4

-----------------------------------------------------------------------------
(* The theorems                                                            *)

LEMMA EarnedInit == WorkloadsInit => EarnedInv
  <1> SUFFICES ASSUME WorkloadsInit PROVE EarnedInv
    OBVIOUS
  <1>1. DOMAIN Absent = {"phase", "node", "term", "new"}
    BY DEF Absent
  <1>2. \A ph, h, t : DOMAIN Pod(ph, h, t) = {"phase", "node", "term", "new"}
    BY DEF Pod
  <1>3. PodShape
    BY <1>1, <1>2 DEF WorkloadsInit, PodShape
  <1> QED BY <1>3 DEF WorkloadsInit, EarnedInv, ResultInv, WaitsAreEarned, NoFalseTimeout,
                      RestartReplacesAll, StuckPodsGone

LEMMA EarnedNext == EarnedInv /\ [WorkloadsNext]_wvars => EarnedInv'
  <1> SUFFICES ASSUME EarnedInv, [WorkloadsNext]_wvars PROVE EarnedInv'
    OBVIOUS
  <1>1. CASE UNCHANGED <<pods, proc, res>>
    <2>1. PodShape' /\ ResultInv'
      BY <1>1, ResultsKept DEF EarnedInv, PodShape
    <2> QED BY <1>1, <2>1 DEF EarnedInv
  <1>2. CASE OtherWrites
    BY <1>1, <1>2 DEF OtherWrites
  <1>3. CASE UNCHANGED wvars
    BY <1>1, <1>3 DEF wvars
  <1>4. CASE WorkloadsStep
    BY <1>4, WaitStep, ReadStep, WaitPodRunningStep, WaitPodCompleteStep, VerifyPodsStep, CreatePodStep,
       StorageTesterStep, DeletePodStep, ForceDeleteStep, RestartStep, AppStep DEF WorkloadsStep
  <1> QED BY <1>2, <1>3, <1>4, ClusterStep, BeginStep DEF WorkloadsNext

LEMMA EarnedAlways == WorkloadsSpec => []EarnedInv
  BY EarnedInit, EarnedNext, PTL DEF WorkloadsSpec

\* WaitsAreEarned: a wait of util_testpods.go, util.go or lib_pods.go that
\* returns nil has seen its goal, whatever the pods did between its polls.
THEOREM WaitsEarned == WorkloadsSpec => []WaitsAreEarned
  <1>1. EarnedInv => WaitsAreEarned
    BY DEF EarnedInv, ResultInv
  <1> QED BY <1>1, EarnedAlways, PTL

\* NoFalseTimeout: a wait that gives up, or calls a pod failed, did not have its
\* goal throughout, or one of its reads failed.
THEOREM TimeoutsGenuine == WorkloadsSpec => []NoFalseTimeout
  <1>1. EarnedInv => NoFalseTimeout
    BY DEF EarnedInv, ResultInv
  <1> QED BY <1>1, EarnedAlways, PTL

\* RestartReplacesAll: RestartMayastorPods returns nil only if it deleted every
\* pod that was there when it began.
THEOREM RestartsComplete == WorkloadsSpec => []RestartReplacesAll
  <1>1. EarnedInv => RestartReplacesAll
    BY DEF EarnedInv, ResultInv
  <1> QED BY <1>1, EarnedAlways, PTL

\* StuckPodsGone: ForceDeleteTerminatingPods returns nil only if none of the pods
\* it found in their deletion is left.
THEOREM ForcedDeletionsComplete == WorkloadsSpec => []StuckPodsGone
  <1>1. EarnedInv => StuckPodsGone
    BY DEF EarnedInv, ResultInv
  <1> QED BY <1>1, EarnedAlways, PTL

-----------------------------------------------------------------------------
(* Updates.  The helpers that write a deployment or a stateful set lose no *)
(* update of another client, for any number of attempts and of changes by  *)
(* others: what a call has read is not newer than the object, and if it    *)
(* has the object's resource version it has the object's fields.           *)

Kinds == {"dep", "sts"}
ObjectFields == {"n", "rv", "replicas", "selector"}

AppShape ==
  /\ DOMAIN app = Kinds
  /\ \A k \in Kinds : DOMAIN app[k] = ObjectFields /\ app[k].rv \in Nat
  /\ writes \in Nat

\* What a call has read, once it is to send it back.
ReadIsCurrentOrOld(c, a) ==
  /\ c.obj \in Kinds
  /\ DOMAIN c.read = ObjectFields
  /\ c.read.rv \in Nat /\ c.read.rv <= a[c.obj].rv
  /\ c.read.rv = a[c.obj].rv =>
       c.read.replicas = a[c.obj].replicas /\ c.read.selector = a[c.obj].selector

CallShape == proc # Idle => DOMAIN proc = CallFields /\ proc.op \in PodOps \cup AppOps /\ proc.obj \in Kinds

VersionInv ==
  /\ AppShape
  /\ CallShape
  /\ proc # Idle /\ proc.op \in AppOps /\ proc.at = "update" => ReadIsCurrentOrOld(proc, app)

\* What OthersChangesKept says of a step.
ChangeKept ==
  \A k \in Kinds :
    app'[k] # app[k] /\ writes' = writes =>
      /\ proc.op = "SetReplication" => app'[k].selector = app[k].selector
      /\ proc.op # "SetReplication" => app'[k].replicas = app[k].replicas

-----------------------------------------------------------------------------
\* The pod helpers do not touch the application.
PodStep ==
  \/ WaitForPodAbsentFromNode \/ WaitForPodRunningOnNode \/ WaitForPodNotRunningOnNode
  \/ PodPresentOnNode \/ IsPodWithLabelsRunning \/ GetPod
  \/ WaitPodRunning \/ WaitForPodReady \/ WaitPodComplete \/ VerifyPodsOnNode
  \/ CreatePod \/ DeployFio \/ DeployStorageTester \/ CheckPodAndDelete \/ DeletePod
  \/ ForceDeleteTerminatingPods \/ RestartMayastorPods

\* A call goes on as the same call, or ends.
Onward == proc' = Idle \/ (DOMAIN proc' = CallFields /\ proc'.op = proc.op /\ proc'.obj = proc.obj)

\* A change of fields that say nothing of which call it is.
Related(c) == DOMAIN c = CallFields /\ c.op = proc.op /\ c.obj = proc.obj

LEMMA NoteRelated ==
  ASSUME NEW c, NEW ps, Related(c)
  PROVE  Note(c, ps) = Idle \/ Related(Note(c, ps))
  BY DEF Note, Related, CallFields

LEMMA OnwardStep ==
  ASSUME NEW c, Related(c), NEW ps, NEW r, Return(c, r) \/ Continue(c) \/ Continue(Note(c, ps))
  PROVE  Onward
  BY NoteRelated DEF Return, Continue, Onward, Related

LEMMA AgainOnward ==
  ASSUME NEW c, Related(c), NEW timeout, Again(c, timeout)
  PROVE  Onward
  <1>1. Related([c EXCEPT !.i = @ + 1])
    BY DEF Related, CallFields
  <1> QED BY <1>1, Zenon DEF Again, Return, Continue, Onward, Related

LEMMA PollOnward ==
  ASSUME DOMAIN proc = CallFields, NEW goal, NEW failing, NEW timeout, Poll(goal, failing, timeout)
  PROVE  Onward
  <1>1. Related(proc) /\ Related(Faulty)
    BY DEF Related, Faulty, CallFields
  <1> QED BY <1>1, AgainOnward DEF Poll, Return, Onward

LEMMA PodStepOnward ==
  ASSUME CallShape, PodStep
  PROVE  /\ proc # Idle /\ proc.op \in PodOps
         /\ UNCHANGED <<app, writes>>
         /\ Onward
  <1>1. proc # Idle /\ proc.op \in PodOps
    BY Zenon DEF PodStep, WaitForPodAbsentFromNode, WaitForPodRunningOnNode, WaitForPodNotRunningOnNode,
           PodPresentOnNode, IsPodWithLabelsRunning, GetPod, WaitPodRunning, WaitForPodReady, WaitPodComplete,
           VerifyPodsOnNode, CreatePod, DeployFio, DeployStorageTester, CheckPodAndDelete, DeletePod,
           ForceDeleteTerminatingPods, RestartMayastorPods, DeleteAll, At, PodOps
  <1>2. DOMAIN proc = CallFields
    BY <1>1 DEF CallShape
  <1>3. Related(proc) /\ Related(Faulty)
    BY <1>2 DEF Related, Faulty, CallFields
  <1>4. \A c, at, v :
          Related(c) => /\ Related([c EXCEPT !.at = at])
                        /\ Related([c EXCEPT !.i = v])
                        /\ Related([c EXCEPT !.todo = v])
                        /\ Related([c EXCEPT !.old = v])
                        /\ Related([c EXCEPT !.faulty = v])
                        /\ Related([c EXCEPT !.at = at, !.old = v])
                        /\ Related([c EXCEPT !.at = at, !.old = v, !.todo = v])
    BY DEF Related, CallFields
  <1>5. CASE \/ WaitForPodAbsentFromNode \/ WaitForPodRunningOnNode \/ WaitForPodNotRunningOnNode
             \/ WaitForPodReady \/ DeployFio
    <2>1. PICK goal, failing : Poll(goal, failing, "timeout")
      BY <1>5 DEF WaitForPodAbsentFromNode, WaitForPodRunningOnNode, WaitForPodNotRunningOnNode,
                  WaitForPodReady, DeployFio
    <2> QED BY <1>1, <1>2, <2>1, PollOnward DEF Poll, ReadOnly
  <1>6. CASE PodPresentOnNode \/ IsPodWithLabelsRunning \/ GetPod
    BY <1>1, <1>6 DEF PodPresentOnNode, IsPodWithLabelsRunning, GetPod, Return, ReadOnly, Onward
  <1>7. CASE WaitPodRunning
    <2>1. UNCHANGED <<app, writes>>
      BY <1>7 DEF WaitPodRunning, ReadOnly
    <2>2. PICK c \in {proc, Faulty} :
            \/ Continue([c EXCEPT !.i = @ + 1]) \/ Continue([c EXCEPT !.at = "last"])
            \/ \E r \in {"nil", "timeout"} : Return(c, r)
      BY <1>7 DEF WaitPodRunning, Goto
    <2> QED BY <1>1, <1>3, <1>4, <2>1, <2>2, OnwardStep, Zenon
  <1>8. CASE WaitPodComplete \/ VerifyPodsOnNode
    <2>1. UNCHANGED <<app, writes>>
      BY <1>8 DEF WaitPodComplete, VerifyPodsOnNode, ReadOnly
    <2>2. PICK c \in {proc, Faulty} :
            (\E r \in {"nil", "failed", "error"} : Return(c, r)) \/ (\E t \in {"nil", "timeout", "error"} : Again(c, t))
      BY <1>8 DEF WaitPodComplete, VerifyPodsOnNode
    <2> QED BY <1>1, <1>3, <2>1, <2>2, OnwardStep, AgainOnward
  <1>9. CASE CreatePod
    <2>1. UNCHANGED <<app, writes>>
      BY <1>9, Zenon DEF CreatePod, ReadOnly, Write
    <2>2. Return(proc, "error") \/ Continue(Note([proc EXCEPT !.at = "wait"], pods'))
      BY <1>9, Zenon DEF CreatePod
    <2> QED BY <1>1, <1>3, <1>4, <2>1, <2>2, OnwardStep, Zenon
  <1>10. CASE DeployStorageTester
    <2>1. UNCHANGED <<app, writes>>
      BY <1>10 DEF DeployStorageTester, ReadOnly
    <2>2. PICK c \in {proc, Faulty} :
            \/ Continue([c EXCEPT !.at = "failed"]) \/ Again([c EXCEPT !.at = "wait"], "timeout")
            \/ \E r \in {"nil", "failed"} : Return(c, r)
      BY <1>10 DEF DeployStorageTester, Goto
    <2> QED BY <1>1, <1>3, <1>4, <2>1, <2>2, OnwardStep, AgainOnward, Zenon
  <1>11. CASE CheckPodAndDelete \/ DeletePod
    <2>1. UNCHANGED <<app, writes>>
      BY <1>11 DEF CheckPodAndDelete, DeletePod, ReadOnly, Write, Poll
    <2>2. \/ Return(proc, "error") \/ Continue([proc EXCEPT !.at = "delete"])
          \/ Continue(Note([proc EXCEPT !.at = "wait"], pods'))
          \/ Poll(~Present(pods, proc.pod), "return", "timeout")
      BY <1>11 DEF CheckPodAndDelete, DeletePod, Goto
    <2> QED BY <1>1, <1>2, <1>3, <1>4, <2>1, <2>2, OnwardStep, PollOnward, Zenon
  <1>12. CASE ForceDeleteTerminatingPods
    <2>1. UNCHANGED <<app, writes>>
      BY <1>12 DEF ForceDeleteTerminatingPods, ReadOnly, Write
    <2>2. \/ \E r \in {"nil", "error"} : Return(proc, r)
          \/ \E v : Continue([proc EXCEPT !.at = "delete", !.old = v])
          \/ \E v : Continue(Note([proc EXCEPT !.old = v], pods'))
      BY <1>12, Zenon DEF ForceDeleteTerminatingPods
    <2> QED BY <1>1, <1>3, <1>4, <2>1, <2>2, OnwardStep, Zenon
  <1>13. CASE RestartMayastorPods
    <2>1. UNCHANGED <<app, writes>>
      BY <1>13, Zenon DEF RestartMayastorPods, DeleteAll, ReadOnly, Write, Poll
    <2>2. CASE DeleteAll
      <3>1. PICK c : Related(c) /\ (Continue([c EXCEPT !.faulty = TRUE]) \/ Continue(Note(c, pods')))
        <4> DEFINE c == [proc EXCEPT !.todo = @ \ {Min(proc.todo)}]
        <4>1. Related(c)
          BY <1>3, <1>4, Zenon
        <4> QED BY <2>2, <4>1, Zenon DEF DeleteAll
      <3> QED BY <1>1, <1>4, <2>1, <3>1, OnwardStep, Zenon
    <2>3. CASE ~DeleteAll
      <3>1. \/ \E r \in {"nil", "error"} : Return(proc, r)
            \/ \E v : Continue([proc EXCEPT !.at = "delete", !.old = v, !.todo = v])
            \/ Continue([proc EXCEPT !.at = "wait"])
            \/ \E goal : Poll(goal, "retry", "timeout")
        BY <1>13, <2>3, Zenon DEF RestartMayastorPods, Goto
      <3> QED BY <1>1, <1>2, <1>3, <1>4, <2>1, <3>1, OnwardStep, PollOnward, Zenon
    <2> QED BY <2>2, <2>3
  <1> QED BY <1>5, <1>6, <1>7, <1>8, <1>9, <1>10, <1>11, <1>12, <1>13 DEF PodStep

-----------------------------------------------------------------------------
(* Reads and writes of the application                                     *)

\* A step that leaves the application alone and does not come to a write.
LEMMA CalmStep ==
  ASSUME VersionInv, proc # Idle, UNCHANGED <<app, writes>>, Onward,
         proc' # Idle /\ proc.op \in AppOps => proc'.at # "update"
  PROVE  VersionInv'
  <1>1. AppShape'
    BY DEF VersionInv, AppShape
  <1> QED BY <1>1 DEF VersionInv, CallShape, Onward

\* The object as it is now is read.
LEMMA GetStep ==
  ASSUME VersionInv, NEW next, Get(next), proc.op \in AppOps
  PROVE  VersionInv' /\ UNCHANGED <<app, writes>>
  <1>1. proc # Idle /\ UNCHANGED <<app, writes>> /\ CallShape /\ AppShape
    BY DEF Get, ReadOnly, VersionInv
  <1>2. CASE Return(proc, "error")
    BY <1>1, <1>2, CalmStep DEF Return, Onward
  <1>3. CASE Continue([proc EXCEPT !.at = next, !.read = app[proc.obj]])
    <2> DEFINE d == [proc EXCEPT !.at = next, !.read = app[proc.obj]]
    <2>1. Related(d) /\ d.read = app[proc.obj]
      BY <1>1 DEF Related, CallShape, CallFields
    <2>2. ReadIsCurrentOrOld(d, app)
      BY <1>1, <2>1 DEF ReadIsCurrentOrOld, Related, CallShape, AppShape
    <2>3. AppShape'
      BY <1>1 DEF AppShape
    <2>4. proc' = d
      BY <1>3 DEF Continue
    <2>5. CallShape'
      BY <1>1, <2>1, <2>4 DEF CallShape, Related
    <2>6. ReadIsCurrentOrOld(proc', app')
      BY <1>1, <2>2, <2>4
    <2> QED BY <1>1, <2>3, <2>5, <2>6 DEF VersionInv
  <1> QED BY <1>1, <1>2, <1>3 DEF Get

\* An object is written over the version it was read in, so all it changes is
\* what the helper changed in it.
LEMMA WrittenOver ==
  ASSUME VersionInv, proc # Idle, proc.op \in AppOps, proc.at = "update", UNCHANGED writes,
         NEW obj, DOMAIN obj = ObjectFields, obj.rv = proc.read.rv,
         app[proc.obj].rv = obj.rv,
         app' = [app EXCEPT ![proc.obj] = [obj EXCEPT !.rv = @ + 1, !.n = app[proc.obj].n]],
         Onward, proc' # Idle => proc'.at # "update",
         proc.op = "SetReplication" => obj.selector = proc.read.selector,
         proc.op # "SetReplication" => obj.replicas = proc.read.replicas
  PROVE  VersionInv' /\ ChangeKept
  <1>1. AppShape /\ CallShape /\ ReadIsCurrentOrOld(proc, app)
    BY DEF VersionInv
  <1> DEFINE k == proc.obj
             new == [obj EXCEPT !.rv = @ + 1, !.n = app[proc.obj].n]
  <1>2. /\ DOMAIN new = ObjectFields
        /\ new.rv = obj.rv + 1
        /\ new.selector = obj.selector /\ new.replicas = obj.replicas
    BY DEF ObjectFields
  <1>3. k \in Kinds /\ app'[k] = new /\ (\A j \in Kinds \ {k} : app'[j] = app[j]) /\ DOMAIN app' = Kinds
    BY <1>1, Zenon DEF ReadIsCurrentOrOld, AppShape
  <1>4. AppShape'
    BY <1>1, <1>2, <1>3 DEF AppShape, ReadIsCurrentOrOld
  <1>5. CallShape'
    BY <1>1 DEF CallShape, Onward
  <1>6. ChangeKept
    BY <1>1, <1>2, <1>3 DEF ChangeKept, ReadIsCurrentOrOld
  <1> QED BY <1>4, <1>5, <1>6 DEF VersionInv

LEMMA UpdateStep ==
  ASSUME VersionInv,
         UpdateReplicas \/ (ApplyNodeSelectorToDeployment /\ proc.at = "update")
         \/ (RemoveAllNodeSelectorsFromDeployment /\ proc.at = "update")
  PROVE  VersionInv' /\ ChangeKept
  <1>1. /\ proc # Idle /\ proc.op \in AppOps /\ proc.at = "update"
        /\ UNCHANGED writes
        /\ AppShape /\ CallShape /\ ReadIsCurrentOrOld(proc, app)
    BY DEF UpdateReplicas, ApplyNodeSelectorToDeployment, RemoveAllNodeSelectorsFromDeployment, At, AppOps,
           Get, VersionInv
  <1> DEFINE done == [proc EXCEPT !.applied = TRUE]
             written == IF proc.op = "SetReplication" THEN [proc.read EXCEPT !.replicas = 2]
                        ELSE IF proc.op = "ApplyNodeSelectorToDeployment" THEN [proc.read EXCEPT !.selector = "ours"]
                        ELSE [proc.read EXCEPT !.selector = "none"]
             next(c) == \/ \E r \in {"nil", "error"} : Return(c, r) \/ Return([c EXCEPT !.i = @ + 1], r)
                        \/ Continue([c EXCEPT !.i = @ + 1, !.at = "get"])
  <1>2. \/ next(proc) /\ UNCHANGED app
        \/ /\ app[proc.obj].rv = written.rv
           /\ app' = [app EXCEPT ![proc.obj] = [written EXCEPT !.rv = @ + 1, !.n = app[proc.obj].n]]
           /\ next(done)
    <2>1. CASE UpdateReplicas
      BY <2>1 DEF UpdateReplicas, Update, At
    <2>2. CASE ApplyNodeSelectorToDeployment /\ proc.at = "update"
      BY <2>2, Zenon DEF ApplyNodeSelectorToDeployment, Update, At
    <2>3. CASE RemoveAllNodeSelectorsFromDeployment /\ proc.at = "update"
      BY <2>3, Zenon DEF RemoveAllNodeSelectorsFromDeployment, Update, At
    <2> QED BY <2>1, <2>2, <2>3
  <1>3. ASSUME NEW c \in {proc, done}, next(c)
        PROVE  Onward /\ (proc' # Idle => proc'.at # "update")
    <2>1. Related(c)
      BY <1>1 DEF Related, CallShape, CallFields
    <2>2. Related([c EXCEPT !.i = @ + 1, !.at = "get"]) /\ [c EXCEPT !.i = @ + 1, !.at = "get"].at = "get"
      BY <2>1 DEF Related, CallFields
    <2> QED BY <1>3, <2>2, Zenon DEF Return, Continue, Onward, Related
  <1>4. /\ DOMAIN written = ObjectFields /\ written.rv = proc.read.rv
        /\ proc.op = "SetReplication" => written.selector = proc.read.selector
        /\ proc.op # "SetReplication" => written.replicas = proc.read.replicas
    BY <1>1 DEF ReadIsCurrentOrOld, ObjectFields
  <1>5. CASE next(proc) /\ UNCHANGED app
    BY <1>1, <1>3, <1>5, CalmStep DEF ChangeKept
  <1>6. CASE /\ app[proc.obj].rv = written.rv
             /\ app' = [app EXCEPT ![proc.obj] = [written EXCEPT !.rv = @ + 1, !.n = app[proc.obj].n]]
             /\ next(done)
    <2>1. Onward /\ (proc' # Idle => proc'.at # "update")
      BY <1>3, <1>6
    <2> HIDE DEF written, done, next
    <2> QED BY <1>1, <1>4, <1>6, <2>1, WrittenOver, Zenon
  <1> QED BY <1>2, <1>5, <1>6

LEMMA AppStepVersion ==
  ASSUME VersionInv,
         \/ SetReplication \/ SetDeploymentReplication
         \/ ApplyNodeSelectorToDeployment \/ RemoveAllNodeSelectorsFromDeployment
  PROVE  VersionInv' /\ ChangeKept
  <1>1. ASSUME UNCHANGED <<app, writes>> PROVE ChangeKept
    BY <1>1 DEF ChangeKept
  <1>2. CASE SetReplication
    <2>1. proc # Idle /\ UNCHANGED <<app, writes>> /\ CallShape
      BY <1>2 DEF SetReplication, At, ReadOnly, VersionInv
    <2>2. \A v : /\ Related([proc EXCEPT !.at = "sts", !.old = v])
                 /\ [proc EXCEPT !.at = "sts", !.old = v].at = "sts"
      BY <2>1 DEF Related, CallShape, CallFields
    <2>3. \A k \in Kinds : /\ DOMAIN [proc EXCEPT !.at = "get", !.obj = k] = CallFields
                           /\ [proc EXCEPT !.at = "get", !.obj = k].op = proc.op
                           /\ [proc EXCEPT !.at = "get", !.obj = k].obj = k
                           /\ [proc EXCEPT !.at = "get", !.obj = k].at = "get"
      BY <2>1 DEF CallShape, CallFields
    <2>4. \/ proc' = Idle
          \/ \E v : proc' = [proc EXCEPT !.at = "sts", !.old = v]
          \/ \E k \in Kinds : proc' = [proc EXCEPT !.at = "get", !.obj = k]
      BY <1>2, Zenon DEF SetReplication, Return, Continue, Kinds
    <2>5. AppShape'
      BY <2>1 DEF VersionInv, AppShape
    <2>6. CallShape' /\ (proc' # Idle => proc'.at # "update")
      <3>1. ASSUME NEW v, proc' = [proc EXCEPT !.at = "sts", !.old = v]
            PROVE  Related(proc') /\ proc'.at = "sts"
        BY <2>2, <3>1, Zenon
      <3>2. ASSUME NEW k \in Kinds, proc' = [proc EXCEPT !.at = "get", !.obj = k]
            PROVE  DOMAIN proc' = CallFields /\ proc'.op = proc.op /\ proc'.obj \in Kinds /\ proc'.at = "get"
        BY <2>3, <3>2
      <3> QED BY <2>1, <2>4, <3>1, <3>2, Zenon DEF CallShape, Related
    <2> QED BY <1>1, <2>1, <2>5, <2>6 DEF VersionInv
  <1>3. ASSUME NEW next, Get(next), proc.op \in AppOps PROVE VersionInv' /\ ChangeKept
    BY <1>1, <1>3, GetStep
  <1>4. CASE SetDeploymentReplication
    BY <1>3, <1>4, UpdateStep DEF SetDeploymentReplication, At, AppOps
  <1>5. CASE ApplyNodeSelectorToDeployment
    <2>1. CASE At("ApplyNodeSelectorToDeployment", "get")
      BY <1>3, <1>5, <2>1 DEF ApplyNodeSelectorToDeployment, At, AppOps
    <2>2. CASE At("ApplyNodeSelectorToDeployment", "update")
      BY <1>5, <2>2, UpdateStep DEF At
    <2> QED BY <1>5, <2>1, <2>2 DEF ApplyNodeSelectorToDeployment
  <1>6. CASE RemoveAllNodeSelectorsFromDeployment
    <2>1. CASE At("RemoveAllNodeSelectorsFromDeployment", "get")
      BY <1>3, <1>6, <2>1 DEF RemoveAllNodeSelectorsFromDeployment, At, AppOps
    <2>2. CASE At("RemoveAllNodeSelectorsFromDeployment", "update")
      BY <1>6, <2>2, UpdateStep DEF At
    <2> QED BY <1>6, <2>1, <2>2 DEF RemoveAllNodeSelectorsFromDeployment
  <1> QED BY <1>2, <1>4, <1>5, <1>6

\* Pods, other clients and new calls.  A write of another client makes what was
\* read old, since it takes the next resource version.
LEMMA OutsideVersion ==
  ASSUME VersionInv, Advance \/ Vanish \/ Evict \/ Recreate \/ OtherWrites \/ CallPods \/ CallApp
  PROVE  VersionInv' /\ ChangeKept
  <1>1. CASE Advance \/ Vanish \/ Evict \/ Recreate
    <2>1. proc # Idle /\ proc' = Note(proc, pods') /\ UNCHANGED <<app, writes>>
      BY <1>1, Zenon DEF Advance, Vanish, Evict, Recreate, Becomes
    <2>2. /\ Related(proc')
          /\ proc'.at = proc.at /\ proc'.read = proc.read
      BY <2>1 DEF VersionInv, CallShape, Note, Related, CallFields
    <2>3. AppShape' /\ ChangeKept
      BY <2>1 DEF VersionInv, AppShape, ChangeKept
    <2>4. CallShape'
      BY <2>1, <2>2 DEF VersionInv, CallShape, Related
    <2>5. ReadIsCurrentOrOld(proc, app) => ReadIsCurrentOrOld(proc', app')
      BY <2>1, <2>2 DEF ReadIsCurrentOrOld, Related
    <2> QED BY <2>1, <2>2, <2>3, <2>4, <2>5 DEF VersionInv, Related
  <1>2. CASE OtherWrites
    <2>1. PICK k \in Kinds :
            \/ app' = [app EXCEPT ![k].replicas = 0, ![k].rv = @ + 1]
            \/ app' = [app EXCEPT ![k].selector = "theirs", ![k].rv = @ + 1]
            \/ app' = [app EXCEPT ![k].n = IF @ = 0 THEN 1 ELSE @ - 1, ![k].rv = @ + 1]
      BY <1>2 DEF OtherWrites, Kinds
    <2>2. writes' = writes + 1 /\ proc' = proc /\ writes \in Nat
      BY <1>2 DEF OtherWrites, VersionInv, AppShape
    <2>3. /\ DOMAIN app' = Kinds
          /\ \A j \in Kinds \ {k} : app'[j] = app[j]
          /\ DOMAIN app'[k] = ObjectFields /\ app'[k].rv = app[k].rv + 1
      BY <2>1 DEF VersionInv, AppShape, ObjectFields
    <2>4. AppShape' /\ ChangeKept
      BY <2>2, <2>3 DEF VersionInv, AppShape, ChangeKept
    <2>5. ASSUME ReadIsCurrentOrOld(proc, app) PROVE ReadIsCurrentOrOld(proc, app')
      <3>1. CASE proc.obj = k
        BY <2>3, <2>5, <3>1 DEF ReadIsCurrentOrOld, VersionInv, AppShape
      <3>2. CASE proc.obj # k
        BY <2>3, <2>5, <3>2 DEF ReadIsCurrentOrOld
      <3> QED BY <3>1, <3>2
    <2> QED BY <2>2, <2>4, <2>5 DEF VersionInv, CallShape
  <1>3. CASE CallPods \/ CallApp
    <2>1. PICK op, match : op \in PodOps \cup AppOps /\ Begin(Note(NewCall(op, match), pods))
      BY <1>3 DEF CallPods, CallApp
    <2> DEFINE c == NewCall(op, match)
    <2>2. /\ DOMAIN c = CallFields /\ c.op = op /\ c.obj = "dep"
          /\ c.at \in {"get", "begin"}
      BY DEF NewCall, CallFields
    <2>3. proc' = Note(c, pods) /\ UNCHANGED <<app, writes>>
      BY <2>1 DEF Begin
    <2>4. c # Idle => /\ DOMAIN proc' = CallFields /\ proc'.op = op /\ proc'.obj = "dep"
                      /\ proc'.at \in {"get", "begin"}
      BY <2>2, <2>3 DEF Note, CallFields
    <2>5. c = Idle => proc' = Idle
      BY <2>3 DEF Note
    <2>6. AppShape' /\ ChangeKept
      BY <2>3 DEF VersionInv, AppShape, ChangeKept
    <2> QED BY <2>1, <2>4, <2>5, <2>6 DEF VersionInv, CallShape, Kinds
  <1> QED BY <1>1, <1>2, <1>3

LEMMA VersionNext == VersionInv /\ [WorkloadsNext]_wvars => VersionInv' /\ (ChangeKept \/ UNCHANGED wvars)
  <1> SUFFICES ASSUME VersionInv, [WorkloadsNext]_wvars PROVE VersionInv' /\ (ChangeKept \/ UNCHANGED wvars)
    OBVIOUS
  <1>1. CASE UNCHANGED wvars
    BY <1>1 DEF wvars, VersionInv, AppShape, CallShape, ReadIsCurrentOrOld
  <1>2. CASE PodStep
    <2>1. /\ proc # Idle /\ proc.op \in PodOps /\ UNCHANGED <<app, writes>> /\ Onward
      BY <1>2, PodStepOnward DEF VersionInv
    <2>2. proc.op \notin AppOps
      BY <2>1 DEF PodOps, AppOps
    <2> QED BY <2>1, <2>2, CalmStep DEF ChangeKept
  <1> QED BY <1>1, <1>2, AppStepVersion, OutsideVersion DEF WorkloadsNext, WorkloadsStep, PodStep

\* OthersChangesKept: SetDeploymentReplication and the node selector helpers of
\* util_testpods.go and util.go write over no change another client made after
\* they read the object, at any attempt.
THEOREM NoLostUpdate == WorkloadsSpec => OthersChangesKept
  <1>1. WorkloadsInit => VersionInv
    <2> SUFFICES ASSUME WorkloadsInit PROVE VersionInv
      OBVIOUS
    <2>1. \A n : DOMAIN Object(n) = ObjectFields /\ Object(n).rv = 0
      BY DEF Object, ObjectFields
    <2>2. PICK d, s : app = [dep |-> Object(d), sts |-> Object(s)]
      BY DEF WorkloadsInit
    <2>3. AppShape
      BY <2>1, <2>2 DEF AppShape, Kinds, WorkloadsInit
    <2> QED BY <2>3 DEF VersionInv, CallShape, WorkloadsInit
  <1>2. VersionInv /\ [WorkloadsNext]_wvars => VersionInv' /\ [ChangeKept]_wvars
    BY VersionNext
  <1>3. WorkloadsSpec => [][ChangeKept]_wvars
    BY <1>1, <1>2, PTL DEF WorkloadsSpec
  <1> QED BY <1>3 DEF OthersChangesKept, ChangeKept, Kinds

-----------------------------------------------------------------------------
(* Builders.  The invariant: a builder has errors exactly if it was given  *)
(* something missing or broken.  Every call keeps it, since what it does   *)
(* to errs is what With does to tainted.                                   *)

BuilderShape ==
  /\ DOMAIN bld = BuilderNames
  /\ \A n \in BuilderNames : DOMAIN bld[n] = {"errs", "obj"}
  /\ DOMAIN built = BuilderNames

ErrorsInv == BuilderShape /\ \A n \in BuilderNames : bld[n].errs = IF n \in tainted THEN TRUE ELSE FALSE

\* What a call on builder n that is given good arguments, or not, does to errors.
Marks(n, good) ==
  /\ DOMAIN bld' = BuilderNames
  /\ \A m \in BuilderNames : /\ DOMAIN bld'[m] = {"errs", "obj"}
                             /\ bld'[m].errs = IF m = n /\ ~good THEN TRUE ELSE bld[m].errs

\* What BuildRefusesTheIncomplete says of a step.
BuiltTruly == \A n \in BuilderNames : built'[n] # built[n] => (built'[n] = "error") = (n \in tainted)

LEMMA WithStep ==
  ASSUME ErrorsInv, NEW n \in BuilderNames, NEW good \in BOOLEAN, With(n, good), Marks(n, good)
  PROVE  ErrorsInv' /\ BuiltTruly
  <1>1. BuilderShape' /\ BuiltTruly
    BY Zenon DEF ErrorsInv, BuilderShape, With, Marks, BuiltTruly
  <1>2. CASE good
    BY <1>1, <1>2, Zenon DEF ErrorsInv, With, Marks
  <1>3. CASE ~good
    <2>1. tainted' = tainted \cup {n}
      BY <1>3 DEF With
    <2>2. \A m \in BuilderNames : bld'[m].errs = IF m = n \/ m \in tainted THEN TRUE ELSE FALSE
      BY <1>3, Zenon DEF Marks, ErrorsInv
    <2> QED BY <1>1, <2>1, <2>2, Zenon DEF ErrorsInv
  <1> QED BY <1>2, <1>3

LEMMA BuildStep ==
  ASSUME ErrorsInv, NEW n \in BuilderNames, BuildCall, Built(n), Marks(n, TRUE)
  PROVE  ErrorsInv' /\ BuiltTruly
  <1>1. /\ DOMAIN built' = BuilderNames
        /\ \A m \in BuilderNames : built'[m] = IF m = n THEN (IF n \in tainted THEN "error" ELSE "object") ELSE built[m]
    BY Zenon DEF ErrorsInv, BuilderShape, Built
  <1>2. BuiltTruly
    BY <1>1 DEF BuiltTruly
  <1> QED BY <1>1, <1>2, Zenon DEF ErrorsInv, BuilderShape, BuildCall, Marks

-----------------------------------------------------------------------------
(* The kinds of calls                                                      *)

LEMMA RefuseMarks ==
  ASSUME ErrorsInv, NEW n \in BuilderNames, Refuse(n)
  PROVE  Marks(n, FALSE)
  BY DEF ErrorsInv, BuilderShape, Refuse, Marks

\* A call that changes the object only.
LEMMA ObjectMarks ==
  ASSUME ErrorsInv, NEW n \in BuilderNames, NEW o, bld' = [bld EXCEPT ![n].obj = o]
  PROVE  Marks(n, TRUE)
  BY DEF ErrorsInv, BuilderShape, Marks

LEMMA UnchangedMarks ==
  ASSUME ErrorsInv, NEW n \in BuilderNames, UNCHANGED bld
  PROVE  Marks(n, TRUE)
  BY DEF ErrorsInv, BuilderShape, Marks

LEMMA RequiredMarks ==
  ASSUME ErrorsInv, NEW n \in BuilderNames, NEW field, NEW given \in BOOLEAN, Required(n, field, given)
  PROVE  Marks(n, given)
  <1>1. Optional(n, field) => Marks(n, TRUE)
    BY DEF ErrorsInv, BuilderShape, Optional, Marks
  <1> QED BY <1>1, RefuseMarks, Zenon DEF Required

LEMMA OptionalMarks ==
  ASSUME ErrorsInv, NEW n \in BuilderNames, NEW field, Optional(n, field)
  PROVE  Marks(n, TRUE)
  BY DEF ErrorsInv, BuilderShape, Optional, Marks

LEMMA MapMarks ==
  ASSUME ErrorsInv, NEW n \in BuilderNames, NEW field, NEW m
  PROVE  /\ Replace(n, field, m) => Marks(n, TRUE)
         /\ Copy(n, field, m) => Marks(n, heap[m] # {})
         /\ Merge(n, field, m) => Marks(n, heap[m] # {})
         /\ Keep(n, field, m) => Marks(n, heap[m] # {})
  <1>1. Replace(n, field, m) => Marks(n, TRUE)
    BY DEF ErrorsInv, BuilderShape, Replace, Marks
  <1>2. Copy(n, field, m) => Marks(n, heap[m] # {})
    BY <1>1, RefuseMarks, Zenon DEF Copy
  <1>3. Merge(n, field, m) => Marks(n, heap[m] # {})
    <2>1. heap[m] # {} /\ UNCHANGED bld => Marks(n, heap[m] # {})
      BY UnchangedMarks, Zenon
    <2> QED BY <1>2, <2>1 DEF Merge
  <1>4. Keep(n, field, m) => Marks(n, heap[m] # {})
    <2>1. bld' = [bld EXCEPT ![n].obj[field] = m] => Marks(n, TRUE)
      BY DEF ErrorsInv, BuilderShape, Marks
    <2> QED BY <2>1, RefuseMarks, Zenon DEF Keep
  <1> QED BY <1>1, <1>2, <1>3, <1>4, Zenon

-----------------------------------------------------------------------------
(* The builders                                                            *)

LEMMA ContainerStep == ErrorsInv /\ ContainerCall => ErrorsInv' /\ BuiltTruly
  <1> SUFFICES ASSUME ErrorsInv, ContainerCall PROVE ErrorsInv' /\ BuiltTruly
    OBVIOUS
  <1>1. "container" \in BuilderNames
    BY DEF BuilderNames
  <1>2. ASSUME NEW given \in BOOLEAN, NEW field, With("container", given), Required("container", field, given)
        PROVE  ErrorsInv' /\ BuiltTruly
    BY <1>1, <1>2, RequiredMarks, WithStep
  <1>3. ASSUME NEW n \in 0..1, With("container", n > 0), ContainerWithEnvsNew(n) \/ ContainerWithEnvs(n)
        PROVE  ErrorsInv' /\ BuiltTruly
    <2>1. \A v : bld' = [bld EXCEPT !["container"].obj.envs = v] => Marks("container", TRUE)
      BY <1>1 DEF ErrorsInv, BuilderShape, Marks
    <2>2. CASE n = 0
      <3>1. With("container", FALSE) /\ Refuse("container")
        BY <1>3, <2>2 DEF ContainerWithEnvsNew, ContainerWithEnvs, With
      <3> QED BY <1>1, <3>1, RefuseMarks, WithStep, Zenon
    <2>3. CASE n # 0
      <3>1. With("container", TRUE) /\ \E v : bld' = [bld EXCEPT !["container"].obj.envs = v]
        BY <1>3, <2>3 DEF ContainerWithEnvsNew, ContainerWithEnvs, With
      <3> QED BY <1>1, <2>1, <3>1, WithStep, Zenon
    <2> QED BY <2>2, <2>3
  <1>4. ASSUME With("container", TRUE), ContainerWithResourcesByValue PROVE ErrorsInv' /\ BuiltTruly
    BY <1>1, <1>4, OptionalMarks, WithStep, Zenon DEF ContainerWithResourcesByValue
  <1>5. ASSUME BuildCall, ContainerBuild PROVE ErrorsInv' /\ BuiltTruly
    BY <1>1, <1>5, UnchangedMarks, BuildStep, Zenon DEF ContainerBuild
  <1> QED BY <1>2, <1>3, <1>4, <1>5, Zenon
          DEF ContainerCall, ContainerWithName, ContainerWithImage, ContainerWithCommandNew,
              ContainerWithArgumentsNew, ContainerWithVolumeMountsNew, ContainerWithVolumeDevices,
              ContainerWithImagePullPolicy, ContainerWithPrivilegedSecurityContext, ContainerWithResources,
              ContainerWithPortsNew, ContainerWithLivenessProbe, ContainerWithLifeCycle

LEMMA VolumeStep == ErrorsInv /\ VolumeCall => ErrorsInv' /\ BuiltTruly
  <1> SUFFICES ASSUME ErrorsInv, VolumeCall PROVE ErrorsInv' /\ BuiltTruly
    OBVIOUS
  <1>1. "volume" \in BuilderNames
    BY DEF BuilderNames
  <1>2. ASSUME NEW sources, NEW errs \in BOOLEAN, NEW set, SetSource(sources, errs, set)
        PROVE  Marks("volume", ~errs)
    <2>1. bld["volume"].errs \in BOOLEAN
      BY <1>1, Zenon DEF ErrorsInv
    <2>2. DOMAIN bld' = BuilderNames /\ \A m \in BuilderNames : DOMAIN bld'[m] = {"errs", "obj"}
      BY <1>1, <1>2 DEF SetSource, ErrorsInv, BuilderShape
    <2>3. \A m \in BuilderNames : m # "volume" => bld'[m] = bld[m]
      BY <1>1, <1>2 DEF SetSource, ErrorsInv, BuilderShape
    <2>4. bld'["volume"].errs = (bld["volume"].errs \/ errs)
      BY <1>1, <1>2 DEF SetSource, ErrorsInv, BuilderShape
    <2> QED BY <2>1, <2>2, <2>3, <2>4, Zenon DEF Marks
  <1>3. ASSUME NEW good \in BOOLEAN, With("volume", good),
               \/ Refuse("volume") /\ ~good
               \/ \E sources, set : SetSource(sources, ~good, set)
        PROVE  ErrorsInv' /\ BuiltTruly
    <2>1. Marks("volume", good)
      BY <1>1, <1>2, <1>3, RefuseMarks, Zenon
    <2> QED BY <1>1, <1>3, <2>1, WithStep
  <1>4. ASSUME NEW given \in BOOLEAN, With("volume", given), VolumeWithName(given)
        PROVE  ErrorsInv' /\ BuiltTruly
    BY <1>1, <1>4, RequiredMarks, WithStep DEF VolumeWithName
  <1>5. ASSUME NEW given \in BOOLEAN, With("volume", given),
               VolumeWithHostDirectory(given) \/ VolumeWithPVCSource(given) \/ VolumeWithEmptyDir(given)
        PROVE  ErrorsInv' /\ BuiltTruly
    BY <1>3, <1>5, Zenon DEF VolumeWithHostDirectory, VolumeWithPVCSource, VolumeWithEmptyDir
  <1>6. ASSUME NEW given \in BOOLEAN, NEW mode \in 0..1, With("volume", given /\ mode # 0),
               VolumeWithSecret(given, mode) \/ VolumeWithConfigMap(given, mode)
        PROVE  ErrorsInv' /\ BuiltTruly
    <2> DEFINE good == given /\ mode # 0
    <2>1. \/ Refuse("volume") /\ ~good
          \/ \E sources, set : SetSource(sources, ~good, set)
      BY <1>6, Zenon DEF VolumeWithSecret, VolumeWithConfigMap, SetSource
    <2> QED BY <1>3, <1>6, <2>1, Zenon
  <1>7. ASSUME NEW path \in BOOLEAN, NEW type \in BOOLEAN, With("volume", path /\ type),
               VolumeWithHostPathAndType(path, type)
        PROVE  ErrorsInv' /\ BuiltTruly
    BY <1>3, <1>7, Zenon DEF VolumeWithHostPathAndType
  <1>8. ASSUME BuildCall, VolumeBuild PROVE ErrorsInv' /\ BuiltTruly
    BY <1>1, <1>8, UnchangedMarks, BuildStep, Zenon DEF VolumeBuild
  <1> QED BY <1>4, <1>5, <1>6, <1>7, <1>8 DEF VolumeCall

\* The error of a container or volume builder is passed on to the template.
LEMMA HandedOver ==
  ASSUME ErrorsInv, NEW field, NEW n \in 0..1, NEW broken \in BOOLEAN, NEW kind \in BuilderNames,
         AddAll(field, n, broken, kind) \/ SetAll(field, n, broken, kind)
  PROVE  Marks("template", n > 0 /\ ~broken /\ kind \notin tainted)
  <1>1. "template" \in BuilderNames
    BY DEF BuilderNames
  <1>2. Fails(n, broken, kind) <=> ~(n > 0 /\ ~broken /\ kind \notin tainted)
    <2>1. bld[kind].errs = IF kind \in tainted THEN TRUE ELSE FALSE
      BY Zenon DEF ErrorsInv
    <2>2. n = 0 <=> ~(n > 0)
      OBVIOUS
    <2> QED BY <2>1, <2>2 DEF Fails
  <1>3. CASE SetAll(field, n, broken, kind)
    <2>1. ASSUME NEW v, bld' = [bld EXCEPT !["template"].obj[field] = v] PROVE Marks("template", TRUE)
      BY <1>1, <2>1 DEF ErrorsInv, BuilderShape, Marks
    <2>2. CASE Fails(n, broken, kind)
      <3>1. Marks("template", FALSE)
        BY <1>1, <1>3, <2>2, RefuseMarks, Zenon DEF SetAll
      <3> QED BY <1>2, <2>2, <3>1, Zenon DEF Marks
    <2>3. CASE ~Fails(n, broken, kind)
      <3>1. Marks("template", TRUE)
        BY <1>3, <2>1, <2>3, Zenon DEF SetAll
      <3> QED BY <1>2, <2>3, <3>1, Zenon DEF Marks
    <2> QED BY <2>2, <2>3
  <1>4. CASE AddAll(field, n, broken, kind)
    <2>1. DOMAIN bld' = BuilderNames /\ \A m \in BuilderNames : DOMAIN bld'[m] = {"errs", "obj"}
      BY <1>1, <1>4 DEF AddAll, ErrorsInv, BuilderShape
    <2>2. \A m \in BuilderNames : m # "template" => bld'[m] = bld[m]
      BY <1>1, <1>4 DEF AddAll, ErrorsInv, BuilderShape
    <2>3. bld'["template"].errs = (bld["template"].errs \/ Fails(n, broken, kind))
      BY <1>1, <1>4 DEF AddAll, ErrorsInv, BuilderShape
    <2>4. bld["template"].errs \in BOOLEAN
      BY <1>1, Zenon DEF ErrorsInv
    <2> HIDE DEF Fails
    <2> QED BY <1>2, <2>1, <2>2, <2>3, <2>4, Zenon DEF Marks
  <1> QED BY <1>3, <1>4

LEMMA TemplateStep == ErrorsInv /\ TemplateCall => ErrorsInv' /\ BuiltTruly
  <1> SUFFICES ASSUME ErrorsInv, TemplateCall PROVE ErrorsInv' /\ BuiltTruly
    OBVIOUS
  <1>1. {"template", "container", "volume"} \subseteq BuilderNames
    BY DEF BuilderNames
  <1>2. ASSUME NEW good \in BOOLEAN, With("template", good), Marks("template", good)
        PROVE  ErrorsInv' /\ BuiltTruly
    BY <1>1, <1>2, WithStep
  <1>3. ASSUME NEW given \in BOOLEAN, With("template", given),
               \/ TemplateWithName(given) \/ TemplateWithNamespace(given)
               \/ TemplateWithServiceAccountName(given) \/ TemplateWithAffinity(given)
        PROVE  ErrorsInv' /\ BuiltTruly
    BY <1>1, <1>2, <1>3, RequiredMarks
       DEF TemplateWithName, TemplateWithNamespace, TemplateWithServiceAccountName, TemplateWithAffinity
  <1>4. ASSUME NEW m, With("template", heap[m] # {}),
               \/ TemplateWithAnnotations(m) \/ TemplateWithAnnotationsNew(m)
               \/ TemplateWithLabels(m) \/ TemplateWithLabelsNew(m)
               \/ TemplateWithNodeSelector(m) \/ TemplateWithNodeSelectorNew(m)
        PROVE  ErrorsInv' /\ BuiltTruly
    <2>1. PICK field : Copy("template", field, m) \/ Merge("template", field, m)
      BY <1>4 DEF TemplateWithAnnotations, TemplateWithAnnotationsNew, TemplateWithLabels, TemplateWithLabelsNew,
                  TemplateWithNodeSelector, TemplateWithNodeSelectorNew
    <2>2. Marks("template", heap[m] # {})
      BY <1>1, <2>1, MapMarks, Zenon
    <2> QED BY <1>2, <1>4, <2>2, Zenon
  <1>5. ASSUME NEW m, With("template", TRUE), TemplateWithNodeSelectorByValue(m) PROVE ErrorsInv' /\ BuiltTruly
    BY <1>1, <1>2, <1>5, MapMarks, Zenon DEF TemplateWithNodeSelectorByValue
  <1>6. ASSUME NEW v, SetTolerations(v) PROVE Marks("template", TRUE)
    BY <1>1, <1>6 DEF SetTolerations, ErrorsInv, BuilderShape, Marks
  <1>7. ASSUME NEW n \in 0..1, With("template", n > 0), TemplateWithTolerations(n) \/ TemplateWithTolerationsNew(n)
        PROVE  ErrorsInv' /\ BuiltTruly
    <2>1. CASE n = 0
      <3>1. With("template", FALSE) /\ Refuse("template")
        BY <1>7, <2>1 DEF TemplateWithTolerations, TemplateWithTolerationsNew, With
      <3> QED BY <1>1, <1>2, <3>1, RefuseMarks, Zenon
    <2>2. CASE n # 0
      <3>1. With("template", TRUE) /\ \E v : SetTolerations(v)
        BY <1>7, <2>2 DEF TemplateWithTolerations, TemplateWithTolerationsNew, With
      <3> QED BY <1>2, <1>6, <3>1, Zenon
    <2> QED BY <2>1, <2>2
  <1>8. ASSUME With("template", TRUE), TemplateWithTolerationsByValue(1) \/ TemplateWithPriorityClassName
        PROVE  ErrorsInv' /\ BuiltTruly
    BY <1>1, <1>2, <1>6, <1>8, OptionalMarks, Zenon DEF TemplateWithTolerationsByValue, TemplateWithPriorityClassName
  <1>9. ASSUME NEW n \in 0..1, NEW broken \in BOOLEAN, NEW kind \in {"container", "volume"}, NEW field,
               With("template", n > 0 /\ ~broken /\ kind \notin tainted),
               AddAll(field, n, broken, kind) \/ SetAll(field, n, broken, kind)
        PROVE  ErrorsInv' /\ BuiltTruly
    <2> DEFINE good == n > 0 /\ ~broken /\ kind \notin tainted
    <2>1. Marks("template", good)
      BY <1>1, <1>9, HandedOver
    <2>2. With("template", good) /\ good \in BOOLEAN
      BY <1>9
    <2> QED BY <1>2, <2>1, <2>2, Zenon
  <1>10. ASSUME NEW n \in 0..1, NEW broken \in BOOLEAN,
                \/ /\ With("template", n > 0 /\ ~broken /\ "container" \notin tainted)
                   /\ TemplateWithContainerBuilders(n, broken) \/ TemplateWithContainerBuildersNew(n, broken)
                \/ /\ With("template", n > 0 /\ ~broken /\ "volume" \notin tainted)
                   /\ TemplateWithVolumeBuilders(n, broken) \/ TemplateWithVolumeBuildersNew(n, broken)
         PROVE  ErrorsInv' /\ BuiltTruly
    <2>1. CASE /\ With("template", n > 0 /\ ~broken /\ "container" \notin tainted)
               /\ TemplateWithContainerBuilders(n, broken) \/ TemplateWithContainerBuildersNew(n, broken)
      BY <1>9, <2>1 DEF TemplateWithContainerBuilders, TemplateWithContainerBuildersNew
    <2>2. CASE /\ With("template", n > 0 /\ ~broken /\ "volume" \notin tainted)
               /\ TemplateWithVolumeBuilders(n, broken) \/ TemplateWithVolumeBuildersNew(n, broken)
      BY <1>9, <2>2 DEF TemplateWithVolumeBuilders, TemplateWithVolumeBuildersNew
    <2> QED BY <1>10, <2>1, <2>2
  <1>11. ASSUME BuildCall, TemplateBuild PROVE ErrorsInv' /\ BuiltTruly
    BY <1>1, <1>11, UnchangedMarks, BuildStep, Zenon DEF TemplateBuild
  <1> QED BY <1>3, <1>4, <1>5, <1>7, <1>8, <1>10, <1>11, Zenon DEF TemplateCall

LEMMA DeploymentStep == ErrorsInv /\ DeploymentCall => ErrorsInv' /\ BuiltTruly
  <1> SUFFICES ASSUME ErrorsInv, DeploymentCall PROVE ErrorsInv' /\ BuiltTruly
    OBVIOUS
  <1>1. {"deployment", "template"} \subseteq BuilderNames
    BY DEF BuilderNames
  <1>2. ASSUME NEW good \in BOOLEAN, With("deployment", good), Marks("deployment", good)
        PROVE  ErrorsInv' /\ BuiltTruly
    BY <1>1, <1>2, WithStep
  <1>3. ASSUME NEW given \in BOOLEAN, With("deployment", given),
               DeploymentWithName(given) \/ DeploymentWithNamespace(given)
        PROVE  ErrorsInv' /\ BuiltTruly
    BY <1>1, <1>2, <1>3, RequiredMarks DEF DeploymentWithName, DeploymentWithNamespace
  <1>4. ASSUME NEW m, With("deployment", heap[m] # {}),
               \/ DeploymentWithLabelsNew(m)
               \/ DeploymentWithSelectorMatchLabels(m) \/ DeploymentWithSelectorMatchLabelsNew(m)
        PROVE  ErrorsInv' /\ BuiltTruly
    <2>1. PICK field : Copy("deployment", field, m) \/ Merge("deployment", field, m)
      BY <1>4 DEF DeploymentWithLabelsNew, DeploymentWithSelectorMatchLabels, DeploymentWithSelectorMatchLabelsNew
    <2>2. Marks("deployment", heap[m] # {})
      BY <1>1, <2>1, MapMarks, Zenon
    <2> QED BY <1>2, <1>4, <2>2, Zenon
  <1>5. ASSUME NEW m, With("deployment", heap[m] # {}),
               DeploymentWithNodeSelector(m) \/ DeploymentWithNodeSelectorNew(m)
        PROVE  ErrorsInv' /\ BuiltTruly
    <2>1. ASSUME bld' = [bld EXCEPT !["deployment"].obj.template.nodeSelector = m]
          PROVE  Marks("deployment", TRUE)
      BY <1>1, <2>1 DEF ErrorsInv, BuilderShape, Marks
    <2>2. DeploymentWithNodeSelectorNew(m) => Marks("deployment", heap[m] # {})
      BY <1>1, <2>1, RefuseMarks, Zenon DEF DeploymentWithNodeSelectorNew
    <2>3. heap[m] # {} /\ UNCHANGED bld => Marks("deployment", heap[m] # {})
      BY <1>1, UnchangedMarks, Zenon
    <2>4. Marks("deployment", heap[m] # {})
      BY <1>5, <2>2, <2>3 DEF DeploymentWithNodeSelector
    <2> QED BY <1>2, <1>5, <2>4, Zenon
  <1>6. ASSUME NEW n, With("deployment", n \notin {Nil, -1}), DeploymentWithReplicas(n)
        PROVE  ErrorsInv' /\ BuiltTruly
    <2>1. ASSUME bld' = [bld EXCEPT !["deployment"].obj.replicas = n] PROVE Marks("deployment", TRUE)
      BY <1>1, <2>1 DEF ErrorsInv, BuilderShape, Marks
    <2>2. CASE n \in {Nil, -1}
      <3>1. With("deployment", FALSE) /\ Refuse("deployment")
        BY <1>6, <2>2 DEF DeploymentWithReplicas, With
      <3> QED BY <1>1, <1>2, <3>1, RefuseMarks, Zenon
    <2>3. CASE n \notin {Nil, -1}
      <3>1. With("deployment", TRUE) /\ bld' = [bld EXCEPT !["deployment"].obj.replicas = n]
        BY <1>6, <2>3 DEF DeploymentWithReplicas, With
      <3> QED BY <1>2, <2>1, <3>1, Zenon
    <2> QED BY <2>2, <2>3
  <1>7. ASSUME NEW given \in BOOLEAN, With("deployment", given /\ "template" \notin tainted),
               DeploymentWithPodTemplateSpecBuilder(given)
        PROVE  ErrorsInv' /\ BuiltTruly
    <2>1. ASSUME NEW v, bld' = [bld EXCEPT !["deployment"].obj.template = v] PROVE Marks("deployment", TRUE)
      BY <1>1, <2>1 DEF ErrorsInv, BuilderShape, Marks
    <2>2. bld["template"].errs = IF "template" \in tainted THEN TRUE ELSE FALSE
      BY <1>1, Zenon DEF ErrorsInv
    <2>3. CASE ~given \/ "template" \in tainted
      <3>1. With("deployment", FALSE) /\ Refuse("deployment")
        BY <1>7, <2>2, <2>3 DEF DeploymentWithPodTemplateSpecBuilder, With
      <3> QED BY <1>1, <1>2, <3>1, RefuseMarks, Zenon
    <2>4. CASE given /\ "template" \notin tainted
      <3>1. With("deployment", TRUE) /\ \E v : bld' = [bld EXCEPT !["deployment"].obj.template = v]
        BY <1>7, <2>2, <2>4 DEF DeploymentWithPodTemplateSpecBuilder, With
      <3> QED BY <1>2, <2>1, <3>1, Zenon
    <2> QED BY <2>3, <2>4
  <1>8. ASSUME BuildCall, DeploymentBuild PROVE ErrorsInv' /\ BuiltTruly
    BY <1>1, <1>8, UnchangedMarks, BuildStep, Zenon DEF DeploymentBuild
  <1> QED BY <1>3, <1>4, <1>5, <1>6, <1>7, <1>8 DEF DeploymentCall

LEMMA PodBuilderStep == ErrorsInv /\ PodCall => ErrorsInv' /\ BuiltTruly
  <1> SUFFICES ASSUME ErrorsInv, PodCall PROVE ErrorsInv' /\ BuiltTruly
    OBVIOUS
  <1>1. {"pod1", "pod2"} \subseteq BuilderNames
    BY DEF BuilderNames
  <1>2. ASSUME NEW p \in {"pod1", "pod2"}, NEW good \in BOOLEAN, With(p, good), Marks(p, good)
        PROVE  ErrorsInv' /\ BuiltTruly
    BY <1>1, <1>2, WithStep
  <1>3. ASSUME NEW p \in {"pod1", "pod2"}, NEW field, NEW given \in BOOLEAN, SetFirst(p, field, given)
        PROVE  Marks(p, given)
    BY <1>1, <1>3, RefuseMarks, UnchangedMarks, Zenon DEF SetFirst
  <1>4. ASSUME NEW p \in {"pod1", "pod2"}, NEW given \in BOOLEAN, With(p, given),
               \/ PodWithName(p, given) \/ PodWithNamespace(p, given) \/ PodWithNodeName(p, given)
               \/ PodWithNodeSelectorHostnameNew(p, given) \/ PodWithServiceAccountName(p, given)
               \/ PodWithVolumes(p, given)
               \/ PodWithVolumeMounts(p, given) \/ PodWithVolumeDevices(p, given)
        PROVE  ErrorsInv' /\ BuiltTruly
    <2>1. PICK field : Required(p, field, given) \/ SetFirst(p, field, given)
      BY <1>4 DEF PodWithName, PodWithNamespace, PodWithNodeName, PodWithNodeSelectorHostnameNew,
                  PodWithServiceAccountName, PodWithVolumes, PodWithVolumeMounts, PodWithVolumeDevices
    <2> QED BY <1>1, <1>2, <1>3, <1>4, <2>1, RequiredMarks
  <1>5. ASSUME NEW p \in {"pod1", "pod2"}, With(p, TRUE),
               \/ PodWithVolume(p) \/ PodWithRestartPolicy(p) \/ PodWithAppLabel(p) \/ PodWithContainer(p)
               \/ \E values \in {<<TRUE>>, <<FALSE>>} : PodWithTolerationsForTaints(p, values)
               \/ \E raw \in BOOLEAN : PodWithVolumeDeviceOrMount(p, raw)
        PROVE  ErrorsInv' /\ BuiltTruly
    <2>1. CASE PodWithVolume(p) \/ PodWithRestartPolicy(p)
      BY <1>1, <1>2, <1>5, <2>1, RequiredMarks, OptionalMarks, Zenon DEF PodWithVolume, PodWithVolumes, PodWithRestartPolicy
    <2>2. ASSUME NEW v, \/ bld' = [bld EXCEPT ![p].obj.labels = v]
                        \/ bld' = [bld EXCEPT ![p].obj.containers = v]
                        \/ bld' = [bld EXCEPT ![p].obj.tolerations = v]
          PROVE  Marks(p, TRUE)
      BY <1>1, <2>2 DEF ErrorsInv, BuilderShape, Marks
    <2>3. CASE PodWithAppLabel(p) \/ PodWithContainer(p)
      BY <1>2, <1>5, <2>2, <2>3, Zenon DEF PodWithAppLabel, PodWithContainer
    <2>4. CASE \E values \in {<<TRUE>>, <<FALSE>>} : PodWithTolerationsForTaints(p, values)
      <3>1. \E v : bld' = [bld EXCEPT ![p].obj.tolerations = v]
        BY <2>4, Zenon DEF PodWithTolerationsForTaints
      <3> QED BY <1>2, <1>5, <2>2, <3>1, Zenon
    <2>5. CASE \E raw \in BOOLEAN : PodWithVolumeDeviceOrMount(p, raw)
      BY <1>2, <1>3, <1>5, <2>5, Zenon DEF PodWithVolumeDeviceOrMount, PodWithVolumeDevices, PodWithVolumeMounts
    <2> QED BY <1>5, <2>1, <2>3, <2>4, <2>5
  <1>6. ASSUME NEW p \in {"pod1", "pod2"}, NEW m, With(p, heap[m] # {}), PodWithLabels(p, m) \/ PodWithContainers(p, m)
        PROVE  ErrorsInv' /\ BuiltTruly
    <2>1. Marks(p, heap[m] # {})
      BY <1>1, <1>6, MapMarks, Zenon DEF PodWithLabels, PodWithContainers
    <2> QED BY <1>2, <1>6, <2>1, Zenon
  <1>7. ASSUME NEW p \in {"pod1", "pod2"}, PodPanics(p), UNCHANGED <<using, built, tainted>>
        PROVE  ErrorsInv' /\ BuiltTruly
    BY <1>7, Zenon DEF PodPanics, ErrorsInv, BuilderShape, BuiltTruly
  <1>8. ASSUME NEW p \in {"pod1", "pod2"}, NEW hostNetwork \in BOOLEAN, BuildCall, PodBuild(p, hostNetwork)
        PROVE  ErrorsInv' /\ BuiltTruly
    <2>1. ASSUME NEW v, bld' = [bld EXCEPT ![p].obj.set = v] PROVE Marks(p, TRUE)
      BY <1>1, <2>1 DEF ErrorsInv, BuilderShape, Marks
    <2>2. Marks(p, TRUE)
      BY <1>1, <1>8, <2>1, UnchangedMarks, Zenon DEF PodBuild
    <2> QED BY <1>1, <1>8, <2>2, BuildStep, Zenon DEF PodBuild
  <1> QED BY <1>4, <1>5, <1>6, <1>7, <1>8, Zenon DEF PodCall

LEMMA ScStep == ErrorsInv /\ ScCall => ErrorsInv' /\ BuiltTruly
  <1> SUFFICES ASSUME ErrorsInv, ScCall PROVE ErrorsInv' /\ BuiltTruly
    OBVIOUS
  <1>1. "sc" \in BuilderNames
    BY DEF BuilderNames
  <1>2. ASSUME NEW good \in BOOLEAN, With("sc", good), Marks("sc", good)
        PROVE  ErrorsInv' /\ BuiltTruly
    BY <1>1, <1>2, WithStep
  <1>3. ASSUME NEW v, bld' = [bld EXCEPT !["sc"].obj.params = v] PROVE Marks("sc", TRUE)
    BY <1>1, <1>3 DEF ErrorsInv, BuilderShape, Marks
  <1>4. ASSUME NEW key, NEW v, Param(key, v) PROVE Marks("sc", TRUE)
    BY <1>3, <1>4, Zenon DEF Param
  <1>5. ASSUME NEW given \in BOOLEAN, With("sc", given),
               ScWithName(given) \/ ScWithNamespace(given) \/ ScWithProvisioner(given)
        PROVE  ErrorsInv' /\ BuiltTruly
    BY <1>1, <1>2, <1>5, RequiredMarks DEF ScWithName, ScWithNamespace, ScWithProvisioner
  <1>6. ASSUME NEW m, With("sc", heap[m] # {}), ScWithAnnotations(m) PROVE ErrorsInv' /\ BuiltTruly
    <2>1. DOMAIN bld' = BuilderNames /\ \A n \in BuilderNames : DOMAIN bld'[n] = {"errs", "obj"}
      BY <1>1, <1>6 DEF ScWithAnnotations, ErrorsInv, BuilderShape
    <2>2. \A n \in BuilderNames : n # "sc" => bld'[n] = bld[n]
      BY <1>1, <1>6 DEF ScWithAnnotations, ErrorsInv, BuilderShape
    <2>3. bld'["sc"].errs = (bld["sc"].errs \/ heap[m] = {})
      BY <1>1, <1>6 DEF ScWithAnnotations, ErrorsInv, BuilderShape
    <2>4. bld["sc"].errs \in BOOLEAN
      BY <1>1, Zenon DEF ErrorsInv
    <2>5. Marks("sc", heap[m] # {})
      BY <2>1, <2>2, <2>3, <2>4, Zenon DEF Marks
    <2> QED BY <1>2, <1>6, <2>5, Zenon
  <1>7. ASSUME NEW n \in 0..2, With("sc", n # 0), ScWithReplicas(n) PROVE ErrorsInv' /\ BuiltTruly
    <2>1. Marks("sc", n # 0)
      BY <1>1, <1>4, <1>7, RefuseMarks, Zenon DEF ScWithReplicas
    <2> QED BY <1>2, <1>7, <2>1, Zenon
  <1>8. ASSUME With("sc", TRUE),
               \/ ScWithGenerateName
               \/ \E type \in {"none", "xfs"} : ScWithFileSystemType(type)
               \/ \E proto \in {"nvmf", "iscsi"} : ScWithProtocol(proto)
               \/ \E value \in BOOLEAN : ScWithLocal(value)
               \/ \E n \in {0, 60} : ScWithIOTimeout(n)
               \/ \E given \in BOOLEAN : ScWithVolumeBindingMode(given)
        PROVE  ErrorsInv' /\ BuiltTruly
    <2>1. (\E field : Optional("sc", field)) \/ (\E key, v : Param(key, v)) \/ UNCHANGED bld
      BY <1>8 DEF ScWithGenerateName, ScWithFileSystemType, ScWithProtocol, ScWithLocal, ScWithIOTimeout,
                  ScWithVolumeBindingMode
    <2>2. Marks("sc", TRUE)
      BY <1>1, <1>4, <2>1, OptionalMarks, UnchangedMarks, Zenon
    <2> QED BY <1>2, <1>8, <2>2, Zenon
  <1>9. ASSUME BuildCall, ScBuild PROVE ErrorsInv' /\ BuiltTruly
    <2>1. Marks("sc", TRUE)
      BY <1>1, <1>3, <1>9, UnchangedMarks, Zenon DEF ScBuild
    <2> QED BY <1>1, <1>9, <2>1, BuildStep, Zenon DEF ScBuild
  <1> QED BY <1>5, <1>6, <1>7, <1>8, <1>9, Zenon DEF ScCall

-----------------------------------------------------------------------------
\* BuildRefusesTheIncomplete: Build of util_container.go, util_volume.go,
\* util_podtemplatespec.go, util_deploy.go, util_pod.go and util_sc.go returns an
\* error exactly if something was missing, however many calls came in between.
THEOREM NoErrorIsLost == BuildersSpec => BuildRefusesTheIncomplete
  <1>1. BuildersInit => ErrorsInv
    <2> SUFFICES ASSUME BuildersInit PROVE ErrorsInv
      OBVIOUS
    <2>1. /\ DOMAIN NewContainerBuilder = {"errs", "obj"} /\ NewContainerBuilder.errs = FALSE
          /\ DOMAIN NewVolumeBuilder = {"errs", "obj"} /\ NewVolumeBuilder.errs = FALSE
          /\ DOMAIN NewPodtemplatespecBuilder = {"errs", "obj"} /\ NewPodtemplatespecBuilder.errs = FALSE
          /\ DOMAIN NewDeploymentBuilder = {"errs", "obj"} /\ NewDeploymentBuilder.errs = FALSE
          /\ DOMAIN NewPodBuilder = {"errs", "obj"} /\ NewPodBuilder.errs = FALSE
          /\ DOMAIN NewScBuilder = {"errs", "obj"} /\ NewScBuilder.errs = FALSE
      BY DEF NewBuilder, NewContainerBuilder, NewVolumeBuilder, NewPodtemplatespecBuilder, NewDeploymentBuilder,
             NewPodBuilder, NewScBuilder
    <2>2. BuilderShape
      BY <2>1 DEF BuildersInit, BuilderShape, BuilderNames
    <2>3. \A n \in BuilderNames : bld[n].errs = FALSE
      BY <2>1 DEF BuildersInit, BuilderNames
    <2>4. tainted = {}
      BY DEF BuildersInit
    <2> QED BY <2>2, <2>3, <2>4, Zenon DEF ErrorsInv
  <1>2. ErrorsInv /\ [BuildersNext]_bvars => ErrorsInv' /\ [BuiltTruly]_bvars
    <2>1. ErrorsInv /\ UNCHANGED bvars => ErrorsInv'
      BY Zenon DEF bvars, ErrorsInv, BuilderShape
    <2> QED BY <2>1, ContainerStep, VolumeStep, TemplateStep, DeploymentStep, PodBuilderStep, ScStep DEF BuildersNext
  <1>3. BuildersSpec => [][BuiltTruly]_bvars
    BY <1>1, <1>2, PTL DEF BuildersSpec
  <1> QED BY <1>3 DEF BuildRefusesTheIncomplete, BuiltTruly
=============================================================================
