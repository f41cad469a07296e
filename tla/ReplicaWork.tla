---------------------------- MODULE ReplicaWork -----------------------------
(***************************************************************************)
(* What replica_perturbation and replica_elimination do to a volume, over  *)
(* and over until the duration is up: take the disks of its replicas       *)
(* offline or kill Mayastor, change its replica count, wait for its        *)
(* status, and check its data with tester pods.  Module TestConductor has  *)
(* what the tests do before and after (its step "work" is this module).    *)
(*                                                                         *)
(* The volume, the pods and the agents on the nodes are the environment:   *)
(* a status that is read may be any status, and a request may be refused,  *)
(* or be carried out and its answer lost.                                  *)
(***************************************************************************)
EXTENDS Naturals, Sequences

CONSTANTS Disks,      \* the disks of the pools, by index
          Works,      \* the tests, as the configuration selects their parts
          MaxPolls,   \* polls before a wait gives up (100 in the code)
          MaxPuts     \* tries of setReplicasRetry (10 in the code)

ASSUME ReplicaWorkAssumption == MaxPolls \in Nat \ {0} /\ MaxPuts \in Nat \ {0}

VARIABLES work,    \* the test: its program, the step, the state of the step, err
          devs,    \* the devices it has taken offline, as it knows
          disk,    \* the disks' real states
          children,\* the replicas the control plane shows for the volume
          tester,  \* the tester pod: what it is for, and its phase
          expired, \* is the test's duration up?
          unseen   \* history: disks taken offline by a call that failed

rvars == <<work, devs, disk, children, tester, expired, unseen>>

Statuses == {"Online", "Degraded", "Faulted", "Unknown"}
Counts == {0, 2, 3}
NoPod == [role |-> "none", phase |-> "none"]

-----------------------------------------------------------------------------
(* The programs                                                            *)

Do(what, arg) == [do |-> what, arg |-> arg]

OfflineDeviceTest ==
  <<Do("offline", Disks), Do("await", "Degraded"), Do("restore", 0), Do("await", "Online")>>

ReplicasTest ==
  <<Do("set", [n |-> 2, puts |-> 1]), Do("await", "Online"),
    Do("set", [n |-> 3, puts |-> 1]), Do("await", "Degraded"), Do("await", "Online")>>

\* The first attempt to go back to three replicas is expected to fail.
OfflineDevAndReplicasTest ==
  <<Do("offline", Disks), Do("await", "Degraded"),
    Do("set", [n |-> 2, puts |-> 1]), Do("await", "Online"),
    Do("attempt", [n |-> 3, puts |-> 1]), Do("restore", 0),
    Do("set", [n |-> 3, puts |-> MaxPuts]), Do("await", "Online")>>

\* A tester pod whose end state counts, and one whose end state does not.
Checked(role) == <<Do("deploy", role), Do("podwait", role), Do("podcheck", role)>>
Unchecked(role) == <<Do("podwait", role), Do("poddelete", role)>>

\* The disks of the first three pools, with a wait after the first.
OfflineAll ==
  <<Do("offline", {0}), Do("await", "Degraded"), Do("offline", {1}), Do("offline", {2}),
    Do("look", 0), Do("restore", 0)>>
KillAll == <<Do("kill", 0), Do("kill", 1), Do("kill", 2), Do("leave", "Online")>>

eliminateVolume(fault) ==
  <<Do("top", 0)>> \o Checked("write") \o <<Do("deploy", "read")>> \o fault
  \o <<Do("await", "Online")>> \o Unchecked("read") \o Checked("verify")

perturbVolume(first, second, third) ==
  <<Do("top", 0)>> \o (IF first THEN OfflineDeviceTest ELSE << >>)
  \o (IF second THEN ReplicasTest ELSE << >>)
  \o (IF third THEN OfflineDevAndReplicasTest ELSE << >>)

Loop(w) ==
  CASE w = "offline" -> eliminateVolume(OfflineAll)
    [] w = "kill" -> eliminateVolume(KillAll)
    [] w = "device" -> perturbVolume(TRUE, FALSE, FALSE)
    [] w = "replicas" -> perturbVolume(FALSE, TRUE, FALSE)
    [] w = "both" -> perturbVolume(FALSE, FALSE, TRUE)
    [] OTHER -> perturbVolume(TRUE, TRUE, TRUE)

\* After the loop the devices that are still offline are restored.
Program(w) == Loop(w) \o <<Do("restore", 0)>>

-----------------------------------------------------------------------------
(* The control of a test                                                   *)

ReplicaInit ==
  /\ \E w \in Works :
       work = [test |-> w, pc |-> 1, at |-> "begin", dev |-> 0, tries |-> 0, err |-> FALSE]
  /\ devs = << >>
  /\ disk = [d \in Disks |-> "running"]
  /\ children = 3
  /\ tester = NoPod
  /\ expired = FALSE
  /\ unseen = {}

Size == Len(Loop(work.test))
Final == work.pc = Size + 1
WorkEnded == work.pc = Size + 2
WStep == Program(work.test)[work.pc]
Doing(do) == ~WorkEnded /\ WStep.do = do
At(at) == work.at = at

Goto(pc, err) ==
  work' = [work EXCEPT !.pc = pc, !.at = "begin", !.tries = 0, !.err = err]

\* The loop goes on with the next step, or from the top.
StepDone == Goto(IF work.pc = Size THEN 1 ELSE work.pc + 1, work.err)

\* break: out of the loop with an error.  The errors of the last restore and of the
\* attempt that is expected to fail are not looked at.
StepFails ==
  IF Final \/ WStep.do = "attempt" THEN StepDone ELSE Goto(Size + 1, TRUE)

\* The count of polls; past MaxPolls, where it decides nothing, it goes round.
Stay == work' = [work EXCEPT !.tries = IF @ > MaxPolls + 1 THEN MaxPolls + 1 ELSE @ + 1]
Move(at, d) == work' = [work EXCEPT !.at = at, !.dev = d, !.tries = 0]

\* The top of the loop: the time, then getOnlyVolume and its status.
Top ==
  /\ Doing("top")
  /\ IF expired THEN Goto(Size + 1, FALSE) ELSE StepDone \/ StepFails
  /\ UNCHANGED <<devs, disk, children, tester, expired, unseen>>

-----------------------------------------------------------------------------
(* Devices: a command to the agent, then a look at the device              *)

\* Nothing is done before the pools, the node and its disk are known.
offlineDevice ==
  /\ Doing("offline") /\ At("begin")
  /\ \/ StepFails /\ UNCHANGED <<disk, unseen>>
     \/ \E d \in WStep.arg :
          /\ disk' = [disk EXCEPT ![d] = "offline"]
          /\ \/ Move("check", d) /\ UNCHANGED unseen
             \/ StepFails /\ unseen' = unseen \cup {d}
  /\ UNCHANGED <<devs, children, tester, expired>>

\* Mutant: the list of the devices starts again with every device.
MutRecordOffline ==
  /\ Doing("offline") /\ At("check")
  /\ \/ devs' = <<work.dev>> /\ StepDone /\ UNCHANGED unseen
     \/ StepFails /\ unseen' = unseen \cup {work.dev} /\ UNCHANGED devs
  /\ UNCHANGED <<disk, children, tester, expired>>

\* checkDeviceState: what cannot be read is not the state that is wanted.
RecordOffline ==
  /\ Doing("offline") /\ At("check")
  /\ \/ devs' = Append(devs, work.dev) /\ StepDone /\ UNCHANGED unseen
     \/ StepFails /\ unseen' = unseen \cup {work.dev} /\ UNCHANGED devs
  /\ UNCHANGED <<disk, children, tester, expired>>

onlineDevice ==
  /\ Doing("restore") /\ At("begin") /\ devs # << >>
  /\ \/ StepFails /\ UNCHANGED disk
     \/ /\ disk' = [disk EXCEPT ![Head(devs)] = "running"]
        /\ Move("check", Head(devs)) \/ StepFails
  /\ UNCHANGED <<devs, children, tester, expired, unseen>>

\* The loop over devs stops at the first device it fails with; those from it
\* on stay in devs.
restoreDevices ==
  /\ Doing("restore")
  /\ \/ At("begin") /\ devs = << >> /\ StepDone /\ UNCHANGED devs
     \/ /\ At("check")
        /\ \/ devs' = Tail(devs) /\ Move("begin", 0)
           \/ StepFails /\ UNCHANGED devs
  /\ UNCHANGED <<disk, children, tester, expired, unseen>>

killMayastor ==
  /\ Doing("kill")
  /\ StepDone \/ StepFails
  /\ UNCHANGED <<devs, disk, children, tester, expired, unseen>>

-----------------------------------------------------------------------------
(* The volume                                                              *)

\* Mutant: a volume in another state is polled without counting.
MutWaitForVolumeStatus ==
  /\ Doing("await")
  /\ \/ StepFails
     \/ children = 0 /\ Stay
     \/ /\ children > 0
        /\ \E s \in Statuses :
             \/ s = WStep.arg /\ StepDone
             \/ s # WStep.arg /\ work' = [work EXCEPT !.tries = IF @ = 0 THEN 1 ELSE 0]
  /\ UNCHANGED <<devs, disk, children, tester, expired, unseen>>

\* The polls are counted, but the count is looked at only when the volume
\* has replicas and only for equality: past MaxPolls the wait has no end.
waitForVolumeStatus ==
  /\ Doing("await")
  /\ \/ StepFails
     \/ children = 0 /\ Stay
     \/ /\ children > 0
        /\ \E s \in Statuses :
             \/ s = WStep.arg /\ StepDone
             \/ s # WStep.arg /\ work.tries = MaxPolls /\ StepFails
             \/ s # WStep.arg /\ work.tries # MaxPolls /\ Stay
  /\ UNCHANGED <<devs, disk, children, tester, expired, unseen>>

waitForVolumeNotOnline ==
  /\ Doing("leave")
  /\ \/ StepFails
     \/ \E s \in Statuses :
          \/ s # WStep.arg /\ StepDone
          \/ s = WStep.arg /\ work.tries = MaxPolls /\ StepFails
          \/ s = WStep.arg /\ work.tries # MaxPolls /\ Stay
  /\ UNCHANGED <<devs, disk, children, tester, expired, unseen>>

\* The count is requested, again after a failure while there are tries left;
\* then it is waited for.
setReplicasRetry ==
  /\ Doing("set") \/ Doing("attempt")
  /\ \/ At("begin") /\ Move("poll", 0)
     \/ At("begin") /\ IF work.tries + 1 < WStep.arg.puts THEN Stay ELSE StepFails
     \/ At("poll") /\ StepFails
     \/ At("poll") /\ children = WStep.arg.n /\ StepDone
     \/ /\ At("poll") /\ children # WStep.arg.n
        /\ IF work.tries + 1 < MaxPolls THEN Stay ELSE StepFails
  /\ UNCHANGED <<devs, disk, children, tester, expired, unseen>>

\* Only a failed read of the replicas matters.
checkVolume ==
  /\ Doing("look")
  /\ \/ StepFails
     \/ IF work.tries + 1 < MaxPolls THEN Stay ELSE StepDone
  /\ UNCHANGED <<devs, disk, children, tester, expired, unseen>>

-----------------------------------------------------------------------------
(* The tester pods                                                         *)

\* A pod that does not come up in time stays.
DeployStorageTester ==
  /\ Doing("deploy")
  /\ \/ StepFails /\ UNCHANGED tester
     \/ /\ tester' = [role |-> WStep.arg, phase |-> "Running"]
        /\ StepDone \/ StepFails
  /\ UNCHANGED <<devs, disk, children, expired, unseen>>

WaitPodNotRunning ==
  /\ Doing("podwait")
  /\ StepFails \/ (tester.phase # "Running" /\ StepDone)
  /\ UNCHANGED <<devs, disk, children, tester, expired, unseen>>

CheckPodAndDelete ==
  /\ Doing("podcheck")
  /\ \/ StepFails /\ UNCHANGED tester
     \/ /\ tester.phase = "Succeeded"
        /\ tester' = NoPod
        /\ StepDone
  /\ UNCHANGED <<devs, disk, children, expired, unseen>>

\* The error of the deletion is ignored.
DeletePod ==
  /\ Doing("poddelete")
  /\ tester' \in {tester, NoPod}
  /\ StepDone
  /\ UNCHANGED <<devs, disk, children, expired, unseen>>

-----------------------------------------------------------------------------
(* The environment                                                         *)

PodEnds ==
  /\ tester.phase = "Running"
  /\ tester' \in {[tester EXCEPT !.phase = p] : p \in {"Succeeded", "Failed"}}
  /\ UNCHANGED <<work, devs, disk, children, expired, unseen>>

ReplicasChange ==
  /\ ~WorkEnded
  /\ children' \in Counts
  /\ UNCHANGED <<work, devs, disk, tester, expired, unseen>>

DurationOver ==
  /\ ~expired
  /\ expired' = TRUE
  /\ UNCHANGED <<work, devs, disk, children, tester, unseen>>

WorkStep ==
  \/ Top \/ offlineDevice \/ RecordOffline \/ onlineDevice \/ restoreDevices \/ killMayastor
  \/ waitForVolumeStatus \/ waitForVolumeNotOnline \/ setReplicasRetry \/ checkVolume
  \/ DeployStorageTester \/ WaitPodNotRunning \/ CheckPodAndDelete \/ DeletePod

ReplicaNext == WorkStep \/ PodEnds \/ ReplicasChange \/ DurationOver
ReplicaSpec == ReplicaInit /\ [][ReplicaNext]_rvars

-----------------------------------------------------------------------------
(* Properties                                                              *)

\* "avoid breaking the node on error": an iteration starts with all disks
\* running, and whatever ended a test, each disk it has taken offline is
\* running again (restoreDevices), unless the call that took it offline
\* failed, or the agent failed in the last restore, which then leaves only
\* disks that are still in devs.
DevicesRestored ==
  /\ work.pc = 1 => \A d \in Disks : disk[d] = "running"
  /\ WorkEnded => \A d \in Disks :
       disk[d] = "offline" => d \in unseen \/ \E i \in DOMAIN devs : devs[i] = d
=============================================================================
