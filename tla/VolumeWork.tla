----------------------------- MODULE VolumeWork -----------------------------
(***************************************************************************)
(* The goroutines of non_steady_state (testVolumes): each worker makes a   *)
(* volume with a claim and a fio pod, waits for the pod and removes both,  *)
(* over and over, while MonitorCRs looks for faulted volumes at the nodes  *)
(* and at the control plane.  The errors of all of them are collected      *)
(* through one channel after the last of them has ended.                   *)
(*                                                                         *)
(* Volumes are the environment: a volume and its nexus may fault at any    *)
(* time, and stay for a while after their claim is gone.                   *)
(***************************************************************************)
EXTENDS Naturals, FiniteSets

CONSTANTS Workers,    \* the volume goroutines (concurrentVolumes of them)
          Monitor,    \* the goroutine of MonitorCRs
          None,       \* no volume
          MaxRounds   \* bound: volumes a worker makes

ASSUME VolumeWorkAssumption == IsFiniteSet(Workers) /\ MaxRounds \in Nat

Threads == Workers \cup {Monitor}
Volumes == Workers \X (1..MaxRounds)

VARIABLES pc,         \* goroutine -> where it is
          round,      \* worker -> the number of its volume
          claims,     \* volumes with a claim
          vols,       \* volumes the control plane knows
          faultedNexus, faultedVol,  \* faulted at their node, at the control plane
          faultedPVCs,\* the monitor's memory of the volumes it has reported
          todo,       \* faulted volumes of its current list that are still to be looked at
          cur,        \* the one it is looking at
          errchan,    \* number of errors in the channel
          over,       \* is the duration up?
          outcome,    \* what testVolumes returned
          told,       \* history: volume -> failure events sent for it
          owned,      \* history: volumes that have faulted while they had a claim
          broken      \* history: goroutines that ended with an error

wvars == <<pc, round, claims, vols, faultedNexus, faultedVol, faultedPVCs, todo, cur,
           errchan, over, outcome, told, owned, broken>>
clusterVars == <<claims, vols, faultedNexus, faultedVol, owned>>
monitorVars == <<faultedPVCs, todo, cur, told>>

VolumeInit ==
  /\ pc = [t \in Threads |-> IF t = Monitor THEN "nodes" ELSE "top"]
  /\ round = [w \in Workers |-> 0]
  /\ claims = {} /\ vols = {} /\ faultedNexus = {} /\ faultedVol = {}
  /\ faultedPVCs = {} /\ todo = {} /\ cur = None
  /\ errchan = 0
  /\ over = FALSE
  /\ outcome = "none"
  /\ told = [v \in Volumes |-> 0]
  /\ owned = {} /\ broken = {}

Goes(t, to) == pc' = [pc EXCEPT ![t] = to]
VolOf(w) == <<w, round[w]>>

-----------------------------------------------------------------------------
(* The end of a goroutine                                                  *)

\* Mutant: room for the errors of the volume goroutines only.
MutCapacity == Cardinality(Workers)

Capacity == Cardinality(Workers) + 1

\* An error is first reported as an event, whose own failure is only logged.
Fails(t) == Goes(t, "errchan") /\ broken' = broken \cup {t}
Returns(t) == Goes(t, "done") /\ UNCHANGED broken

\* errchan <- err blocks while the channel is full; then wg.Done.
SendError(t) ==
  /\ pc[t] = "errchan"
  /\ errchan < Capacity
  /\ errchan' = errchan + 1
  /\ Goes(t, "done")
  /\ UNCHANGED <<clusterVars, monitorVars, round, over, outcome, broken>>

\* wg.Wait, and the collection of what is in the channel.
testVolumes ==
  /\ outcome = "none"
  /\ \A t \in Threads : pc[t] = "done"
  /\ outcome' = IF errchan = 0 THEN "ok" ELSE "error"
  /\ UNCHANGED <<clusterVars, monitorVars, pc, round, errchan, over, broken>>

-----------------------------------------------------------------------------
(* A volume goroutine                                                      *)

\* The top of the loop: the time is up, or there is a new volume to make.  MkPVC
\* may fail with or without a claim left behind.
MkPVC(w) ==
  /\ pc[w] = "top"
  /\ \/ over /\ Returns(w) /\ UNCHANGED <<round, claims, vols>>
     \/ ~over /\ Fails(w) /\ UNCHANGED <<round, claims, vols>>
     \/ /\ ~over /\ round[w] < MaxRounds
        /\ round' = [round EXCEPT ![w] = @ + 1]
        /\ claims' = claims \cup {<<w, round[w] + 1>>}
        /\ vols' = vols \cup {<<w, round[w] + 1>>}
        /\ \/ Goes(w, "fio") /\ UNCHANGED broken
           \/ Fails(w)
  /\ UNCHANGED <<faultedNexus, faultedVol, owned, monitorVars, errchan, over, outcome>>

\* DeployFio, WaitPodNotRunning and CheckPodAndDelete: an error of any of them
\* leaves the loop, and the claim.
RunFio(w) ==
  /\ pc[w] \in {"fio", "wait", "check"}
  /\ \/ /\ Goes(w, CASE pc[w] = "fio" -> "wait" [] pc[w] = "wait" -> "check" [] OTHER -> "rmpvc")
        /\ UNCHANGED broken
     \/ Fails(w)
  /\ UNCHANGED <<clusterVars, monitorVars, round, errchan, over, outcome>>

DeletePVC(w) ==
  /\ pc[w] = "rmpvc"
  /\ \/ claims' = claims \ {VolOf(w)} /\ Goes(w, "top") /\ UNCHANGED broken
     \/ UNCHANGED claims /\ Fails(w)
  /\ UNCHANGED <<vols, faultedNexus, faultedVol, owned, monitorVars, round, errchan, over, outcome>>

-----------------------------------------------------------------------------
(* MonitorCRs, without a pod to check: a pass over the nodes, the control  *)
(* plane and the pools.  A check that fails, for whatever reason, is       *)
(* reported as an event; only the first and the last step of a pass can    *)
(* end the monitor.                                                        *)

MonitorKeeps == UNCHANGED <<clusterVars, round, errchan, over, outcome>>

GetMayastorNodeIPs ==
  /\ pc[Monitor] = "nodes"
  /\ Fails(Monitor) \/ (Goes(Monitor, "nexuses") /\ UNCHANGED broken)
  /\ UNCHANGED monitorVars
  /\ MonitorKeeps

\* CheckMSVwithGrpc lists the nexuses, CheckMSVwithCP the volumes.
ListFaulted(from, faulted, to, else) ==
  /\ pc[Monitor] = from
  /\ \/ todo' = faulted /\ Goes(Monitor, to)
     \/ todo' = {} /\ Goes(Monitor, else)
  /\ UNCHANGED <<faultedPVCs, cur, told, broken>>
  /\ MonitorKeeps

\* The loop over a list is over.
ListDone(at, to) ==
  /\ pc[Monitor] = at
  /\ todo = {}
  /\ Goes(Monitor, to)
  /\ UNCHANGED <<monitorVars, broken>>
  /\ MonitorKeeps

\* checkPVCexistsViaNexusUuid: the volume of a faulted nexus is looked for among
\* those of the control plane; a nexus without one is spurious.
FindVolume ==
  /\ pc[Monitor] = "nexus"
  /\ \E v \in todo :
       \/ todo' = {} /\ Goes(Monitor, "volumes") /\ UNCHANGED cur
       \/ v \in vols /\ todo' = todo \ {v} /\ cur' = v /\ Goes(Monitor, "nexusclaim")
       \/ v \notin vols /\ todo' = todo \ {v} /\ UNCHANGED <<cur, pc>>
  /\ UNCHANGED <<faultedPVCs, told, broken>>
  /\ MonitorKeeps

\* A faulted volume of the control plane is looked into unless it was reported before.
PickVolume ==
  /\ pc[Monitor] = "volume"
  /\ \E v \in todo :
       /\ todo' = todo \ {v}
       /\ IF v \in faultedPVCs
          THEN UNCHANGED <<cur, pc>>
          ELSE cur' = v /\ Goes(Monitor, "volumeclaim")
  /\ UNCHANGED <<faultedPVCs, told, broken>>
  /\ MonitorKeeps

\* Mutant: what the other check has reported is reported again.
MutCheckPVC(at, back, else) ==
  /\ pc[Monitor] = at
  /\ cur' = None
  /\ \/ todo' = {} /\ Goes(Monitor, else) /\ UNCHANGED <<faultedPVCs, told>>
     \/ IF cur \in claims
        THEN /\ faultedPVCs' = faultedPVCs \cup {cur}
             /\ told' = [told EXCEPT ![cur] = @ + 1]
             /\ todo' = {} /\ Goes(Monitor, else)
        ELSE Goes(Monitor, back) /\ UNCHANGED <<todo, faultedPVCs, told>>
  /\ UNCHANGED broken
  /\ MonitorKeeps

\* checkPVCexists: a claim that still exists makes the fault a failure, which is
\* reported once and ends the check; otherwise the fault is spurious.
CheckPVC(at, back, else) ==
  /\ pc[Monitor] = at
  /\ cur' = None
  /\ \/ todo' = {} /\ Goes(Monitor, else) /\ UNCHANGED <<faultedPVCs, told>>
     \/ IF cur \in claims /\ cur \notin faultedPVCs
        THEN /\ faultedPVCs' = faultedPVCs \cup {cur}
             /\ told' = [told EXCEPT ![cur] = @ + 1]
             /\ todo' = {} /\ Goes(Monitor, else)
        ELSE Goes(Monitor, back) /\ UNCHANGED <<todo, faultedPVCs, told>>
  /\ UNCHANGED broken
  /\ MonitorKeeps

CheckMSVwithGrpc ==
  \/ ListFaulted("nexuses", faultedNexus, "nexus", "volumes")
  \/ ListDone("nexus", "volumes")
  \/ FindVolume
  \/ CheckPVC("nexusclaim", "nexus", "volumes")

CheckMSVwithCP ==
  \/ ListFaulted("volumes", faultedVol, "volume", "pools")
  \/ ListDone("volume", "pools")
  \/ PickVolume
  \/ CheckPVC("volumeclaim", "volume", "pools")

\* CheckPools, and the end of a pass.
CheckPools ==
  /\ pc[Monitor] = "pools"
  /\ \/ Fails(Monitor)
     \/ over /\ Returns(Monitor)
     \/ ~over /\ Goes(Monitor, "nodes") /\ UNCHANGED broken
  /\ UNCHANGED monitorVars
  /\ MonitorKeeps

MonitorCRs == GetMayastorNodeIPs \/ CheckMSVwithGrpc \/ CheckMSVwithCP \/ CheckPools

-----------------------------------------------------------------------------
(* The environment                                                         *)

EnvKeeps == UNCHANGED <<monitorVars, pc, round, errchan, outcome, broken>>

NexusFaults(v) ==
  /\ v \in vols \ faultedNexus
  /\ faultedNexus' = faultedNexus \cup {v}
  /\ owned' = owned \cup ({v} \cap claims)
  /\ UNCHANGED <<claims, vols, faultedVol, over>>
  /\ EnvKeeps

\* The control plane follows, or finds a fault of its own.
VolumeFaults(v) ==
  /\ v \in vols \ faultedVol
  /\ faultedVol' = faultedVol \cup {v}
  /\ owned' = owned \cup ({v} \cap claims)
  /\ UNCHANGED <<claims, vols, faultedNexus, over>>
  /\ EnvKeeps

\* A volume without a claim goes; its nexus may stay a little longer.
VolumeGoes(v) ==
  /\ v \in (vols \cup faultedNexus) \ claims
  /\ vols' = vols \ {v} /\ faultedVol' = faultedVol \ {v}
  /\ faultedNexus' = IF v \in vols THEN faultedNexus ELSE faultedNexus \ {v}
  /\ UNCHANGED <<claims, owned, over>>
  /\ EnvKeeps

TimeIsUp ==
  /\ ~over
  /\ over' = TRUE
  /\ UNCHANGED clusterVars
  /\ EnvKeeps

-----------------------------------------------------------------------------
Thread(t) ==
  \/ t \in Workers /\ (MkPVC(t) \/ RunFio(t) \/ DeletePVC(t))
  \/ t = Monitor /\ MonitorCRs
  \/ SendError(t)

VolumeNext ==
  \/ \E t \in Threads : Thread(t)
  \/ testVolumes
  \/ \E v \in Volumes : NexusFaults(v) \/ VolumeFaults(v) \/ VolumeGoes(v)
  \/ TimeIsUp

VolumeSpec == VolumeInit /\ [][VolumeNext]_wvars

-----------------------------------------------------------------------------
(* Properties                                                              *)

\* The two checks of the monitor see the same fault at different times, and
\* report it once between them (faultedPVCs); a volume that faulted only
\* after its claim was deleted is never reported as a failure.
FaultsToldOnce == \A v \in Volumes : told[v] <= 1 /\ (told[v] = 1 => v \in owned)

\* A goroutine that has failed always finds room in the channel, which is
\* emptied only after all of them have ended (none waits for ever), and
\* testVolumes returns an error exactly if one of them had one.
ErrorsCollected ==
  /\ \A t \in Threads : pc[t] = "errchan" => errchan < Capacity
  /\ outcome # "none" => (outcome = "error" <=> broken # {})
=============================================================================
