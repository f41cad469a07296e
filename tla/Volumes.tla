------------------------------ MODULE Volumes -------------------------------
(***************************************************************************)
(* A volume from its claim to its removal: MkPVC and RmPVC of the suites'  *)
(* library (src/common/k8stest/util_pvc.go), MkPVC and DeletePVC of the    *)
(* test framework's (common/k8sclient/lib_volume.go), and the reads of the *)
(* control plane (k8stest/msv.go), against a cluster that provisions,      *)
(* binds, degrades, releases and deletes on its own time.                  *)
(*                                                                         *)
(* A caller makes one call after the other; each request it sends is a     *)
(* step, so that the cluster moves between any two of them.  The volume of *)
(* a claim is named by the claim's UID, so one claim has one PV and one    *)
(* Mayastor volume.                                                        *)
(***************************************************************************)
EXTENDS ControlPlane

CONSTANTS
  Masters,      \* the IP addresses of the master nodes, a sequence
  Replicas,     \* uuids of replicas
  MaxTries      \* polls of a wait loop: defTimeoutSecs / timoSleepSecs

ASSUME MaxTriesAssumption == MaxTries \in Nat \ {0}

VARIABLES
  mode,    \* the storage class: "Immediate" or "WaitForFirstConsumer"
  major,   \* the configured major version of Mayastor
  claim,   \* the PVC: None or [phase, name, deleting]; name: Spec.VolumeName
  pv,      \* the phase of the PV, "absent" if there is none
  msv,     \* Mayastor's volume, or None
  asked,   \* the provisioner has taken up the claim
  addrs,   \* nodeIpAddresses and whether the once in msv.go has run
  call,    \* the running call, or None
  last     \* the last call's result, or None

env  == <<claim, pv, msv, asked>>
vars == <<mode, major, claim, pv, msv, asked, addrs, call, last>>

Modes == {"Immediate", "WaitForFirstConsumer"}
PvName == "pv"
MasterSet == {Masters[i] : i \in DOMAIN Masters}
Volume == [uuid : {"uid"}, status : {VolStatePending, VolStateHealthy, "Degraded"},
           num : {1, 2}, topology : SUBSET Replicas \ {{}}]

Reads == {"IsMsvDeleted", "GetMsvState", "GetMSV", "GetMsvReplicas",
          "CheckForMsvs", "CheckAllMsvsAreHealthy", "CheckForPVCs", "CheckForPVs"}

Init ==
  /\ mode \in Modes /\ major \in {0, 1}
  /\ claim = None /\ pv = "absent" /\ msv = None /\ asked = FALSE
  /\ addrs = [set |-> FALSE, list |-> << >>]
  /\ call = None /\ last = None

-----------------------------------------------------------------------------
(* The cluster (external): the CSI provisioner, the binder, Mayastor       *)

\* A pod that uses the claim lets a WaitForFirstConsumer claim be provisioned.
TakeUp ==
  /\ claim # None /\ ~claim.deleting /\ claim.name = "" /\ ~asked
  /\ asked' = TRUE
  /\ UNCHANGED <<mode, major, claim, pv, msv, addrs, call, last>>

\* The volume is made even when the claim has gone in the meantime.
MakeVolume ==
  /\ asked /\ msv = None /\ pv = "absent"
  /\ \E r \in Replicas :
       msv' = [uuid |-> "uid", status |-> VolStatePending, num |-> 1, topology |-> {r}]
  /\ UNCHANGED <<mode, major, claim, pv, asked, addrs, call, last>>

MakePV ==
  /\ asked /\ msv # None /\ pv = "absent"
  /\ pv' = "Pending"
  /\ UNCHANGED <<mode, major, claim, msv, asked, addrs, call, last>>

\* The binder: first the PV's phase, then the claim's volume name, then its phase.
Bind ==
  /\ claim # None /\ ~claim.deleting
  /\ \/ pv = "Pending" /\ pv' = "Bound" /\ claim' = claim
     \/ pv = "Bound" /\ claim.name = "" /\ claim' = [claim EXCEPT !.name = PvName] /\ pv' = pv
     \/ claim.name # "" /\ claim.phase # "Bound" /\ claim' = [claim EXCEPT !.phase = "Bound"] /\ pv' = pv
  /\ UNCHANGED <<mode, major, msv, asked, addrs, call, last>>

\* Nodes come and go, replicas are added, rebuilt and removed.
Reconcile ==
  /\ msv # None
  /\ \E s \in {VolStateHealthy, "Degraded"}, t \in SUBSET Replicas \ {{}} :
       msv' = [msv EXCEPT !.status = s, !.topology = t]
  /\ UNCHANGED <<mode, major, claim, pv, asked, addrs, call, last>>

DropClaim ==
  /\ claim # None /\ claim.deleting
  /\ claim' = None
  /\ UNCHANGED <<mode, major, pv, msv, asked, addrs, call, last>>

\* The PV of a claim that has gone is released, its volume deleted, then the PV.
Release ==
  /\ claim = None
  /\ \/ pv \in {"Pending", "Bound"} /\ pv' = "Released" /\ UNCHANGED <<msv, asked>>
     \/ pv = "Released" /\ msv # None /\ msv' = None /\ UNCHANGED <<pv, asked>>
     \/ pv = "Released" /\ msv = None /\ pv' = "absent" /\ asked' = FALSE /\ UNCHANGED msv
  /\ UNCHANGED <<mode, major, claim, addrs, call, last>>

-----------------------------------------------------------------------------
(* Calls                                                                   *)

\* name: pvc.Spec.VolumeName in the caller's copy of the claim
Begin(op, lib, at) ==
  /\ call = None /\ last = None
  /\ call' = [op |-> op, lib |-> lib, at |-> at, tries |-> 0, name |-> ""]
  /\ last' = None

\* The caller has its result and forgets it, before it makes another call.
Forget ==
  /\ last # None
  /\ last' = None
  /\ UNCHANGED <<mode, major, env, addrs, call>>

Return(err, val) ==
  /\ call' = None
  /\ last' = [op |-> call.op, lib |-> call.lib, name |-> call.name, err |-> err, val |-> val]

At(op, at) == call # None /\ call.op = op /\ call.at = at

Goto(at) ==
  IF at = "return" THEN Return(NoErr, None)
  ELSE call' = [call EXCEPT !.at = at, !.tries = 0] /\ UNCHANGED last

MutPollEver(good, failed, strict, abort, next) ==
  IF good THEN Goto(next)
  ELSE IF failed /\ abort THEN Return("error", None)
  ELSE UNCHANGED <<call, last>>

\* One poll of a wait loop.  good: what the loop waits for was seen; failed:
\* the request failed; strict: running out of polls is an error even if the
\* last request succeeded; abort: a failed request ends the loop.
Poll(good, failed, strict, abort, next) ==
  IF good THEN Goto(next)
  ELSE IF failed /\ abort THEN Return("error", None)
  ELSE IF call.tries + 1 < MaxTries
       THEN call' = [call EXCEPT !.tries = @ + 1] /\ UNCHANGED last
  ELSE IF failed \/ strict THEN Return("error", None)
  ELSE Goto(next)

\* k8stest runs it once for all MSV calls, whether the nodes could be listed or not.
EnsureNodeAddressesAreSet ==
  IF addrs.set THEN UNCHANGED addrs
  ELSE \E listed \in BOOLEAN :
         addrs' = [set |-> TRUE, list |-> IF listed THEN Masters ELSE << >>]

-----------------------------------------------------------------------------
(* MkPVC                                                                   *)

IsPvcBound(failed) == ~failed /\ claim.phase = "Bound"
IsPvBound(failed) == ~failed /\ pv = "Bound"

\* A request may fail although the server has carried it out.
MkPVCCreate ==
  /\ At("MkPVC", "create")
  /\ \E done, failed \in BOOLEAN :
       /\ done \/ failed
       /\ claim' = IF done /\ claim = None THEN [phase |-> "Pending", name |-> "", deleting |-> FALSE]
                   ELSE claim
       /\ IF failed \/ claim # None THEN Return("error", None) ELSE Goto("confirm")
  /\ UNCHANGED <<mode, major, pv, msv, asked, addrs>>

\* The claim and the storage class are read; nothing is waited for when the
\* class binds late.
MkPVCConfirm ==
  /\ At("MkPVC", "confirm")
  /\ \/ Return("error", None)
     \/ mode = "WaitForFirstConsumer" /\ Return(NoErr, None)
     \/ mode = "Immediate" /\ Goto("claim")
  /\ UNCHANGED <<mode, major, env, addrs>>

MkPVCWaitClaim ==
  /\ At("MkPVC", "claim")
  /\ \E failed \in BOOLEAN :
       Poll(IsPvcBound(failed), failed, call.lib = "k8sclient",
            call.lib = "k8sclient", "refresh")
  /\ UNCHANGED <<mode, major, env, addrs>>

\* The waits for the PV are left out.
MutMkPVCRefresh ==
  /\ At("MkPVC", "refresh")
  /\ \/ Return("error", None)
     \/ Goto("msv")
  /\ UNCHANGED <<mode, major, env, addrs>>

MkPVCRefresh ==
  /\ At("MkPVC", "refresh")
  /\ \/ Return("error", None)
     \/ call' = [call EXCEPT !.at = "pv", !.tries = 0, !.name = claim.name] /\ UNCHANGED last
  /\ UNCHANGED <<mode, major, env, addrs>>

\* A PV is fetched by name, which fails for the empty name.
MkPVCWaitPV ==
  /\ At("MkPVC", "pv")
  /\ \E broken \in BOOLEAN :
       LET failed == broken \/ call.name = "" \/ pv = "absent" IN
         Poll(~failed, failed, TRUE, FALSE, "bound")
  /\ UNCHANGED <<mode, major, env, addrs>>

MkPVCWaitBound ==
  /\ At("MkPVC", "bound")
  /\ \E failed \in BOOLEAN :
       Poll(IsPvBound(failed), failed, call.lib = "k8sclient",
            call.lib = "k8sclient", IF call.lib = "k8stest" THEN "msv" ELSE "moac")
  /\ UNCHANGED <<mode, major, env, addrs>>

\* The framework looks at the volume only where moac is deployed, and takes
\* it from the custom resource.
MkPVCMoac ==
  /\ At("MkPVC", "moac")
  /\ \/ Goto("return")
     \/ \E failed \in BOOLEAN :
          Poll(~failed /\ msv # None /\ msv.status # VolStatePending, failed, TRUE, FALSE, "return")
  /\ UNCHANGED <<mode, major, env, addrs>>

\* How the requests for the volume's replicas can go.
ReplicaReading ==
  IF msv = None THEN {<< >>} ELSE [msv.topology -> ReplicaReads(addrs'.list, MasterSet)]

\* What GetMSV can make of the volume there is.
GetMSVResults ==
  LET ways == {<<read, stop>> \in ReplicaReading \X {NoErr, "error", Panic} : stop \in Stops(read)} IN
    {getControlPlane(major, GetMSV(msv, answer, way[1], way[2])) :
       answer \in PluginAnswers(msv), way \in ways}

\* nil and no error, for a pending volume, is not waited on to the end.
MkPVCWaitMSV ==
  /\ At("MkPVC", "msv")
  /\ EnsureNodeAddressesAreSet
  /\ \E r \in GetMSVResults :
       IF r.err = Panic THEN Return(Panic, None)
       ELSE Poll(r.err = NoErr /\ r.val # None, r.err # NoErr, FALSE, FALSE, "return")
  /\ UNCHANGED <<mode, major, env>>

-----------------------------------------------------------------------------
(* RmPVC and the framework's DeletePVC                                     *)

RmPVCGet ==
  /\ At("RmPVC", "get")
  /\ \/ Return("error", None)
     \/ claim # None /\ call' = [call EXCEPT !.at = "delete", !.name = claim.name] /\ UNCHANGED last
  /\ UNCHANGED <<mode, major, env, addrs>>

RmPVCDelete ==
  /\ At("RmPVC", "delete")
  /\ \E done, failed \in BOOLEAN :
       /\ done \/ failed
       /\ claim' = IF done /\ claim # None THEN [claim EXCEPT !.deleting = TRUE] ELSE claim
       /\ IF failed \/ claim = None THEN Return("error", None) ELSE Goto("claim")
  /\ UNCHANGED <<mode, major, pv, msv, asked, addrs>>

\* The object is not found; other errors leave it undecided.
IsPVCDeleted(failed) == ~failed /\ claim = None
IsPVDeleted(failed) == ~failed /\ pv = "absent"

RmPVCWaitClaim ==
  /\ At("RmPVC", "claim")
  /\ \E failed \in BOOLEAN :
       Poll(IsPVCDeleted(failed), failed, TRUE, FALSE,
            IF call.lib = "k8stest" THEN "pv" ELSE "return")
  /\ UNCHANGED <<mode, major, env, addrs>>

\* A claim that was pending when it was read names no PV to wait for.
RmPVCWaitPV ==
  /\ At("RmPVC", "pv")
  /\ \E failed \in BOOLEAN :
       IF call.name = "" THEN Goto("msv")
       ELSE Poll(IsPVDeleted(failed), failed, TRUE, FALSE, "msv")
  /\ UNCHANGED <<mode, major, env, addrs>>

RmPVCWaitMSV ==
  /\ At("RmPVC", "msv")
  /\ EnsureNodeAddressesAreSet
  /\ IF major # 1 THEN Return(Panic, None)
     ELSE \E answer \in PluginAnswers(msv) :
            Poll(IsMayastorVolumeDeleted(msv, answer), FALSE, TRUE, FALSE, "return")
  /\ UNCHANGED <<mode, major, env>>

-----------------------------------------------------------------------------
(* Reads that are one request each, and the scaling of a volume            *)

Volumes == IF msv = None THEN {} ELSE {msv}

ClusterReads == {"CheckForPVCs", "CheckForPVs"}

\* The claims of every namespace of the tests are listed; a list that fails
\* is skipped, since the loop's err is not the function's.
CheckForPVCs(sc, namespaces, listed) ==
  IF ~sc \/ ~namespaces THEN Failed("error") ELSE Returned(listed /\ claim # None)

CheckForPVs(sc, listed) ==
  IF ~sc \/ ~listed THEN Failed("error") ELSE Returned(pv # "absent")

\* The results a read may have; Scale aside, nothing in the cluster changes.
ReadResults(op) ==
  LET answers == PluginAnswers(msv)
      lists   == {"exit", "error", "garbage", "json"} IN
    CASE op = "CheckForPVCs"   -> {CheckForPVCs(a, b, c) : a, b, c \in BOOLEAN}
      [] op = "CheckForPVs"    -> {CheckForPVs(a, b) : a, b \in BOOLEAN}
      [] op = "IsMsvDeleted"   -> {Returned(IsMayastorVolumeDeleted(msv, a)) : a \in answers}
      [] op = "GetMsvState"    -> {GetMayastorVolumeState(msv, a) : a \in answers}
      [] op = "CheckForMsvs"   -> {CheckForMayastorVolumes(Volumes, a) : a \in lists}
      [] op = "CheckAllMsvsAreHealthy" ->
           {[err |-> CheckAllMayastorVolumesAreHealthy(Volumes, a), val |-> None] : a \in lists}
      [] op = "GetMSV"         -> GetMSVResults
      [] op = "GetMsvReplicas" -> {GetMsvReplicas(r) : r \in GetMSVResults}

\* A call that is one request.  Those that ask Mayastor set the addresses first.
Read ==
  \E op \in Reads :
    /\ call = None /\ call' = None /\ last = None
    /\ IF op \in ClusterReads THEN UNCHANGED addrs ELSE EnsureNodeAddressesAreSet
    /\ \E r \in ReadResults(op) :
         LET s == IF op \in ClusterReads THEN r ELSE getControlPlane(major, r) IN
           last' = [op |-> op, lib |-> "k8stest", name |-> "", err |-> s.err, val |-> s.val]
    /\ UNCHANGED <<mode, major, env>>

SetMsvReplicaCount ==
  /\ call = None /\ last = None /\ msv # None
  /\ EnsureNodeAddressesAreSet
  /\ \E n \in {1, 2}, answer \in {"json", "exit", "error"}, done \in BOOLEAN :
       LET r == getControlPlane(major, [err |-> scaleMayastorVolume(answer), val |-> n]) IN
         /\ answer = "json" => done
         /\ msv' = IF done /\ major = 1 THEN [msv EXCEPT !.num = n] ELSE msv
         /\ last' = [op |-> "SetMsvReplicaCount", lib |-> "k8stest", name |-> "",
                     err |-> r.err, val |-> r.val]
  /\ UNCHANGED <<mode, major, claim, pv, asked, call>>

\* GetMsvNodes: the volume is read for its count, then again for its replicas.
GetMsvNodesFirst ==
  /\ At("GetMsvNodes", "first")
  /\ EnsureNodeAddressesAreSet
  /\ \E answer \in PluginAnswers(msv) :
       LET r == getControlPlane(major, GetMayastorCpVolume(msv, answer)) IN
         IF r.err = Panic THEN Return(Panic, None)
         ELSE IF r.err # NoErr THEN Return(NoErr, None)
         ELSE call' = [call EXCEPT !.at = "second", !.tries = r.val.num] /\ UNCHANGED last
  /\ UNCHANGED <<mode, major, env>>

GetMsvNodesSecond ==
  /\ At("GetMsvNodes", "second")
  /\ UNCHANGED addrs
  /\ \E r \in GetMSVResults :
       LET s == GetMsvNodes(call.tries, r) IN Return(s.err, s.val)
  /\ UNCHANGED <<mode, major, env>>

\* WaitForMCPPath polls the list of volumes, each of which is converted.
WaitForMCPPath ==
  /\ At("WaitForMCPPath", "list")
  /\ EnsureNodeAddressesAreSet
  /\ IF major # 1 THEN Return(Panic, None)
     ELSE \/ Poll(FALSE, TRUE, FALSE, FALSE, "return")
          \/ \E read \in ReplicaReading : \E stop \in Stops(read) :
               IF msv # None /\ cpVolumeToMsv(msv, read, stop).err = Panic THEN Return(Panic, None)
               ELSE Goto("return")
  /\ UNCHANGED <<mode, major, env>>

-----------------------------------------------------------------------------
\* A claim made again would have another UID, and so another volume.
Clean == pv = "absent" /\ msv = None /\ ~asked

Call ==
  /\ \/ \E lib \in {"k8stest", "k8sclient"} :
          \/ (claim # None \/ Clean) /\ Begin("MkPVC", lib, "create")
          \/ Begin("RmPVC", lib, IF lib = "k8stest" THEN "get" ELSE "delete")
     \/ Begin("GetMsvNodes", "k8stest", "first")
     \/ Begin("WaitForMCPPath", "k8stest", "list")
  /\ UNCHANGED <<mode, major, env, addrs>>

Step ==
  \/ MkPVCCreate \/ MkPVCConfirm \/ MkPVCWaitClaim \/ MkPVCRefresh \/ MkPVCWaitPV
  \/ MkPVCWaitBound \/ MkPVCMoac \/ MkPVCWaitMSV
  \/ RmPVCGet \/ RmPVCDelete \/ RmPVCWaitClaim \/ RmPVCWaitPV \/ RmPVCWaitMSV
  \/ GetMsvNodesFirst \/ GetMsvNodesSecond \/ WaitForMCPPath

Cluster ==
  \/ TakeUp \/ MakeVolume \/ MakePV \/ Bind \/ Reconcile \/ DropClaim \/ Release

Next == Call \/ Step \/ Forget \/ Read \/ SetMsvReplicaCount \/ Cluster

Spec == Init /\ [][Next]_vars

\* A goroutine that has a call to make gets on with it.
FairSpec == Spec /\ WF_vars(Step)

-----------------------------------------------------------------------------
(* Properties                                                              *)

\* The types of all variables.
TypeOK ==
  /\ mode \in Modes /\ major \in {0, 1} /\ asked \in BOOLEAN
  /\ claim = None \/ claim \in [phase : {"Pending", "Bound"}, name : {"", PvName}, deleting : BOOLEAN]
  /\ pv \in {"absent", "Pending", "Bound", "Released"}
  /\ msv = None \/ msv \in Volume
  /\ addrs \in [set : BOOLEAN, list : {<< >>, Masters}]
  /\ call = None \/ call.tries \in 0..MaxTries
  /\ call # None => last = None

\* A call of MkPVC that returns a uid for a class that binds at once leaves a
\* claim that names its PV, the PV bound and the Mayastor volume made -
\* although the loop of k8stest that waits for the claim (util_pvc.go:194)
\* may run out with the claim still pending.  The framework's, which treats
\* that as an error, leaves the claim bound too.
MkPVCDelivers ==
  last # None /\ last.op = "MkPVC" /\ last.err = NoErr /\ mode = "Immediate" =>
    /\ claim # None /\ claim.name = PvName
    /\ pv = "Bound" /\ msv # None
    /\ last.lib = "k8sclient" => claim.phase = "Bound"

\* When RmPVC returns nil the claim has gone; and if the claim named a PV when
\* it was read (util_pvc.go:347), so have the PV and the Mayastor volume, in
\* whatever way the plugin failed while IsMsvDeleted asked for it.
RmPVCRemoves ==
  last # None /\ last.op = "RmPVC" /\ last.err = NoErr =>
    /\ claim = None
    /\ last.name # "" => pv = "absent" /\ msv = None

\* GetMSV and GetMsvReplicas never show a volume with some of its replicas: one
\* that cannot be read (replica_cp.go:24) leaves none, and GetMSV then gives the
\* empty volume.
NoPartialVolume ==
  [][last' # None /\ last' # last /\ last'.err = NoErr =>
       /\ last'.op = "GetMSV" /\ last'.val # None =>
            last'.val = EmptyMsv \/ DOMAIN last'.val.replicas = msv.topology
       /\ last'.op = "GetMsvReplicas" => DOMAIN last'.val \in {{}, msv.topology}]_vars

\* A check for leftovers (CheckForPVs, CheckForMsvs, IsMsvDeleted) that says
\* there are none, without an error, is right: no failure of a list or of the
\* plugin is taken for an empty cluster.
NothingOverlooked ==
  [][last' # None /\ last' # last /\ last'.err = NoErr =>
       /\ last'.op = "CheckForPVs" /\ ~last'.val => pv = "absent"
       /\ last'.op = "CheckForMsvs" /\ ~last'.val => msv = None
       /\ last'.op = "IsMsvDeleted" /\ last'.val => msv = None]_vars

\* SetMsvReplicaCount returns nil only when the control plane took the count,
\* although the plugin reports some errors with exit code 0 (msv_cp.go:159).
ScaledMeansTaken ==
  [][last' # None /\ last' # last /\ last'.op = "SetMsvReplicaCount" /\ last'.err = NoErr =>
       msv'.num = last'.val]_vars

\* Every call returns, whatever the cluster does: all waits run out.
CallsReturn == (call # None) ~> (call = None)

\* What the callers of MkPVC and RmPVC rely on when these return no error.
ProvisioningDelivers == TypeOK /\ MkPVCDelivers /\ RmPVCRemoves

\* No failure or partial answer of the kubectl plugin is taken for a fact.
PluginNotMisread == NoPartialVolume /\ NothingOverlooked /\ ScaledMeansTaken
=============================================================================
