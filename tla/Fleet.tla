------------------------------- MODULE Fleet -------------------------------
(***************************************************************************)
(* The helpers that look after the cluster rather than after one workload: *)
(* readiness of the control plane and of the Mayastor instances, creation  *)
(* of the pools, node labels, volume attachments, and the objects of a     *)
(* YAML file (k8stest/util.go, util_node.go; k8sclient/lib_pool.go,        *)
(* lib_nodes.go, lib_deploy.go).                                           *)
(*                                                                         *)
(* Calls, requests and polls are those of Workloads.  A behaviour is about *)
(* pods, about an application, or about one of the parts below.            *)
(***************************************************************************)
EXTENDS Workloads

VARIABLES comps,         \* component -> its status, or Idle if there is none
          msn,           \* node -> what the control plane knows of it
          pool,          \* node -> its pool: "none", "made" or "online"
          label,         \* the nodes with the Mayastor label
          att,           \* the volume attachments
          made           \* the documents of the file whose object was created

fvars == <<comps, msn, pool, label, att, made>>
allVars == <<wvars, fvars>>

FleetParts == {"pods", "app", "control", "instances", "pools", "attachments", "yaml", "labels"}

Dep(a) == [kind |-> "dep", available |-> a]
Ds(d, r, a) == [kind |-> "ds", desired |-> d, current |-> d, ready |-> r, available |-> a]
Sts(n, r, c) == [kind |-> "sts", replicas |-> n, ready |-> r, current |-> c]

\* What a component may be like.  The core agent is a deployment in older builds
\* and a stateful set in newer ones.
Statuses ==
  [core |-> {Dep(FALSE), Dep(TRUE), Sts(1, 0, 1), Sts(1, 1, 1)},
   agent |-> {Ds(0, 0, 0), Ds(1, 1, 1), Ds(1, 1, 0)},
   io |-> {Ds(2, 2, a) : a \in 0..2},
   csi |-> {Ds(2, 2, a) : a \in 1..2}]
Components == DOMAIN Statuses
nonControlPlaneComponents == {"io", "csi"}

\* The components a part is about; of the others there are none.
About == CASE part = "control" -> {"core", "agent", "csi"} [] part = "instances" -> {"io", "csi"} [] OTHER -> {}

Attachments == 1..3
NodeOf(a) == IF a = 3 THEN CHOOSE h \in Hosts : h # AnyHost ELSE AnyHost

FleetInit ==
  /\ part \in FleetParts
  /\ WorkloadsInit
  /\ comps \in [Components -> UNION {Statuses[k] : k \in About} \cup {Idle}]
  /\ \A k \in Components : comps[k] \in {Idle} \cup IF k \in About THEN Statuses[k] ELSE {}
  /\ IF part = "instances" THEN msn \in [Hosts -> {"none", "offline", "online"}] ELSE msn = [h \in Hosts |-> "none"]
  /\ IF part = "pools" THEN pool \in [Hosts -> {"none", "made", "online"}] ELSE pool = [h \in Hosts |-> "none"]
  /\ CASE part = "pools" -> label \in SUBSET Hosts [] part = "instances" -> label = Hosts [] OTHER -> label = {}
  /\ IF part = "attachments" THEN att \in SUBSET Attachments ELSE att = {}
  /\ made = {}

-----------------------------------------------------------------------------
(* The cluster                                                             *)

DeploymentReady(s) == s.available
DaemonSetReady(s) == s.desired = s.current /\ s.desired = s.ready /\ s.desired = s.available
StatefulSetReady(s) == s.replicas = s.ready /\ s.ready = s.current /\ s.ready # 0

\* Where there is no object of that kind the read fails.
IsReady(s, kind) ==
  IF s = Idle THEN FALSE
  ELSE IF s.kind # kind THEN FALSE
  ELSE CASE kind = "dep" -> DeploymentReady(s)
         [] kind = "ds"  -> DaemonSetReady(s)
         [] OTHER        -> StatefulSetReady(s)

\* Available pods of a daemon set; -1 if it cannot be read.
PodCount(k, cs) == IF cs[k] = Idle THEN -1 ELSE cs[k].available

KnownNodes == {h \in Hosts : msn[h] # "none"}
HasPool == {h \in Hosts : pool[h] # "none"}
AllOnline(pl) == \A h \in Hosts : pl[h] # "made"

\* The ghosts of these calls.  kept: the components that were ready at some time
\* since the round began, or the attachments that were there all along;
\* seen, applied: what the call waits for was so at some time.
Witness(c) ==
  LET n == Cardinality(c.old) IN
    CASE c.op = "ControlPlaneReady" ->
           [c EXCEPT !.kept = @ \cup {x \in Components \X {"dep", "ds", "sts"} : IsReady(comps'[x[1]], x[2])}]
      [] c.op = "CheckAndSetControlPlane" -> [c EXCEPT !.seen = @ \/ comps'["core"] # Idle]
      [] c.op = "MayastorNodeReady" -> [c EXCEPT !.seen = @ \/ \A h \in Hosts : msn'[h] # "offline"]
      [] c.op = "MayastorReady" -> [c EXCEPT !.seen = @ \/ PodCount("io", comps') = n,
                                             !.applied = @ \/ PodCount("csi", comps') >= n]
      [] c.op = "DeleteVolumeAttachments" -> [c EXCEPT !.kept = @ \cap att']
      [] OTHER -> [c EXCEPT !.seen = @ \/ AllOnline(pool')]

\* During a call the cluster changes, MaxWrites times at most.
Changed(others) ==
  /\ UNCHANGED others
  /\ proc # Idle /\ writes < MaxWrites
  /\ proc' = Witness(proc)
  /\ writes' = writes + 1
  /\ UNCHANGED <<part, pods, app, res, calls, label, made>>

ComponentChanges ==
  /\ \E k \in About : \E s \in Statuses[k] \cup {Idle} : s # comps[k] /\ comps' = [comps EXCEPT ![k] = s]
  /\ Changed(<<msn, pool, att>>)

NodeChanges ==
  /\ part = "instances"
  /\ \E h \in Hosts, s \in {"none", "offline", "online"} : s # msn[h] /\ msn' = [msn EXCEPT ![h] = s]
  /\ Changed(<<comps, pool, att>>)

PoolChanges ==
  /\ part = "pools"
  /\ \E h \in HasPool, s \in {"made", "online"} : s # pool[h] /\ pool' = [pool EXCEPT ![h] = s]
  /\ Changed(<<comps, msn, att>>)

AttachmentChanges ==
  /\ part = "attachments"
  /\ \E a \in Attachments : att' = IF a \in att THEN att \ {a} ELSE att \cup {a}
  /\ Changed(<<comps, msn, pool>>)

-----------------------------------------------------------------------------
(* Nodes                                                                   *)

\* What the labels say of the nodes; a call that uses them may fail instead.
GetNodeLocs(masters) ==
  [h \in Hosts |-> [mayastorNode |-> h \in label, masterNode |-> h \in masters]]
GetMayastorNodeNames == {h \in Hosts : GetNodeLocs({})[h].mayastorNode}

Workers(masters) == {h \in Hosts : ~GetNodeLocs(masters)[h].masterNode}

-----------------------------------------------------------------------------
(* Readiness                                                               *)

Fixed == ReadOnly /\ UNCHANGED fvars

NextRound == Again([proc EXCEPT !.at = "begin", !.old = {}, !.todo = {}, !.kept = {}, !.faulty = FALSE], "timeout")

\* A list of one kind of component, or an error that ends the round.
ListComponents(at, kind, next) ==
  /\ At("ControlPlaneReady", at)
  /\ Fixed
  /\ \/ NextRound
     \/ LET listed == {x \in (Components \ nonControlPlaneComponents) \X {kind} :
                         IF comps[x[1]] = Idle THEN FALSE ELSE comps[x[1]].kind = kind} IN
          Continue(Witness([proc EXCEPT !.at = next, !.old = @ \cup listed, !.todo = @ \cup listed]))

\* A component that is ready clears what was found of the ones before it.
MutReadComponent ==
  /\ At("ControlPlaneReady", "check") /\ proc.todo # {}
  /\ \E x \in proc.todo, failed \in BOOLEAN :
       /\ \A y \in proc.todo : (y[2] = "dep" => x[2] = "dep") /\ (x[2] = "sts" => y[2] = "sts")
       /\ Continue([proc EXCEPT !.todo = @ \ {x}, !.faulty = failed \/ ~IsReady(comps[x[1]], x[2])])
  /\ Fixed

\* The deployments of the lists, then the daemon sets, then the stateful sets are
\* read again, by name; faulty: one of them was not ready or could not be read.
ReadComponent ==
  /\ At("ControlPlaneReady", "check") /\ proc.todo # {}
  /\ \E x \in proc.todo, failed \in BOOLEAN :
       /\ \A y \in proc.todo : (y[2] = "dep" => x[2] = "dep") /\ (x[2] = "sts" => y[2] = "sts")
       /\ Continue([proc EXCEPT !.todo = @ \ {x}, !.faulty = @ \/ failed \/ ~IsReady(comps[x[1]], x[2])])
  /\ Fixed

ControlPlaneReady ==
  \/ ListComponents("begin", "dep", "ds")
  \/ ListComponents("ds", "ds", "sts")
  \/ ListComponents("sts", "sts", "check")
  \/ ReadComponent
  \/ /\ At("ControlPlaneReady", "check") /\ proc.todo = {}
     /\ IF proc.faulty THEN NextRound ELSE Return(proc, "nil")
     /\ Fixed

\* The core agent as a deployment, then as a stateful set; a read that fails
\* counts as absent.
CheckAndSetControlPlane ==
  \/ /\ At("CheckAndSetControlPlane", "begin")
     /\ \/ Goto("sts")
        \/ comps["core"] \in {Dep(FALSE), Dep(TRUE)} /\ Continue([proc EXCEPT !.at = "sts", !.applied = TRUE])
     /\ Fixed
  \/ /\ At("CheckAndSetControlPlane", "sts")
     /\ \/ Return(proc, IF proc.applied THEN "nil" ELSE "error")
        \/ comps["core"] \in {Sts(1, 0, 1), Sts(1, 1, 1)} /\ Return(proc, "nil")
     /\ Fixed

\* The nodes that are known and those that are online, then the instances
\* available: all three numbers must be the same.
MayastorNodeReady ==
  \/ /\ At("MayastorNodeReady", "begin")
     /\ \/ Return(proc, "error")
        \/ Continue([proc EXCEPT !.at = "pods", !.old = KnownNodes, !.todo = {h \in Hosts : msn[h] = "online"}])
     /\ Fixed
  \/ /\ At("MayastorNodeReady", "pods")
     /\ \/ NextRound
        \/ IF PodCount("io", comps) = Cardinality(proc.old) /\ Cardinality(proc.todo) = PodCount("io", comps)
           THEN Return(proc, "nil") ELSE NextRound
     /\ Fixed

\* The labelled nodes that are no masters (match), read once.
MayastorReady ==
  /\ At("MayastorReady", "begin")
  /\ Fixed
  /\ \/ Return(proc, "error")
     \/ Continue(Witness([proc EXCEPT !.at = "io", !.old = Workers(proc.match) \cap GetMayastorNodeNames,
                                       !.seen = FALSE, !.applied = FALSE]))

\* As many instances as that, then at least as many CSI pods.
MayastorInstancesReady ==
  LET later == Again([proc EXCEPT !.at = "io"], "timeout") IN
    \/ /\ At("MayastorReady", "io")
       /\ later \/ (IF PodCount("io", comps) = Cardinality(proc.old) THEN Goto("csi") ELSE later)
       /\ Fixed
    \/ /\ At("MayastorReady", "csi")
       /\ later \/ (IF PodCount("csi", comps) >= Cardinality(proc.old) THEN Return(proc, "nil") ELSE later)
       /\ Fixed

-----------------------------------------------------------------------------
(* Pools                                                                   *)

OnlyPool == UNCHANGED <<part, pods, app, calls, writes, comps, msn, label, att, made>>

\* A request that fails may have created the pool all the same.  The first that
\* fails ends the call; the pools of the nodes before it stay.
CreateMsPool ==
  /\ At("CreatePools", "create") /\ proc.todo # {}
  /\ \E h \in proc.todo, done, ok \in BOOLEAN :
       /\ done => pool[h] = "none"
       /\ ok => done
       /\ pool' = IF done THEN [pool EXCEPT ![h] = "made"] ELSE pool
       /\ IF ok THEN Continue([proc EXCEPT !.todo = @ \ {h}]) ELSE Return(proc, "error")
  /\ OnlyPool

WaitForPoolCrd ==
  /\ At("CreatePools", "crd")
  /\ Again(proc, "error") \/ Continue([proc EXCEPT !.at = "create", !.i = 0])
  /\ Fixed

\* Two lists per poll: are there enough pools, are they all online.  The err of
\* the loop is its own: a wait that runs out of rounds returns nil, too.
CreatePools ==
  LET later == IF proc.i + 1 < Rounds THEN Continue([proc EXCEPT !.i = @ + 1, !.at = "wait"])
               ELSE Return([proc EXCEPT !.i = @ + 1], "nil") IN
    \/ /\ At("CreatePools", "begin")
       /\ Return(proc, "error") \/ Continue([proc EXCEPT !.at = "crd", !.old = GetMayastorNodeNames, !.todo = GetMayastorNodeNames])
       /\ Fixed
    \/ WaitForPoolCrd
    \/ CreateMsPool
    \/ /\ At("CreatePools", "create") /\ proc.todo = {}
       /\ Fixed
       /\ Continue(Witness([proc EXCEPT !.at = "wait", !.seen = FALSE]))
    \/ /\ At("CreatePools", "wait")
       /\ \/ Return(proc, "error")
          \/ IF Cardinality(HasPool) < Cardinality(proc.old) THEN later ELSE Goto("online")
       /\ Fixed
    \/ /\ At("CreatePools", "online")
       /\ later \/ (IF AllOnline(pool) THEN Return(proc, "nil") ELSE later)
       /\ Fixed

\* The error of the last check is returned.
WaitForPoolsToBeOnline ==
  /\ At("WaitForPoolsToBeOnline", "begin")
  /\ Poll(AllOnline(pool), "retry", "timeout")
  /\ UNCHANGED fvars

-----------------------------------------------------------------------------
(* Attachments, files and labels                                           *)

OnlyAtt == UNCHANGED <<part, pods, app, calls, writes, comps, msn, pool, label, made>>

\* A deletion that fails, of one that is gone by now too, ends the call with the
\* err of the list, which is nil.
DeleteVolumeAttachments ==
  \/ /\ At("DeleteVolumeAttachments", "begin")
     /\ Return(proc, "error") \/ Continue([proc EXCEPT !.at = "delete", !.todo = {a \in att : NodeOf(a) = proc.node}])
     /\ Fixed
  \/ /\ At("DeleteVolumeAttachments", "delete") /\ proc.todo = {}
     /\ Return(proc, "nil") /\ Fixed
  \/ /\ At("DeleteVolumeAttachments", "delete") /\ proc.todo # {}
     /\ LET a == Min(proc.todo) IN
          \/ Return(Faulty, "nil") /\ UNCHANGED att
          \/ a \in att /\ att' = att \ {a} /\ Continue([proc EXCEPT !.todo = @ \ {a}, !.kept = @ \ {a}])
     /\ OnlyAtt

OnlyMade == UNCHANGED <<part, pods, app, calls, writes, comps, msn, pool, label, att>>

\* The documents of the file one after the other; match: those of a kind that is
\* supported.  The first that cannot be decoded or created ends the call; the
\* answer to a request that was carried out may be lost.
DeployYaml ==
  \/ At("DeployYaml", "begin") /\ (Return(proc, "error") \/ Goto("doc")) /\ Fixed
  \/ At("DeployYaml", "doc") /\ proc.todo = {} /\ Return(proc, "nil") /\ Fixed
  \/ /\ At("DeployYaml", "doc") /\ proc.todo # {}
     /\ LET d == Min(proc.todo) IN
          \/ Return(proc, "error") /\ (UNCHANGED made \/ (d \in proc.match /\ made' = made \cup {d}))
          \/ d \in proc.match /\ made' = made \cup {d} /\ Continue([proc EXCEPT !.todo = @ \ {d}])
     /\ OnlyMade

OnlyLabel == UNCHANGED <<part, pods, app, calls, writes, comps, msn, pool, att, made>>

\* kubectl labels the node, or it fails.
LabelNode(h, c) ==
  /\ \/ label' = label \cup {h} /\ Continue(c)
     \/ UNCHANGED label /\ Continue([c EXCEPT !.faulty = TRUE])
  /\ OnlyLabel

\* All nodes but the masters (match); failures are accumulated.
EnsureNodeLabels ==
  \/ /\ At("EnsureNodeLabels", "begin")
     /\ Return(proc, "error")
        \/ Continue([proc EXCEPT !.at = "label", !.old = Workers(proc.match), !.todo = Workers(proc.match)])
     /\ Fixed
  \/ /\ At("EnsureNodeLabels", "label") /\ proc.todo # {}
     /\ \E h \in proc.todo : LabelNode(h, [proc EXCEPT !.todo = @ \ {h}])
  \/ /\ At("EnsureNodeLabels", "label") /\ proc.todo = {}
     /\ Return(proc, IF proc.faulty THEN "error" ELSE "nil") /\ Fixed

-----------------------------------------------------------------------------
\* A new call.  match is what the call is given, or depends on without changing it.
FleetCall(op, match) ==
  /\ UNCHANGED fvars
  /\ Begin(Witness([NewCall(op, {}) EXCEPT !.match = match, !.kept = att,
                                           !.todo = IF op = "DeployYaml" THEN 1..3 ELSE {}]))

CallFleet ==
  \/ part = "control" /\ \E op \in {"ControlPlaneReady", "CheckAndSetControlPlane"} : FleetCall(op, {})
  \/ part = "instances" /\ FleetCall("MayastorNodeReady", {})
  \/ part = "instances" /\ \E masters \in SUBSET Hosts : FleetCall("MayastorReady", masters)
  \/ part = "pools" /\ \E op \in {"CreatePools", "WaitForPoolsToBeOnline"} : FleetCall(op, {})
  \/ part = "attachments" /\ FleetCall("DeleteVolumeAttachments", {})
  \/ part = "yaml" /\ \E supported \in SUBSET (1..3) : FleetCall("DeployYaml", supported)
  \/ part = "labels" /\ \E masters \in SUBSET Hosts : FleetCall("EnsureNodeLabels", masters)

FleetStep ==
  \/ ControlPlaneReady \/ CheckAndSetControlPlane \/ MayastorNodeReady
  \/ MayastorReady \/ MayastorInstancesReady
  \/ CreatePools \/ WaitForPoolsToBeOnline
  \/ DeleteVolumeAttachments \/ DeployYaml \/ EnsureNodeLabels

FleetNext ==
  \/ WorkloadsNext /\ UNCHANGED fvars
  \/ ComponentChanges \/ NodeChanges \/ PoolChanges \/ AttachmentChanges
  \/ CallFleet \/ FleetStep

\* As for the workloads, every request is answered.
FleetSpec ==
  /\ FleetInit
  /\ [][FleetNext]_allVars
  /\ WF_allVars((WorkloadsStep /\ UNCHANGED fvars) \/ FleetStep)

-----------------------------------------------------------------------------
(* Properties                                                              *)

Returned(op) == res # Idle /\ res.op = op /\ res.ret = "nil"

\* Nothing is called ready that was not: every deployment, daemon set and
\* stateful set that a round of ControlPlaneReady listed was ready at some time
\* of that round, though lists and reads are at different times; all nodes known
\* were online at some time before MayastorNodeReady says so; there were as many
\* instances, and as many CSI pods, as MayastorReady counted nodes, though not at
\* one time; and the pools were online when WaitForPoolsToBeOnline returns nil.
ReadinessEarned ==
  /\ Returned("ControlPlaneReady") => res.old \subseteq res.kept
  /\ Returned("CheckAndSetControlPlane") => res.seen
  /\ Returned("MayastorNodeReady") => res.seen
  /\ Returned("MayastorReady") => res.seen /\ res.applied
  /\ Returned("WaitForPoolsToBeOnline") => res.seen

\* CreatePools returns nil only with a pool on every labelled node, and, unless
\* its rounds ran out, after all pools were online at one time.
PoolsMade ==
  Returned("CreatePools") => res.old \subseteq HasPool /\ (res.i = Rounds \/ res.seen)

\* DeleteVolumeAttachments returns nil when a deletion failed, or when no
\* attachment is left of those that the node had all along.
AttachmentsGone ==
  Returned("DeleteVolumeAttachments") => res.faulty \/ \A a \in res.kept : NodeOf(a) # AnyHost

\* The objects of a file are created in order, without a gap, so that what a
\* failed DeployYaml leaves behind is a beginning of the file; nil means all.
YamlInOrder ==
  /\ \A d \in made : 1..d \subseteq made
  /\ Returned("DeployYaml") => made = 1..3

\* EnsureNodeLabels returns nil only with the label on every worker.
WorkersLabelled == Returned("EnsureNodeLabels") => res.old \subseteq label

\* What each of these helpers has brought about, or seen, when it returns nil,
\* with the exceptions that its loop or its error handling leaves.
HelpersDeliver ==
  /\ WorkloadsTypeOK /\ StuckPodsGone /\ UpdatesReported
  /\ ReadinessEarned /\ PoolsMade /\ AttachmentsGone /\ YamlInOrder /\ WorkersLabelled
=============================================================================
