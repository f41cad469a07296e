------------------------------ MODULE PoolWork ------------------------------
(***************************************************************************)
(* primitivePoolDeletion: a replica is made in every pool and removed      *)
(* again, the pools are deleted, Mayastor is restarted, and the pools are  *)
(* created as they were.  The replicas, the usage of the pools and the     *)
(* pool resources are read again and again until they are as expected.     *)
(*                                                                         *)
(* The cluster is the environment: a deleted pool resource goes after its  *)
(* finalizers, a replica may outlive the call that removes it, and every   *)
(* request may fail with or without having been carried out.               *)
(***************************************************************************)
EXTENDS Naturals, FiniteSets

CONSTANTS Pools,      \* the pools the test finds
          MaxAttempts \* attempts of each of its loops (timeout / 10 s in the code)

ASSUME PoolWorkAssumption == MaxAttempts \in Nat \ {0}

VARIABLES at,         \* the step of the test
          attempt,    \* attempts made of the loop it is in
          rest,       \* pools that a loop over the pools has still to visit
          failed,     \* combinederr
          wanted,     \* replicas it has created
          replicas,   \* pools that have a replica
          msp         \* pool -> its resource: "present", "terminating", "absent"

pvars == <<at, attempt, rest, failed, wanted, replicas, msp>>

PoolInit ==
  /\ at = "nodes"
  /\ attempt = 0
  /\ rest = Pools
  /\ failed = FALSE
  /\ wanted = 0
  /\ replicas = {}
  /\ msp = [p \in Pools |-> "present"]

PoolsEnded == at \in {"nil", "error"}
To(step) == at' = step /\ attempt' = 0 /\ rest' = Pools
Same == UNCHANGED <<failed, wanted, replicas, msp>>

\* A poll that comes to its last attempt without success is an error.
Again == IF attempt + 1 < MaxAttempts THEN attempt' = attempt + 1 /\ UNCHANGED <<at, rest>>
                                      ELSE To("error")

Poll(step, met, next) ==
  /\ at = step
  /\ (met /\ To(next)) \/ Again
  /\ Same

-----------------------------------------------------------------------------
\* The error of GetNodeLocs is not looked at: no node, no replica.
GetNodeLocs ==
  /\ at = "nodes"
  /\ To("create") \/ To("created") \/ To("error")
  /\ Same

\* A replica for each pool of each node, with what a failed call leaves.
CreateReplicas ==
  /\ at = "create"
  /\ \/ rest = {} /\ To("created") /\ UNCHANGED <<wanted, replicas>>
     \/ \E p \in rest :
          /\ replicas' \in {replicas, replicas \cup {p}}
          /\ \/ To("error") /\ UNCHANGED wanted
             \/ /\ p \in replicas'
                /\ wanted' = wanted + 1
                /\ rest' = rest \ {p}
                /\ UNCHANGED <<at, attempt>>
  /\ UNCHANGED <<failed, msp>>

WaitCreated == Poll("created", Cardinality(replicas) = wanted, "used")
WaitUsed == Poll("used", replicas # {}, "remove")

\* RmReplicasInCluster; nil does not mean that all are gone.
RmReplicas ==
  /\ at = "remove"
  /\ replicas' \in SUBSET replicas
  /\ To("removed") \/ To("error")
  /\ UNCHANGED <<failed, wanted, msp>>

\* Mutant: the removal is taken to be done when the call has returned.
MutWaitRemoved == at = "removed" /\ To("delete") /\ Same

\* The replicas are listed until there are none, then the usage is zero.
WaitRemoved == Poll("removed", replicas = {}, "unused")
WaitUnused == Poll("unused", replicas = {}, "delete")

\* One round over the pools: what fails is kept in combinederr, which nothing
\* resets, so that a round after a failed one cannot succeed.
Round(next) ==
  /\ rest = {}
  /\ IF ~failed THEN To(next)
     ELSE IF attempt + 1 < MaxAttempts
     THEN attempt' = attempt + 1 /\ rest' = Pools /\ UNCHANGED at
     ELSE To("error")
  /\ Same

DeleteMsPools ==
  /\ at = "delete"
  /\ \/ Round("deleted")
     \/ \E p \in rest :
          /\ rest' = rest \ {p}
          /\ \/ failed' = TRUE /\ UNCHANGED msp
             \/ msp[p] = "present" /\ msp' = [msp EXCEPT ![p] = "terminating"] /\ failed' \in {failed, TRUE}
          /\ UNCHANGED <<at, attempt, wanted, replicas>>

WaitDeleted == Poll("deleted", \A p \in Pools : msp[p] = "absent", "restart")

\* RestartMayastorPods, WaitForMCPPath, WaitForMayastorSockets.
Restart ==
  /\ at = "restart"
  /\ To("recreate") \/ To("error")
  /\ Same

CreateMsPools ==
  /\ at = "recreate"
  /\ \/ Round("settled")
     \/ \E p \in rest :
          /\ rest' = rest \ {p}
          /\ \/ failed' = TRUE /\ UNCHANGED msp
             \/ msp[p] = "absent" /\ msp' = [msp EXCEPT ![p] = "present"] /\ failed' \in {failed, TRUE}
          /\ UNCHANGED <<at, attempt, wanted, replicas>>

WaitSettled == Poll("settled", replicas = {}, "empty")
WaitEmpty == Poll("empty", replicas = {}, "compare")

\* compareMsps: every pool of the first list is there, as it was.
compareMsps ==
  /\ at = "compare"
  /\ \/ (\A p \in Pools : msp[p] # "absent") /\ To("nil")
     \/ To("error")
  /\ Same

-----------------------------------------------------------------------------
(* The environment                                                         *)

PoolGoes ==
  /\ \E p \in Pools : msp[p] = "terminating" /\ msp' = [msp EXCEPT ![p] = "absent"]
  /\ UNCHANGED <<at, attempt, rest, failed, wanted, replicas>>

ReplicaGoes ==
  /\ at \in {"removed", "unused", "delete"}
  /\ \E p \in replicas : replicas' = replicas \ {p}
  /\ UNCHANGED <<at, attempt, rest, failed, wanted, msp>>

PoolTestStep ==
  \/ GetNodeLocs \/ CreateReplicas \/ WaitCreated \/ WaitUsed \/ RmReplicas
  \/ WaitRemoved \/ WaitUnused \/ DeleteMsPools \/ WaitDeleted \/ Restart
  \/ CreateMsPools \/ WaitSettled \/ WaitEmpty \/ compareMsps

PoolNext == PoolTestStep \/ PoolGoes \/ ReplicaGoes
PoolSpec == PoolInit /\ [][PoolNext]_pvars

-----------------------------------------------------------------------------
(* Properties                                                              *)

\* Pools are deleted only when no replica is left in any of them: a removal
\* that failed, or that was not carried out yet, is waited for or ends the test
\* before DeleteMsPool, and so does a replica that could not be counted.
NoPoolDeletedInUse ==
  [][\A p \in Pools : msp[p] = "present" /\ msp'[p] # "present" => replicas = {}]_pvars
=============================================================================
