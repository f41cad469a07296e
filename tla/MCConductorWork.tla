-------------------------- MODULE MCConductorWork ---------------------------
(***************************************************************************)
(* The tests proper of the test conductor and the gRPC client below them.  *)
(* A behaviour is about one of: the calls of the client with two nodes and *)
(* two objects, a test on the replicas of a volume, the goroutines of      *)
(* non_steady_state, or the deletion of pools.                             *)
(***************************************************************************)
EXTENDS MayastorClient, ReplicaWork, VolumeWork, PoolWork

CONSTANTS n1, n2, o1, o2

VARIABLE part

MCNodes == {n1, n2}
MCObjs == {o1, o2}
MCAddrLists == {<< >>, <<n1>>, <<n1, n2>>}

\* The parts that a behaviour is not about stay in one initial state.
WorkInit ==
  /\ part \in {"client", "replicas", "volumes", "pools"}
  /\ GrpcInit({"replica", "nexus", "pool", "controller"})
  /\ part # "client" => kind = "pool" /\ held = [n \in Nodes |-> {}]
  /\ ReplicaInit
  /\ part # "replicas" => work.test = "device"
  /\ VolumeInit /\ PoolInit

WorkNext ==
  /\ UNCHANGED part
  /\ \/ part = "client" /\ GrpcNext /\ UNCHANGED <<rvars, wvars, pvars>>
     \/ part = "replicas" /\ ReplicaNext /\ UNCHANGED <<gvars, wvars, pvars>>
     \/ part = "volumes" /\ VolumeNext /\ UNCHANGED <<gvars, rvars, pvars>>
     \/ part = "pools" /\ PoolNext /\ UNCHANGED <<gvars, rvars, wvars>>

wkvars == <<part, gvars, rvars, wvars, pvars>>

\* The conductor goes on, its waits for pods have a timeout, and time passes.
WorkSpec ==
  /\ WorkInit /\ [][WorkNext]_wkvars
  /\ WF_wkvars(part = "replicas" /\ WorkStep /\ UNCHANGED <<part, gvars, wvars, pvars>>)
  /\ WF_wkvars(part = "replicas" /\ DurationOver /\ UNCHANGED <<part, gvars, wvars, pvars>>)

\* A test on a volume's replicas comes to its end, unless the volume once shows
\* an empty list of replicas: waitForVolumeStatus does not count those polls.
ReplicaWorkEnds == <>(part # "replicas" \/ WorkEnded \/ children = 0)
=============================================================================
