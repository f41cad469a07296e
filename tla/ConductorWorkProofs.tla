------------------------ MODULE ConductorWorkProofs -------------------------
(***************************************************************************)
(* What the tests proper of the conductor guarantee, for every number of   *)
(* disks, volume goroutines, rounds and pools.                             *)
(***************************************************************************)
EXTENDS ReplicaWork, VolumeWork, PoolWork, FiniteSetTheorems, TLAPS

-----------------------------------------------------------------------------
(* Pools                                                                   *)

\* While pools are deleted there is no replica; only PoolGoes and the deletion
\* change a pool that is there.
PoolInv == DOMAIN msp = Pools /\ (at = "delete" => replicas = {})

LEMMA PoolStep ==
  ASSUME PoolInv, [PoolNext]_pvars
  PROVE  /\ PoolInv'
         /\ \A p \in Pools : msp[p] = "present" /\ msp'[p] # "present" => replicas = {}
  <1>1. CASE UNCHANGED pvars
    BY <1>1 DEF PoolInv, pvars
  <1>2. CASE CreateReplicas \/ RmReplicas
    BY <1>2 DEF PoolInv, CreateReplicas, RmReplicas, To
  <1>3. CASE \/ WaitCreated \/ WaitUsed \/ WaitRemoved \/ WaitUnused \/ WaitDeleted
             \/ WaitSettled \/ WaitEmpty
    BY <1>3 DEF PoolInv, WaitCreated, WaitUsed, WaitRemoved, WaitUnused, WaitDeleted, WaitSettled, WaitEmpty,
                Poll, Again, To, Same
  <1>4. CASE GetNodeLocs \/ Restart \/ compareMsps
    BY <1>4 DEF PoolInv, GetNodeLocs, Restart, compareMsps, To, Same
  <1>5. CASE DeleteMsPools
    BY <1>5, Zenon DEF PoolInv, DeleteMsPools, Round, To, Same
  <1>6. CASE CreateMsPools
    BY <1>6, Zenon DEF PoolInv, CreateMsPools, Round, To, Same
  <1>7. CASE PoolGoes \/ ReplicaGoes
    BY <1>7 DEF PoolInv, PoolGoes, ReplicaGoes
  <1> QED BY <1>1, <1>2, <1>3, <1>4, <1>5, <1>6, <1>7 DEF PoolNext, PoolTestStep

\* NoPoolDeletedInUse: primitivePoolDeletion deletes a pool only when there is
\* no replica in any of them, however many pools and attempts there are.
THEOREM PoolsDeletedUnused == PoolSpec => NoPoolDeletedInUse
  <1>1. PoolInit => PoolInv
    BY DEF PoolInit, PoolInv
  <1>2. PoolInv /\ [PoolNext]_pvars =>
          /\ PoolInv'
          /\ [\A p \in Pools : msp[p] = "present" /\ msp'[p] # "present" => replicas = {}]_pvars
    BY PoolStep
  <1> QED BY <1>1, <1>2, PTL DEF PoolSpec, NoPoolDeletedInUse
-----------------------------------------------------------------------------
(* Volume goroutines: what the monitor tells                               *)

\* A volume that has been made already.
Made(v) == v \in Volumes /\ v[2] <= round[v[1]]

\* Is the monitor about to ask for the claim of cur?
Looking == pc[Monitor] \in {"nexusclaim", "volumeclaim"}

\* The volumes the monitor may yet tell of.
Suspects == faultedNexus \cup faultedVol \cup todo \cup (IF Looking THEN {cur} ELSE {})

\* A volume gets its claim when it is made and never again, so whatever is
\* faulted now, or was when it was listed, and has a claim has faulted with it.
ToldInv ==
  /\ round \in [Workers -> Nat]
  /\ DOMAIN pc = Threads
  /\ \A v \in vols \cup claims \cup Suspects : Made(v)
  /\ \A v \in Suspects : v \in claims => v \in owned
  /\ told = [v \in Volumes |-> IF v \in faultedPVCs THEN 1 ELSE 0]
  /\ faultedPVCs \subseteq owned

\* A step that leaves the monitor's memory alone, makes no volume and brings no suspect
\* with a claim that has not faulted with it.
LEMMA QuietStep ==
  ASSUME ToldInv, UNCHANGED <<round, told, faultedPVCs>>, DOMAIN pc' = Threads,
         vols' \subseteq vols, claims' \subseteq claims, owned \subseteq owned',
         \A v \in Suspects' : v \in Suspects \/ (v \in vols /\ (v \in claims => v \in owned'))
  PROVE  ToldInv'
  <1>1. \A v : Made(v)' <=> Made(v)
    BY DEF Made
  <1> QED BY <1>1 DEF ToldInv

\* The volume goroutines.
LEMMA WorkerTold ==
  ASSUME ToldInv, NEW w \in Workers, MkPVC(w) \/ RunFio(w) \/ DeletePVC(w)
  PROVE  ToldInv'
  <1> USE DEF Goes, Fails, Returns, clusterVars, monitorVars
  <1>0. DOMAIN pc' = Threads
    BY DEF ToldInv, MkPVC, RunFio, DeletePVC
  <1>a. Looking' => Looking
    BY DEF Looking, MkPVC, RunFio, DeletePVC, ToldInv, Threads
  <1>b. UNCHANGED <<faultedNexus, faultedVol, todo, cur, told, faultedPVCs, owned>>
    BY DEF MkPVC, RunFio, DeletePVC
  <1>c. Suspects' \subseteq Suspects
    BY <1>a, <1>b DEF Suspects
  <1>1. CASE RunFio(w) \/ DeletePVC(w) \/ (MkPVC(w) /\ UNCHANGED <<round, claims, vols>>)
    <2>1. UNCHANGED <<round, vols>> /\ claims' \subseteq claims
      BY <1>1 DEF RunFio, DeletePVC
    <2> QED BY <1>0, <1>b, <1>c, <2>1, QuietStep
  <1>2. CASE /\ round[w] < MaxRounds
             /\ round' = [round EXCEPT ![w] = @ + 1]
             /\ claims' = claims \cup {<<w, round[w] + 1>>}
             /\ vols' = vols \cup {<<w, round[w] + 1>>}
    <2> DEFINE new == <<w, round[w] + 1>>
    <2>1. round' \in [Workers -> Nat] /\ round'[w] = round[w] + 1
      BY <1>2 DEF ToldInv
    <2>2. \A v : Made(v) => Made(v)' /\ v # new
      BY <1>2 DEF Made, ToldInv, Volumes
    <2>3. ASSUME NEW v, v = new PROVE Made(v)'
      <3>1. round[w] + 1 \in 1..MaxRounds
        BY <1>2, VolumeWorkAssumption DEF ToldInv
      <3>2. new \in Volumes /\ new[1] = w /\ new[2] = round[w] + 1
        BY <3>1 DEF Volumes
      <3>3. round'[new[1]] = round[w] + 1 /\ new[2] <= round[w] + 1
        BY <2>1, <3>1, <3>2
      <3> HIDE DEF new
      <3> QED BY <2>3, <3>2, <3>3 DEF Made
    <2>4. \A v \in vols' \cup claims' \cup Suspects' : Made(v)'
      <3> HIDE DEF new
      <3>1. \A v \in vols' \cup claims' \cup Suspects' : v = new \/ v \in vols \cup claims \cup Suspects
        BY <1>2, <1>c DEF new
      <3> QED BY <2>2, <2>3, <3>1 DEF ToldInv
    <2>5. \A v \in Suspects' : v \in claims' => v \in owned'
      BY <1>2, <1>b, <1>c, <2>2 DEF ToldInv
    <2> HIDE DEF new
    <2> QED BY <1>0, <1>b, <2>1, <2>4, <2>5 DEF ToldInv
  <1> QED BY <1>1, <1>2 DEF MkPVC

\* The monitor looks for suspects among what is faulted.
LEMMA MonitorLists ==
  ASSUME ToldInv,
         \/ GetMayastorNodeIPs \/ CheckPools \/ FindVolume \/ PickVolume
         \/ \E from, to, else \in {"nexuses", "nexus", "volumes", "volume", "pools"} :
              \/ ListFaulted(from, faultedNexus, to, else)
              \/ ListFaulted(from, faultedVol, to, else)
              \/ ListDone(from, to)
  PROVE  ToldInv'
  <1> USE DEF Goes, Fails, Returns, clusterVars, monitorVars, MonitorKeeps
  <1>1. /\ UNCHANGED <<round, told, faultedPVCs, vols, claims, owned, faultedNexus, faultedVol>>
        /\ DOMAIN pc' = Threads
    BY Zenon DEF ToldInv, GetMayastorNodeIPs, CheckPools, FindVolume, PickVolume, ListFaulted, ListDone
  <1>2. Monitor \in Threads /\ DOMAIN pc = Threads
    BY DEF Threads, ToldInv
  <1>3. todo' \subseteq Suspects
    BY Zenon DEF Suspects, GetMayastorNodeIPs, CheckPools, FindVolume, PickVolume, ListFaulted, ListDone
  <1>4. Looking' => cur' \in Suspects
    <2>1. CASE FindVolume \/ PickVolume
      BY <1>2, <2>1 DEF Suspects, Looking, FindVolume, PickVolume
    <2>2. CASE ~(FindVolume \/ PickVolume)
      BY <1>2, <2>2, Zenon DEF Looking, GetMayastorNodeIPs, CheckPools, ListFaulted, ListDone
    <2> QED BY <2>1, <2>2
  <1>5. Suspects' \subseteq Suspects
    BY <1>1, <1>3, <1>4 DEF Suspects
  <1> QED BY <1>1, <1>5, QuietStep

\* The monitor finds the claim of a suspect, or does not.
LEMMA MonitorTells ==
  ASSUME ToldInv, NEW back \in {"nexus", "volume"}, NEW else \in {"volumes", "pools"},
         CheckPVC("nexusclaim", back, else) \/ CheckPVC("volumeclaim", back, else)
  PROVE  ToldInv'
  <1> USE DEF Goes, clusterVars, MonitorKeeps
  <1>1. /\ UNCHANGED <<round, vols, claims, owned, faultedNexus, faultedVol>>
        /\ DOMAIN pc' = Threads
        /\ todo' \subseteq todo
        /\ ~Looking'
        /\ cur \in Suspects
    BY DEF ToldInv, CheckPVC, Looking, Suspects, Threads
  <1>2. Suspects' \subseteq Suspects
    BY <1>1 DEF Suspects
  <1>3. CASE UNCHANGED <<told, faultedPVCs>>
    BY <1>1, <1>2, <1>3, QuietStep
  <1>4. CASE /\ cur \in claims /\ cur \notin faultedPVCs
             /\ faultedPVCs' = faultedPVCs \cup {cur}
             /\ told' = [told EXCEPT ![cur] = @ + 1]
    <2>1. cur \in Volumes /\ cur \in owned
      BY <1>1, <1>4 DEF ToldInv, Made
    <2>2. told' = [v \in Volumes |-> IF v \in faultedPVCs' THEN 1 ELSE 0]
      BY <1>4, <2>1 DEF ToldInv
    <2>3. \A v : Made(v)' <=> Made(v)
      BY <1>1 DEF Made
    <2> QED BY <1>1, <1>2, <1>4, <2>1, <2>2, <2>3 DEF ToldInv
  <1> QED BY <1>3, <1>4 DEF CheckPVC

\* The cluster.
LEMMA ClusterTold ==
  ASSUME ToldInv,
         \/ \E v \in Volumes : NexusFaults(v) \/ VolumeFaults(v) \/ VolumeGoes(v)
         \/ TimeIsUp \/ testVolumes \/ \E t \in Threads : SendError(t)
  PROVE  ToldInv'
  <1> USE DEF EnvKeeps, clusterVars, monitorVars
  <1>1. /\ UNCHANGED <<round, told, faultedPVCs, todo, cur, claims>>
        /\ vols' \subseteq vols /\ owned \subseteq owned'
    BY DEF NexusFaults, VolumeFaults, VolumeGoes, TimeIsUp, testVolumes, SendError
  <1>2. DOMAIN pc' = Threads /\ (Looking' => Looking)
    BY DEF NexusFaults, VolumeFaults, VolumeGoes, TimeIsUp, testVolumes, SendError, Looking, Goes, ToldInv, Threads
  <1>3. \A v \in faultedNexus' \cup faultedVol' :
          v \in Suspects \/ (v \in vols /\ (v \in claims => v \in owned'))
    BY DEF NexusFaults, VolumeFaults, VolumeGoes, TimeIsUp, testVolumes, SendError, Suspects
  <1>4. \A v \in Suspects' : v \in Suspects \/ (v \in vols /\ (v \in claims => v \in owned'))
    BY <1>1, <1>2, <1>3 DEF Suspects
  <1> QED BY <1>1, <1>2, <1>4, QuietStep

LEMMA ToldStep == ToldInv /\ [VolumeNext]_wvars => ToldInv'
  <1> SUFFICES ASSUME ToldInv, [VolumeNext]_wvars PROVE ToldInv'
    OBVIOUS
  <1>1. CASE UNCHANGED wvars
    <2>1. UNCHANGED <<round, told, faultedPVCs, vols, claims, owned, pc>> /\ Suspects' = Suspects
      BY <1>1 DEF wvars, Suspects, Looking
    <2> QED BY <2>1, QuietStep DEF ToldInv
  <1>2. CASE MonitorCRs
    BY <1>2, MonitorLists, MonitorTells DEF MonitorCRs, CheckMSVwithGrpc, CheckMSVwithCP
  <1> QED BY <1>1, <1>2, WorkerTold, ClusterTold DEF VolumeNext, Thread

\* FaultsToldOnce: MonitorCRs sends one failure event for a volume, however many
\* volumes there are, and only if it has faulted while it had a claim.
THEOREM FaultsAreToldOnce == VolumeSpec => []FaultsToldOnce
  <1>1. VolumeInit => ToldInv
    BY VolumeWorkAssumption DEF VolumeInit, ToldInv, Suspects, Looking, Threads, Made
  <1>2. ToldInv => FaultsToldOnce
    BY DEF ToldInv, FaultsToldOnce
  <1> QED BY <1>1, <1>2, ToldStep, PTL DEF VolumeSpec

-----------------------------------------------------------------------------
(* Volume goroutines: their errors                                         *)

\* The goroutines whose error is in the channel.
Sent == {t \in broken : pc[t] = "done"}

\* The channel holds one error of each goroutine that failed and has ended.
CollectInv ==
  /\ DOMAIN pc = Threads /\ broken \subseteq Threads
  /\ \A t \in Threads : pc[t] = "errchan" => t \in broken
  /\ \A t \in broken : pc[t] \in {"errchan", "done"}
  /\ errchan = Cardinality(Sent)
  /\ outcome # "none" =>
       (\A t \in Threads : pc[t] = "done") /\ (outcome = "error" <=> broken # {})

LEMMA ThreadsFinite ==
  /\ IsFiniteSet(Threads)
  /\ Cardinality(Threads) <= Capacity
  /\ Cardinality(Threads) \in Nat
  /\ Capacity \in Nat
  <1>1. IsFiniteSet(Workers) /\ Cardinality(Workers) \in Nat
    BY VolumeWorkAssumption, FS_CardinalityType
  <1>2. IsFiniteSet(Threads) /\ Cardinality(Threads) \in {Cardinality(Workers), Cardinality(Workers) + 1}
    BY <1>1, FS_AddElement DEF Threads
  <1> QED BY <1>1, <1>2 DEF Capacity

\* A goroutine that is at work goes on, returns, or fails.
LEMMA WorkingStep ==
  ASSUME CollectInv, NEW t \in Threads, pc[t] \notin {"errchan", "done"},
         UNCHANGED <<errchan, outcome>>, NEW to, pc' = [pc EXCEPT ![t] = to],
         \/ to = "errchan" /\ broken' = broken \cup {t}
         \/ to # "errchan" /\ broken' = broken
  PROVE  CollectInv'
  <1>1. t \notin broken /\ outcome = "none"
    BY DEF CollectInv
  <1>2. Sent' = Sent
    BY <1>1 DEF Sent, CollectInv
  <1> QED BY <1>1, <1>2 DEF CollectInv

LEMMA SendStep ==
  ASSUME CollectInv, NEW t \in Threads, SendError(t)
  PROVE  CollectInv'
  <1>1. /\ t \in broken /\ outcome = "none" /\ UNCHANGED <<broken, outcome>>
        /\ pc' = [pc EXCEPT ![t] = "done"] /\ errchan' = errchan + 1 /\ pc[t] = "errchan"
    BY DEF CollectInv, SendError, Goes
  <1>2. Sent' = Sent \cup {t} /\ t \notin Sent
    BY <1>1 DEF Sent, CollectInv
  <1>3. IsFiniteSet(Sent)
    <2>1. Sent \subseteq Threads
      BY DEF Sent, CollectInv
    <2> QED BY <2>1, ThreadsFinite, FS_Subset
  <1>4. Cardinality(Sent') = Cardinality(Sent) + 1
    BY <1>2, <1>3, FS_AddElement, Zenon
  <1> QED BY <1>1, <1>4 DEF CollectInv

LEMMA CollectStep == CollectInv /\ [VolumeNext]_wvars => CollectInv'
  <1> SUFFICES ASSUME CollectInv, [VolumeNext]_wvars PROVE CollectInv'
    OBVIOUS
  <1>1. CASE UNCHANGED <<pc, broken, errchan, outcome>>
    BY <1>1 DEF CollectInv, Sent
  <1>2. CASE UNCHANGED wvars
    BY <1>1, <1>2 DEF wvars
  <1>3. CASE \/ TimeIsUp
             \/ \E v \in Volumes : NexusFaults(v) \/ VolumeFaults(v) \/ VolumeGoes(v)
    BY <1>1, <1>3 DEF TimeIsUp, NexusFaults, VolumeFaults, VolumeGoes, EnvKeeps
  <1>4. CASE \E w \in Workers : MkPVC(w) \/ RunFio(w) \/ DeletePVC(w)
    <2>1. PICK w \in Workers : MkPVC(w) \/ RunFio(w) \/ DeletePVC(w)
      BY <1>4
    <2>2. w \in Threads /\ pc[w] \notin {"errchan", "done"} /\ UNCHANGED <<errchan, outcome>>
      BY <2>1 DEF Threads, MkPVC, RunFio, DeletePVC
    <2>3. \E to : /\ pc' = [pc EXCEPT ![w] = to]
                  /\ \/ to = "errchan" /\ broken' = broken \cup {w}
                     \/ to # "errchan" /\ broken' = broken
      BY <2>1 DEF MkPVC, RunFio, DeletePVC, Goes, Fails, Returns
    <2> QED BY <2>2, <2>3, WorkingStep, Zenon
  <1>5. CASE MonitorCRs
    <2>1. /\ Monitor \in Threads /\ pc[Monitor] \notin {"errchan", "done"}
          /\ UNCHANGED <<errchan, outcome>>
      BY <1>5 DEF Threads, MonitorCRs, CheckMSVwithGrpc, CheckMSVwithCP, GetMayastorNodeIPs, CheckPools, FindVolume,
                  PickVolume, ListFaulted, ListDone, CheckPVC, MonitorKeeps
    <2>2. \/ \E to : /\ pc' = [pc EXCEPT ![Monitor] = to]
                     /\ \/ to = "errchan" /\ broken' = broken \cup {Monitor}
                        \/ to # "errchan" /\ broken' = broken
          \/ UNCHANGED <<pc, broken>>
      BY <1>5 DEF MonitorCRs, CheckMSVwithGrpc, CheckMSVwithCP, GetMayastorNodeIPs, CheckPools, FindVolume,
                  PickVolume, ListFaulted, ListDone, CheckPVC, Goes, Fails, Returns
    <2> QED BY <1>1, <2>1, <2>2, WorkingStep
  <1>6. CASE testVolumes
    <2>1. Sent = broken /\ UNCHANGED <<pc, errchan, broken>>
      BY <1>6 DEF testVolumes, Sent, CollectInv
    <2>2. errchan = 0 <=> broken = {}
      <3>1. IsFiniteSet(broken)
        BY ThreadsFinite, FS_Subset DEF CollectInv
      <3> QED BY <2>1, <3>1, FS_EmptySet DEF CollectInv
    <2>3. Sent' = Sent
      BY <2>1 DEF Sent
    <2>4. (\A t \in Threads : pc[t] = "done") /\ outcome' = IF errchan = 0 THEN "ok" ELSE "error"
      BY <1>6 DEF testVolumes
    <2> QED BY <2>1, <2>2, <2>3, <2>4 DEF CollectInv
  <1> QED BY <1>2, <1>3, <1>4, <1>5, <1>6, SendStep DEF VolumeNext, Thread

\* ErrorsCollected: whatever the number of volume goroutines, none of those that
\* have failed waits for room in the channel, and testVolumes returns an error
\* exactly if one of them, or MonitorCRs, had one.
THEOREM NoErrorLeftInTheChannel == VolumeSpec => []ErrorsCollected
  <1>1. VolumeInit => CollectInv
    BY FS_EmptySet DEF VolumeInit, CollectInv, Sent, Threads
  <1>2. CollectInv => ErrorsCollected
    <2> SUFFICES ASSUME CollectInv, NEW t \in Threads, pc[t] = "errchan" PROVE errchan < Capacity
      BY DEF ErrorsCollected, CollectInv
    <2>1. Sent \subseteq Threads \ {t}
      BY DEF Sent, CollectInv
    <2>2. IsFiniteSet(Threads \ {t}) /\ Cardinality(Threads \ {t}) = Cardinality(Threads) - 1
      BY ThreadsFinite, FS_RemoveElement
    <2>3. Cardinality(Sent) <= Cardinality(Threads) - 1 /\ Cardinality(Sent) \in Nat
      BY <2>1, <2>2, FS_Subset, FS_CardinalityType
    <2> QED BY <2>3, ThreadsFinite DEF CollectInv
  <1> QED BY <1>1, <1>2, CollectStep, PTL DEF VolumeSpec

-----------------------------------------------------------------------------
(* Replicas of a volume: the programs                                      *)

\* The disks that a test may take offline, and the steps of the tests.
Spots == Disks \cup {0, 1, 2}
Steps ==
  {Do("top", 0), Do("await", "Degraded"), Do("await", "Online"), Do("leave", "Online"),
   Do("offline", Disks), Do("offline", {0}), Do("offline", {1}), Do("offline", {2}),
   Do("look", 0), Do("restore", 0), Do("kill", 0), Do("kill", 1), Do("kill", 2),
   Do("set", [n |-> 2, puts |-> 1]), Do("set", [n |-> 3, puts |-> 1]),
   Do("set", [n |-> 3, puts |-> MaxPuts]), Do("attempt", [n |-> 3, puts |-> 1]),
   Do("deploy", "write"), Do("podwait", "write"), Do("podcheck", "write"),
   Do("deploy", "read"), Do("podwait", "read"), Do("poddelete", "read"),
   Do("deploy", "verify"), Do("podwait", "verify"), Do("podcheck", "verify")}

\* A piece of a program that takes a disk offline restores the disks later.
Restoring(s) ==
  \A q \in 1..Len(s) : s[q].do = "offline" =>
    s[q].arg \subseteq Spots /\ \E r \in (q + 1)..Len(s) : s[r].do = "restore"

Piece(s) == s \in Seq(Steps) /\ Restoring(s)

LEMMA Concatenation ==
  ASSUME NEW S, NEW s \in Seq(S), NEW t \in Seq(S)
  PROVE  /\ s \o t \in Seq(S) /\ Len(s \o t) = Len(s) + Len(t) /\ Len(s) \in Nat /\ Len(t) \in Nat
         /\ \A i \in 1..(Len(s) + Len(t)) : (s \o t)[i] = IF i <= Len(s) THEN s[i] ELSE t[i - Len(s)]
  OBVIOUS

LEMMA PiecesAdd ==
  ASSUME NEW s, NEW t, Piece(s), Piece(t)
  PROVE  Piece(s \o t) /\ Len(s \o t) = Len(s) + Len(t) /\ (Len(s) > 0 => (s \o t)[1] = s[1])
  <1> DEFINE u == s \o t
  <1>1. /\ s \in Seq(Steps) /\ t \in Seq(Steps)
        /\ u \in Seq(Steps) /\ Len(u) = Len(s) + Len(t)
        /\ \A i \in 1..(Len(s) + Len(t)) : u[i] = IF i <= Len(s) THEN s[i] ELSE t[i - Len(s)]
    BY Concatenation DEF Piece
  <1>2. Len(s) \in Nat /\ Len(t) \in Nat
    BY <1>1, Concatenation
  <1> HIDE DEF u
  <1>3. ASSUME NEW q \in 1..Len(u), u[q].do = "offline"
        PROVE  u[q].arg \subseteq Spots /\ \E r \in (q + 1)..Len(u) : u[r].do = "restore"
    <2>1. CASE q <= Len(s)
      <3>1. u[q] = s[q]
        BY <1>1, <1>2, <2>1
      <3>2. PICK r \in (q + 1)..Len(s) : s[r].do = "restore"
        BY <1>2, <1>3, <2>1, <3>1 DEF Piece, Restoring
      <3>3. r \in (q + 1)..Len(u) /\ u[r] = s[r]
        BY <1>1, <1>2, <3>2
      <3> QED BY <1>2, <1>3, <2>1, <3>1, <3>2, <3>3 DEF Piece, Restoring
    <2>2. CASE q > Len(s)
      <3> DEFINE p == q - Len(s)
      <3>1. p \in 1..Len(t) /\ u[q] = t[p]
        BY <1>1, <1>2, <2>2
      <3>2. PICK r \in (p + 1)..Len(t) : t[r].do = "restore"
        BY <1>2, <1>3, <3>1 DEF Piece, Restoring
      <3>3. r + Len(s) \in (q + 1)..Len(u)
        BY <1>1, <1>2, <3>2
      <3>5. u[r + Len(s)] = t[r]
        <4>1. r \in 1..Len(t)
          BY <1>2, <2>2, <3>1, <3>2
        <4>2. /\ r + Len(s) \in 1..(Len(s) + Len(t)) /\ ~(r + Len(s) <= Len(s))
              /\ (r + Len(s)) - Len(s) = r
          BY <1>2, <4>1
        <4> HIDE DEF p
        <4> QED BY <1>1, <4>2
      <3>4. t[p].arg \subseteq Spots
        BY <1>3, <3>1 DEF Piece, Restoring
      <3> QED BY <3>1, <3>2, <3>3, <3>4, <3>5
    <2> QED BY <1>2, <2>1, <2>2
  <1>4. Len(s) > 0 => u[1] = s[1]
    BY <1>1, <1>2
  <1> QED BY <1>1, <1>3, <1>4, Zenon DEF u, Piece, Restoring

LEMMA Fields == \A what, arg : Do(what, arg).do = what /\ Do(what, arg).arg = arg
  BY DEF Do

LEMMA PiecesOfPrograms ==
  /\ Piece(<<Do("top", 0)>>) /\ Piece(<<Do("await", "Online")>>) /\ Piece(<<Do("deploy", "read")>>)
  /\ Piece(OfflineDeviceTest) /\ Piece(ReplicasTest) /\ Piece(OfflineDevAndReplicasTest)
  /\ Piece(OfflineAll) /\ Piece(KillAll) /\ Piece(<< >>)
  /\ Piece(Checked("write")) /\ Piece(Checked("verify")) /\ Piece(Unchecked("read"))
  <1> USE Fields DEF Piece, Restoring, Steps, Spots
  <1>1. Piece(OfflineDeviceTest)
    BY DEF OfflineDeviceTest
  <1>2. Piece(ReplicasTest)
    BY DEF ReplicasTest
  <1>3. Piece(OfflineDevAndReplicasTest)
    BY DEF OfflineDevAndReplicasTest
  <1>4. Piece(OfflineAll)
    BY DEF OfflineAll
  <1>5. Piece(KillAll)
    BY DEF KillAll
  <1>6. Piece(<<Do("top", 0)>>) /\ Piece(<<Do("await", "Online")>>) /\ Piece(<<Do("deploy", "read")>>)
    OBVIOUS
  <1>7. Piece(Checked("write")) /\ Piece(Checked("verify"))
    BY DEF Checked
  <1>8. Piece(Unchecked("read")) /\ Piece(<< >>)
    BY DEF Unchecked
  <1> QED BY <1>1, <1>2, <1>3, <1>4, <1>5, <1>6, <1>7, <1>8, Zenon

\* A program is a loop of pieces that begins at its top, and a last restore.
Looped(s) == Piece(s) /\ Len(s) > 0 /\ s[1] = Do("top", 0)

LEMMA LoopedAdd ==
  ASSUME NEW s, NEW t, Looped(s), Piece(t)
  PROVE  Looped(s \o t)
  <1>1. Len(s) \in Nat /\ Len(t) \in Nat
    BY Concatenation DEF Looped, Piece
  <1> QED BY <1>1, PiecesAdd DEF Looped

LEMMA Loops == \A w : Looped(Loop(w))
  <1>1. Looped(<<Do("top", 0)>>)
    BY PiecesOfPrograms DEF Looped
  <1>2. ASSUME NEW fault, Piece(fault) PROVE Looped(eliminateVolume(fault))
    <2>1. Looped(<<Do("top", 0)>> \o Checked("write"))
      BY <1>1, LoopedAdd, PiecesOfPrograms
    <2>2. Looped(<<Do("top", 0)>> \o Checked("write") \o <<Do("deploy", "read")>>)
      BY <2>1, LoopedAdd, PiecesOfPrograms
    <2>3. Looped(<<Do("top", 0)>> \o Checked("write") \o <<Do("deploy", "read")>> \o fault)
      BY <1>2, <2>2, LoopedAdd
    <2>4. Looped(<<Do("top", 0)>> \o Checked("write") \o <<Do("deploy", "read")>> \o fault
                 \o <<Do("await", "Online")>>)
      BY <2>3, LoopedAdd, PiecesOfPrograms
    <2>5. Looped(<<Do("top", 0)>> \o Checked("write") \o <<Do("deploy", "read")>> \o fault
                 \o <<Do("await", "Online")>> \o Unchecked("read"))
      BY <2>4, LoopedAdd, PiecesOfPrograms
    <2> QED BY <2>5, LoopedAdd, PiecesOfPrograms DEF eliminateVolume
  <1>3. ASSUME NEW first, NEW second, NEW third PROVE Looped(perturbVolume(first, second, third))
    <2> DEFINE a == IF first THEN OfflineDeviceTest ELSE << >>
               b == IF second THEN ReplicasTest ELSE << >>
               c == IF third THEN OfflineDevAndReplicasTest ELSE << >>
    <2>1. Piece(a) /\ Piece(b) /\ Piece(c)
      BY PiecesOfPrograms
    <2>2. perturbVolume(first, second, third) = <<Do("top", 0)>> \o a \o b \o c
      BY DEF perturbVolume
    <2> HIDE DEF a, b, c
    <2>3. Looped(<<Do("top", 0)>> \o a)
      BY <1>1, <2>1, LoopedAdd
    <2>4. Looped(<<Do("top", 0)>> \o a \o b)
      BY <2>1, <2>3, LoopedAdd
    <2> QED BY <2>1, <2>2, <2>4, LoopedAdd
  <1> QED BY <1>2, <1>3, PiecesOfPrograms, Zenon DEF Loop

LEMMA Programs ==
  ASSUME NEW w
  PROVE  /\ Len(Loop(w)) \in Nat \ {0}
         /\ Program(w)[1].do = "top"
         /\ Program(w)[Len(Loop(w)) + 1].do = "restore"
         /\ \A q \in 1..Len(Loop(w)) : Program(w)[q].do = "offline" =>
              /\ Program(w)[q].arg \subseteq Spots
              /\ \E r \in (q + 1)..Len(Loop(w)) : Program(w)[r].do = "restore"
  <1> DEFINE L == Loop(w)
             e == <<Do("restore", 0)>>
  <1>1. Looped(L)
    BY Loops
  <1>2. L \in Seq(Steps) /\ e \in Seq(Steps) /\ Len(e) = 1 /\ e[1] = Do("restore", 0)
    BY <1>1 DEF Looped, Piece, Steps
  <1>3. Program(w) = L \o e
    BY DEF Program
  <1>4. Len(L) \in Nat /\ Len(L) > 0 /\ L[1] = Do("top", 0) /\ Restoring(L)
    BY <1>1, <1>2, Concatenation DEF Looped, Piece
  <1> HIDE DEF L, e
  <1>5. \A i \in 1..(Len(L) + 1) : Program(w)[i] = IF i <= Len(L) THEN L[i] ELSE e[i - Len(L)]
    <2>1. \A i \in 1..(Len(L) + Len(e)) : (L \o e)[i] = IF i <= Len(L) THEN L[i] ELSE e[i - Len(L)]
      BY <1>2, Concatenation
    <2> QED BY <1>2, <1>3, <2>1, Zenon
  <1>6. Program(w)[Len(L) + 1] = Do("restore", 0)
    BY <1>2, <1>4, <1>5
  <1>7. \A i \in 1..Len(L) : Program(w)[i] = L[i]
    BY <1>4, <1>5
  <1>8. Program(w)[1] = Do("top", 0)
    BY <1>4, <1>7
  <1>9. \A q \in 1..Len(L) : Program(w)[q].do = "offline" =>
          /\ Program(w)[q].arg \subseteq Spots
          /\ \E r \in (q + 1)..Len(L) : Program(w)[r].do = "restore"
    BY <1>4, <1>7 DEF Restoring
  <1> QED BY <1>4, <1>6, <1>8, <1>9, Fields DEF L

-----------------------------------------------------------------------------
(* Replicas of a volume: the disks                                         *)

\* Some step before p has taken a disk offline, and none since has restored it.
Dirty(p) ==
  \E q \in 1..(p - 1) :
    /\ Program(work.test)[q].do = "offline"
    /\ \A r \in (q + 1)..(p - 1) : Program(work.test)[r].do # "restore"

Listed(d) == \E i \in DOMAIN devs : devs[i] = d

\* What is offline is in the list, or known to be lost, but for the disk in hand.
Tracked ==
  /\ devs \in Seq(Spots)
  /\ disk \in [Disks -> {"running", "offline"}]
  /\ \A d \in Disks : disk[d] = "offline" =>
       d \in unseen \/ Listed(d) \/ (Doing("offline") /\ At("check") /\ work.dev = d)

\* In the loop no failed call has left a disk behind, and the list is empty but
\* between the step that takes a disk offline and the step that restores it.
Tidy == work.pc <= Size => unseen = {} /\ (devs # << >> => Dirty(work.pc))

\* The step in hand: the disk a failed look would lose, or the one just restored.
Inspected ==
  At("check") =>
    /\ Doing("offline") => work.dev \in Spots
    /\ Doing("restore") =>
         devs # << >> /\ (Head(devs) \in Disks => disk[Head(devs)] = "running")

ReplicaInv ==
  /\ DOMAIN work = {"test", "pc", "at", "dev", "tries", "err"}
  /\ work.pc \in 1..(Size + 2)
  /\ Tracked /\ Tidy /\ Inspected

LEMMA RestoredAtTop == ReplicaInv => DevicesRestored
  <1> SUFFICES ASSUME ReplicaInv PROVE DevicesRestored
    OBVIOUS
  <1>1. Size \in Nat \ {0} /\ Program(work.test)[1].do = "top"
    BY Programs DEF Size
  <1>2. ~Dirty(1)
    BY DEF Dirty
  <1>3. ASSUME work.pc = 1, NEW d \in Disks PROVE disk[d] = "running"
    <2>1. unseen = {} /\ devs = << >> /\ ~Doing("offline")
      BY <1>1, <1>2, <1>3 DEF ReplicaInv, Tidy, Doing, WStep
    <2>2. ~Listed(d)
      BY <2>1 DEF Listed
    <2> QED BY <2>1, <2>2 DEF ReplicaInv, Tracked
  <1>4. ASSUME WorkEnded, NEW d \in Disks, disk[d] = "offline"
        PROVE  d \in unseen \/ \E i \in DOMAIN devs : devs[i] = d
    BY <1>4 DEF ReplicaInv, Tracked, Listed, Doing
  <1> QED BY <1>3, <1>4 DEF DevicesRestored

\* What a step that leaves a step of the program must see to.
Handed ==
  /\ devs' \in Seq(Spots)
  /\ disk' \in [Disks -> {"running", "offline"}]
  /\ \A d \in Disks : disk'[d] = "offline" => d \in unseen' \/ \E i \in DOMAIN devs' : devs'[i] = d

LEMMA LeavesLoop ==
  ASSUME ReplicaInv, Handed, NEW e, Goto(Size + 1, e)
  PROVE  ReplicaInv'
  <1>1. Size \in Nat \ {0}
    BY Programs DEF Size
  <1>2. /\ DOMAIN work' = {"test", "pc", "at", "dev", "tries", "err"}
        /\ work'.test = work.test /\ work'.pc = Size + 1 /\ work'.at = "begin"
    BY DEF Goto, ReplicaInv
  <1>3. Size' = Size
    BY <1>2 DEF Size
  <1>4. Tidy' /\ Inspected'
    BY <1>1, <1>2, <1>3 DEF Tidy, Inspected, At
  <1>5. Tracked'
    BY DEF Handed, Tracked, Listed
  <1> QED BY <1>1, <1>2, <1>3, <1>4, <1>5 DEF ReplicaInv

LEMMA GoesOn ==
  ASSUME ReplicaInv, ~WorkEnded, Handed, StepDone,
         work.pc <= Size =>
           /\ unseen' = {}
           /\ devs' # << >> => Doing("offline") \/ (devs # << >> /\ ~Doing("restore"))
  PROVE  ReplicaInv'
  <1> DEFINE p == IF work.pc = Size THEN 1 ELSE work.pc + 1
  <1>1. Size \in Nat \ {0} /\ work.pc \in 1..(Size + 1)
    BY Programs DEF Size, ReplicaInv, WorkEnded
  <1>2. /\ DOMAIN work' = {"test", "pc", "at", "dev", "tries", "err"}
        /\ work'.test = work.test /\ work'.pc = p /\ work'.at = "begin"
    BY DEF StepDone, Goto, ReplicaInv
  <1>3. Size' = Size
    BY <1>2 DEF Size
  <1>4. Inspected'
    BY <1>2 DEF Inspected, At
  <1>5. Tracked'
    BY DEF Handed, Tracked, Listed
  <1>6. p \in 1..(Size + 2)
    BY <1>1
  <1>7. ASSUME p <= Size PROVE unseen' = {} /\ (devs' # << >> => Dirty(work.pc + 1))
    <2>1. work.pc <= Size /\ unseen' = {}
      BY <1>1, <1>7
    <2>2. ASSUME devs' # << >> PROVE Dirty(work.pc + 1)
      <3>1. CASE Doing("offline")
        BY <1>1, <3>1 DEF Dirty, Doing, WStep
      <3>2. CASE devs # << >> /\ ~Doing("restore")
        <4>1. PICK q \in 1..(work.pc - 1) :
                /\ Program(work.test)[q].do = "offline"
                /\ \A r \in (q + 1)..(work.pc - 1) : Program(work.test)[r].do # "restore"
          BY <2>1, <3>2 DEF ReplicaInv, Tidy, Dirty
        <4>2. Program(work.test)[work.pc].do # "restore"
          BY <3>2 DEF Doing, WStep
        <4>3. \A r \in (q + 1)..((work.pc + 1) - 1) : Program(work.test)[r].do # "restore"
          BY <1>1, <4>1, <4>2
        <4> QED BY <1>1, <4>1, <4>3 DEF Dirty
      <3> QED BY <2>1, <2>2, <3>1, <3>2
    <2> QED BY <2>1, <2>2
  <1>8. ~Dirty(Size + 1)
    <2> SUFFICES ASSUME NEW q \in 1..Size, Program(work.test)[q].do = "offline",
                        \A r \in (q + 1)..Size : Program(work.test)[r].do # "restore"
                 PROVE  FALSE
      BY <1>1 DEF Dirty
    <2> QED BY Programs DEF Size
  <1>9. p <= Size => unseen' = {} /\ (devs' # << >> => p = work.pc + 1 /\ Dirty(p))
    BY <1>1, <1>7, <1>8
  <1>10. Tidy'
    <2>1. Dirty(work.pc)' = Dirty(p)
      BY <1>2 DEF Dirty
    <2> HIDE DEF p
    <2> QED BY <1>2, <1>3, <1>9, <2>1 DEF Tidy
  <1> HIDE DEF p
  <1> QED BY <1>2, <1>3, <1>4, <1>5, <1>6, <1>10 DEF ReplicaInv

LEMMA BreaksOff ==
  ASSUME ReplicaInv, ~WorkEnded, Handed, StepFails,
         WStep.do = "attempt" => UNCHANGED <<devs, unseen>>
  PROVE  ReplicaInv'
  <1>1. CASE Final
    BY <1>1, Programs, GoesOn DEF StepFails, Final, Size
  <1>2. CASE ~Final /\ WStep.do = "attempt"
    BY <1>2, GoesOn DEF StepFails, ReplicaInv, Tidy, Doing
  <1>3. CASE ~Final /\ WStep.do # "attempt"
    BY <1>3, LeavesLoop, Zenon DEF StepFails
  <1> QED BY <1>1, <1>2, <1>3

\* A step that leaves the devices alone.
LEMMA OtherStep ==
  ASSUME ReplicaInv, ~WorkEnded, UNCHANGED <<devs, disk, unseen>>,
         ~Doing("offline"), ~Doing("restore"),
         StepDone \/ StepFails \/ Stay \/ Move("poll", 0) \/ Goto(Size + 1, FALSE)
  PROVE  ReplicaInv'
  <1>1. Handed
    BY DEF ReplicaInv, Tracked, Handed, Listed
  <1>2. CASE StepDone
    BY <1>1, <1>2, GoesOn DEF ReplicaInv, Tidy
  <1>3. CASE StepFails
    BY <1>1, <1>3, BreaksOff
  <1>4. CASE Goto(Size + 1, FALSE)
    BY <1>1, <1>4, LeavesLoop, Zenon
  <1>5. CASE Stay \/ Move("poll", 0)
    <2>1. /\ DOMAIN work' = {"test", "pc", "at", "dev", "tries", "err"}
          /\ work'.test = work.test /\ work'.pc = work.pc
      BY <1>5, Zenon DEF Stay, Move, ReplicaInv
    <2>2. Size' = Size /\ Dirty(work.pc)' = Dirty(work.pc) /\ WStep' = WStep /\ WorkEnded' = WorkEnded
      BY <2>1 DEF Size, Dirty, WStep, WorkEnded
    <2>3. ~Doing("offline")' /\ ~Doing("restore")'
      BY <2>2 DEF Doing
    <2>4. Inspected'
      BY <2>3 DEF Inspected
    <2>5. Tracked'
      BY DEF ReplicaInv, Tracked, Listed
    <2>6. Tidy'
      BY <2>1, <2>2 DEF ReplicaInv, Tidy
    <2> QED BY <2>1, <2>2, <2>4, <2>5, <2>6 DEF ReplicaInv
  <1> QED BY <1>2, <1>3, <1>4, <1>5, Zenon

LEMMA OfflineStep == ReplicaInv /\ (offlineDevice \/ RecordOffline) => ReplicaInv'
  <1> SUFFICES ASSUME ReplicaInv, offlineDevice \/ RecordOffline PROVE ReplicaInv'
    OBVIOUS
  <1>1. /\ ~WorkEnded /\ WStep.do = "offline" /\ Doing("offline") /\ devs \in Seq(Spots)
        /\ disk \in [Disks -> {"running", "offline"}]
    BY DEF offlineDevice, RecordOffline, Doing, ReplicaInv, Tracked
  <1>2. Size \in Nat \ {0} /\ work.pc \in 1..Size /\ WStep.arg \subseteq Spots
    BY <1>1, Programs DEF ReplicaInv, Size, WStep, WorkEnded
  <1>3. unseen = {}
    BY <1>2 DEF ReplicaInv, Tidy
  <1>4. CASE At("begin") /\ StepFails /\ UNCHANGED <<devs, disk, unseen>>
    <2>1. Handed
      BY <1>4 DEF ReplicaInv, Tracked, Handed, Listed, At
    <2> QED BY <1>1, <1>4, <2>1, BreaksOff
  <1>5. ASSUME At("begin"), NEW d \in WStep.arg, disk' = [disk EXCEPT ![d] = "offline"],
               UNCHANGED devs, StepFails, unseen' = unseen \cup {d}
        PROVE  ReplicaInv'
    <2>1. Handed
      BY <1>1, <1>5, Zenon DEF ReplicaInv, Tracked, Handed, Listed, At
    <2> QED BY <1>1, <1>5, <2>1, BreaksOff
  <1>6. ASSUME At("begin"), NEW d \in WStep.arg, disk' = [disk EXCEPT ![d] = "offline"],
               UNCHANGED <<devs, unseen>>, Move("check", d)
        PROVE  ReplicaInv'
    <2>1. /\ DOMAIN work' = {"test", "pc", "at", "dev", "tries", "err"}
          /\ work'.test = work.test /\ work'.pc = work.pc /\ work'.at = "check" /\ work'.dev = d
      BY <1>6 DEF Move, ReplicaInv
    <2>2. Size' = Size /\ Dirty(work.pc)' = Dirty(work.pc) /\ WStep' = WStep /\ WorkEnded' = WorkEnded
      <3>1. Size' = Size /\ WStep' = WStep
        BY <2>1 DEF Size, WStep
      <3>2. Dirty(work.pc)' = Dirty(work.pc)
        BY <2>1, <3>1 DEF Dirty
      <3>3. WorkEnded' = WorkEnded
        BY <2>1, <3>1 DEF WorkEnded
      <3> QED BY <3>1, <3>2, <3>3
    <2>3. Doing("offline")' /\ ~Doing("restore")'
      BY <1>1, <2>2 DEF Doing
    <2>4. Inspected'
      BY <1>2, <2>1, <2>3 DEF Inspected
    <2>5. Tracked'
      BY <1>1, <1>6, <2>1, <2>3, Zenon DEF ReplicaInv, Tracked, Listed, At
    <2>6. Tidy'
      BY <1>6, <2>1, <2>2 DEF ReplicaInv, Tidy
    <2> QED BY <2>1, <2>2, <2>4, <2>5, <2>6 DEF ReplicaInv
  <1>7. CASE At("check") /\ devs' = Append(devs, work.dev) /\ StepDone /\ UNCHANGED <<disk, unseen>>
    <2>1. work.dev \in Spots
      BY <1>1, <1>7 DEF ReplicaInv, Inspected
    <2>2. /\ devs' \in Seq(Spots) /\ Len(devs) \in Nat /\ DOMAIN devs = 1..Len(devs)
          /\ DOMAIN devs' = 1..(Len(devs) + 1)
          /\ devs'[Len(devs) + 1] = work.dev /\ \A i \in 1..Len(devs) : devs'[i] = devs[i]
      BY <1>1, <1>7, <2>1
    <2>3. \A d \in Disks : Listed(d) \/ work.dev = d => \E i \in DOMAIN devs' : devs'[i] = d
      BY <2>2 DEF Listed
    <2>4. Handed
      BY <1>7, <2>2, <2>3 DEF ReplicaInv, Tracked, Handed
    <2> QED BY <1>1, <1>3, <1>7, <2>4, GoesOn
  <1>8. CASE At("check") /\ StepFails /\ unseen' = unseen \cup {work.dev} /\ UNCHANGED <<devs, disk>>
    <2>1. Handed
      BY <1>8 DEF ReplicaInv, Tracked, Handed, Listed
    <2> QED BY <1>1, <1>8, <2>1, BreaksOff
  <1> QED BY <1>4, <1>5, <1>6, <1>7, <1>8, Zenon DEF offlineDevice, RecordOffline

LEMMA RestoreStep == ReplicaInv /\ (onlineDevice \/ restoreDevices) => ReplicaInv'
  <1> SUFFICES ASSUME ReplicaInv, onlineDevice \/ restoreDevices PROVE ReplicaInv'
    OBVIOUS
  <1>1. /\ ~WorkEnded /\ WStep.do = "restore" /\ Doing("restore") /\ ~Doing("offline")
        /\ devs \in Seq(Spots) /\ disk \in [Disks -> {"running", "offline"}] /\ unseen' = unseen
        /\ \A d \in Disks : disk[d] = "offline" => d \in unseen \/ Listed(d)
    BY DEF onlineDevice, restoreDevices, Doing, ReplicaInv, Tracked
  <1>2. CASE StepFails /\ UNCHANGED <<devs, disk>>
    <2>1. Handed
      BY <1>1, <1>2 DEF Handed, Listed
    <2> QED BY <1>1, <1>2, <2>1, BreaksOff
  <1>3. CASE StepFails /\ UNCHANGED devs /\ disk' = [disk EXCEPT ![Head(devs)] = "running"]
    <2>1. Handed
      BY <1>1, <1>3, Zenon DEF Handed, Listed
    <2> QED BY <1>1, <1>3, <2>1, BreaksOff
  <1>4. CASE devs = << >> /\ StepDone /\ UNCHANGED <<devs, disk>>
    <2>1. Handed
      BY <1>1, <1>4 DEF Handed, Listed
    <2> QED BY <1>1, <1>4, <2>1, GoesOn DEF ReplicaInv, Tidy
  <1>5. ASSUME NEW to, NEW d, Move(to, d)
        PROVE  /\ DOMAIN work' = {"test", "pc", "at", "dev", "tries", "err"}
               /\ work'.pc = work.pc /\ work'.at = to
               /\ Size' = Size /\ Dirty(work.pc)' = Dirty(work.pc)
               /\ Doing("restore")' /\ ~Doing("offline")'
    <2>1. /\ DOMAIN work' = {"test", "pc", "at", "dev", "tries", "err"}
          /\ work'.test = work.test /\ work'.pc = work.pc /\ work'.at = to
      BY <1>5 DEF Move, ReplicaInv
    <2>2. Size' = Size /\ Dirty(work.pc)' = Dirty(work.pc) /\ WStep' = WStep /\ WorkEnded' = WorkEnded
      BY <2>1 DEF Size, Dirty, WStep, WorkEnded
    <2> QED BY <1>1, <2>1, <2>2 DEF Doing
  <1>6. CASE /\ Move("check", Head(devs)) /\ UNCHANGED devs /\ devs # << >>
             /\ disk' = [disk EXCEPT ![Head(devs)] = "running"]
    <2>1. Tracked'
      BY <1>1, <1>6, Zenon DEF Tracked, Listed
    <2>2. Inspected'
      BY <1>1, <1>5, <1>6 DEF Inspected
    <2>3. Tidy'
      BY <1>1, <1>5, <1>6 DEF ReplicaInv, Tidy
    <2> QED BY <1>5, <1>6, <2>1, <2>2, <2>3 DEF ReplicaInv
  <1>7. CASE /\ At("check") /\ devs' = Tail(devs) /\ Move("begin", 0) /\ UNCHANGED disk
    <2>1. devs # << >> /\ (Head(devs) \in Disks => disk[Head(devs)] = "running")
      BY <1>1, <1>7 DEF ReplicaInv, Inspected
    <2>2. /\ devs' \in Seq(Spots) /\ Len(devs) \in Nat /\ Len(devs) > 0
          /\ DOMAIN devs = 1..Len(devs) /\ DOMAIN devs' = 1..(Len(devs) - 1)
          /\ Head(devs) = devs[1] /\ \A i \in 1..(Len(devs) - 1) : devs'[i] = devs[i + 1]
      BY <1>1, <1>7, <2>1
    <2>3. ASSUME NEW d \in Disks, disk[d] = "offline", Listed(d)
          PROVE  \E i \in DOMAIN devs' : devs'[i] = d
      <3>1. PICK i \in 1..Len(devs) : devs[i] = d
        BY <2>2, <2>3 DEF Listed
      <3>2. i - 1 \in 1..(Len(devs) - 1)
        BY <2>1, <2>2, <2>3, <3>1
      <3>3. devs'[i - 1] = devs[i]
        BY <2>2, <3>1, <3>2
      <3> QED BY <2>2, <3>1, <3>2, <3>3
    <2>4. Tracked'
      BY <1>1, <1>7, <2>2, <2>3 DEF Tracked, Listed
    <2>5. Inspected'
      <3>1. ~At("check")'
        BY <1>5, <1>7 DEF At
      <3> QED BY <3>1 DEF Inspected
    <2>6. Tidy'
      BY <1>1, <1>5, <1>7, <2>1 DEF ReplicaInv, Tidy
    <2> QED BY <1>5, <1>7, <2>4, <2>5, <2>6 DEF ReplicaInv
  <1> QED BY <1>2, <1>3, <1>4, <1>6, <1>7 DEF onlineDevice, restoreDevices

LEMMA ReplicaStep == ReplicaInv /\ [ReplicaNext]_rvars => ReplicaInv'
  <1> SUFFICES ASSUME ReplicaInv, [ReplicaNext]_rvars PROVE ReplicaInv'
    OBVIOUS
  <1>1. CASE offlineDevice \/ RecordOffline
    BY <1>1, OfflineStep
  <1>2. CASE onlineDevice \/ restoreDevices
    BY <1>2, RestoreStep
  <1>3. CASE Top
    BY <1>3, OtherStep, Zenon DEF Top, Doing
  <1>4. CASE killMayastor \/ waitForVolumeStatus \/ waitForVolumeNotOnline \/ checkVolume
    BY <1>4, OtherStep, Zenon DEF killMayastor, waitForVolumeStatus, waitForVolumeNotOnline, checkVolume, Doing
  <1>5. CASE setReplicasRetry
    <2>1. StepDone \/ StepFails \/ Stay \/ Move("poll", 0)
      BY <1>5 DEF setReplicasRetry
    <2>2. ~WorkEnded /\ ~Doing("offline") /\ ~Doing("restore") /\ UNCHANGED <<devs, disk, unseen>>
      BY <1>5 DEF setReplicasRetry, Doing
    <2> QED BY <2>1, <2>2, OtherStep, Zenon
  <1>6. CASE DeployStorageTester \/ WaitPodNotRunning \/ CheckPodAndDelete \/ DeletePod
    BY <1>6, OtherStep, Zenon DEF DeployStorageTester, WaitPodNotRunning, CheckPodAndDelete, DeletePod, Doing
  <1>7. CASE PodEnds \/ ReplicasChange \/ DurationOver \/ UNCHANGED rvars
    <2>1. UNCHANGED <<work, devs, disk, unseen>>
      BY <1>7 DEF PodEnds, ReplicasChange, DurationOver, rvars
    <2>2. Size' = Size /\ Dirty(work.pc)' = Dirty(work.pc) /\ WStep' = WStep /\ WorkEnded' = WorkEnded
      BY <2>1 DEF Size, Dirty, WStep, WorkEnded
    <2>3. Tracked' /\ Tidy' /\ Inspected'
      BY <2>1, <2>2 DEF ReplicaInv, Tracked, Tidy, Inspected, Listed, At, Doing
    <2> QED BY <2>1, <2>2, <2>3 DEF ReplicaInv
  <1> QED BY <1>1, <1>2, <1>3, <1>4, <1>5, <1>6, <1>7 DEF ReplicaNext, WorkStep

\* Whatever fails, in any order, and however often the loop is repeated, the tests
\* restore the disks they have taken offline, but for those a failed call has lost
\* and those the last restore failed with.
THEOREM DisksAreRestored == ReplicaSpec => []DevicesRestored
  <1>1. ReplicaInit => ReplicaInv
    <2> SUFFICES ASSUME ReplicaInit PROVE ReplicaInv
      OBVIOUS
    <2>1. Size \in Nat \ {0}
      BY Programs DEF Size
    <2>2. PICK w \in Works :
            work = [test |-> w, pc |-> 1, at |-> "begin", dev |-> 0, tries |-> 0, err |-> FALSE]
      BY Zenon DEF ReplicaInit
    <2>3. DOMAIN work = {"test", "pc", "at", "dev", "tries", "err"} /\ work.pc = 1 /\ work.at = "begin"
      BY <2>2
    <2>a. disk = [d \in Disks |-> "running"] /\ devs = << >> /\ unseen = {}
      BY DEF ReplicaInit
    <2>4. Tracked
      <3>1. disk \in [Disks -> {"running", "offline"}] /\ \A d \in Disks : disk[d] # "offline"
        BY <2>a
      <3>2. devs \in Seq(Spots)
        BY <2>a
      <3> QED BY <3>1, <3>2 DEF Tracked
    <2>5. Tidy
      BY <2>a DEF Tidy
    <2>6. Inspected
      BY <2>3 DEF Inspected, At
    <2> QED BY <2>1, <2>3, <2>4, <2>5, <2>6 DEF ReplicaInv
  <1> QED BY <1>1, RestoredAtTop, ReplicaStep, PTL DEF ReplicaSpec
=============================================================================
