---------------------------- MODULE ControlPlane ----------------------------
(***************************************************************************)
(* What the test library learns from Mayastor's control plane              *)
(* (src/common/controlplane): the volume, node and pool reads go through   *)
(* the kubectl plugin, and the replicas of a volume are fetched one by one *)
(* from the REST service of the master nodes.                              *)
(*                                                                         *)
(* Every operator maps what the cluster holds and how the requests went to *)
(* what the Go function returns.  A result is a record [err, val]: err is  *)
(* NoErr, an error, or Panic where the function dereferences nil or        *)
(* indexes past the end of a slice.                                        *)
(***************************************************************************)
EXTENDS Integers, FiniteSets, Sequences, FiniteSetsExt

CONSTANT None            \* nil

NoErr == "nil"
Panic == "panic"
Returned(v) == [err |-> NoErr, val |-> v]
Failed(e) == [err |-> e, val |-> None]

-----------------------------------------------------------------------------
(* Common to all versions                                                  *)

\* Only major version 1 has an implementation.  The first call panics in
\* once.Do, later ones call through the nil interface that this leaves.
getControlPlane(major, result) == IF major = 1 THEN result ELSE Failed(Panic)

VolStateHealthy == "Online"
VolStatePending == "pending"

-----------------------------------------------------------------------------
(* The kubectl plugin                                                      *)

\* A volume of the control plane.  topology: the uuids of its replicas.
EmptyCpVolume == [uuid |-> "", status |-> "", num |-> 0, topology |-> {}]

\* How the plugin may end: with the object as JSON, with a non-zero exit code,
\* with an error it printed, with one that says NotFound, with JSON that has
\* none of the fields, or with something else.
PluginAnswers(object) ==
  {"exit", "error", "garbage"} \cup IF object = None THEN {"notfound", "empty"} ELSE {"json"}

\* Exit code, the text "Error error" and JSON that does not parse are errors;
\* of these only a printed NotFound is recognised again later.
GetMayastorCpVolume(vol, answer) ==
  CASE answer = "json"  -> Returned(vol)
    [] answer = "empty" -> Returned(EmptyCpVolume)
    [] OTHER            -> Failed(answer)

\* Listing: an error, or the volumes there are.
ListMayastorCpVolumes(vols, answer) ==
  IF answer = "json" THEN Returned(vols) ELSE Failed(answer)

HasNotFoundRestJsonError(err) == err = "notfound"

MutIsMayastorVolumeDeleted(vol, answer) ==
  LET r == GetMayastorCpVolume(vol, answer) IN r.err # NoErr \/ r.val.uuid = ""

IsMayastorVolumeDeleted(vol, answer) ==
  LET r == GetMayastorCpVolume(vol, answer) IN
    IF r.err # NoErr THEN HasNotFoundRestJsonError(r.err) ELSE r.val.uuid = ""

GetMayastorVolumeState(vol, answer) ==
  LET r == GetMayastorCpVolume(vol, answer) IN
    IF r.err = NoErr THEN Returned(r.val.status) ELSE r

CheckForMayastorVolumes(vols, answer) ==
  LET r == ListMayastorCpVolumes(vols, answer) IN
    [err |-> r.err, val |-> r.err = NoErr /\ r.val # {}]

CheckAllMayastorVolumesAreHealthy(vols, answer) ==
  LET r == ListMayastorCpVolumes(vols, answer) IN
    IF r.err = NoErr /\ \E v \in r.val : v.status # VolStateHealthy THEN "unhealthy" ELSE r.err

-----------------------------------------------------------------------------
(* The replicas of a volume                                                *)

\* How a master node answers the GET of a replica: with the replica, with an
\* error body that is JSON too, with a body that breaks off, or not at all.
MasterAnswers == {"replica", "refused", "cut", "down"}

\* The loop over the addresses ends at the first body that can be read; a
\* request that fails leaves resp nil, which resp.Body dereferences.  The
\* status code is not looked at, so an error body gives a blank replica.
getMayastorCpReplica(address, answers) ==
  LET tried == {i \in DOMAIN address : answers[address[i]] # "cut"}
      last  == answers[address[Min(tried)]] IN
    IF tried = {} THEN "error"
    ELSE CASE last = "down"    -> Panic
           [] last = "refused" -> "blank"
           [] OTHER            -> "found"

ReplicaReads(address, masters) ==
  {getMayastorCpReplica(address, a) : a \in [masters -> MasterAnswers]}

\* The empty volume is what becomes of one with a replica that cannot be read.
EmptyMsv == [name |-> "", state |-> "", count |-> 0, replicas |-> << >>]

\* read: how the GET of each replica went.  The map is walked in any order, so
\* of a panic and an error either may come first (stop).
cpVolumeToMsv(vol, read, stop) ==
  IF stop = Panic THEN Failed(Panic)
  ELSE IF stop = "error" THEN Returned(EmptyMsv)
  ELSE Returned([name |-> vol.uuid, state |-> vol.status, count |-> vol.num, replicas |-> read])

\* What can end the walk early: a read that panics or fails.
Stops(read) ==
  LET bad == {read[r] : r \in DOMAIN read} \ {"found", "blank"} IN
    IF bad = {} THEN {NoErr} ELSE bad

\* GetMSV: nil and no error for a volume that is pending or has no uuid.
GetMSV(vol, answer, read, stop) ==
  LET r == GetMayastorCpVolume(vol, answer) IN
    IF r.err # NoErr THEN r
    ELSE IF r.val.uuid = "" \/ r.val.status = VolStatePending THEN Returned(None)
    ELSE IF r.val.status = "" \/ r.val.num < 1 THEN Failed("state")
    ELSE cpVolumeToMsv(r.val, read, stop)

\* r: what GetMSV returned; its nil is dereferenced.
GetMsvReplicas(r) ==
  IF r.err # NoErr THEN r
  ELSE IF r.val = None THEN Failed(Panic)
  ELSE Returned(r.val.replicas)

\* The slice has the length of a first read, the replicas are of a second.
GetMsvNodes(num, r) ==
  LET replicas == GetMsvReplicas(r) IN
    IF replicas.err = NoErr /\ Cardinality(DOMAIN replicas.val) > num THEN Failed(Panic)
    ELSE IF replicas.err = Panic THEN replicas
    ELSE Returned(replicas.val)

\* The plugin scales the volume unless it fails, by exit code or by its output.
scaleMayastorVolume(answer) == IF answer = "json" THEN NoErr ELSE answer
=============================================================================
