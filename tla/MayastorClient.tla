--------------------------- MODULE MayastorClient ---------------------------
(***************************************************************************)
(* The gRPC client of the Mayastor instances (src/common/mayastorclient):  *)
(* one call at a time walks a list of node addresses, with one request per *)
(* node or per object.  A request has one deadline for all of its tries.   *)
(*                                                                         *)
(* Servers, network and clock are the environment: a request may be        *)
(* refused, lost, handled without its answer arriving, or handled after    *)
(* the client gave up; other clients change what the nodes hold meanwhile. *)
(* A behaviour is about one kind of object: replicas, nexuses, pools or    *)
(* NVMe controllers.                                                       *)
(***************************************************************************)
EXTENDS Integers, FiniteSets, Sequences, Functions

CONSTANTS Idle,          \* no call, no request, no answer
          Nodes,         \* the Mayastor nodes
          Objs,          \* the uuids or names of the kind
          AddrLists,     \* the lists of addresses calls are made with
          MaxRpcTries,   \* tries of a request (6 in the code)
          MaxOps,        \* bound: calls of a behaviour
          MaxChanges     \* bound: changes by other clients

ASSUME ClientAssumption ==
  /\ IsFiniteSet(Objs) /\ Idle \notin Objs
  /\ AddrLists \subseteq Seq(Nodes)
  /\ MaxRpcTries \in Nat \ {0}

VARIABLES kind,          \* the kind of object
          held,          \* node -> the objects on it
          late,          \* requests past their deadline that a server still has
          canConnect,    \* the cached connectable state
          active,        \* the call in progress
          rpc,           \* its current request
          res,           \* what the last call returned
          ops, changes   \* counters for the bounds

gvars == <<kind, held, late, canConnect, active, rpc, res, ops, changes>>

OK == "nil"

Finds == {"FindReplicas", "FindNexus", "GetPool"}
Lists == {"ListReplicas", "ListNexuses", "ListPools", "ListNvmeControllers"}
Unary == {"RmReplica", "CreateReplica", "FaultNexusChild", "DestroyPool"}

OpsOf(k) ==
  CASE k = "replica" -> {"ListReplicas", "FindReplicas", "RmNodeReplicas", "RmReplica", "CreateReplica"}
    [] k = "nexus"   -> {"ListNexuses", "FindNexus", "FaultNexusChild"}
    [] k = "pool"    -> {"ListPools", "GetPool", "DestroyAllPools", "DestroyPool", "CheckAndSetConnect"}
    [] OTHER         -> {"ListNvmeControllers"}

GrpcInit(kinds) ==
  /\ kind \in kinds
  /\ held \in [Nodes -> SUBSET Objs]
  /\ late = {}
  /\ canConnect = FALSE
  /\ active = Idle
  /\ rpc = Idle
  /\ res = Idle
  /\ ops = 0
  /\ changes = 0

-----------------------------------------------------------------------------
(* One request                                                             *)

\* at: "ready" (asleep, before a retry), "sent" or "answered".
Request(addr, method, obj) ==
  [addr |-> addr, method |-> method, obj |-> obj, tries |-> 0, expired |-> FALSE,
   at |-> "ready", reply |-> << >>, err |-> OK]

\* MaxRpcTries tries; the destruction of a pool and the connection check have one.
Retries(q) == IF q.method = "info" \/ (q.method = "destroy" /\ kind = "pool") THEN 1 ELSE MaxRpcTries

\* What the handling of a request does to the objects of its node.
Effect(q) ==
  CASE q.method = "destroy" -> [held EXCEPT ![q.addr] = @ \ {q.obj}]
    [] q.method = "create"  -> [held EXCEPT ![q.addr] = @ \cup {q.obj}]
    [] OTHER                -> held

\* Of what the call's ghosts remember: through, the objects held on a node ever
\* since the call began; ever, the objects held at some time since.
Remember(c, h) ==
  IF c = Idle THEN Idle
  ELSE [c EXCEPT !.through = [n \in Nodes |-> @[n] \cap h[n]], !.ever = [n \in Nodes |-> @[n] \cup h[n]]]

\* A retry has a deadline of its own.
MutTry ==
  /\ rpc # Idle /\ rpc.at = "ready"
  /\ rpc' = [rpc EXCEPT !.at = "sent", !.expired = FALSE]
  /\ UNCHANGED <<kind, held, late, canConnect, active, res, ops, changes>>

\* With the deadline passed a try fails before it is sent.
Try ==
  /\ rpc # Idle /\ rpc.at = "ready"
  /\ rpc' = IF rpc.expired THEN [rpc EXCEPT !.at = "answered", !.err = "deadline"]
            ELSE [rpc EXCEPT !.at = "sent"]
  /\ UNCHANGED <<kind, held, late, canConnect, active, res, ops, changes>>

\* The lists a server may answer with for a set of objects.
Orders(S) == Bijection(1..Cardinality(S), S)

\* The server carries the request out and answers; a list has any order.
Handle ==
  /\ rpc # Idle /\ rpc.at = "sent"
  /\ held' = Effect(rpc)
  /\ active' = [Remember(active, held') EXCEPT !.done = @ \cup {<<rpc.addr, rpc.method, rpc.obj>>}]
  /\ \E s \in IF rpc.method = "list" THEN Orders(held[rpc.addr]) ELSE {<< >>} :
       rpc' = [rpc EXCEPT !.at = "answered", !.reply = s, !.err = OK]
  /\ UNCHANGED <<kind, late, canConnect, res, ops, changes>>

\* The client stops waiting for a request that a server may still handle.
Abandon ==
  IF rpc.at = "sent" /\ rpc.method \in {"destroy", "create", "fault"}
  THEN /\ late' = late \cup {[addr |-> rpc.addr, method |-> rpc.method, obj |-> rpc.obj]}
       /\ active' = [active EXCEPT !.late = TRUE]
  ELSE UNCHANGED <<late, active>>

\* The server refuses, or answers with an expired deadline of its own.
Refused ==
  /\ rpc # Idle /\ rpc.at = "sent"
  /\ \E e \in {"refused", "deadline"} : rpc' = [rpc EXCEPT !.at = "answered", !.err = e]
  /\ UNCHANGED <<kind, held, late, canConnect, active, res, ops, changes>>

\* There is no connection, or it breaks, before the request was handled or after.
Unavailable ==
  /\ rpc # Idle
  /\ rpc.at = "sent" \/ (rpc.at = "answered" /\ rpc.err = OK)
  /\ rpc' = [rpc EXCEPT !.at = "answered", !.reply = << >>, !.err = "unavailable"]
  /\ Abandon
  /\ UNCHANGED <<kind, held, canConnect, res, ops, changes>>

\* The deadline passes.
Expire ==
  /\ rpc # Idle /\ ~rpc.expired
  /\ rpc' = IF rpc.at = "ready" THEN [rpc EXCEPT !.expired = TRUE]
            ELSE [rpc EXCEPT !.expired = TRUE, !.at = "answered", !.reply = << >>, !.err = "deadline"]
  /\ Abandon
  /\ UNCHANGED <<kind, held, canConnect, res, ops, changes>>

\* A server gets to a request whose client is gone, or drops it.
HandleLate ==
  \E q \in late :
    /\ late' = late \ {q}
    /\ held' \in {held, Effect(q)}
    /\ active' = Remember(active, held')
    /\ UNCHANGED <<kind, canConnect, rpc, res, ops, changes>>

\* Another client adds or removes an object during a call.
Change ==
  /\ active # Idle /\ changes < MaxChanges
  /\ \E n \in Nodes, o \in Objs :
       held' = [held EXCEPT ![n] = IF o \in @ THEN @ \ {o} ELSE @ \cup {o}]
  /\ active' = Remember(active, held')
  /\ changes' = changes + 1
  /\ UNCHANGED <<kind, late, canConnect, rpc, res, ops>>

-----------------------------------------------------------------------------
(* The calls                                                               *)

listReplica(addr) == Request(addr, "list", Idle)
listNexuses(addr) == Request(addr, "list", Idle)
listPool(addr) == Request(addr, "list", Idle)
listNvmeController(addr) == Request(addr, "list", Idle)
RmReplica(addr, uuid) == Request(addr, "destroy", uuid)
CreateReplica(addr, uuid) == Request(addr, "create", uuid)
FaultNexusChild(addr, uuid) == Request(addr, "fault", uuid)
DestroyPool(addr, name) == Request(addr, "destroy", name)
mayastorInfo(addr) == Request(addr, "info", Idle)

\* The request a call makes first at an address.
First(op, addr, uuid) ==
  CASE op = "RmReplica"          -> RmReplica(addr, uuid)
    [] op = "CreateReplica"      -> CreateReplica(addr, uuid)
    [] op = "FaultNexusChild"    -> FaultNexusChild(addr, uuid)
    [] op = "DestroyPool"        -> DestroyPool(addr, uuid)
    [] op = "CheckAndSetConnect" -> mayastorInfo(addr)
    [] OTHER -> CASE kind = "replica" -> listReplica(addr)
                  [] kind = "nexus"   -> listNexuses(addr)
                  [] kind = "pool"    -> listPool(addr)
                  [] OTHER            -> listNvmeController(addr)

GrpcReturn(c, infos, err) ==
  /\ active' = Idle
  /\ rpc' = Idle
  /\ res' = [op |-> c.op, uuid |-> c.uuid, addrs |-> c.addrs, infos |-> infos, err |-> err,
             done |-> c.done, late |-> c.late, through |-> c.through, ever |-> c.ever]

\* The request at the call's current address, or its end.
Visit(c) ==
  IF c.i > Len(c.addrs) THEN GrpcReturn(c, c.infos, c.accErr)
  ELSE active' = c /\ rpc' = First(c.op, c.addrs[c.i], c.uuid) /\ UNCHANGED res

\* On to the next address, with what went wrong at this one.
Accumulate(c, e) == [c EXCEPT !.i = @ + 1, !.accErr = IF @ = OK THEN e ELSE @]

\* The lists of all the nodes that answer, and the errors of the others.
ListAll(e) ==
  Visit([Accumulate(active, e) EXCEPT !.infos = IF e = OK THEN @ \o rpc.reply ELSE @])

ListReplicas(e) == ListAll(e)
ListNexuses(e) == ListAll(e)
ListPools(e) == ListAll(e)
ListNvmeControllers(e) == ListAll(e)

\* A node has a replica once.
FindReplicas(e) ==
  Visit([Accumulate(active, e) EXCEPT
           !.infos = IF e = OK /\ active.uuid \in Range(rpc.reply) THEN Append(@, active.uuid) ELSE @])

\* A hit ends the walk, whatever failed before it.
FindNexus(e) ==
  IF e = OK /\ active.uuid \in Range(rpc.reply) THEN GrpcReturn(active, <<active.uuid>>, OK)
  ELSE Visit(Accumulate(active, e))

GetPool(e) ==
  IF e # OK THEN GrpcReturn(active, << >>, e)
  ELSE IF active.uuid \in Range(rpc.reply) THEN GrpcReturn(active, <<active.uuid>>, OK)
  ELSE GrpcReturn(active, << >>, "notfound")

\* The destruction of the next object listed at the current address.
RemoveNext(c) ==
  /\ active' = [c EXCEPT !.todo = Tail(@)]
  /\ rpc' = IF kind = "pool" THEN DestroyPool(c.addrs[c.i], Head(c.todo)) ELSE RmReplica(c.addrs[c.i], Head(c.todo))
  /\ UNCHANGED res

\* A node that cannot be listed is passed over.
MutRmNodeReplicas(e) ==
  LET todo == IF rpc.method = "list" THEN rpc.reply ELSE active.todo IN
    IF todo # << >> THEN RemoveNext([active EXCEPT !.todo = todo])
    ELSE Visit(Accumulate(active, IF rpc.method = "list" THEN OK ELSE e))

\* The error of a removal is overwritten by that of the node's next one.
RmNodeReplicas(e) ==
  LET todo == IF rpc.method = "list" THEN rpc.reply ELSE active.todo IN
    IF todo # << >> THEN RemoveNext([active EXCEPT !.todo = todo]) ELSE Visit(Accumulate(active, e))

DestroyAllPools(e) ==
  LET todo == IF rpc.method = "list" THEN rpc.reply ELSE active.todo IN
    IF e # OK THEN GrpcReturn(active, << >>, e)
    ELSE IF todo # << >> THEN RemoveNext([active EXCEPT !.todo = todo])
    ELSE Visit([active EXCEPT !.i = @ + 1])

\* Connectable when every node answered; an empty list says nothing.
CheckAndSetConnect(e) ==
  LET last == active.i = Len(active.addrs) IN
    /\ canConnect' = IF e # OK THEN FALSE ELSE IF last THEN TRUE ELSE canConnect
    /\ IF e # OK THEN GrpcReturn(active, << >>, OK) ELSE Visit([active EXCEPT !.i = @ + 1])

Resume(e) ==
  LET op == active.op IN
    /\ CASE op \in Unary              -> GrpcReturn(active, << >>, e)
         [] op = "FindReplicas"       -> FindReplicas(e)
         [] op = "FindNexus"          -> FindNexus(e)
         [] op = "GetPool"            -> GetPool(e)
         [] op = "RmNodeReplicas"     -> RmNodeReplicas(e)
         [] op = "DestroyAllPools"    -> DestroyAllPools(e)
         [] op = "CheckAndSetConnect" -> CheckAndSetConnect(e)
         [] op = "ListReplicas"       -> ListReplicas(e)
         [] op = "ListNexuses"        -> ListNexuses(e)
         [] op = "ListPools"          -> ListPools(e)
         [] OTHER                     -> ListNvmeControllers(e)
    /\ op # "CheckAndSetConnect" => UNCHANGED canConnect

\* An expired deadline is tried again, up to the bound; anything else ends the
\* request and the call goes on with it.
retryBackoff ==
  /\ rpc # Idle /\ rpc.at = "answered"
  /\ IF rpc.err = "deadline" /\ rpc.tries + 1 < Retries(rpc)
     THEN rpc' = [rpc EXCEPT !.at = "ready", !.tries = @ + 1] /\ UNCHANGED <<canConnect, active, res>>
     ELSE Resume(rpc.err)
  /\ UNCHANGED <<kind, held, late, ops, changes>>

\* Unary calls and GetPool have one address, and the others but the finds are
\* about no object in particular.
GrpcCall ==
  /\ active = Idle /\ ops < MaxOps
  /\ \E op \in OpsOf(kind), o \in Objs \cup {Idle}, as \in AddrLists :
       /\ op \in Unary \cup Finds <=> o # Idle
       /\ op \in Unary \cup {"GetPool"} => Len(as) = 1
       /\ Visit([op |-> op, uuid |-> o, addrs |-> as, i |-> 1, infos |-> << >>, accErr |-> OK,
                 todo |-> << >>, done |-> {}, late |-> FALSE, through |-> held, ever |-> held])
  /\ ops' = ops + 1
  /\ UNCHANGED <<kind, held, late, canConnect, changes>>

-----------------------------------------------------------------------------
GrpcNext ==
  GrpcCall \/ Try \/ Handle \/ Refused \/ Unavailable \/ Expire \/ retryBackoff \/ HandleLate \/ Change

GrpcSpec == GrpcInit({"replica", "nexus", "pool", "controller"}) /\ [][GrpcNext]_gvars

-----------------------------------------------------------------------------
(* Properties                                                              *)

\* A request has a call, is at most at its last try, and concerns one of the
\* call's addresses.
GrpcTypeOK ==
  /\ held \in [Nodes -> SUBSET Objs]
  /\ canConnect \in BOOLEAN
  /\ (rpc = Idle) <=> (active = Idle)
  /\ rpc # Idle => rpc.tries < Retries(rpc) /\ rpc.addr \in Range(active.addrs)

\* A read that returns no error has everything that was on its nodes all the
\* time and nothing that never was: the errors of single nodes are
\* accumulated, never lost, and a find that returns nil without an error has
\* asked every node.
ReadsAreComplete ==
  res # Idle /\ res.err = OK =>
    LET nodes   == Range(res.addrs)
        infos   == Range(res.infos)
        through == UNION {res.through[n] : n \in nodes}
        ever    == UNION {res.ever[n] : n \in nodes} IN
      /\ res.op \in Lists => through \subseteq infos /\ infos \subseteq ever
      /\ res.op \in Finds =>
           through \cap {res.uuid} \subseteq infos /\ infos \subseteq ever \cap {res.uuid}

\* What a removal that returns no error stands for: the one request was
\* handled; no pool outlived DestroyAllPools; RmNodeReplicas listed every node
\* and removed at least one replica of each that had any throughout (the last
\* one of the list: the errors of the others are overwritten).
SuccessIsEarned ==
  res # Idle /\ res.err = OK =>
    /\ res.op \in Unary => \E q \in res.done : q[1] = res.addrs[1] /\ q[3] = res.uuid
    /\ res.op = "DestroyAllPools" => \A n \in Range(res.addrs) : res.through[n] = {}
    /\ res.op = "RmNodeReplicas" =>
         \A n \in Range(res.addrs) :
           /\ <<n, "list", Idle>> \in res.done
           /\ res.through[n] # {} => \E o \in Objs : <<n, "destroy", o>> \in res.done

\* CanConnect is TRUE after a check only if each of its nodes answered.
ConnectMeansAnswered ==
  res # Idle /\ res.op = "CheckAndSetConnect" /\ res.addrs # << >> /\ active = Idle /\ canConnect =>
    \A n \in Range(res.addrs) : <<n, "info", Idle>> \in res.done

\* A call of the client that returns no error has kept its promise, whichever
\* of its nodes failed, answered late or was changed meanwhile.
NilIsEarned == GrpcTypeOK /\ ReadsAreComplete /\ SuccessIsEarned /\ ConnectMeansAnswered

\* The tries of a request share one deadline, so a call that succeeds has left
\* no earlier try behind that a server could still carry out: it cannot undo
\* later what the caller does next.  RmNodeReplicas does not promise this.
SuccessLeavesNothingLate ==
  res # Idle /\ res.err = OK /\ res.op # "RmNodeReplicas" => ~res.late

=============================================================================
