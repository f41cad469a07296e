------------------------ MODULE MayastorClientProofs ------------------------
(***************************************************************************)
(* The gRPC client for any nodes, objects, lists of addresses, number of   *)
(* tries, of calls and of changes by others.                               *)
(***************************************************************************)
EXTENDS MayastorClient, FiniteSetTheorems, TLAPS

\* Requests that change what a node holds.
Removing == {"destroy", "create", "fault"}

CallFields == {"op", "uuid", "addrs", "i", "infos", "accErr", "todo", "done", "late", "through", "ever"}
RequestFields == {"addr", "method", "obj", "tries", "expired", "at", "reply", "err"}

\* A request belongs to a call, and a call that changes nothing makes none of
\* the requests that do.
RequestOfCall ==
  rpc # Idle =>
    /\ DOMAIN active = CallFields
    /\ DOMAIN rpc = RequestFields
    /\ rpc.at \in {"ready", "sent", "answered"}
    /\ rpc.method \in Removing => active.op \in Unary \cup {"DestroyAllPools", "RmNodeReplicas"}

\* A call that has left a request behind, and is not RmNodeReplicas, is about to
\* fail: its request has failed for good, or its deadline has passed.
LateCallFails ==
  rpc # Idle /\ active.late /\ active.op # "RmNodeReplicas" =>
    /\ rpc.method \in Removing
    /\ \/ rpc.at = "answered" /\ rpc.err # OK /\ (rpc.expired \/ rpc.err # "deadline")
       \/ rpc.at = "ready" /\ rpc.expired

LateInv == RequestOfCall /\ LateCallFails /\ SuccessLeavesNothingLate

-----------------------------------------------------------------------------
(* The parts that calls are made of                                        *)

\* The first request of a call that is none of the Unary ones changes nothing.
LEMMA FirstRequest ==
  ASSUME NEW op, NEW addr, NEW uuid
  PROVE  /\ DOMAIN First(op, addr, uuid) = RequestFields
         /\ First(op, addr, uuid).at = "ready"
         /\ First(op, addr, uuid).method \in Removing => op \in Unary
  BY DEF First, RmReplica, CreateReplica, FaultNexusChild, DestroyPool, mayastorInfo, listReplica, listNexuses,
         listPool, listNvmeController, Request, RequestFields, Removing, Unary

\* A call that ends keeps the invariant if it left nothing behind or fails.
LEMMA ReturnStep ==
  ASSUME NEW c, NEW infos, NEW err, GrpcReturn(c, infos, err),
         err = OK /\ c.op # "RmNodeReplicas" => ~c.late
  PROVE  LateInv'
  BY DEF GrpcReturn, LateInv, RequestOfCall, LateCallFails, SuccessLeavesNothingLate

\* So does a call that goes on to its next address with nothing left behind.
LEMMA VisitStep ==
  ASSUME NEW c, Visit(c), LateInv, DOMAIN c = CallFields,
         c.op # "RmNodeReplicas" => ~c.late
  PROVE  LateInv'
  <1>1. CASE c.i > Len(c.addrs)
    BY <1>1, ReturnStep DEF Visit
  <1>2. CASE ~(c.i > Len(c.addrs))
    <2>1. active' = c /\ rpc' = First(c.op, c.addrs[c.i], c.uuid) /\ res' = res
      BY <1>2 DEF Visit
    <2>2. RequestOfCall'
      BY <2>1, FirstRequest DEF RequestOfCall
    <2>3. LateCallFails'
      BY <2>1 DEF LateCallFails
    <2>4. SuccessLeavesNothingLate'
      BY <2>1 DEF LateInv, SuccessLeavesNothingLate
    <2> QED BY <2>2, <2>3, <2>4 DEF LateInv
  <1> QED BY <1>1, <1>2

\* A call whose request changed nothing has left nothing behind.
LEMMA NothingLate ==
  ASSUME LateInv, rpc # Idle, rpc.at = "answered", active.op # "RmNodeReplicas",
         active.op \notin Unary \cup {"DestroyAllPools"} \/ rpc.err = OK
  PROVE  ~active.late
  BY DEF LateInv, RequestOfCall, LateCallFails

LEMMA AccumulateCall ==
  ASSUME NEW e, DOMAIN active = CallFields
  PROVE  /\ DOMAIN Accumulate(active, e) = CallFields
         /\ Accumulate(active, e).op = active.op
         /\ Accumulate(active, e).late = active.late
  BY DEF Accumulate, CallFields

\* The destruction of the next object, for a call with nothing left behind.
LEMMA RemoveNextStep ==
  ASSUME NEW c, RemoveNext(c), LateInv, DOMAIN c = CallFields,
         c.op \in {"DestroyAllPools", "RmNodeReplicas"},
         c.op # "RmNodeReplicas" => ~c.late
  PROVE  LateInv'
  <1>1. /\ DOMAIN active' = CallFields
        /\ active'.op = c.op
        /\ active'.late = c.late
        /\ res' = res
    BY DEF RemoveNext, CallFields
  <1>2. DOMAIN rpc' = RequestFields /\ rpc'.at = "ready"
    BY DEF RemoveNext, DestroyPool, RmReplica, Request, RequestFields
  <1>3. RequestOfCall' /\ LateCallFails'
    BY <1>1, <1>2 DEF RequestOfCall, LateCallFails
  <1> QED BY <1>1, <1>3 DEF LateInv, SuccessLeavesNothingLate

\* The call goes on with the end of its request.
LEMMA ResumeStep ==
  ASSUME LateInv, rpc # Idle, rpc.at = "answered", Resume(rpc.err)
  PROVE  LateInv'
  <1> DEFINE op == active.op
             e == rpc.err
  <1> USE NothingLate, AccumulateCall
  <1>0. DOMAIN active = CallFields
    BY DEF LateInv, RequestOfCall
  <1>1. CASE op \in Unary
    <2>1. GrpcReturn(active, << >>, e)
      BY <1>1 DEF Resume, Unary
    <2> QED BY <1>1, <2>1, ReturnStep DEF Unary
  <1>2. CASE op = "FindReplicas"
    <2>1. FindReplicas(e)
      BY <1>2 DEF Resume, Unary
    <2> DEFINE c == [Accumulate(active, e) EXCEPT
                       !.infos = IF e = OK /\ active.uuid \in Range(rpc.reply) THEN Append(@, active.uuid) ELSE @]
    <2>2. DOMAIN c = CallFields /\ c.late = active.late
      BY <1>0 DEF CallFields
    <2> QED BY <1>2, <2>1, <2>2, VisitStep, Zenon DEF FindReplicas, Unary
  <1>3. CASE op = "FindNexus"
    <2>1. FindNexus(e)
      BY <1>3 DEF Resume, Unary
    <2> QED BY <1>0, <1>3, <2>1, ReturnStep, VisitStep DEF FindNexus, Unary
  <1>4. CASE op = "GetPool"
    <2>1. GetPool(e)
      BY <1>4 DEF Resume, Unary
    <2> QED BY <1>4, <2>1, ReturnStep DEF GetPool, Unary
  <1>5. CASE op = "RmNodeReplicas"
    <2>1. RmNodeReplicas(e)
      BY <1>5 DEF Resume, Unary
    <2> DEFINE todo == IF rpc.method = "list" THEN rpc.reply ELSE active.todo
               c == [active EXCEPT !.todo = todo]
    <2>2. DOMAIN c = CallFields /\ c.op = "RmNodeReplicas"
      BY <1>0, <1>5 DEF CallFields
    <2>3. RemoveNext(c) \/ Visit(Accumulate(active, e))
      BY <2>1 DEF RmNodeReplicas
    <2> QED BY <1>0, <1>5, <2>2, <2>3, RemoveNextStep, VisitStep, Zenon
  <1>6. CASE op = "DestroyAllPools"
    <2>1. DestroyAllPools(e)
      BY <1>6 DEF Resume, Unary
    <2> DEFINE todo == IF rpc.method = "list" THEN rpc.reply ELSE active.todo
               c == [active EXCEPT !.todo = todo]
               d == [active EXCEPT !.i = @ + 1]
    <2>2. DOMAIN c = CallFields /\ c.op = op /\ c.late = active.late
      BY <1>0 DEF CallFields
    <2>3. DOMAIN d = CallFields /\ d.op = op /\ d.late = active.late
      BY <1>0 DEF CallFields
    <2>4. CASE e # OK
      BY <2>1, <2>4, ReturnStep DEF DestroyAllPools
    <2>5. CASE e = OK
      <3>1. RemoveNext(c) \/ Visit(d)
        BY <2>1, <2>5 DEF DestroyAllPools
      <3> QED BY <1>6, <2>2, <2>3, <2>5, <3>1, RemoveNextStep, VisitStep, Zenon
    <2> QED BY <2>4, <2>5
  <1>7. CASE op = "CheckAndSetConnect"
    <2>1. CheckAndSetConnect(e)
      BY <1>7 DEF Resume, Unary
    <2> DEFINE d == [active EXCEPT !.i = @ + 1]
    <2>2. DOMAIN d = CallFields /\ d.late = active.late
      BY <1>0 DEF CallFields
    <2>3. GrpcReturn(active, << >>, OK) \/ Visit(d)
      BY <2>1 DEF CheckAndSetConnect
    <2> QED BY <1>7, <2>2, <2>3, ReturnStep, VisitStep, Zenon DEF Unary
  <1>8. CASE op \notin Unary \cup {"FindReplicas", "FindNexus", "GetPool", "RmNodeReplicas", "DestroyAllPools",
                                   "CheckAndSetConnect"}
    <2>1. ListAll(e)
      BY <1>8 DEF Resume, ListReplicas, ListNexuses, ListPools, ListNvmeControllers
    <2> DEFINE c == [Accumulate(active, e) EXCEPT !.infos = IF e = OK THEN @ \o rpc.reply ELSE @]
    <2>2. DOMAIN c = CallFields /\ c.late = active.late
      BY <1>0 DEF CallFields
    <2> QED BY <1>8, <2>1, <2>2, VisitStep, Zenon DEF ListAll
  <1> QED BY <1>1, <1>2, <1>3, <1>4, <1>5, <1>6, <1>7, <1>8

-----------------------------------------------------------------------------
(* The steps                                                               *)

LEMMA CallStep == LateInv /\ GrpcCall => LateInv'
  <1> SUFFICES ASSUME LateInv, GrpcCall PROVE LateInv'
    OBVIOUS
  <1>1. PICK op \in OpsOf(kind), o \in Objs \cup {Idle}, as \in AddrLists :
          Visit([op |-> op, uuid |-> o, addrs |-> as, i |-> 1, infos |-> << >>, accErr |-> OK,
                 todo |-> << >>, done |-> {}, late |-> FALSE, through |-> held, ever |-> held])
    BY Zenon DEF GrpcCall
  <1> QED BY <1>1, VisitStep DEF CallFields

\* What the network, the servers and other clients do.
LEMMA EnvironmentStep ==
  LateInv /\ (Handle \/ Refused \/ Unavailable \/ Expire \/ HandleLate \/ Change) => LateInv'
  <1> USE DEF LateInv, SuccessLeavesNothingLate
  <1>0. ASSUME NEW h, RequestOfCall, rpc # Idle
        PROVE  /\ DOMAIN Remember(active, h) = CallFields
               /\ Remember(active, h).op = active.op
               /\ Remember(active, h).late = active.late
    BY <1>0 DEF Remember, RequestOfCall, CallFields
  <1>1. ASSUME LateInv, Handle PROVE LateInv'
    <2>1. /\ DOMAIN active' = CallFields
          /\ active'.op = active.op
          /\ active'.late = active.late
      BY <1>0, <1>1 DEF Handle, CallFields
    <2>2. /\ DOMAIN rpc' = RequestFields
          /\ rpc'.at = "answered"
          /\ rpc'.method = rpc.method
      BY <1>1 DEF Handle, RequestOfCall, RequestFields
    <2>3. rpc # Idle /\ rpc.at = "sent" /\ res' = res
      BY <1>1 DEF Handle
    <2> QED BY <1>1, <2>1, <2>2, <2>3 DEF RequestOfCall, LateCallFails
  <1>2. ASSUME LateInv, Refused PROVE LateInv'
    <2>1. /\ DOMAIN rpc' = RequestFields
          /\ rpc'.at = "answered"
          /\ rpc'.method = rpc.method
      BY <1>2 DEF Refused, RequestOfCall, RequestFields
    <2> QED BY <1>2, <2>1 DEF Refused, RequestOfCall, LateCallFails
  <1>3. ASSUME RequestOfCall, rpc # Idle, Abandon
        PROVE  /\ DOMAIN active' = CallFields
               /\ active'.op = active.op
               /\ active'.late => active.late \/ (rpc.at = "sent" /\ rpc.method \in Removing)
    BY <1>3 DEF Abandon, RequestOfCall, CallFields, Removing
  <1>4. ASSUME LateInv, Unavailable PROVE LateInv'
    <2>1. /\ DOMAIN rpc' = RequestFields
          /\ rpc'.at = "answered"
          /\ rpc'.err = "unavailable"
          /\ rpc'.method = rpc.method
      BY <1>4 DEF Unavailable, RequestOfCall, RequestFields
    <2> QED BY <1>3, <1>4, <2>1 DEF Unavailable, RequestOfCall, LateCallFails, OK
  <1>5. ASSUME LateInv, Expire PROVE LateInv'
    <2>1. /\ DOMAIN rpc' = RequestFields
          /\ rpc'.expired
          /\ rpc'.method = rpc.method
          /\ IF rpc.at = "ready" THEN rpc'.at = "ready" ELSE rpc'.at = "answered" /\ rpc'.err = "deadline"
      BY <1>5 DEF Expire, RequestOfCall, RequestFields
    <2> QED BY <1>3, <1>5, <2>1 DEF Expire, RequestOfCall, LateCallFails, OK
  <1>6. ASSUME LateInv, HandleLate \/ Change PROVE LateInv'
    <2>1. PICK h : active' = Remember(active, h) /\ rpc' = rpc /\ res' = res
      BY <1>6 DEF HandleLate, Change
    <2> QED BY <1>0, <1>6, <2>1 DEF RequestOfCall, LateCallFails
  <1> QED BY <1>1, <1>2, <1>4, <1>5, <1>6

LEMMA ClientStep == LateInv /\ (Try \/ retryBackoff) => LateInv'
  <1>1. ASSUME LateInv, Try PROVE LateInv'
    <2>1. /\ DOMAIN rpc' = RequestFields
          /\ rpc'.expired = rpc.expired
          /\ rpc'.method = rpc.method
          /\ IF rpc.expired THEN rpc'.at = "answered" /\ rpc'.err = "deadline" ELSE rpc'.at = "sent"
      BY <1>1 DEF Try, LateInv, RequestOfCall, RequestFields
    <2> QED BY <1>1, <2>1 DEF Try, LateInv, RequestOfCall, LateCallFails, SuccessLeavesNothingLate, OK
  <1>2. ASSUME LateInv, retryBackoff PROVE LateInv'
    <2>1. rpc # Idle /\ rpc.at = "answered"
      BY <1>2 DEF retryBackoff
    <2>2. CASE rpc.err = "deadline" /\ rpc.tries + 1 < Retries(rpc)
      <3>1. /\ DOMAIN rpc' = RequestFields
            /\ rpc'.at = "ready"
            /\ rpc'.expired = rpc.expired
            /\ rpc'.method = rpc.method
            /\ active' = active /\ res' = res
        BY <1>2, <2>1, <2>2, Zenon DEF retryBackoff, LateInv, RequestOfCall, RequestFields
      <3> QED BY <1>2, <2>1, <2>2, <3>1 DEF LateInv, RequestOfCall, LateCallFails, SuccessLeavesNothingLate
    <2>3. CASE ~(rpc.err = "deadline" /\ rpc.tries + 1 < Retries(rpc))
      BY <1>2, <2>1, <2>3, ResumeStep DEF retryBackoff
    <2> QED BY <2>2, <2>3
  <1> QED BY <1>1, <1>2

\* SuccessLeavesNothingLate: all tries of a request share one deadline
\* (mayastorclient/*.go, context.WithTimeout), so a call that returns no error
\* has left no request behind, however many tries, nodes and objects there are.
THEOREM NothingIsLeftBehind == GrpcSpec => []SuccessLeavesNothingLate
  <1>1. GrpcInit({"replica", "nexus", "pool", "controller"}) => LateInv
    BY DEF GrpcInit, LateInv, RequestOfCall, LateCallFails, SuccessLeavesNothingLate
  <1>2. LateInv /\ [GrpcNext]_gvars => LateInv'
    <2>1. LateInv /\ UNCHANGED gvars => LateInv'
      BY DEF gvars, LateInv, RequestOfCall, LateCallFails, SuccessLeavesNothingLate
    <2> QED BY <2>1, CallStep, EnvironmentStep, ClientStep DEF GrpcNext
  <1>3. LateInv => SuccessLeavesNothingLate
    BY DEF LateInv
  <1> QED BY <1>1, <1>2, <1>3, PTL DEF GrpcSpec

-----------------------------------------------------------------------------
(* What a call that returns no error has done                              *)

\* A call is not Idle, and neither is a request.
IdleIsNoRecord == DOMAIN Idle \notin {CallFields, RequestFields}

CallNames == Lists \cup Finds \cup Unary \cup {"RmNodeReplicas", "DestroyAllPools", "CheckAndSetConnect"}

\* What the call has to say of a node it has gone past, with no error so far.
Complete(c, infos, n) ==
  /\ c.op \in Lists => c.through[n] \subseteq Range(infos)
  /\ c.op \in Finds => c.through[n] \cap {c.uuid} \subseteq Range(infos)
  /\ c.op = "DestroyAllPools" => c.through[n] = {}
  /\ c.op = "RmNodeReplicas" =>
       /\ <<n, "list", Idle>> \in c.done
       /\ c.through[n] # {} => \E o \in Objs : <<n, "destroy", o>> \in c.done

\* What it has found was on a node it has gone past, and is what it looks for.
Sound(c) ==
  \A o \in Range(c.infos) :
    /\ \E j \in 1..(c.i - 1) : o \in c.ever[c.addrs[j]]
    /\ c.op \in Finds => o = c.uuid

Walked(c) ==
  /\ Sound(c)
  /\ \A j \in 1..(c.i - 1) :
       /\ c.accErr = OK => Complete(c, c.infos, c.addrs[j])
       /\ c.op = "CheckAndSetConnect" => <<c.addrs[j], "info", Idle>> \in c.done

\* The ghosts bracket what the nodes hold.
Bracketed(c, h) ==
  /\ c.through \in [Nodes -> SUBSET Objs] /\ c.ever \in [Nodes -> SUBSET Objs]
  /\ \A n \in Nodes : c.through[n] \subseteq h[n] /\ h[n] \subseteq c.ever[n]

CallOK(c) ==
  /\ DOMAIN c = CallFields
  /\ c.op \in CallNames
  /\ c.op \in Unary \cup Finds => c.uuid \in Objs
  /\ c.op \in Unary => c.i = 1 /\ Len(c.addrs) = 1
  /\ c.addrs \in Seq(Nodes)
  /\ c.infos \in Seq(Objs) /\ c.todo \in Seq(Objs)

\* The request in hand is one the call makes at its address.
RequestFits(c, q) ==
  /\ DOMAIN q = RequestFields
  /\ q.addr = c.addrs[c.i]
  /\ q.at \in {"ready", "sent", "answered"}
  /\ q.tries \in Nat /\ q.tries < Retries(q)
  /\ q.method \in Removing => q.obj \in Objs
  /\ q.method \notin Removing => q.obj = Idle
  /\ CASE c.op \in Unary                                   -> q.method \in Removing /\ q.obj = c.uuid
       [] c.op = "CheckAndSetConnect"                       -> q.method = "info"
       [] c.op \in {"DestroyAllPools", "RmNodeReplicas"}     -> q.method \in {"list", "destroy"}
       [] OTHER                                             -> q.method = "list"

\* Its reply is that of a node that has carried it out.
ReplyHolds(c, q) ==
  /\ q.reply \in Seq(Objs)
  /\ IF q.at = "answered" /\ q.err = OK
     THEN /\ <<q.addr, q.method, q.obj>> \in c.done
          /\ q.method = "list" => /\ c.through[q.addr] \subseteq Range(q.reply)
                                  /\ Range(q.reply) \subseteq c.ever[q.addr]
          /\ q.method = "destroy" => q.obj \notin c.through[q.addr]
     ELSE q.reply = << >>

\* What is left to remove at the address, when some of it has been.
Removal(c, q) ==
  q.method = "destroy" =>
    /\ c.op = "DestroyAllPools" => c.through[q.addr] \subseteq Range(c.todo) \cup {q.obj}
    /\ c.op = "RmNodeReplicas" => <<q.addr, "list", Idle>> \in c.done

InHand(c, q) == CallOK(c) /\ c.i \in 1..Len(c.addrs) /\ Walked(c) /\ RequestFits(c, q) /\ ReplyHolds(c, q) /\ Removal(c, q)

Results == ReadsAreComplete /\ SuccessIsEarned /\ ConnectMeansAnswered

EarnInv ==
  /\ held \in [Nodes -> SUBSET Objs] /\ canConnect \in BOOLEAN
  /\ \A q \in late : q.obj \in Objs
  /\ (rpc = Idle) <=> (active = Idle)
  /\ active # Idle => InHand(active, rpc) /\ Bracketed(active, held)
  /\ Results

-----------------------------------------------------------------------------
(* Lists and requests                                                      *)

LEMMA ListSets ==
  ASSUME NEW S, NEW s \in Seq(S), NEW t \in Seq(S)
  PROVE  /\ Range(s) \subseteq S
         /\ Range(s \o t) = Range(s) \cup Range(t)
         /\ s # << >> => Range(s) = {Head(s)} \cup Range(Tail(s)) /\ Head(s) \in S /\ Tail(s) \in Seq(S)
  <1>0. Len(s) \in Nat /\ Len(t) \in Nat /\ DOMAIN s = 1..Len(s) /\ DOMAIN t = 1..Len(t)
    OBVIOUS
  <1>1. Range(s \o t) = Range(s) \cup Range(t)
    <2>1. ASSUME NEW x \in Range(s \o t) PROVE x \in Range(s) \cup Range(t)
      BY <1>0, <2>1 DEF Range
    <2>2. Range(s) \subseteq Range(s \o t)
      BY <1>0 DEF Range
    <2>3. ASSUME NEW j \in 1..Len(t) PROVE t[j] \in Range(s \o t)
      <3>1. Len(s) + j \in DOMAIN (s \o t) /\ (s \o t)[Len(s) + j] = t[j]
        BY <1>0
      <3> QED BY <3>1 DEF Range
    <2> QED BY <1>0, <2>1, <2>2, <2>3 DEF Range
  <1>3. ASSUME s # << >>
        PROVE  Range(s) = {Head(s)} \cup Range(Tail(s)) /\ Head(s) \in S /\ Tail(s) \in Seq(S)
    <2>1. /\ Len(s) > 0 /\ Head(s) = s[1] /\ Tail(s) \in Seq(S)
          /\ DOMAIN Tail(s) = 1..(Len(s) - 1) /\ \A j \in 1..(Len(s) - 1) : Tail(s)[j] = s[j + 1]
      BY <1>0, <1>3
    <2>2. \A x \in Range(Tail(s)) : x \in Range(s)
      BY <1>0, <2>1 DEF Range
    <2>3. ASSUME NEW j \in 1..Len(s), j # 1 PROVE s[j] \in Range(Tail(s))
      <3>1. j - 1 \in 1..(Len(s) - 1) /\ Tail(s)[j - 1] = s[j]
        BY <1>0, <2>1, <2>3
      <3> QED BY <2>1, <3>1, Zenon DEF Range
    <2> QED BY <1>0, <2>1, <2>2, <2>3 DEF Range
  <1>5. Range(s) \subseteq S
    BY <1>0 DEF Range
  <1> QED BY <1>1, <1>3, <1>5

LEMMA ListElements ==
  ASSUME NEW S, NEW s \in Seq(S), NEW e \in S
  PROVE  Range(Append(s, e)) = Range(s) \cup {e}
  <1>0. Len(s) \in Nat /\ DOMAIN s = 1..Len(s)
    OBVIOUS
  <1>1. DOMAIN Append(s, e) = 1..(Len(s) + 1) /\ Append(s, e)[Len(s) + 1] = e
        /\ \A j \in 1..Len(s) : Append(s, e)[j] = s[j]
    BY <1>0
  <1>2. 1..(Len(s) + 1) = 1..Len(s) \cup {Len(s) + 1}
    BY <1>0
  <1> QED BY <1>0, <1>1, <1>2 DEF Range

LEMMA ShortLists ==
  ASSUME NEW e
  PROVE  Range(<< >>) = {} /\ Range(<<e>>) = {e}
  BY DEF Range

\* A list of a node has each of its objects and nothing else.
LEMMA ListOrder ==
  ASSUME NEW S, IsFiniteSet(S), NEW s \in Orders(S)
  PROVE  s \in Seq(S) /\ Range(s) = S
  <1> DEFINE n == Cardinality(S)
  <1>1. n \in Nat
    BY FS_CardinalityType
  <1>2. s \in Surjection(1..n, S)
    BY DEF Orders, Bijection
  <1>3. s \in [1..n -> S] /\ \A y \in S : \E x \in 1..n : s[x] = y
    BY <1>2 DEF Surjection
  <1> QED BY <1>1, <1>3 DEF Range

LEMMA RequestParts ==
  ASSUME NEW addr, NEW method, NEW obj
  PROVE  LET q == Request(addr, method, obj) IN
           /\ DOMAIN q = RequestFields /\ q.addr = addr /\ q.method = method /\ q.obj = obj
           /\ q.tries = 0 /\ q.at = "ready" /\ q.reply = << >> /\ 0 < Retries(q)
  <1> DEFINE q == Request(addr, method, obj)
  <1>1. /\ DOMAIN q = RequestFields /\ q.addr = addr /\ q.method = method /\ q.obj = obj
        /\ q.tries = 0 /\ q.at = "ready" /\ q.reply = << >>
    BY DEF Request, RequestFields
  <1>2. 0 < Retries(q)
    BY ClientAssumption DEF Retries
  <1> QED BY <1>1, <1>2

\* The request a call makes first at an address.
LEMMA FirstIs ==
  ASSUME NEW op, NEW addr, NEW uuid
  PROVE  /\ op \in Unary => \E m \in Removing : First(op, addr, uuid) = Request(addr, m, uuid)
         /\ op = "CheckAndSetConnect" => First(op, addr, uuid) = Request(addr, "info", Idle)
         /\ op \notin Unary \cup {"CheckAndSetConnect"} => First(op, addr, uuid) = Request(addr, "list", Idle)
  BY DEF First, RmReplica, CreateReplica, FaultNexusChild, DestroyPool, mayastorInfo, listReplica, listNexuses,
         listPool, listNvmeController, Removing, Unary

LEMMA FirstFits ==
  ASSUME NEW c, CallOK(c)
  PROVE  LET q == First(c.op, c.addrs[c.i], c.uuid) IN
           RequestFits(c, q) /\ q.at = "ready" /\ q.reply = << >> /\ (q.method = "destroy" => c.op \in Unary)
  <1> DEFINE addr == c.addrs[c.i]
             q == First(c.op, addr, c.uuid)
  <1>1. CASE c.op \in Unary
    <2>1. PICK m \in Removing : q = Request(addr, m, c.uuid)
      BY <1>1, FirstIs
    <2>2. c.uuid \in Objs
      BY <1>1 DEF CallOK
    <2> QED BY <1>1, <2>1, <2>2, RequestParts DEF RequestFits, Removing, Unary
  <1>2. CASE c.op = "CheckAndSetConnect"
    <2>1. q = Request(addr, "info", Idle)
      BY <1>2, FirstIs
    <2> QED BY <1>2, <2>1, RequestParts DEF RequestFits, Removing, Unary
  <1>3. CASE c.op \notin Unary \cup {"CheckAndSetConnect"}
    <2>1. q = Request(addr, "list", Idle)
      BY <1>3, FirstIs
    <2> QED BY <1>3, <2>1, RequestParts DEF RequestFits, Removing, Unary
  <1> QED BY <1>1, <1>2, <1>3

-----------------------------------------------------------------------------
(* The end of a call                                                       *)

\* What there is to show for a result without an error.
Fulfilled(c, infos) ==
  /\ \A n \in Range(c.addrs) : Complete(c, infos, n)
  /\ \A o \in Range(infos) :
       /\ \E n \in Range(c.addrs) : o \in c.ever[n]
       /\ c.op \in Finds => o = c.uuid
  /\ c.op \in Unary => \E q \in c.done : q[1] = c.addrs[1] /\ q[3] = c.uuid

\* The variables that no step of the client changes but those of its call.
Nodewise == UNCHANGED <<kind, held, late>> /\ canConnect' \in BOOLEAN

\* A call and a request that fit together do so in the next state.
LEMMA Carried ==
  ASSUME NEW c, NEW q, IdleIsNoRecord, InHand(c, q), Bracketed(c, held'), active' = c, rpc' = q, kind' = kind
  PROVE  /\ (active # Idle)' /\ (rpc # Idle)'
         /\ InHand(active, rpc)' /\ Bracketed(active, held)'
  <1>1. c # Idle /\ q # Idle
    BY DEF InHand, IdleIsNoRecord, CallOK, RequestFits
  <1>2. Bracketed(active, held)'
    BY DEF Bracketed
  <1>3. CallOK(active)' /\ (active.i \in 1..Len(active.addrs))'
    BY DEF InHand, CallOK
  <1>4. Walked(active)'
    BY Zenon DEF InHand, Walked, Sound, Complete
  <1>5. RequestFits(active, rpc)'
    BY DEF InHand, RequestFits, Retries
  <1>6. ReplyHolds(active, rpc)'
    BY DEF InHand, ReplyHolds
  <1>7. Removal(active, rpc)'
    BY DEF InHand, Removal
  <1> QED BY <1>1, <1>2, <1>3, <1>4, <1>5, <1>6, <1>7 DEF InHand

\* So the results, which such a step leaves alone, are all there is to say.
LEMMA CarriedOn ==
  ASSUME NEW c, NEW q, IdleIsNoRecord, EarnInv, Nodewise, UNCHANGED res,
         InHand(c, q), Bracketed(c, held), active' = c, rpc' = q
  PROVE  EarnInv'
  <1>1. (active # Idle)' /\ (rpc # Idle)' /\ InHand(active, rpc)' /\ Bracketed(active, held)'
    BY Carried DEF Nodewise
  <1>2. ReadsAreComplete'
    BY DEF EarnInv, Results, ReadsAreComplete
  <1>3. SuccessIsEarned'
    BY DEF EarnInv, Results, SuccessIsEarned
  <1>4. ConnectMeansAnswered'
    BY <1>1 DEF ConnectMeansAnswered
  <1>5. /\ (held \in [Nodes -> SUBSET Objs])' /\ (canConnect \in BOOLEAN)'
        /\ \A r \in late' : r.obj \in Objs
    BY DEF EarnInv, Nodewise
  <1> QED BY <1>1, <1>2, <1>3, <1>4, <1>5 DEF EarnInv, Results

LEMMA ReturnEarned ==
  ASSUME EarnInv, Nodewise, NEW c, NEW infos, NEW err, GrpcReturn(c, infos, err),
         err = OK => Fulfilled(c, infos),
         c.op = "CheckAndSetConnect" =>
            c.addrs = << >> \/ ~canConnect' \/ \A n \in Range(c.addrs) : <<n, "info", Idle>> \in c.done
  PROVE  EarnInv'
  <1>1. /\ res'.op = c.op /\ res'.uuid = c.uuid /\ res'.addrs = c.addrs /\ res'.infos = infos /\ res'.err = err
        /\ res'.done = c.done /\ res'.through = c.through /\ res'.ever = c.ever
        /\ active' = Idle /\ rpc' = Idle
    BY DEF GrpcReturn
  <1>2. ReadsAreComplete'
    <2>1. SUFFICES ASSUME err = OK
                   PROVE  LET nodes   == Range(c.addrs)
                              through == UNION {c.through[n] : n \in nodes}
                              ever    == UNION {c.ever[n] : n \in nodes} IN
                            /\ c.op \in Lists => through \subseteq Range(infos) /\ Range(infos) \subseteq ever
                            /\ c.op \in Finds => /\ through \cap {c.uuid} \subseteq Range(infos)
                                                 /\ Range(infos) \subseteq ever \cap {c.uuid}
      BY <1>1 DEF ReadsAreComplete
    <2>2. \A n \in Range(c.addrs) :
            /\ c.op \in Lists => c.through[n] \subseteq Range(infos)
            /\ c.op \in Finds => c.through[n] \cap {c.uuid} \subseteq Range(infos)
      BY <2>1, Zenon DEF Fulfilled, Complete
    <2>3. \A o \in Range(infos) :
            (\E n \in Range(c.addrs) : o \in c.ever[n]) /\ (c.op \in Finds => o = c.uuid)
      BY <2>1 DEF Fulfilled
    <2> QED BY <2>2, <2>3
  <1>3. SuccessIsEarned'
    BY <1>1, Zenon DEF SuccessIsEarned, Fulfilled, Complete
  <1>4. ConnectMeansAnswered'
    BY <1>1 DEF ConnectMeansAnswered
  <1>5. /\ (held \in [Nodes -> SUBSET Objs])' /\ (canConnect \in BOOLEAN)'
        /\ \A q \in late' : q.obj \in Objs
    BY DEF EarnInv, Nodewise
  <1> QED BY <1>1, <1>2, <1>3, <1>4, <1>5 DEF EarnInv, Results

\* A call that goes to its next address has gone past the ones before it, and
\* past all of them when there is none.
LEMMA VisitEarned ==
  ASSUME IdleIsNoRecord, EarnInv, Nodewise, NEW c, Visit(c), CallOK(c), Bracketed(c, held), Walked(c),
         c.i \in 1..(Len(c.addrs) + 1), c.op \in Unary => c.i <= Len(c.addrs)
  PROVE  EarnInv'
  <1>0. Len(c.addrs) \in Nat /\ DOMAIN c.addrs = 1..Len(c.addrs)
    BY DEF CallOK
  <1>1. CASE c.i > Len(c.addrs)
    <2>1. c.i - 1 = Len(c.addrs) /\ GrpcReturn(c, c.infos, c.accErr)
      BY <1>0, <1>1 DEF Visit
    <2>2. \A n \in Range(c.addrs) : \E j \in 1..(c.i - 1) : n = c.addrs[j]
      BY <1>0, <2>1 DEF Range
    <2>3. \A j \in 1..(c.i - 1) : c.addrs[j] \in Range(c.addrs)
      BY <1>0, <2>1 DEF Range
    <2>4. c.op \notin Unary
      BY <1>0, <1>1
    <2>5. c.accErr = OK => Fulfilled(c, c.infos)
      <3>1. c.accErr = OK => \A n \in Range(c.addrs) : Complete(c, c.infos, n)
        BY <2>2, Zenon DEF Walked
      <3>2. \A o \in Range(c.infos) :
              (\E n \in Range(c.addrs) : o \in c.ever[n]) /\ (c.op \in Finds => o = c.uuid)
        BY <2>3 DEF Walked, Sound
      <3> QED BY <2>4, <3>1, <3>2 DEF Fulfilled
    <2>6. c.op = "CheckAndSetConnect" => \A n \in Range(c.addrs) : <<n, "info", Idle>> \in c.done
      BY <2>2, Zenon DEF Walked
    <2> QED BY <2>1, <2>5, <2>6, ReturnEarned
  <1>2. CASE ~(c.i > Len(c.addrs))
    <2> DEFINE q == First(c.op, c.addrs[c.i], c.uuid)
    <2>1. active' = c /\ rpc' = q /\ res' = res
      BY <1>2 DEF Visit
    <2>2. RequestFits(c, q) /\ q.at = "ready" /\ q.reply = << >> /\ (q.method = "destroy" => c.op \in Unary)
      BY FirstFits
    <2> HIDE DEF q
    <2>4. InHand(c, q)
      <3>1. ReplyHolds(c, q)
        BY <2>2 DEF ReplyHolds
      <3>2. Removal(c, q)
        BY <2>2 DEF Removal, Unary
      <3>3. c.i \in 1..Len(c.addrs)
        BY <1>0, <1>2
      <3> QED BY <2>2, <3>1, <3>2, <3>3 DEF InHand
    <2> QED BY <2>1, <2>4, CarriedOn
  <1> QED BY <1>1, <1>2

-----------------------------------------------------------------------------
(* How a call goes on                                                      *)

\* The same call, with what may have happened on the nodes meanwhile.
Later(c, d) ==
  /\ DOMAIN d = CallFields
  /\ d.op = c.op /\ d.uuid = c.uuid /\ d.addrs = c.addrs /\ d.i = c.i /\ d.infos = c.infos /\ d.accErr = c.accErr
  /\ c.done \subseteq d.done
  /\ \A n \in Nodes : d.through[n] \subseteq c.through[n] /\ c.ever[n] \subseteq d.ever[n]

LEMMA AddressIsNode ==
  ASSUME NEW c, CallOK(c), NEW j \in 1..Len(c.addrs)
  PROVE  c.addrs[j] \in Nodes /\ c.addrs[j] \in Range(c.addrs)
  BY DEF CallOK, Range

LEMMA StaysWalked ==
  ASSUME NEW c, NEW d, CallOK(c), c.i \in 1..Len(c.addrs), Walked(c), Later(c, d)
  PROVE  Walked(d)
  <1>0. Len(c.addrs) \in Nat
    BY DEF CallOK
  <1>1. ASSUME NEW j \in 1..(c.i - 1) PROVE c.addrs[j] \in Nodes
    <2>1. j \in 1..Len(c.addrs)
      BY <1>0
    <2> QED BY <2>1, AddressIsNode
  <1>2. Sound(d)
    BY <1>1 DEF Walked, Sound, Later
  <1>3. ASSUME NEW j \in 1..(c.i - 1), c.accErr = OK PROVE Complete(d, d.infos, c.addrs[j])
    <2> DEFINE n == c.addrs[j]
    <2>1. Complete(c, c.infos, n) /\ n \in Nodes
      BY <1>1, <1>3, Zenon DEF Walked
    <2> SUFFICES Complete(d, d.infos, n)
      OBVIOUS
    <2> HIDE DEF n
    <2> QED BY <2>1, Zenon DEF Complete, Later
  <1>4. ASSUME NEW j \in 1..(c.i - 1), c.op = "CheckAndSetConnect"
        PROVE  <<c.addrs[j], "info", Idle>> \in d.done
    BY <1>4 DEF Walked, Later
  <1> QED BY <1>2, <1>3, <1>4 DEF Walked, Later

\* A call that has gone past its address too.
LEMMA PassedOn ==
  ASSUME NEW c, NEW d, CallOK(c), c.i \in 1..Len(c.addrs), Walked(c),
         d.op = c.op, d.uuid = c.uuid, d.addrs = c.addrs, d.i = c.i + 1,
         d.done = c.done, d.through = c.through, d.ever = c.ever,
         Range(c.infos) \subseteq Range(d.infos),
         \A o \in Range(d.infos) : o \in Range(c.infos) \/ (o \in c.ever[c.addrs[c.i]] /\ (c.op \in Finds => o = c.uuid)),
         d.accErr = OK => c.accErr = OK /\ Complete(d, d.infos, c.addrs[c.i]),
         c.op = "CheckAndSetConnect" => <<c.addrs[c.i], "info", Idle>> \in c.done
  PROVE  Walked(d) /\ d.i \in 1..(Len(d.addrs) + 1)
  <1>0. Len(c.addrs) \in Nat /\ c.i \in Nat /\ 1..(d.i - 1) = 1..(c.i - 1) \cup {c.i}
    BY DEF CallOK
  <1>1. Sound(d)
    BY <1>0 DEF Walked, Sound
  <1>2. ASSUME NEW j \in 1..(c.i - 1), d.accErr = OK PROVE Complete(d, d.infos, c.addrs[j])
    <2> DEFINE n == c.addrs[j]
    <2>1. Complete(c, c.infos, n)
      BY <1>2, Zenon DEF Walked
    <2> SUFFICES Complete(d, d.infos, n)
      OBVIOUS
    <2> HIDE DEF n
    <2> QED BY <2>1, Zenon DEF Complete
  <1>3. \A j \in 1..(d.i - 1) : d.accErr = OK => Complete(d, d.infos, d.addrs[j])
    BY <1>0, <1>2
  <1>4. \A j \in 1..(d.i - 1) : d.op = "CheckAndSetConnect" => <<d.addrs[j], "info", Idle>> \in d.done
    BY <1>0, Zenon DEF Walked
  <1>5. d.i \in 1..(Len(d.addrs) + 1)
    BY <1>0
  <1> QED BY <1>1, <1>3, <1>4, <1>5 DEF Walked

\* The removal of the next object.
LEMMA RemovalEarned ==
  ASSUME IdleIsNoRecord, EarnInv, Nodewise, NEW c, RemoveNext(c), CallOK(c), Bracketed(c, held), Walked(c),
         c.i \in 1..Len(c.addrs), c.todo # << >>, c.op \in {"DestroyAllPools", "RmNodeReplicas"},
         c.op = "DestroyAllPools" => c.through[c.addrs[c.i]] \subseteq Range(c.todo),
         c.op = "RmNodeReplicas" => <<c.addrs[c.i], "list", Idle>> \in c.done
  PROVE  EarnInv'
  <1> DEFINE d == [c EXCEPT !.todo = Tail(c.todo)]
             q == Request(c.addrs[c.i], "destroy", Head(c.todo))
  <1>1. active' = d /\ rpc' = q /\ res' = res
    BY DEF RemoveNext, DestroyPool, RmReplica
  <1>2. Range(c.todo) = {Head(c.todo)} \cup Range(Tail(c.todo)) /\ Head(c.todo) \in Objs /\ Tail(c.todo) \in Seq(Objs)
    BY ListSets DEF CallOK
  <1>3. /\ DOMAIN q = RequestFields /\ q.addr = c.addrs[c.i] /\ q.method = "destroy" /\ q.obj = Head(c.todo)
        /\ q.tries = 0 /\ q.at = "ready" /\ q.reply = << >> /\ 0 < Retries(q)
    BY RequestParts
  <1>4. /\ DOMAIN d = CallFields /\ d.todo = Tail(c.todo)
        /\ d.op = c.op /\ d.uuid = c.uuid /\ d.addrs = c.addrs /\ d.i = c.i /\ d.infos = c.infos
        /\ d.accErr = c.accErr /\ d.done = c.done /\ d.through = c.through /\ d.ever = c.ever
    BY DEF CallOK, CallFields
  <1> HIDE DEF d, q
  <1>5. CallOK(d) /\ d.i \in 1..Len(d.addrs)
    BY <1>2, <1>4 DEF CallOK
  <1>6. Walked(d)
    BY <1>4, StaysWalked DEF Later
  <1>7. RequestFits(d, q)
    BY <1>2, <1>3, <1>4 DEF RequestFits, Removing, Unary
  <1>8. ReplyHolds(d, q) /\ Removal(d, q)
    BY <1>2, <1>3, <1>4 DEF ReplyHolds, Removal
  <1>9. Bracketed(d, held)
    BY <1>4 DEF Bracketed
  <1> QED BY <1>1, <1>5, <1>6, <1>7, <1>8, <1>9, CarriedOn DEF InHand

LEMMA AccumulatedCall ==
  ASSUME NEW c, NEW e, CallOK(c)
  PROVE  LET d == Accumulate(c, e) IN
           /\ DOMAIN d = CallFields
           /\ d.op = c.op /\ d.uuid = c.uuid /\ d.addrs = c.addrs /\ d.i = c.i + 1 /\ d.infos = c.infos
           /\ d.todo = c.todo /\ d.done = c.done /\ d.through = c.through /\ d.ever = c.ever
           /\ d.accErr = IF c.accErr = OK THEN e ELSE c.accErr
  BY DEF Accumulate, CallOK, CallFields

\* The call goes on to its next address, d being what it has become.
LEMMA GoesOn ==
  ASSUME IdleIsNoRecord, EarnInv, Nodewise, active # Idle, NEW d, Visit(d),
         DOMAIN d = CallFields, d.op \notin Unary,
         d.op = active.op, d.uuid = active.uuid, d.addrs = active.addrs, d.i = active.i + 1,
         d.todo = active.todo, d.done = active.done, d.through = active.through, d.ever = active.ever,
         d.infos \in Seq(Objs), Range(active.infos) \subseteq Range(d.infos),
         \A o \in Range(d.infos) :
           o \in Range(active.infos) \/ (o \in active.ever[rpc.addr] /\ (active.op \in Finds => o = active.uuid)),
         d.accErr = OK => active.accErr = OK /\ Complete(d, d.infos, rpc.addr),
         active.op = "CheckAndSetConnect" => <<rpc.addr, "info", Idle>> \in active.done
  PROVE  EarnInv'
  <1>1. /\ CallOK(active) /\ active.i \in 1..Len(active.addrs) /\ Walked(active) /\ Bracketed(active, held)
        /\ rpc.addr = active.addrs[active.i]
    BY DEF EarnInv, InHand, RequestFits
  <1>2. Walked(d) /\ d.i \in 1..(Len(d.addrs) + 1)
    BY <1>1, PassedOn, Zenon
  <1>3. CallOK(d)
    BY <1>1 DEF CallOK
  <1>4. Bracketed(d, held)
    BY <1>1 DEF Bracketed
  <1> QED BY <1>2, <1>3, <1>4, VisitEarned

\* What is known when a call goes on with the end of its request.
LEMMA Known ==
  ASSUME EarnInv, rpc # Idle, rpc.at = "answered"
  PROVE  /\ active # Idle /\ CallOK(active) /\ active.i \in 1..Len(active.addrs) /\ Walked(active)
         /\ Bracketed(active, held) /\ RequestFits(active, rpc) /\ Removal(active, rpc)
         /\ rpc.addr = active.addrs[active.i] /\ rpc.addr \in Nodes /\ rpc.addr \in Range(active.addrs)
         /\ rpc.reply \in Seq(Objs)
         /\ rpc.err # OK => rpc.reply = << >>
         /\ rpc.err = OK =>
              /\ <<rpc.addr, rpc.method, rpc.obj>> \in active.done
              /\ rpc.method = "list" => /\ active.through[rpc.addr] \subseteq Range(rpc.reply)
                                        /\ Range(rpc.reply) \subseteq active.ever[rpc.addr]
              /\ rpc.method = "destroy" => rpc.obj \notin active.through[rpc.addr]
  <1>1. /\ active # Idle /\ CallOK(active) /\ active.i \in 1..Len(active.addrs) /\ Walked(active)
        /\ Bracketed(active, held) /\ RequestFits(active, rpc) /\ ReplyHolds(active, rpc) /\ Removal(active, rpc)
    BY DEF EarnInv, InHand
  <1>2. rpc.addr = active.addrs[active.i]
    BY <1>1 DEF RequestFits
  <1>3. rpc.addr \in Nodes /\ rpc.addr \in Range(active.addrs)
    BY <1>1, <1>2, AddressIsNode
  <1> QED BY <1>1, <1>2, <1>3 DEF ReplyHolds

LEMMA UnaryEarned ==
  ASSUME IdleIsNoRecord, EarnInv, Nodewise, rpc # Idle, rpc.at = "answered",
         active.op \in Unary, GrpcReturn(active, << >>, rpc.err)
  PROVE  EarnInv'
  <1>1. rpc.err = OK => Fulfilled(active, << >>)
    <2> SUFFICES ASSUME rpc.err = OK PROVE Fulfilled(active, << >>)
      OBVIOUS
    <2>1. \A n : Complete(active, << >>, n)
      BY DEF Complete, Unary, Lists, Finds
    <2>2. rpc.addr = active.addrs[1] /\ rpc.obj = active.uuid
      <3>1. CallOK(active) /\ RequestFits(active, rpc)
        BY Known
      <3> QED BY <3>1 DEF CallOK, RequestFits, Unary
    <2>3. <<rpc.addr, rpc.method, rpc.obj>> \in active.done
      BY Known
    <2> QED BY <2>1, <2>2, <2>3, ShortLists, Zenon DEF Fulfilled
  <1> QED BY <1>1, ReturnEarned DEF Unary

LEMMA FindReplicasEarned ==
  ASSUME IdleIsNoRecord, EarnInv, Nodewise, rpc # Idle, rpc.at = "answered",
         active.op = "FindReplicas", FindReplicas(rpc.err)
  PROVE  EarnInv'
  <1> USE Known
  <1> DEFINE e == rpc.err
             found == e = OK /\ active.uuid \in Range(rpc.reply)
             a == Accumulate(active, e)
             infos == IF found THEN Append(active.infos, active.uuid) ELSE active.infos
             d == [a EXCEPT !.infos = infos]
  <1>1. /\ DOMAIN a = CallFields /\ a.op = active.op /\ a.uuid = active.uuid /\ a.addrs = active.addrs
        /\ a.i = active.i + 1 /\ a.infos = active.infos /\ a.todo = active.todo /\ a.done = active.done
        /\ a.through = active.through /\ a.ever = active.ever
        /\ a.accErr = IF active.accErr = OK THEN e ELSE active.accErr
    BY AccumulatedCall
  <1>2. Visit(d)
    BY <1>1 DEF FindReplicas
  <1> HIDE DEF a
  <1>3. /\ DOMAIN d = CallFields /\ d.op = active.op /\ d.uuid = active.uuid /\ d.addrs = active.addrs
        /\ d.i = active.i + 1 /\ d.infos = infos /\ d.todo = active.todo /\ d.done = active.done
        /\ d.through = active.through /\ d.ever = active.ever
        /\ d.accErr = IF active.accErr = OK THEN e ELSE active.accErr
    BY <1>1 DEF CallFields
  <1> HIDE DEF d
  <1>4. active.infos \in Seq(Objs) /\ active.uuid \in Objs /\ rpc.method = "list"
    <2>1. CallOK(active) /\ RequestFits(active, rpc)
      OBVIOUS
    <2> QED BY <2>1 DEF CallOK, RequestFits, Finds, Unary
  <1>5. infos \in Seq(Objs) /\ Range(infos) = Range(active.infos) \cup IF found THEN {active.uuid} ELSE {}
    BY <1>4, ListElements
  <1>6. found <=> e = OK /\ active.uuid \in Range(rpc.reply)
    OBVIOUS
  <1> HIDE DEF infos, found
  <1>7. \A o \in Range(infos) : o \in Range(active.infos) \/ (o \in active.ever[rpc.addr] /\ o = active.uuid)
    BY <1>4, <1>5, <1>6
  <1>8. e = OK => Complete(d, infos, rpc.addr)
    BY <1>3, <1>4, <1>5, <1>6 DEF Complete, Finds, Lists
  <1>9. d.accErr = OK => active.accErr = OK /\ e = OK
    BY <1>3
  <1> HIDE DEF e
  <1> QED BY <1>2, <1>3, <1>5, <1>7, <1>8, <1>9, GoesOn, Zenon DEF Unary

LEMMA ListEarned ==
  ASSUME IdleIsNoRecord, EarnInv, Nodewise, rpc # Idle, rpc.at = "answered",
         active.op \in Lists, ListAll(rpc.err)
  PROVE  EarnInv'
  <1> USE Known
  <1> DEFINE e == rpc.err
             a == Accumulate(active, e)
             infos == IF e = OK THEN active.infos \o rpc.reply ELSE active.infos
             d == [a EXCEPT !.infos = infos]
  <1>1. /\ DOMAIN a = CallFields /\ a.op = active.op /\ a.uuid = active.uuid /\ a.addrs = active.addrs
        /\ a.i = active.i + 1 /\ a.infos = active.infos /\ a.todo = active.todo /\ a.done = active.done
        /\ a.through = active.through /\ a.ever = active.ever
        /\ a.accErr = IF active.accErr = OK THEN e ELSE active.accErr
    BY AccumulatedCall
  <1>2. Visit(d)
    BY <1>1 DEF ListAll
  <1> HIDE DEF a
  <1>3. /\ DOMAIN d = CallFields /\ d.op = active.op /\ d.uuid = active.uuid /\ d.addrs = active.addrs
        /\ d.i = active.i + 1 /\ d.infos = infos /\ d.todo = active.todo /\ d.done = active.done
        /\ d.through = active.through /\ d.ever = active.ever
        /\ d.accErr = IF active.accErr = OK THEN e ELSE active.accErr
    BY <1>1 DEF CallFields
  <1> HIDE DEF d
  <1>4. active.infos \in Seq(Objs) /\ rpc.method = "list" /\ active.op \notin Finds \cup Unary
    <2>1. CallOK(active) /\ RequestFits(active, rpc)
      OBVIOUS
    <2>2. active.op \notin Finds \cup Unary \cup {"CheckAndSetConnect", "DestroyAllPools", "RmNodeReplicas"}
      BY DEF Finds, Unary, Lists
    <2> QED BY <2>1, <2>2 DEF CallOK, RequestFits
  <1>5. infos \in Seq(Objs) /\ Range(infos) = Range(active.infos) \cup IF e = OK THEN Range(rpc.reply) ELSE {}
    BY <1>4, ListSets
  <1> HIDE DEF infos
  <1>7. \A o \in Range(infos) : o \in Range(active.infos) \/ o \in active.ever[rpc.addr]
    BY <1>4, <1>5
  <1>8. e = OK => Complete(d, infos, rpc.addr)
    BY <1>3, <1>4, <1>5 DEF Complete, Lists
  <1>9. d.accErr = OK => active.accErr = OK /\ e = OK
    BY <1>3
  <1>a. active.op # "CheckAndSetConnect"
    BY DEF Lists
  <1> HIDE DEF e
  <1> QED BY <1>2, <1>3, <1>4, <1>5, <1>7, <1>8, <1>9, <1>a, GoesOn

\* A hit is an answer for every node.
LEMMA HitEarned ==
  ASSUME IdleIsNoRecord, EarnInv, Nodewise, rpc # Idle, rpc.at = "answered",
         active.op \in {"FindNexus", "GetPool"}, rpc.err = OK, active.uuid \in Range(rpc.reply),
         GrpcReturn(active, <<active.uuid>>, OK)
  PROVE  EarnInv'
  <1>1. CallOK(active) /\ RequestFits(active, rpc) /\ rpc.reply \in Seq(Objs) /\ rpc.addr \in Range(active.addrs)
    BY Known
  <1>2. active.uuid \in Objs /\ rpc.method = "list"
    BY <1>1 DEF CallOK, RequestFits, Finds, Unary
  <1>4. active.uuid \in active.ever[rpc.addr]
    BY <1>2, Known
  <1>5. \A n : Complete(active, <<active.uuid>>, n)
    BY ShortLists DEF Complete, Lists
  <1>6. Fulfilled(active, <<active.uuid>>)
    BY <1>1, <1>4, <1>5, ShortLists DEF Fulfilled, Unary
  <1> QED BY <1>6, ReturnEarned

LEMMA FindNexusEarned ==
  ASSUME IdleIsNoRecord, EarnInv, Nodewise, rpc # Idle, rpc.at = "answered",
         active.op = "FindNexus", FindNexus(rpc.err)
  PROVE  EarnInv'
  <1>1. CASE rpc.err = OK /\ active.uuid \in Range(rpc.reply)
    BY <1>1, HitEarned DEF FindNexus
  <1>2. CASE ~(rpc.err = OK /\ active.uuid \in Range(rpc.reply))
    <2> DEFINE e == rpc.err
               d == Accumulate(active, e)
    <2>1. CallOK(active) /\ RequestFits(active, rpc) /\ rpc.reply \in Seq(Objs) /\ active # Idle
      BY Known
    <2>2. Visit(d)
      BY <1>2 DEF FindNexus
    <2>3. /\ DOMAIN d = CallFields /\ d.op = active.op /\ d.uuid = active.uuid /\ d.addrs = active.addrs
          /\ d.i = active.i + 1 /\ d.infos = active.infos /\ d.todo = active.todo /\ d.done = active.done
          /\ d.through = active.through /\ d.ever = active.ever
          /\ d.accErr = IF active.accErr = OK THEN e ELSE active.accErr
      BY <2>1, AccumulatedCall
    <2> HIDE DEF d
    <2>4. active.infos \in Seq(Objs) /\ active.uuid \in Objs /\ rpc.method = "list"
      BY <2>1 DEF CallOK, RequestFits, Finds, Unary
    <2>5. e = OK => active.uuid \notin Range(rpc.reply)
      BY <1>2
    <2>6. e = OK => active.uuid \notin active.through[rpc.addr]
      BY <2>4, <2>5, Known
    <2>7. e = OK => Complete(d, d.infos, rpc.addr)
      BY <2>3, <2>6 DEF Complete, Finds, Lists
    <2>8. d.accErr = OK => active.accErr = OK /\ e = OK
      BY <2>3
    <2> HIDE DEF e
    <2> QED BY <2>1, <2>2, <2>3, <2>4, <2>7, <2>8, GoesOn DEF Unary
  <1> QED BY <1>1, <1>2

LEMMA GetPoolEarned ==
  ASSUME IdleIsNoRecord, EarnInv, Nodewise, rpc # Idle, rpc.at = "answered",
         active.op = "GetPool", GetPool(rpc.err)
  PROVE  EarnInv'
  <1>1. CASE rpc.err = OK /\ active.uuid \in Range(rpc.reply)
    BY <1>1, HitEarned DEF GetPool
  <1>2. CASE ~(rpc.err = OK /\ active.uuid \in Range(rpc.reply))
    <2>1. PICK err : err # OK /\ GrpcReturn(active, << >>, err)
      BY <1>2 DEF GetPool, OK
    <2> QED BY <2>1, ReturnEarned
  <1> QED BY <1>1, <1>2

\* One node's objects are listed, then removed one by one.
LEMMA RmNodeReplicasEarned ==
  ASSUME IdleIsNoRecord, EarnInv, Nodewise, rpc # Idle, rpc.at = "answered",
         active.op = "RmNodeReplicas", RmNodeReplicas(rpc.err)
  PROVE  EarnInv'
  <1> DEFINE e == rpc.err
             todo == IF rpc.method = "list" THEN rpc.reply ELSE active.todo
             addr == rpc.addr
  <1>1. CallOK(active) /\ RequestFits(active, rpc) /\ rpc.reply \in Seq(Objs) /\ active # Idle /\ addr \in Nodes
    BY Known
  <1>2. /\ rpc.method \in {"list", "destroy"} /\ active.infos \in Seq(Objs) /\ todo \in Seq(Objs)
        /\ rpc.method = "list" => rpc.obj = Idle
        /\ rpc.method = "destroy" => rpc.obj \in Objs
    BY <1>1 DEF CallOK, RequestFits, Unary, Removing
  <1>3. e = OK \/ rpc.method = "destroy" \/ todo # << >> => <<addr, "list", Idle>> \in active.done
    <2>1. CASE rpc.method = "list"
      BY <1>2, <2>1, Known
    <2>2. CASE rpc.method = "destroy"
      BY <2>2, Known DEF Removal
    <2> QED BY <1>2, <2>1, <2>2
  <1>4. CASE todo # << >>
    <2> DEFINE c == [active EXCEPT !.todo = todo]
    <2>1. RemoveNext(c)
      BY <1>4 DEF RmNodeReplicas
    <2>2. /\ DOMAIN c = CallFields /\ c.op = active.op /\ c.uuid = active.uuid /\ c.addrs = active.addrs
          /\ c.i = active.i /\ c.infos = active.infos /\ c.todo = todo /\ c.done = active.done
          /\ c.through = active.through /\ c.ever = active.ever /\ c.accErr = active.accErr
      BY <1>1 DEF CallOK, CallFields
    <2> HIDE DEF c
    <2>3. CallOK(c)
      BY <1>1, <1>2, <2>2 DEF CallOK
    <2>4. Walked(c) /\ Bracketed(c, held)
      BY <2>2, Known, StaysWalked DEF Later, Bracketed
    <2>5. c.i \in 1..Len(c.addrs) /\ c.addrs[c.i] = addr
      BY <2>2, Known
    <2> HIDE DEF todo, addr
    <2> QED BY <1>3, <1>4, <2>1, <2>2, <2>3, <2>4, <2>5, RemovalEarned
  <1>5. CASE todo = << >>
    <2> DEFINE d == Accumulate(active, e)
    <2>1. Visit(d)
      BY <1>5 DEF RmNodeReplicas
    <2>2. /\ DOMAIN d = CallFields /\ d.op = active.op /\ d.uuid = active.uuid /\ d.addrs = active.addrs
          /\ d.i = active.i + 1 /\ d.infos = active.infos /\ d.todo = active.todo /\ d.done = active.done
          /\ d.through = active.through /\ d.ever = active.ever
          /\ d.accErr = IF active.accErr = OK THEN e ELSE active.accErr
      BY <1>1, AccumulatedCall
    <2> HIDE DEF d
    <2>3. e = OK /\ rpc.method = "list" => active.through[addr] = {}
      BY <1>5, Known, ShortLists, Zenon
    <2>4. e = OK /\ rpc.method = "destroy" => <<addr, "destroy", rpc.obj>> \in active.done
      BY Known
    <2>5. e = OK => Complete(d, d.infos, addr)
      BY <1>2, <1>3, <2>2, <2>3, <2>4, Zenon DEF Complete, Finds, Lists
    <2>6. d.accErr = OK => active.accErr = OK /\ e = OK
      BY <2>2
    <2> HIDE DEF e, todo
    <2> QED BY <1>1, <1>2, <2>1, <2>2, <2>5, <2>6, GoesOn DEF Unary, Finds
  <1> QED BY <1>4, <1>5

LEMMA DestroyAllPoolsEarned ==
  ASSUME IdleIsNoRecord, EarnInv, Nodewise, rpc # Idle, rpc.at = "answered",
         active.op = "DestroyAllPools", DestroyAllPools(rpc.err)
  PROVE  EarnInv'
  <1> DEFINE e == rpc.err
             todo == IF rpc.method = "list" THEN rpc.reply ELSE active.todo
             addr == rpc.addr
  <1>1. CallOK(active) /\ RequestFits(active, rpc) /\ rpc.reply \in Seq(Objs) /\ active # Idle /\ addr \in Nodes
    BY Known
  <1>2. rpc.method \in {"list", "destroy"} /\ active.infos \in Seq(Objs) /\ todo \in Seq(Objs)
    BY <1>1 DEF CallOK, RequestFits, Unary
  <1>3. e = OK => active.through[addr] \subseteq Range(todo)
    <2>1. CASE rpc.method = "list"
      BY <2>1, Known
    <2>2. CASE rpc.method = "destroy"
      BY <2>2, Known DEF Removal
    <2> QED BY <1>2, <2>1, <2>2
  <1>4. CASE e # OK
    <2>1. GrpcReturn(active, << >>, e)
      BY <1>4 DEF DestroyAllPools
    <2> QED BY <1>4, <2>1, ReturnEarned
  <1>5. CASE e = OK /\ todo # << >>
    <2> DEFINE c == [active EXCEPT !.todo = todo]
    <2>1. RemoveNext(c)
      BY <1>5 DEF DestroyAllPools
    <2>2. /\ DOMAIN c = CallFields /\ c.op = active.op /\ c.uuid = active.uuid /\ c.addrs = active.addrs
          /\ c.i = active.i /\ c.infos = active.infos /\ c.todo = todo /\ c.done = active.done
          /\ c.through = active.through /\ c.ever = active.ever /\ c.accErr = active.accErr
      BY <1>1 DEF CallOK, CallFields
    <2> HIDE DEF c
    <2>3. CallOK(c)
      BY <1>1, <1>2, <2>2 DEF CallOK
    <2>4. Walked(c) /\ Bracketed(c, held)
      BY <2>2, Known, StaysWalked DEF Later, Bracketed
    <2>5. c.i \in 1..Len(c.addrs) /\ c.addrs[c.i] = addr
      BY <2>2, Known
    <2> HIDE DEF todo, addr
    <2> QED BY <1>3, <1>5, <2>1, <2>2, <2>3, <2>4, <2>5, RemovalEarned, Zenon
  <1>6. CASE e = OK /\ todo = << >>
    <2> DEFINE d == [active EXCEPT !.i = active.i + 1]
    <2>1. Visit(d)
      BY <1>6 DEF DestroyAllPools
    <2>2. /\ DOMAIN d = CallFields /\ d.op = active.op /\ d.uuid = active.uuid /\ d.addrs = active.addrs
          /\ d.i = active.i + 1 /\ d.infos = active.infos /\ d.todo = active.todo /\ d.done = active.done
          /\ d.through = active.through /\ d.ever = active.ever /\ d.accErr = active.accErr
      BY <1>1 DEF CallOK, CallFields
    <2> HIDE DEF d
    <2>3. active.through[addr] = {}
      BY <1>3, <1>6, ShortLists, Zenon
    <2>4. Complete(d, d.infos, addr)
      BY <2>2, <2>3 DEF Complete, Finds, Lists
    <2> HIDE DEF todo
    <2> QED BY <1>1, <1>2, <2>1, <2>2, <2>4, GoesOn DEF Unary, Finds
  <1> QED BY <1>4, <1>5, <1>6

LEMMA ConnectEarned ==
  ASSUME IdleIsNoRecord, EarnInv, Nodewise, rpc # Idle, rpc.at = "answered",
         active.op = "CheckAndSetConnect", CheckAndSetConnect(rpc.err)
  PROVE  EarnInv'
  <1>1. CallOK(active) /\ RequestFits(active, rpc) /\ active # Idle
    BY Known
  <1>2. rpc.method = "info" /\ rpc.obj = Idle /\ active.infos \in Seq(Objs)
    BY <1>1 DEF CallOK, RequestFits, Unary, Removing
  <1>3. CASE rpc.err # OK
    <2>1. ~canConnect' /\ GrpcReturn(active, << >>, OK)
      BY <1>3 DEF CheckAndSetConnect
    <2>2. \A n : Complete(active, << >>, n)
      BY DEF Complete, Lists, Finds
    <2>3. Fulfilled(active, << >>)
      BY <2>2, ShortLists, Zenon DEF Fulfilled, Unary
    <2> QED BY <2>1, <2>3, ReturnEarned
  <1>4. CASE rpc.err = OK
    <2> DEFINE d == [active EXCEPT !.i = active.i + 1]
    <2>1. Visit(d)
      BY <1>4 DEF CheckAndSetConnect
    <2>2. /\ DOMAIN d = CallFields /\ d.op = active.op /\ d.uuid = active.uuid /\ d.addrs = active.addrs
          /\ d.i = active.i + 1 /\ d.infos = active.infos /\ d.todo = active.todo /\ d.done = active.done
          /\ d.through = active.through /\ d.ever = active.ever /\ d.accErr = active.accErr
      BY <1>1 DEF CallOK, CallFields
    <2> HIDE DEF d
    <2>3. <<rpc.addr, "info", Idle>> \in active.done
      BY <1>2, <1>4, Known
    <2>4. Complete(d, d.infos, rpc.addr)
      BY <2>2 DEF Complete, Finds, Lists
    <2> QED BY <1>1, <1>2, <2>1, <2>2, <2>3, <2>4, GoesOn DEF Unary, Finds
  <1> QED BY <1>3, <1>4

\* The call goes on with the end of its request.
LEMMA ResumeEarned ==
  ASSUME IdleIsNoRecord, EarnInv, UNCHANGED <<kind, held, late>>, rpc # Idle, rpc.at = "answered", Resume(rpc.err)
  PROVE  EarnInv'
  <1> DEFINE op == active.op
  <1>0. Nodewise
    <2>1. op = "CheckAndSetConnect" => CheckAndSetConnect(rpc.err)
      BY DEF Resume, Unary
    <2>2. op # "CheckAndSetConnect" => canConnect' = canConnect
      BY DEF Resume
    <2>3. canConnect' \in BOOLEAN
      BY <2>1, <2>2, Zenon DEF CheckAndSetConnect, EarnInv
    <2> QED BY <2>3 DEF Nodewise
  <1>a. op \in CallNames
    BY Known DEF CallOK
  <1>1. CASE op \in Unary
    <2>1. GrpcReturn(active, << >>, rpc.err)
      BY <1>1 DEF Resume, Unary
    <2> QED BY <1>0, <1>1, <2>1, UnaryEarned
  <1>2. CASE op = "FindReplicas"
    <2>1. FindReplicas(rpc.err)
      BY <1>2 DEF Resume, Unary
    <2> QED BY <1>0, <1>2, <2>1, FindReplicasEarned
  <1>3. CASE op = "FindNexus"
    <2>1. FindNexus(rpc.err)
      BY <1>3 DEF Resume, Unary
    <2> QED BY <1>0, <1>3, <2>1, FindNexusEarned
  <1>4. CASE op = "GetPool"
    <2>1. GetPool(rpc.err)
      BY <1>4 DEF Resume, Unary
    <2> QED BY <1>0, <1>4, <2>1, GetPoolEarned
  <1>5. CASE op = "RmNodeReplicas"
    <2>1. RmNodeReplicas(rpc.err)
      BY <1>5 DEF Resume, Unary
    <2> QED BY <1>0, <1>5, <2>1, RmNodeReplicasEarned
  <1>6. CASE op = "DestroyAllPools"
    <2>1. DestroyAllPools(rpc.err)
      BY <1>6 DEF Resume, Unary
    <2> QED BY <1>0, <1>6, <2>1, DestroyAllPoolsEarned
  <1>7. CASE op = "CheckAndSetConnect"
    <2>1. CheckAndSetConnect(rpc.err)
      BY <1>7 DEF Resume, Unary
    <2> QED BY <1>0, <1>7, <2>1, ConnectEarned
  <1>8. CASE op \in Lists
    <2>1. ListAll(rpc.err)
      BY <1>8 DEF Resume, Unary, Lists, ListReplicas, ListNexuses, ListPools, ListNvmeControllers
    <2> QED BY <1>0, <1>8, <2>1, ListEarned
  <1> QED BY <1>a, <1>1, <1>2, <1>3, <1>4, <1>5, <1>6, <1>7, <1>8 DEF CallNames, Finds

LEMMA CallEarned ==
  ASSUME IdleIsNoRecord, EarnInv, GrpcCall
  PROVE  EarnInv'
  <1>1. PICK op \in OpsOf(kind), o \in Objs \cup {Idle}, as \in AddrLists :
          /\ op \in Unary \cup Finds <=> o # Idle
          /\ op \in Unary \cup {"GetPool"} => Len(as) = 1
          /\ Visit([op |-> op, uuid |-> o, addrs |-> as, i |-> 1, infos |-> << >>, accErr |-> OK,
                    todo |-> << >>, done |-> {}, late |-> FALSE, through |-> held, ever |-> held])
    BY Zenon DEF GrpcCall
  <1> DEFINE c == [op |-> op, uuid |-> o, addrs |-> as, i |-> 1, infos |-> << >>, accErr |-> OK,
                   todo |-> << >>, done |-> {}, late |-> FALSE, through |-> held, ever |-> held]
  <1>2. /\ DOMAIN c = CallFields /\ c.op = op /\ c.uuid = o /\ c.addrs = as /\ c.i = 1 /\ c.infos = << >>
        /\ c.todo = << >> /\ c.through = held /\ c.ever = held
    BY DEF CallFields
  <1>3. Visit(c) /\ Nodewise
    BY <1>1, Zenon DEF GrpcCall, Nodewise, EarnInv
  <1> HIDE DEF c
  <1>4. op \in CallNames
    BY DEF OpsOf, CallNames, Lists, Finds, Unary
  <1>5. as \in Seq(Nodes)
    BY ClientAssumption, Zenon
  <1>6. CallOK(c)
    <2>1. << >> \in Seq(Objs)
      OBVIOUS
    <2>2. op \in Unary \cup Finds => o \in Objs
      BY <1>1
    <2> QED BY <1>1, <1>2, <1>4, <1>5, <2>1, <2>2, Zenon DEF CallOK
  <1>7. Bracketed(c, held)
    BY <1>2 DEF Bracketed, EarnInv
  <1>8. Walked(c)
    <2>1. Range(c.infos) = {}
      BY <1>2, ShortLists, Zenon
    <2>2. 1..(c.i - 1) = {}
      BY <1>2
    <2> QED BY <2>1, <2>2 DEF Walked, Sound
  <1>9. ASSUME c.op \in Unary PROVE c.i <= Len(c.addrs)
    <2>1. c.i = 1 /\ Len(c.addrs) = 1
      BY <1>6, <1>9 DEF CallOK
    <2> QED BY <2>1
  <1>10. 1 \in 1..(Len(c.addrs) + 1)
    <2>1. Len(c.addrs) \in Nat
      BY <1>6 DEF CallOK
    <2> HIDE <1>1
    <2> QED BY <2>1
  <1> QED BY <1>2, <1>3, <1>6, <1>7, <1>8, <1>9, <1>10, VisitEarned, Zenon

-----------------------------------------------------------------------------
(* The network, the servers and the other clients                          *)

\* What happens to a call that neither goes on nor ends.
LEMMA MeanwhileEarned ==
  ASSUME IdleIsNoRecord, EarnInv, active # Idle, NEW d, NEW q, active' = d, rpc' = q,
         UNCHANGED <<kind, canConnect, res>>, held' \in [Nodes -> SUBSET Objs], \A r \in late' : r.obj \in Objs,
         Later(active, d), d.todo = active.todo, Bracketed(d, held'),
         DOMAIN q = RequestFields, q.addr = rpc.addr, q.method = rpc.method, q.obj = rpc.obj,
         q.at \in {"ready", "sent", "answered"}, q.tries \in Nat, q.tries < Retries(q), ReplyHolds(d, q)
  PROVE  EarnInv'
  <1>1. /\ CallOK(active) /\ active.i \in 1..Len(active.addrs) /\ Walked(active)
        /\ RequestFits(active, rpc) /\ Removal(active, rpc)
    BY DEF EarnInv, InHand
  <1>2. CallOK(d) /\ d.i \in 1..Len(d.addrs)
    BY <1>1, Zenon DEF CallOK, Later
  <1>3. Walked(d)
    BY <1>1, StaysWalked, Zenon
  <1>4. RequestFits(d, q)
    BY <1>1 DEF RequestFits, Later, Unary
  <1>5. rpc.addr \in Nodes
    BY <1>1, AddressIsNode DEF RequestFits
  <1>6. Removal(d, q)
    BY <1>1, <1>5 DEF Removal, Later
  <1>7. (active # Idle)' /\ (rpc # Idle)' /\ InHand(active, rpc)' /\ Bracketed(active, held)'
    BY <1>2, <1>3, <1>4, <1>6, Carried DEF InHand
  <1>8. ReadsAreComplete'
    BY DEF EarnInv, Results, ReadsAreComplete
  <1>9. SuccessIsEarned'
    BY DEF EarnInv, Results, SuccessIsEarned
  <1>10. ConnectMeansAnswered'
    BY <1>7 DEF ConnectMeansAnswered
  <1>11. (canConnect \in BOOLEAN)'
    BY DEF EarnInv
  <1> QED BY <1>7, <1>8, <1>9, <1>10, <1>11 DEF EarnInv, Results

\* The request in hand, whose fields the steps below change.
LEMMA Requested ==
  ASSUME EarnInv, rpc # Idle
  PROVE  /\ active # Idle /\ CallOK(active) /\ Bracketed(active, held) /\ Later(active, active)
         /\ DOMAIN rpc = RequestFields /\ rpc.at \in {"ready", "sent", "answered"}
         /\ rpc.tries \in Nat /\ rpc.tries < Retries(rpc)
         /\ rpc.addr \in Nodes /\ (rpc.method \in Removing => rpc.obj \in Objs)
         /\ rpc.reply \in Seq(Objs) /\ ReplyHolds(active, rpc)
         /\ rpc.at # "answered" \/ rpc.err # OK => rpc.reply = << >>
  <1>1. /\ active # Idle /\ CallOK(active) /\ Bracketed(active, held) /\ active.i \in 1..Len(active.addrs)
        /\ RequestFits(active, rpc) /\ ReplyHolds(active, rpc)
    BY DEF EarnInv, InHand
  <1>2. Later(active, active)
    BY <1>1 DEF Later, CallOK
  <1>3. rpc.addr \in Nodes
    BY <1>1, AddressIsNode DEF RequestFits
  <1> QED BY <1>1, <1>2, <1>3 DEF RequestFits, ReplyHolds

LEMMA Remembered ==
  ASSUME NEW c, c # Idle, CallOK(c), Bracketed(c, held), NEW h \in [Nodes -> SUBSET Objs]
  PROVE  LET d == Remember(c, h) IN
           Later(c, d) /\ d.todo = c.todo /\ d.done = c.done /\ Bracketed(d, h)
  <1> DEFINE d == Remember(c, h)
  <1>1. /\ DOMAIN d = CallFields
        /\ d.op = c.op /\ d.uuid = c.uuid /\ d.addrs = c.addrs /\ d.i = c.i /\ d.infos = c.infos
        /\ d.accErr = c.accErr /\ d.todo = c.todo /\ d.done = c.done
    BY DEF Remember, CallOK, CallFields
  <1>2. /\ d.through = [n \in Nodes |-> c.through[n] \cap h[n]]
        /\ d.ever = [n \in Nodes |-> c.ever[n] \cup h[n]]
    BY DEF Remember, CallOK, CallFields
  <1>3. c.through \in [Nodes -> SUBSET Objs] /\ c.ever \in [Nodes -> SUBSET Objs]
    BY DEF Bracketed
  <1> HIDE DEF d
  <1>4. Later(c, d)
    BY <1>1, <1>2 DEF Later
  <1>5. Bracketed(d, h)
    BY <1>2, <1>3 DEF Bracketed
  <1> QED BY <1>1, <1>4, <1>5 DEF d

\* The effect of a request is on one node and its own object.
LEMMA EffectOnHeld ==
  ASSUME NEW q, held \in [Nodes -> SUBSET Objs], q.method \in {"destroy", "create"} => q.obj \in Objs
  PROVE  /\ Effect(q) \in [Nodes -> SUBSET Objs]
         /\ q.method = "list" => Effect(q) = held
         /\ q.method = "destroy" /\ q.addr \in Nodes => q.obj \notin Effect(q)[q.addr]
  <1>1. CASE q.method = "destroy"
    BY <1>1, Zenon DEF Effect
  <1>2. CASE q.method = "create"
    BY <1>2, Zenon DEF Effect
  <1>3. CASE q.method \notin {"destroy", "create"}
    BY <1>3 DEF Effect
  <1> QED BY <1>1, <1>2, <1>3

LEMMA HandleEarned ==
  ASSUME IdleIsNoRecord, EarnInv, Handle
  PROVE  EarnInv'
  <1> DEFINE addr == rpc.addr
             r == Remember(active, held')
             d == [r EXCEPT !.done = r.done \cup {<<rpc.addr, rpc.method, rpc.obj>>}]
  <1>1. PICK s \in IF rpc.method = "list" THEN Orders(held[addr]) ELSE {<< >>} :
          rpc' = [rpc EXCEPT !.at = "answered", !.reply = s, !.err = OK]
    BY Zenon DEF Handle
  <1>2. /\ rpc # Idle /\ held' = Effect(rpc) /\ active' = d
        /\ UNCHANGED <<kind, late, canConnect, res>>
    BY DEF Handle
  <1>3. held \in [Nodes -> SUBSET Objs] /\ \A q \in late : q.obj \in Objs
    BY DEF EarnInv
  <1>4. /\ held' \in [Nodes -> SUBSET Objs]
        /\ rpc.method = "list" => held' = held
        /\ rpc.method = "destroy" => rpc.obj \notin held'[addr]
    BY <1>2, <1>3, Requested, EffectOnHeld DEF Removing
  <1>5. Later(active, r) /\ r.todo = active.todo /\ r.done = active.done /\ Bracketed(r, held')
    BY <1>2, <1>4, Requested, Remembered
  <1>6. s \in Seq(Objs) /\ (rpc.method = "list" => Range(s) = held[addr])
    <2>1. CASE rpc.method = "list"
      <3>1. held[addr] \subseteq Objs
        BY <1>2, <1>3, Requested
      <3>2. IsFiniteSet(held[addr])
        BY <3>1, ClientAssumption, FS_Subset
      <3>3. s \in Seq(held[addr]) /\ Range(s) = held[addr]
        BY <1>1, <2>1, <3>2, ListOrder
      <3> QED BY <3>1, <3>3
    <2>2. CASE rpc.method # "list"
      BY <1>1, <2>2
    <2> QED BY <2>1, <2>2
  <1>7. /\ DOMAIN rpc' = RequestFields /\ rpc'.at = "answered" /\ rpc'.reply = s /\ rpc'.err = OK
        /\ rpc'.addr = addr /\ rpc'.method = rpc.method /\ rpc'.obj = rpc.obj /\ rpc'.tries = rpc.tries
    BY <1>1, <1>2, Requested DEF RequestFields
  <1>8. DOMAIN r = CallFields
    BY <1>5 DEF Later
  <1> HIDE DEF r
  <1>9. /\ DOMAIN d = CallFields /\ d.done = r.done \cup {<<addr, rpc.method, rpc.obj>>}
        /\ d.op = r.op /\ d.uuid = r.uuid /\ d.addrs = r.addrs /\ d.i = r.i /\ d.infos = r.infos
        /\ d.accErr = r.accErr /\ d.todo = r.todo /\ d.through = r.through /\ d.ever = r.ever
    BY <1>8 DEF CallFields
  <1> HIDE DEF d
  <1>10. Later(active, d) /\ Bracketed(d, held') /\ d.todo = active.todo
    BY <1>5, <1>9 DEF Later, Bracketed
  <1>11. addr \in Nodes
    BY <1>2, Requested
  <1>12. ReplyHolds(d, rpc')
    <2>1. d.through[addr] \subseteq held'[addr] /\ held'[addr] \subseteq d.ever[addr]
      BY <1>10, <1>11 DEF Bracketed
    <2>2. <<addr, rpc.method, rpc.obj>> \in d.done
      BY <1>9
    <2> QED BY <1>4, <1>6, <1>7, <2>1, <2>2 DEF ReplyHolds
  <1>13. rpc'.tries \in Nat /\ rpc'.tries < Retries(rpc')
    BY <1>2, <1>7, Requested DEF Retries
  <1> QED BY <1>2, <1>3, <1>4, <1>7, <1>10, <1>12, <1>13, Requested, MeanwhileEarned

\* A step that leaves the nodes alone, and the call but for its ghost of what
\* was left behind, and that ends no request with an answer.
LEMMA NoAnswerEarned ==
  ASSUME IdleIsNoRecord, EarnInv, rpc # Idle, UNCHANGED <<kind, held, canConnect, res>>,
         active' = active \/ active' = [active EXCEPT !.late = TRUE], \A q \in late' : q.obj \in Objs,
         DOMAIN rpc' = RequestFields, rpc'.addr = rpc.addr, rpc'.method = rpc.method, rpc'.obj = rpc.obj,
         rpc'.at \in {"ready", "sent", "answered"}, rpc'.tries \in Nat, rpc'.tries < Retries(rpc),
         rpc'.at = "answered" => rpc'.err # OK, rpc'.reply = << >>
  PROVE  EarnInv'
  <1>1. held \in [Nodes -> SUBSET Objs] /\ DOMAIN active = CallFields
    BY Requested DEF EarnInv, CallOK
  <1>2. /\ DOMAIN active' = CallFields /\ active'.op = active.op /\ active'.uuid = active.uuid
        /\ active'.addrs = active.addrs /\ active'.i = active.i /\ active'.infos = active.infos
        /\ active'.accErr = active.accErr /\ active'.todo = active.todo /\ active'.done = active.done
        /\ active'.through = active.through /\ active'.ever = active.ever
    BY <1>1 DEF CallFields
  <1>3. Later(active, active')
    BY <1>2 DEF Later
  <1>4. Bracketed(active', held')
    BY <1>2, Requested DEF Bracketed
  <1>5. ReplyHolds(active', rpc')
    BY DEF ReplyHolds
  <1>6. rpc'.tries < Retries(rpc')
    BY DEF Retries
  <1> QED BY <1>1, <1>2, <1>3, <1>4, <1>5, <1>6, Requested, MeanwhileEarned

LEMMA NetworkEarned ==
  ASSUME IdleIsNoRecord, EarnInv, Try \/ Refused \/ Unavailable \/ Expire
  PROVE  EarnInv'
  <1>1. /\ rpc # Idle /\ DOMAIN rpc = RequestFields /\ UNCHANGED <<kind, held, canConnect, res>>
        /\ \A q \in late : q.obj \in Objs
    BY Requested DEF Try, Refused, Unavailable, Expire, EarnInv
  <1>2. CASE Try \/ Refused
    <2>1. active' = active /\ late' = late /\ rpc.at # "answered"
      BY <1>2 DEF Try, Refused
    <2>2. /\ DOMAIN rpc' = RequestFields /\ rpc'.addr = rpc.addr /\ rpc'.method = rpc.method /\ rpc'.obj = rpc.obj
          /\ rpc'.tries = rpc.tries /\ rpc'.reply = rpc.reply /\ rpc'.at \in {"sent", "answered"}
          /\ rpc'.at = "answered" => rpc'.err # OK
      BY <1>1, <1>2, Zenon DEF Try, Refused, RequestFields, OK
    <2> QED BY <1>1, <2>1, <2>2, Requested, NoAnswerEarned
  <1>3. CASE Unavailable \/ Expire
    <2>1. /\ DOMAIN rpc' = RequestFields /\ rpc'.addr = rpc.addr /\ rpc'.method = rpc.method /\ rpc'.obj = rpc.obj
          /\ rpc'.tries = rpc.tries /\ rpc'.at \in {"ready", "answered"}
          /\ rpc'.at = "answered" => rpc'.err # OK /\ rpc'.reply = << >>
          /\ rpc'.at = "ready" => rpc.at = "ready" /\ rpc'.reply = rpc.reply
      BY <1>1, <1>3, Requested, Zenon DEF Unavailable, Expire, RequestFields, OK
    <2>2. /\ active' = active \/ active' = [active EXCEPT !.late = TRUE]
          /\ \A q \in late' : q.obj \in Objs
      BY <1>1, <1>3, Requested DEF Unavailable, Expire, Abandon, Removing
    <2> QED BY <1>1, <2>1, <2>2, Requested, NoAnswerEarned
  <1> QED BY <1>2, <1>3

\* The objects of the nodes change, by a late request or another client.
LEMMA ChangeEarned ==
  ASSUME IdleIsNoRecord, EarnInv, HandleLate \/ Change
  PROVE  EarnInv'
  <1>1. UNCHANGED <<kind, canConnect, rpc, res>> /\ late' \subseteq late /\ active' = Remember(active, held')
    BY DEF HandleLate, Change
  <1>2. held \in [Nodes -> SUBSET Objs] /\ \A q \in late : q.obj \in Objs
    BY DEF EarnInv
  <1>3. held' \in [Nodes -> SUBSET Objs]
    <2>1. CASE HandleLate
      <3>1. PICK q \in late : held' \in {held, Effect(q)}
        BY <2>1 DEF HandleLate
      <3> QED BY <1>2, <3>1, EffectOnHeld
    <2>2. CASE Change
      <3>1. PICK n \in Nodes, o \in Objs : held' = [held EXCEPT ![n] = IF o \in held[n] THEN held[n] \ {o} ELSE held[n] \cup {o}]
        BY <2>2, Zenon DEF Change
      <3> QED BY <1>2, <3>1
    <2> QED BY <2>1, <2>2
  <1>4. CASE active = Idle
    <2>1. active' = active
      BY <1>1, <1>4 DEF Remember
    <2>2. Results'
      <3>1. ReadsAreComplete'
        BY <1>1 DEF EarnInv, Results, ReadsAreComplete
      <3>2. SuccessIsEarned'
        BY <1>1 DEF EarnInv, Results, SuccessIsEarned
      <3>3. ConnectMeansAnswered'
        BY <1>1, <2>1 DEF EarnInv, Results, ConnectMeansAnswered
      <3> QED BY <3>1, <3>2, <3>3 DEF Results
    <2> QED BY <1>1, <1>2, <1>3, <1>4, <2>1, <2>2 DEF EarnInv
  <1>5. CASE active # Idle
    <2> DEFINE d == Remember(active, held')
    <2>1. rpc # Idle
      BY <1>5 DEF EarnInv
    <2>2. Later(active, d) /\ d.todo = active.todo /\ d.done = active.done /\ Bracketed(d, held')
      BY <1>3, <2>1, Requested, Remembered
    <2> HIDE DEF d
    <2>3. ReplyHolds(d, rpc)
      BY <2>1, <2>2, Requested DEF ReplyHolds, Later
    <2>4. active' = d
      BY <1>1 DEF d
    <2> QED BY <1>1, <1>2, <1>3, <1>5, <2>1, <2>2, <2>3, <2>4, Requested, MeanwhileEarned
  <1> QED BY <1>4, <1>5

LEMMA RetryEarned ==
  ASSUME IdleIsNoRecord, EarnInv, retryBackoff
  PROVE  EarnInv'
  <1>1. rpc # Idle /\ rpc.at = "answered" /\ UNCHANGED <<kind, held, late>>
    BY DEF retryBackoff
  <1>2. CASE rpc.err = "deadline" /\ rpc.tries + 1 < Retries(rpc)
    <2>1. /\ DOMAIN rpc' = RequestFields /\ rpc'.addr = rpc.addr /\ rpc'.method = rpc.method /\ rpc'.obj = rpc.obj
          /\ rpc'.tries = rpc.tries + 1 /\ rpc'.reply = rpc.reply /\ rpc'.at = "ready"
      BY <1>1, <1>2, Requested, Zenon DEF retryBackoff, RequestFields
    <2>2. UNCHANGED <<canConnect, active, res>> /\ \A q \in late' : q.obj \in Objs
      BY <1>1, <1>2 DEF retryBackoff, EarnInv
    <2>3. rpc.reply = << >> /\ rpc.tries + 1 \in Nat
      BY <1>1, <1>2, Requested DEF OK
    <2> QED BY <1>1, <1>2, <2>1, <2>2, <2>3, NoAnswerEarned
  <1>3. CASE ~(rpc.err = "deadline" /\ rpc.tries + 1 < Retries(rpc))
    BY <1>1, <1>3, ResumeEarned DEF retryBackoff
  <1> QED BY <1>2, <1>3

\* NilIsEarned: a call that returns no error has what the nodes held all the
\* time and nothing they never did, or has removed what it was to remove, or
\* was answered by each of them, for any nodes and objects, any lists of
\* addresses and whatever the network and the other clients do.
THEOREM NilReturnsAreEarned == ASSUME IdleIsNoRecord PROVE GrpcSpec => []NilIsEarned
  <1>1. GrpcInit({"replica", "nexus", "pool", "controller"}) => EarnInv
    BY Zenon DEF GrpcInit, EarnInv, Results, ReadsAreComplete, SuccessIsEarned, ConnectMeansAnswered
  <1>2. EarnInv /\ [GrpcNext]_gvars => EarnInv'
    <2>1. EarnInv /\ UNCHANGED gvars => EarnInv'
      <3> SUFFICES ASSUME EarnInv, UNCHANGED gvars PROVE EarnInv'
        OBVIOUS
      <3>1. UNCHANGED <<kind, held, late, canConnect, active, rpc, res>>
        BY DEF gvars
      <3>2. CASE active = Idle
        <4>1. Results'
          <5>1. ReadsAreComplete'
            BY <3>1 DEF EarnInv, Results, ReadsAreComplete
          <5>2. SuccessIsEarned'
            BY <3>1 DEF EarnInv, Results, SuccessIsEarned
          <5>3. ConnectMeansAnswered'
            BY <3>1 DEF EarnInv, Results, ConnectMeansAnswered
          <5> QED BY <5>1, <5>2, <5>3 DEF Results
        <4> QED BY <3>1, <3>2, <4>1 DEF EarnInv
      <3>3. CASE active # Idle
        <4>1. Nodewise /\ InHand(active, rpc) /\ Bracketed(active, held)
          BY <3>1, <3>3 DEF Nodewise, EarnInv
        <4> QED BY <3>1, <4>1, CarriedOn
      <3> QED BY <3>2, <3>3
    <2> QED BY <2>1, CallEarned, HandleEarned, NetworkEarned, ChangeEarned, RetryEarned DEF GrpcNext
  <1>3. EarnInv => NilIsEarned
    <2> SUFFICES ASSUME EarnInv PROVE GrpcTypeOK
      BY DEF EarnInv, Results, NilIsEarned
    <2>1. rpc # Idle => rpc.tries < Retries(rpc) /\ rpc.addr \in Range(active.addrs)
      BY AddressIsNode DEF EarnInv, InHand, RequestFits
    <2> QED BY <2>1 DEF EarnInv, GrpcTypeOK
  <1> QED BY <1>1, <1>2, <1>3, PTL DEF GrpcSpec
=============================================================================
