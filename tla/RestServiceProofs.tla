------------------------- MODULE RestServiceProofs --------------------------
(***************************************************************************)
(* The shutdown of a REST service for any set of its schemes, any calls    *)
(* and requests, and any number of signals.                                *)
(***************************************************************************)
EXTENDS RestService, FiniteSetTheorems, TLAPS

(* The operations: routes, statuses and answers                            *)

TDOps == {"AddEvent", "DeleteTestPlanByID", "DeleteTestPlans", "DeleteTestRunByID", "GetEvents", "GetTestPlanByID",
          "GetTestPlans", "GetTestRunByID", "GetTestRuns", "PutTestPlanByID", "PutTestRunByID"}

WMOps == {"DeleteWorkloadByRegistrant", "DeleteWorkloadsByRegistrant", "GetWorkloadByRegistrant",
          "GetWorkloadsByRegistrant", "GetWorkloads", "PutWorkloadByRegistrant"}

LEMMA TDRouted == \A op \in TDOps : {x \in TDOps : TDHandlers[x] = TDClientRoutes[op]} = {op}
  <1> DEFINE method(x) == TDHandlers[x][1]
             path(x) == TDHandlers[x][2]
  <1>1. \A op \in TDOps : TDHandlers[op] = TDClientRoutes[op]
    BY DEF TDClientRoutes, TDHandlers, TDOps
  <1>2. /\ method("AddEvent") = "POST" /\ path("AddEvent") = "/td/events"
        /\ method("DeleteTestPlanByID") = "DELETE" /\ path("DeleteTestPlanByID") = "/td/testplans/{id}"
        /\ method("DeleteTestPlans") = "DELETE" /\ path("DeleteTestPlans") = "/td/testplans"
        /\ method("DeleteTestRunByID") = "DELETE" /\ path("DeleteTestRunByID") = "/td/testruns/{id}"
        /\ method("GetEvents") = "GET" /\ path("GetEvents") = "/td/events"
        /\ method("GetTestPlanByID") = "GET" /\ path("GetTestPlanByID") = "/td/testplans/{id}"
        /\ method("GetTestPlans") = "GET" /\ path("GetTestPlans") = "/td/testplans"
        /\ method("GetTestRunByID") = "GET" /\ path("GetTestRunByID") = "/td/testruns/{id}"
        /\ method("GetTestRuns") = "GET" /\ path("GetTestRuns") = "/td/testRuns"
        /\ method("PutTestPlanByID") = "PUT" /\ path("PutTestPlanByID") = "/td/testplans/{id}"
        /\ method("PutTestRunByID") = "PUT" /\ path("PutTestRunByID") = "/td/testruns/{id}"
    BY DEF TDHandlers
  <1>3. \A x, y : TDHandlers[x] = TDHandlers[y] => method(x) = method(y) /\ path(x) = path(y)
    OBVIOUS
  <1> HIDE DEF method, path
  <1>4. \A x, y \in TDOps : method(x) = method(y) /\ path(x) = path(y) => x = y
    <2> DEFINE writes == {"AddEvent", "PutTestPlanByID", "PutTestRunByID"}
               deletes == {"DeleteTestPlanByID", "DeleteTestPlans", "DeleteTestRunByID"}
               reads == {"GetEvents", "GetTestPlanByID", "GetTestPlans", "GetTestRunByID", "GetTestRuns"}
    <2>1. /\ TDOps = writes \cup deletes \cup reads
          /\ \A x \in writes : method(x) \in {"POST", "PUT"}
          /\ \A x \in deletes : method(x) = "DELETE"
          /\ \A x \in reads : method(x) = "GET"
      BY <1>2, Zenon DEF TDOps
    <2>2. \A x, y \in writes : method(x) = method(y) /\ path(x) = path(y) => x = y
      BY <1>2, Zenon
    <2>3. \A x, y \in deletes : path(x) = path(y) => x = y
      BY <1>2, Zenon
    <2>4. \A x, y \in reads : path(x) = path(y) => x = y
      BY <1>2, ZenonT(60)
    <2> HIDE DEF writes, deletes, reads
    <2> QED BY <2>1, <2>2, <2>3, <2>4
  <1> QED BY <1>1, <1>3, <1>4

LEMMA WMRouted == \A op \in WMOps : {x \in WMOps : WMHandlers[x] = WMClientRoutes[op]} = {op}
  <1> DEFINE method(x) == WMHandlers[x][1]
             path(x) == WMHandlers[x][2]
  <1>1. \A op \in WMOps : WMHandlers[op] = WMClientRoutes[op]
    BY DEF WMClientRoutes, WMHandlers, WMOps
  <1>2. /\ method("DeleteWorkloadByRegistrant") = "DELETE"
        /\ path("DeleteWorkloadByRegistrant") = "/wm/registrants/{rid}/workloads/{wid}"
        /\ method("DeleteWorkloadsByRegistrant") = "DELETE"
        /\ path("DeleteWorkloadsByRegistrant") = "/wm/registrants/{rid}"
        /\ method("GetWorkloadByRegistrant") = "GET"
        /\ path("GetWorkloadByRegistrant") = "/wm/registrants/{rid}/workloads/{wid}"
        /\ method("GetWorkloads") = "GET"
        /\ path("GetWorkloads") = "/wm/workloads"
        /\ method("GetWorkloadsByRegistrant") = "GET"
        /\ path("GetWorkloadsByRegistrant") = "/wm/registrants/{rid}"
        /\ method("PutWorkloadByRegistrant") = "PUT"
        /\ path("PutWorkloadByRegistrant") = "/wm/registrants/{rid}/workloads/{wid}"
    BY DEF WMHandlers
  <1>3. \A x, y : WMHandlers[x] = WMHandlers[y] => method(x) = method(y) /\ path(x) = path(y)
    OBVIOUS
  <1> HIDE DEF method, path
  <1>4. \A x, y \in WMOps : method(x) = method(y) /\ path(x) = path(y) => x = y
    BY <1>2, Zenon DEF WMOps
  <1> QED BY <1>1, <1>3, <1>4

Ops == TDOps \cup WMOps

\* The status that goes with the name of a response.
Status == [OK |-> 200, BadRequest |-> 400, Forbidden |-> 403, NotFound |-> 404]

\* A table of responses gives them the statuses they are named after.
Regular(t) == DOMAIN t \subseteq DOMAIN Status /\ \A n \in DOMAIN t : t[n] = Status[n]

LEMMA ReadersRegular == \A op \in Ops : Regular(ClientReader[op])
  <1>1. Regular(ClientReader["AddEvent"])
    BY DEF ClientReader, AddEventReader, Regular, Status
  <1>2. Regular(ClientReader["DeleteTestPlanByID"])
    BY DEF ClientReader, DeleteTestPlanByIDReader, Regular, Status
  <1>3. Regular(ClientReader["DeleteTestPlans"])
    BY DEF ClientReader, DeleteTestPlansReader, Regular, Status
  <1>4. Regular(ClientReader["DeleteTestRunByID"])
    BY DEF ClientReader, DeleteTestRunByIDReader, Regular, Status
  <1>5. Regular(ClientReader["GetEvents"])
    BY DEF ClientReader, GetEventsReader, Regular, Status
  <1>6. Regular(ClientReader["GetTestPlanByID"])
    BY DEF ClientReader, GetTestPlanByIDReader, Regular, Status
  <1>7. Regular(ClientReader["GetTestPlans"])
    BY DEF ClientReader, GetTestPlansReader, Regular, Status
  <1>8. Regular(ClientReader["GetTestRunByID"])
    BY DEF ClientReader, GetTestRunByIDReader, Regular, Status
  <1>9. Regular(ClientReader["GetTestRuns"])
    BY DEF ClientReader, GetTestRunsReader, Regular, Status
  <1>10. Regular(ClientReader["PutTestPlanByID"])
    BY DEF ClientReader, PutTestPlanByIDReader, Regular, Status
  <1>11. Regular(ClientReader["PutTestRunByID"])
    BY DEF ClientReader, PutTestRunByIDReader, Regular, Status
  <1>12. Regular(ClientReader["DeleteWorkloadByRegistrant"])
    BY DEF ClientReader, DeleteWorkloadByRegistrantReader, Regular, Status
  <1>13. Regular(ClientReader["DeleteWorkloadsByRegistrant"])
    BY DEF ClientReader, DeleteWorkloadsByRegistrantReader, Regular, Status
  <1>14. Regular(ClientReader["GetWorkloadByRegistrant"])
    BY DEF ClientReader, GetWorkloadByRegistrantReader, Regular, Status
  <1>15. Regular(ClientReader["GetWorkloadsByRegistrant"])
    BY DEF ClientReader, GetWorkloadsByRegistrantReader, Regular, Status
  <1>16. Regular(ClientReader["GetWorkloads"])
    BY DEF ClientReader, GetWorkloadsReader, Regular, Status
  <1>17. Regular(ClientReader["PutWorkloadByRegistrant"])
    BY DEF ClientReader, PutWorkloadByRegistrantReader, Regular, Status
  <1> QED BY <1>1, <1>2, <1>3, <1>4, <1>5, <1>6, <1>7, <1>8, <1>9, <1>10, <1>11, <1>12, <1>13, <1>14, <1>15,
          <1>16, <1>17 DEF Ops, TDOps, WMOps

LEMMA RespondersRegular == \A op \in Ops : Regular(ServerResponders[op])
  <1>1. Regular(ServerResponders["AddEvent"])
    BY DEF ServerResponders, AddEventResponders, Regular, Status
  <1>2. Regular(ServerResponders["DeleteTestPlanByID"])
    BY DEF ServerResponders, DeleteTestPlanByIDResponders, Regular, Status
  <1>3. Regular(ServerResponders["DeleteTestPlans"])
    BY DEF ServerResponders, DeleteTestPlansResponders, Regular, Status
  <1>4. Regular(ServerResponders["DeleteTestRunByID"])
    BY DEF ServerResponders, DeleteTestRunByIDResponders, Regular, Status
  <1>5. Regular(ServerResponders["GetEvents"])
    BY DEF ServerResponders, GetEventsResponders, Regular, Status
  <1>6. Regular(ServerResponders["GetTestPlanByID"])
    BY DEF ServerResponders, GetTestPlanByIDResponders, Regular, Status
  <1>7. Regular(ServerResponders["GetTestPlans"])
    BY DEF ServerResponders, GetTestPlansResponders, Regular, Status
  <1>8. Regular(ServerResponders["GetTestRunByID"])
    BY DEF ServerResponders, GetTestRunByIDResponders, Regular, Status
  <1>9. Regular(ServerResponders["GetTestRuns"])
    BY DEF ServerResponders, GetTestRunsResponders, Regular, Status
  <1>10. Regular(ServerResponders["PutTestPlanByID"])
    BY DEF ServerResponders, PutTestPlanByIDResponders, Regular, Status
  <1>11. Regular(ServerResponders["PutTestRunByID"])
    BY DEF ServerResponders, PutTestRunByIDResponders, Regular, Status
  <1>12. Regular(ServerResponders["DeleteWorkloadByRegistrant"])
    BY DEF ServerResponders, DeleteWorkloadByRegistrantResponders, Regular, Status
  <1>13. Regular(ServerResponders["DeleteWorkloadsByRegistrant"])
    BY DEF ServerResponders, DeleteWorkloadsByRegistrantResponders, Regular, Status
  <1>14. Regular(ServerResponders["GetWorkloadByRegistrant"])
    BY DEF ServerResponders, GetWorkloadByRegistrantResponders, Regular, Status
  <1>15. Regular(ServerResponders["GetWorkloadsByRegistrant"])
    BY DEF ServerResponders, GetWorkloadsByRegistrantResponders, Regular, Status
  <1>16. Regular(ServerResponders["GetWorkloads"])
    BY DEF ServerResponders, GetWorkloadsResponders, Regular, Status
  <1>17. Regular(ServerResponders["PutWorkloadByRegistrant"])
    BY DEF ServerResponders, PutWorkloadByRegistrantResponders, Regular, Status
  <1> QED BY <1>1, <1>2, <1>3, <1>4, <1>5, <1>6, <1>7, <1>8, <1>9, <1>10, <1>11, <1>12, <1>13, <1>14, <1>15,
          <1>16, <1>17 DEF Ops, TDOps, WMOps

\* The client recovers the name of a response from its status.
LEMMA ReadBack ==
  ASSUME NEW op \in Ops, NEW reply, NEW n \in DOMAIN ClientReader[op], reply.code = Status[n]
  PROVE  /\ ReadResponse(op, reply).name = n
         /\ ReadResponse(op, reply).kind = IF n = "OK" THEN "result" ELSE "error"
         /\ ReadResponse(op, reply).payload = IF reply.payload = None THEN "zero" ELSE reply.payload
  <1> DEFINE cases == {m \in DOMAIN ClientReader[op] : ClientReader[op][m] = reply.code}
  <1>1. Regular(ClientReader[op])
    BY ReadersRegular
  <1>2. \A m \in DOMAIN Status : Status[m] = Status[n] => m = n
    BY <1>1 DEF Regular, Status
  <1>3. cases = {n}
    BY <1>1, <1>2 DEF Regular
  <1>4. (CHOOSE m \in cases : TRUE) = n
    BY <1>3
  <1> QED BY <1>3, <1>4 DEF ReadResponse

\* A request that no handler has seen is an error to its client.
LEMMA ReadRefused ==
  ASSUME NEW op \in Ops, NEW reply, reply.code \in {NotFoundCode, UnprocessableEntity}
  PROVE  ReadResponse(op, reply).kind = "error"
  <1> DEFINE cases == {m \in DOMAIN ClientReader[op] : ClientReader[op][m] = reply.code}
             name == CHOOSE m \in cases : TRUE
  <1>1. Regular(ClientReader[op])
    BY ReadersRegular
  <1>2. "OK" \notin cases
    BY <1>1 DEF Regular, Status, NotFoundCode, UnprocessableEntity
  <1>3. cases # {} => name \in cases
    OBVIOUS
  <1> HIDE DEF cases
  <1>4. cases # {} => name # "OK"
    BY <1>2, <1>3
  <1> QED BY <1>4 DEF ReadResponse, cases

\* What the handlers answer is known to the reader of the operation, though one
\* of the answers is written by the responder of another.
Known(op, a) ==
  /\ a = Answer(a.responder, a.name, a.payload) /\ a.responder \in Ops
  /\ a.name \in DOMAIN ClientReader[op] /\ a.name \in DOMAIN ServerResponders[a.responder]
  /\ a.name \in {"OK", "BadRequest", "NotFound"}

LEMMA AnswersKnown ==
  ASSUME NEW op \in Ops, NEW bound, NEW a \in HandlerAnswers(op, bound)
  PROVE  a = Panic \/ Known(op, a)
  <1> USE DEF Known, Answer
  <1>1. CASE op = "AddEvent"
    <2>1. HandlerAnswers(op, bound) = EventAnswers(op)
      BY <1>1 DEF HandlerAnswers, TDConfigureAPI, WMConfigureAPI
    <2> QED
      BY <1>1, <2>1 DEF EventAnswers, Ops, TDOps, ClientReader,
            AddEventReader, ServerResponders, AddEventResponders, PutTestPlanByIDResponders
  <1>2. CASE op = "DeleteTestPlanByID"
    <2>1. HandlerAnswers(op, bound) = TestPlanAnswers(op)
      BY <1>2 DEF HandlerAnswers, TDConfigureAPI, WMConfigureAPI
    <2> QED
      BY <1>2, <2>1 DEF TestPlanAnswers, Ops, TDOps,
            ClientReader, DeleteTestPlanByIDReader, ServerResponders, DeleteTestPlanByIDResponders
  <1>3. CASE op = "DeleteTestPlans"
    <2>1. HandlerAnswers(op, bound) = TestPlanAnswers(op)
      BY <1>3 DEF HandlerAnswers, TDConfigureAPI, WMConfigureAPI
    <2> QED
      BY <1>3, <2>1 DEF TestPlanAnswers, Ops, TDOps,
            ClientReader, DeleteTestPlansReader, ServerResponders, DeleteTestPlansResponders
  <1>4. CASE op = "DeleteTestRunByID"
    <2>1. HandlerAnswers(op, bound) = TestRunAnswers(op)
      BY <1>4 DEF HandlerAnswers, TDConfigureAPI, WMConfigureAPI
    <2> QED
      BY <1>4, <2>1 DEF TestRunAnswers, Ops, TDOps,
            ClientReader, DeleteTestRunByIDReader, ServerResponders, DeleteTestRunByIDResponders
  <1>5. CASE op = "GetEvents"
    <2>1. HandlerAnswers(op, bound) = EventAnswers(op)
      BY <1>5 DEF HandlerAnswers, TDConfigureAPI, WMConfigureAPI
    <2> QED
      BY <1>5, <2>1 DEF EventAnswers, Ops, TDOps, ClientReader,
            GetEventsReader, ServerResponders, GetEventsResponders
  <1>6. CASE op = "GetTestPlanByID"
    <2>1. HandlerAnswers(op, bound) = TestPlanAnswers(op)
      BY <1>6 DEF HandlerAnswers, TDConfigureAPI, WMConfigureAPI
    <2> QED
      BY <1>6, <2>1 DEF TestPlanAnswers, Ops, TDOps,
            ClientReader, GetTestPlanByIDReader, ServerResponders, GetTestPlanByIDResponders
  <1>7. CASE op = "GetTestPlans"
    <2>1. HandlerAnswers(op, bound) = TestPlanAnswers(op)
      BY <1>7 DEF HandlerAnswers, TDConfigureAPI, WMConfigureAPI
    <2> QED
      BY <1>7, <2>1 DEF TestPlanAnswers, Ops, TDOps,
            ClientReader, GetTestPlansReader, ServerResponders, GetTestPlansResponders
  <1>8. CASE op = "GetTestRunByID"
    <2>1. HandlerAnswers(op, bound) = TestRunAnswers(op)
      BY <1>8 DEF HandlerAnswers, TDConfigureAPI, WMConfigureAPI
    <2> QED
      BY <1>8, <2>1 DEF TestRunAnswers, Ops, TDOps,
            ClientReader, GetTestRunByIDReader, ServerResponders, GetTestRunByIDResponders
  <1>9. CASE op = "GetTestRuns"
    <2>1. HandlerAnswers(op, bound) = TestRunAnswers(op)
      BY <1>9 DEF HandlerAnswers, TDConfigureAPI, WMConfigureAPI
    <2> QED
      BY <1>9, <2>1 DEF TestRunAnswers, Ops, TDOps,
            ClientReader, GetTestRunsReader, ServerResponders, GetTestRunsResponders
  <1>10. CASE op = "PutTestPlanByID"
    <2>1. HandlerAnswers(op, bound) = TestPlanAnswers(op)
      BY <1>10 DEF HandlerAnswers, TDConfigureAPI, WMConfigureAPI
    <2> QED
      BY <1>10, <2>1 DEF TestPlanAnswers, Ops, TDOps,
            ClientReader, PutTestPlanByIDReader, ServerResponders, PutTestPlanByIDResponders
  <1>11. CASE op = "PutTestRunByID"
    <2>1. HandlerAnswers(op, bound) = TestRunAnswers(op)
      BY <1>11 DEF HandlerAnswers, TDConfigureAPI, WMConfigureAPI
    <2> QED
      BY <1>11, <2>1 DEF TestRunAnswers, Ops, TDOps,
            ClientReader, PutTestRunByIDReader, ServerResponders, PutTestRunByIDResponders
  <1>12. CASE op = "DeleteWorkloadByRegistrant"
    <2>1. HandlerAnswers(op, bound) = WorkloadAnswers(op, bound)
      BY <1>12 DEF HandlerAnswers, TDConfigureAPI, WMConfigureAPI
    <2> QED
      BY <1>12, <2>1 DEF WorkloadAnswers, Ops, TDOps,
            ClientReader, DeleteWorkloadByRegistrantReader, ServerResponders,
            DeleteWorkloadByRegistrantResponders
  <1>13. CASE op = "DeleteWorkloadsByRegistrant"
    <2>1. HandlerAnswers(op, bound) = WorkloadAnswers(op, bound)
      BY <1>13 DEF HandlerAnswers, TDConfigureAPI, WMConfigureAPI
    <2> QED
      BY <1>13, <2>1 DEF WorkloadAnswers, Ops, TDOps,
            ClientReader, DeleteWorkloadsByRegistrantReader, ServerResponders,
            DeleteWorkloadsByRegistrantResponders
  <1>14. CASE op = "GetWorkloadByRegistrant"
    <2>1. HandlerAnswers(op, bound) = WorkloadAnswers(op, bound)
      BY <1>14 DEF HandlerAnswers, TDConfigureAPI, WMConfigureAPI
    <2> QED
      BY <1>14, <2>1 DEF WorkloadAnswers, Ops, TDOps,
            ClientReader, GetWorkloadByRegistrantReader, ServerResponders, GetWorkloadByRegistrantResponders
  <1>15. CASE op = "GetWorkloadsByRegistrant"
    <2>1. HandlerAnswers(op, bound) = WorkloadAnswers(op, bound)
      BY <1>15 DEF HandlerAnswers, TDConfigureAPI, WMConfigureAPI
    <2> QED
      BY <1>15, <2>1 DEF WorkloadAnswers, Ops, TDOps,
            ClientReader, GetWorkloadsByRegistrantReader, ServerResponders,
            GetWorkloadsByRegistrantResponders
  <1>16. CASE op = "GetWorkloads"
    <2>1. HandlerAnswers(op, bound) = WorkloadAnswers(op, bound)
      BY <1>16 DEF HandlerAnswers, TDConfigureAPI, WMConfigureAPI
    <2> QED
      BY <1>16, <2>1 DEF WorkloadAnswers, Ops, TDOps,
            ClientReader, GetWorkloadsReader, ServerResponders, GetWorkloadsResponders
  <1>17. CASE op = "PutWorkloadByRegistrant"
    <2>1. HandlerAnswers(op, bound) = WorkloadAnswers(op, bound)
      BY <1>17 DEF HandlerAnswers, TDConfigureAPI, WMConfigureAPI
    <2> QED
      BY <1>17, <2>1 DEF WorkloadAnswers, Ops, TDOps,
            ClientReader, PutWorkloadByRegistrantReader, ServerResponders, PutWorkloadByRegistrantResponders
  <1> QED BY <1>1, <1>2, <1>3, <1>4, <1>5, <1>6, <1>7, <1>8, <1>9, <1>10, <1>11, <1>12, <1>13, <1>14, <1>15,
          <1>16, <1>17 DEF Ops, TDOps, WMOps

LEMMA AnswersCarry ==
  ASSUME NEW op \in Ops, NEW bound, op = "GetWorkloadsByRegistrant" => bound.params.rid \in UUID,
         NEW a \in HandlerAnswers(op, bound)
  PROVE  a.payload \in Payloads
  <1>0. \A o, n, p : p \in Payloads => Answer(o, n, p).payload \in Payloads
    BY DEF Answer
  <1>1. None \in Payloads /\ {} \in Payloads
    BY DEF Payloads
  <1>2. Plans \in Payloads /\ EventClassEnum \in Payloads /\ UUID \in Payloads
    BY DEF Payloads, Items
  <1>3. \A u \in UUID \cup {"plan", "run", "event", "workload", "outcome"} : {u} \in Payloads
    BY DEF Payloads, Items
  <1>4. CASE op \in {"GetEvents", "AddEvent"}
    <2>1. HandlerAnswers(op, bound) = EventAnswers(op)
      BY <1>4 DEF HandlerAnswers, TDConfigureAPI, WMConfigureAPI
    <2>2. CASE op = "GetEvents"
      BY <1>0, <1>1, <1>2, <2>1, <2>2 DEF EventAnswers
    <2>3. CASE op = "AddEvent"
      BY <1>0, <1>3, <2>1, <2>3, Zenon DEF EventAnswers
    <2> QED BY <1>4, <2>2, <2>3
  <1>5. CASE op \in {"GetTestRuns", "GetTestRunByID", "DeleteTestRunByID", "PutTestRunByID"}
    <2>1. HandlerAnswers(op, bound) = TestRunAnswers(op)
      BY <1>5 DEF HandlerAnswers, TDConfigureAPI, WMConfigureAPI
    <2> QED BY <1>0, <1>1, <1>2, <1>3, <1>5, <2>1, Zenon DEF TestRunAnswers
  <1>6. CASE op \in WMOps
    <2>1. HandlerAnswers(op, bound) = WorkloadAnswers(op, bound)
      BY <1>6 DEF HandlerAnswers, TDConfigureAPI, WMConfigureAPI, WMOps
    <2>2. CASE op = "GetWorkloadsByRegistrant"
      <3>1. a \in {Answer(op, "OK", {}), Answer(op, "OK", {bound.params.rid})}
        BY <2>1, <2>2 DEF WorkloadAnswers
      <3> QED BY <1>0, <1>1, <1>3, <2>2, <3>1
    <2>3. CASE op # "GetWorkloadsByRegistrant"
      BY <1>0, <1>1, <1>2, <1>3, <1>6, <2>1, <2>3 DEF WorkloadAnswers, WMOps
    <2> QED BY <2>2, <2>3
  <1>7. CASE op \in {"GetTestPlans", "GetTestPlanByID", "DeleteTestPlanByID", "DeleteTestPlans", "PutTestPlanByID"}
    <2>1. HandlerAnswers(op, bound) = TestPlanAnswers(op)
      BY <1>7 DEF HandlerAnswers, TDConfigureAPI, WMConfigureAPI
    <2> QED BY <1>0, <1>1, <1>2, <1>3, <1>7, <2>1 DEF TestPlanAnswers, Panic
  <1> QED BY <1>4, <1>5, <1>6, <1>7 DEF Ops, TDOps

-----------------------------------------------------------------------------
(* The shutdown                                                            *)

CallFields == {"st", "conn", "scheme", "req", "bound", "answer", "reply", "result"}

\* A scheme that has been shut down in order: its listener is closed without an
\* error and no request of it is under way.
Quiet(s) == lst[s] = "closed" /\ s \notin listenErr /\ Active(s) = {}

\* The drains that handleShutdown has heard of.
Heard == {s \in Schemes : drain[s] = "heard"}

CallsOK ==
  /\ DOMAIN call = Calls
  /\ \A c \in Calls : DOMAIN call[c] = CallFields /\ (call[c].st = "idle" => call[c].conn = "none")

\* The goroutines start one another: handleShutdown after the servers, the
\* drains by handleShutdown; Serve returns after handleShutdown.
Started ==
  /\ closes = IF shuttingDown THEN 1 ELSE 0
  /\ hs \in {"off", "wait", "collect", "done"}
  /\ hs # "off" => serve \in {"wait", "returned"}
  /\ serve = "returned" => hs = "done"
  /\ \A s \in Schemes : drain[s] # "off" => hs \in {"collect", "done"}

\* What a drain that has got somewhere stands for.
Drains ==
  \A s \in Schemes :
    /\ drain[s] \in {"draining", "ok", "failed", "heard"} => lst[s] = "closed"
    /\ drain[s] = "ok" => Quiet(s)
    /\ drain[s] = "failed" => deadline \/ s \in listenErr

\* What the answers that were collected stand for.
Collected ==
  /\ success \in BOOLEAN
  /\ success => received = Cardinality(Heard) /\ \A s \in Heard : Quiet(s)
  /\ ~success => deadline \/ listenErr # {}
  /\ hs = "done" /\ success => Heard = Schemes
  /\ hook => hs = "done" /\ success

ShutInv == TypeOK /\ CallsOK /\ Started /\ Drains /\ Collected

-----------------------------------------------------------------------------
LEMMA SchemesFinite == IsFiniteSet(Schemes) /\ Cardinality(Schemes) \in Nat
  <1>1. IsFiniteSet({"unix", "http", "https"})
    <2>1. IsFiniteSet({"unix"}) /\ IsFiniteSet({"http"}) /\ IsFiniteSet({"https"})
      BY FS_Singleton, Zenon
    <2>2. IsFiniteSet({"unix"} \cup {"http"})
      BY <2>1, FS_Union, Zenon
    <2>3. IsFiniteSet(({"unix"} \cup {"http"}) \cup {"https"})
      BY <2>1, <2>2, FS_Union, Zenon
    <2>4. ({"unix"} \cup {"http"}) \cup {"https"} = {"unix", "http", "https"}
      OBVIOUS
    <2> QED BY <2>3, <2>4
  <1> QED BY <1>1, SchemesKnown, FS_Subset, FS_CardinalityType, Zenon

\* The end of the process closes every listener and every connection.
LEMMA ExitShuts ==
  ASSUME ShutInv, Exit, UNCHANGED <<main, sg, hs, success, received, drain, deadline, listenErr, hook>>,
         serve' = serve \/ (serve' = "failed" /\ hs = "off"), interrupt' \in 0..1,
         UNCHANGED <<shuttingDown, closes>> \/ Shutdown
  PROVE  ShutInv'
  <1> USE DEF ShutInv
  <1>1. \A c \in Calls : /\ DOMAIN call'[c] = CallFields /\ call'[c].st = call[c].st
                         /\ call'[c].conn = IF call[c].conn = "active" THEN "closed" ELSE call[c].conn
    BY DEF Exit, Cut, CallsOK, CallFields
  <1>2. DOMAIN call' = Calls /\ lst' = [s \in Schemes |-> "closed"]
    BY DEF Exit, Cut
  <1>3. \A s \in Schemes : Active(s)' = {}
    BY <1>1 DEF Active
  <1>4. Heard' = Heard /\ \A s \in Schemes : Quiet(s)' <=> s \notin listenErr
    BY <1>2, <1>3 DEF Heard, Quiet
  <1>5. CallsOK'
    BY <1>1, <1>2 DEF CallsOK
  <1>6. TypeOK'
    <2>1. closes' \in 0..1
      BY DEF Shutdown, Started, TypeOK
    <2>2. \A c \in Calls : call'[c].st \in {"idle", "sent", "done"} /\ call'[c].conn \in {"none", "active", "closed"}
      BY <1>1 DEF TypeOK
    <2>3. lst' \in [Schemes -> {"none", "open", "closed"}]
      BY <1>2
    <2> QED BY <2>1, <2>2, <2>3 DEF TypeOK, ServeStates
  <1>7. Started'
    BY DEF Started, Shutdown
  <1>8. Drains'
    BY <1>2, <1>4 DEF Drains, Quiet
  <1>9. Collected'
    <2>1. \A s \in Heard : s \in Schemes
      BY DEF Heard
    <2> QED BY <1>4, <2>1 DEF Collected, Quiet
  <1> QED BY <1>5, <1>6, <1>7, <1>8, <1>9

\* A call under way changes nothing of the server, and is not accepted by a
\* listener that is closed.
LEMMA CallShuts ==
  ASSUME ShutInv, UNCHANGED server, NEW c \in Calls, NEW r, call' = [call EXCEPT ![c] = r],
         DOMAIN r = CallFields, r.st \in {"idle", "sent", "done"}, r.conn \in {"none", "active", "closed"},
         r.st = "idle" => r.conn = "none",
         r.conn = "active" => (call[c].conn = "active" /\ r.scheme = call[c].scheme) \/ lst[r.scheme] = "open"
  PROVE  ShutInv'
  <1> USE DEF ShutInv
  <1>1. DOMAIN call' = Calls /\ call'[c] = r /\ \A d \in Calls \ {c} : call'[d] = call[d]
    BY DEF CallsOK
  <1>2. CallsOK'
    BY <1>1 DEF CallsOK
  <1>3. /\ main' = main /\ serve' = serve /\ lst' = lst /\ sg' = sg /\ interrupt' = interrupt
        /\ shuttingDown' = shuttingDown /\ closes' = closes /\ hs' = hs /\ success' = success
        /\ received' = received /\ drain' = drain /\ deadline' = deadline /\ listenErr' = listenErr /\ hook' = hook
    BY DEF server
  <1>4. \A s \in Schemes : Quiet(s) => Quiet(s)'
    <2> SUFFICES ASSUME NEW s \in Schemes, Quiet(s), NEW d \in Active(s)' PROVE FALSE
      BY <1>3 DEF Quiet
    <2>1. d \in Calls /\ call'[d].conn = "active" /\ call'[d].scheme = s
      BY DEF Active
    <2>2. lst[s] = "closed" /\ d \notin Active(s)
      BY DEF Quiet
    <2> QED BY <1>1, <2>1, <2>2 DEF Active
  <1>5. Heard' = Heard
    BY <1>3 DEF Heard
  <1>6. TypeOK'
    <2>1. \A d \in Calls : call'[d].st \in {"idle", "sent", "done"} /\ call'[d].conn \in {"none", "active", "closed"}
      BY <1>1 DEF TypeOK
    <2> QED BY <1>3, <2>1 DEF TypeOK
  <1>7. Started'
    BY <1>3 DEF Started
  <1>8. Drains'
    BY <1>3, <1>4 DEF Drains
  <1>9. Collected'
    <2>1. \A s \in Heard : s \in Schemes
      BY DEF Heard
    <2> QED BY <1>3, <1>4, <1>5, <2>1 DEF Collected
  <1> QED BY <1>2, <1>6, <1>7, <1>8, <1>9

LEMMA CallStepShuts ==
  ASSUME ShutInv, NEW c \in Calls, Submit(c) \/ CallStep(c)
  PROVE  ShutInv'
  <1> DEFINE r == call'[c]
  <1>1. /\ DOMAIN call = Calls /\ DOMAIN call[c] = CallFields /\ (call[c].st = "idle" => call[c].conn = "none")
        /\ call[c].st \in {"idle", "sent", "done"} /\ call[c].conn \in {"none", "active", "closed"}
    BY DEF ShutInv, CallsOK, TypeOK
  <1>2. UNCHANGED server
    BY Zenon DEF Submit, CallStep, Accept, ServeHTTP, Receive, Broken, TimeOut
  <1>3. CASE Submit(c)
    <2>1. PICK i \in Inputs[c] : call' = [call EXCEPT ![c].st = "sent", ![c].req = i.req, ![c].scheme = i.scheme]
      BY <1>3, Zenon DEF Submit
    <2>2. call' = [call EXCEPT ![c] = r] /\ DOMAIN r = CallFields /\ r.st = "sent" /\ r.conn = call[c].conn
      BY <1>1, <2>1, Zenon DEF CallFields
    <2>3. call[c].conn = "none"
      BY <1>1, <1>3, Zenon DEF Submit
    <2> HIDE DEF r
    <2> QED BY <1>2, <2>2, <2>3, CallShuts, Zenon
  <1>4. CASE Accept(c)
    <2>1. call' = [call EXCEPT ![c] = r] /\ DOMAIN r = CallFields /\ r.st = call[c].st /\ r.conn = "active"
          /\ r.scheme = call[c].scheme
      BY <1>1, <1>4 DEF Accept, CallFields
    <2>2. call[c].st = "sent" /\ lst[call[c].scheme] = "open"
      BY <1>4 DEF Accept
    <2> HIDE DEF r
    <2> QED BY <1>2, <2>1, <2>2, CallShuts, Zenon
  <1>5. CASE ServeHTTP(c)
    <2>1. PICK o \in Served(Handlers, call[c].req) :
            call' = [call EXCEPT ![c].conn = "closed", ![c].bound = o.bound, ![c].answer = o.answer, ![c].reply = o.reply]
      BY <1>5, Zenon DEF ServeHTTP
    <2>2. call' = [call EXCEPT ![c] = r] /\ DOMAIN r = CallFields /\ r.st = call[c].st /\ r.conn = "closed"
      BY <1>1, <2>1, Zenon DEF CallFields
    <2>3. call[c].st # "idle"
      BY <1>1, <1>5 DEF ServeHTTP
    <2> HIDE DEF r
    <2> QED BY <1>1, <1>2, <2>2, <2>3, CallShuts, Zenon
  <1>6. CASE Receive(c) \/ Broken(c) \/ TimeOut(c)
    <2>1. /\ call' = [call EXCEPT ![c] = r] /\ DOMAIN r = CallFields /\ r.st = "done"
          /\ r.conn \in {call[c].conn, "closed"} /\ r.scheme = call[c].scheme
      BY <1>1, <1>6 DEF Receive, Broken, TimeOut, CallFields
    <2> HIDE DEF r
    <2> QED BY <1>1, <1>2, <2>1, CallShuts, Zenon
  <1> QED BY <1>3, <1>4, <1>5, <1>6 DEF CallStep

\* The steps that end nothing and drain nothing.
LEMMA ServeShuts ==
  ASSUME ShutInv, StartShutdownHandler \/ ServeReturns \/ HandleInterrupt \/ Deadline
  PROVE  ShutInv'
  <1> USE DEF ShutInv
  <1>1. ASSUME StartShutdownHandler PROVE ShutInv'
    <2>q. Heard' = Heard /\ \A s \in Schemes : Quiet(s)' <=> Quiet(s)
      BY <1>1 DEF StartShutdownHandler, Heard, Quiet, Active
    <2>0. \A s \in Heard : s \in Schemes
      BY DEF Heard
    <2>1. TypeOK' /\ CallsOK'
      BY <1>1 DEF StartShutdownHandler, TypeOK, CallsOK, ServeStates
    <2>2. Started'
      BY <1>1 DEF StartShutdownHandler, Started
    <2>3. Drains'
      BY <1>1, <2>q DEF StartShutdownHandler, Drains
    <2>4. Collected'
      BY <1>1, <2>0, <2>q DEF StartShutdownHandler, Collected, Started
    <2> QED BY <2>1, <2>2, <2>3, <2>4
  <1>2. ASSUME ServeReturns PROVE ShutInv'
    <2>q. Heard' = Heard /\ \A s \in Schemes : Quiet(s)' <=> Quiet(s)
      BY <1>2 DEF ServeReturns, Heard, Quiet, Active
    <2>0. \A s \in Heard : s \in Schemes
      BY DEF Heard
    <2>1. TypeOK' /\ CallsOK'
      BY <1>2 DEF ServeReturns, TypeOK, CallsOK, ServeStates
    <2>2. Started'
      BY <1>2 DEF ServeReturns, Started
    <2>3. Drains'
      BY <1>2, <2>q DEF ServeReturns, Drains
    <2>4. Collected'
      BY <1>2, <2>0, <2>q DEF ServeReturns, Collected, Started
    <2> QED BY <2>1, <2>2, <2>3, <2>4
  <1>3. ASSUME HandleInterrupt PROVE ShutInv'
    <2>q. Heard' = Heard /\ \A s \in Schemes : Quiet(s)' <=> Quiet(s)
      BY <1>3 DEF HandleInterrupt, Heard, Quiet, Active
    <2>0. \A s \in Heard : s \in Schemes
      BY DEF Heard
    <2>1. TypeOK' /\ CallsOK'
      BY <1>3 DEF HandleInterrupt, TypeOK, CallsOK, ServeStates, Started, Shutdown
    <2>2. Started'
      BY <1>3 DEF HandleInterrupt, Started, Started, Shutdown
    <2>3. Drains'
      BY <1>3, <2>q DEF HandleInterrupt, Drains
    <2>4. Collected'
      BY <1>3, <2>0, <2>q DEF HandleInterrupt, Collected, Started
    <2> QED BY <2>1, <2>2, <2>3, <2>4
  <1>4. ASSUME Deadline PROVE ShutInv'
    <2>q. Heard' = Heard /\ \A s \in Schemes : Quiet(s)' <=> Quiet(s)
      BY <1>4 DEF Deadline, Heard, Quiet, Active
    <2>0. \A s \in Heard : s \in Schemes
      BY DEF Heard
    <2>1. TypeOK' /\ CallsOK'
      BY <1>4 DEF Deadline, TypeOK, CallsOK, ServeStates
    <2>2. Started'
      BY <1>4 DEF Deadline, Started
    <2>3. Drains'
      BY <1>4, <2>q DEF Deadline, Drains
    <2>4. Collected'
      BY <1>4, <2>0, <2>q DEF Deadline, Collected, Started
    <2> QED BY <2>1, <2>2, <2>3, <2>4
  <1> QED BY <1>1, <1>2, <1>3, <1>4

LEMMA ListenShuts ==
  ASSUME ShutInv, Listen \/ (\E s \in Schemes : StartServer(s)) \/ Signal
  PROVE  ShutInv'
  <1> USE DEF ShutInv
  <1>0. interrupt \in 0..1
    BY DEF TypeOK
  <1>1. ASSUME Listen PROVE ShutInv'
    <2>1. hs = "off"
      BY <1>1 DEF Listen, Started
    <2>2. CASE serve' = "failed" /\ Exit
      BY <1>0, <1>1, <2>1, <2>2, ExitShuts DEF Listen
    <2>3. CASE ~(serve' = "failed" /\ Exit)
      <3>1. /\ lst' = [s \in Schemes |-> "open"] /\ serve' = "start"
            /\ UNCHANGED <<main, sg, interrupt, shuttingDown, closes, hs, success, received, drain, deadline, listenErr,
                           hook, call>>
        BY <1>1, <2>3 DEF Listen
      <3>2. \A s \in Schemes : drain[s] = "off"
        BY <2>1 DEF Started
      <3>3. Heard' = Heard /\ Heard = {}
        BY <3>1, <3>2 DEF Heard
      <3>4. TypeOK' /\ CallsOK'
        BY <3>1 DEF TypeOK, CallsOK, ServeStates
      <3>5. Started'
        BY <2>1, <3>1 DEF Started
      <3>6. Drains'
        BY <3>1, <3>2 DEF Drains
      <3>7. Collected'
        BY <3>1, <3>3 DEF Collected
      <3> QED BY <3>4, <3>5, <3>6, <3>7
    <2> QED BY <2>2, <2>3
  <1>2. ASSUME NEW s \in Schemes, StartServer(s) PROVE ShutInv'
    <2>1. hs = "off"
      BY <1>2 DEF StartServer, Started
    <2>2. CASE serve' = "failed" /\ Exit
      BY <1>0, <1>2, <2>1, <2>2, ExitShuts DEF StartServer
    <2>3. CASE ~(serve' = "failed" /\ Exit)
      <3>1. /\ sg' = [sg EXCEPT ![s] = "serving"]
            /\ UNCHANGED <<main, serve, lst, interrupt, shuttingDown, closes, hs, success, received, drain, deadline,
                           listenErr, hook, call>>
        BY <1>2, <2>3 DEF StartServer
      <3>2. Heard' = Heard /\ \A r \in Schemes : Quiet(r)' <=> Quiet(r)
        BY <3>1 DEF Heard, Quiet, Active
      <3>3. \A r \in Heard : r \in Schemes
        BY DEF Heard
      <3>4. TypeOK' /\ CallsOK'
        BY <3>1 DEF TypeOK, CallsOK
      <3>5. Started'
        BY <3>1 DEF Started
      <3>6. Drains'
        BY <3>1, <3>2 DEF Drains
      <3>7. Collected'
        BY <3>1, <3>2, <3>3 DEF Collected
      <3> QED BY <3>4, <3>5, <3>6, <3>7
    <2> QED BY <2>2, <2>3
  <1>3. ASSUME Signal PROVE ShutInv'
    <2>1. UNCHANGED <<main, serve, sg, shuttingDown, closes, hs, success, received, drain, deadline, listenErr, hook>>
      BY <1>3 DEF Signal
    <2>2. CASE Exit /\ interrupt' = interrupt
      BY <1>0, <2>1, <2>2, ExitShuts
    <2>3. CASE ~(Exit /\ interrupt' = interrupt)
      <3>1. interrupt' \in {interrupt, 1} /\ lst' = lst /\ call' = call
        BY <1>3, <2>3 DEF Signal
      <3>2. Heard' = Heard /\ \A r \in Schemes : Quiet(r)' <=> Quiet(r)
        BY <2>1, <3>1 DEF Heard, Quiet, Active
      <3>3. \A r \in Heard : r \in Schemes
        BY DEF Heard
      <3>4. TypeOK' /\ CallsOK'
        BY <2>1, <3>1 DEF TypeOK, CallsOK
      <3>5. Started'
        BY <2>1 DEF Started
      <3>6. Drains'
        BY <2>1, <3>1, <3>2 DEF Drains
      <3>7. Collected'
        BY <2>1, <3>2, <3>3 DEF Collected
      <3> QED BY <3>4, <3>5, <3>6, <3>7
    <2> QED BY <2>2, <2>3
  <1> QED BY <1>1, <1>2, <1>3

LEMMA EndShuts ==
  ASSUME ShutInv, DirectorMainReturns \/ MonitorMainReturns \/ (\E s \in Schemes : ServeError(s))
  PROVE  ShutInv'
  <1>1. /\ Exit /\ UNCHANGED <<main, serve, sg, interrupt, hs, success, received, drain, deadline, listenErr, hook>>
        /\ UNCHANGED <<shuttingDown, closes>> \/ Shutdown
    BY DEF DirectorMainReturns, MonitorMainReturns, ServeError
  <1>2. interrupt \in 0..1
    BY DEF ShutInv, TypeOK
  <1> QED BY <1>1, <1>2, ExitShuts

-----------------------------------------------------------------------------
(* handleShutdown                                                          *)

LEMMA StartDrainsShuts ==
  ASSUME ShutInv, StartDrains
  PROVE  ShutInv'
  <1> USE DEF ShutInv
  <1>1. /\ hs = "wait" /\ hs' = "collect" /\ drain' = [s \in Schemes |-> "start"]
        /\ UNCHANGED <<main, serve, lst, sg, interrupt, shuttingDown, closes, success, received, deadline, listenErr,
                       hook, call>>
    BY DEF StartDrains
  <1>2. Heard = {} /\ Heard' = {}
    BY <1>1 DEF Heard, Started
  <1>3. TypeOK' /\ CallsOK'
    BY <1>1 DEF TypeOK, CallsOK
  <1>4. Started'
    BY <1>1 DEF Started
  <1>5. Drains'
    BY <1>1 DEF Drains
  <1>6. Collected'
    BY <1>1, <1>2 DEF Collected
  <1> QED BY <1>3, <1>4, <1>5, <1>6

\* A drain goes on: d is what it has come to.
LEMMA DrainShuts ==
  ASSUME ShutInv, NEW s \in Schemes, CloseListener(s) \/ Drained(s)
  PROVE  ShutInv'
  <1> USE DEF ShutInv
  <1>1. drain[s] \in {"start", "draining"} /\ drain \in [Schemes -> {"off", "start", "draining", "ok", "failed", "heard"}]
    BY DEF CloseListener, Drained, TypeOK
  <1>2. CASE CloseListener(s)
    <2>1. PICK failed \in {{}, {s}} :
            /\ drain' = [drain EXCEPT ![s] = "draining"] /\ lst' = [lst EXCEPT ![s] = "closed"]
            /\ sg' = [sg EXCEPT ![s] = "stopped"] /\ listenErr' = listenErr \cup failed
            /\ UNCHANGED <<main, serve, interrupt, shuttingDown, closes, hs, success, received, deadline, hook, call>>
      BY <1>2 DEF CloseListener
    <2>2. Heard' = Heard /\ s \notin Heard
      BY <1>1, <2>1 DEF Heard
    <2>3. lst \in [Schemes -> {"none", "open", "closed"}] /\ listenErr \subseteq Schemes
      BY DEF TypeOK
    <2>4. \A r \in Schemes \ {s} : Quiet(r)' <=> Quiet(r)
      BY <2>1, <2>3, Zenon DEF Quiet, Active
    <2>5. TypeOK' /\ CallsOK'
      BY <2>1 DEF TypeOK, CallsOK
    <2>6. Started'
      BY <1>1, <2>1 DEF Started
    <2>7. Drains'
      <3>1. ASSUME NEW r \in Schemes, r # s
            PROVE  /\ drain'[r] \in {"draining", "ok", "failed", "heard"} => lst'[r] = "closed"
                   /\ drain'[r] = "ok" => Quiet(r)'
                   /\ drain'[r] = "failed" => deadline' \/ r \in listenErr'
        BY <1>1, <2>1, <2>3, <2>4, <3>1 DEF Drains
      <3>2. drain'[s] = "draining" /\ lst'[s] = "closed"
        BY <1>1, <2>1, <2>3
      <3> QED BY <3>1, <3>2 DEF Drains
    <2>8. Collected'
      <3>1. \A r \in Heard : r \in Schemes \ {s}
        BY <2>2 DEF Heard
      <3> QED BY <2>1, <2>2, <2>4, <3>1 DEF Collected
    <2> QED BY <2>5, <2>6, <2>7, <2>8
  <1>3. CASE Drained(s)
    <2>1. PICK d \in {"ok", "failed"} :
            /\ drain' = [drain EXCEPT ![s] = d]
            /\ d = "ok" => Active(s) = {} /\ s \notin listenErr
            /\ d = "failed" => deadline \/ s \in listenErr
            /\ UNCHANGED <<main, serve, lst, sg, interrupt, shuttingDown, closes, hs, success, received, deadline,
                           listenErr, hook, call>>
      BY <1>3 DEF Drained
    <2>2. drain[s] = "draining" /\ lst[s] = "closed"
      BY <1>3 DEF Drained, Drains
    <2>3. Heard' = Heard
      BY <1>1, <2>1 DEF Heard
    <2>4. \A r \in Schemes : Quiet(r)' <=> Quiet(r)
      BY <2>1 DEF Quiet, Active
    <2>5. TypeOK' /\ CallsOK'
      BY <2>1 DEF TypeOK, CallsOK
    <2>6. Started'
      BY <1>1, <2>1 DEF Started
    <2>7. Drains'
      <3>1. ASSUME NEW r \in Schemes, r # s
            PROVE  /\ drain'[r] \in {"draining", "ok", "failed", "heard"} => lst'[r] = "closed"
                   /\ drain'[r] = "ok" => Quiet(r)'
                   /\ drain'[r] = "failed" => deadline' \/ r \in listenErr'
        BY <1>1, <2>1, <2>4, <3>1 DEF Drains
      <3>2. drain'[s] = d /\ lst'[s] = "closed" /\ (d = "ok" => Quiet(s))
        BY <1>1, <2>1, <2>2 DEF Quiet
      <3> QED BY <2>1, <2>4, <3>1, <3>2 DEF Drains
    <2>8. Collected'
      <3>1. \A r \in Heard : r \in Schemes
        BY DEF Heard
      <3> QED BY <2>1, <2>3, <2>4, <3>1 DEF Collected
    <2> QED BY <2>5, <2>6, <2>7, <2>8
  <1> QED BY <1>2, <1>3

\* success = success && <-shutdownChan, and the end of the loop.
LEMMA CollectShuts ==
  ASSUME ShutInv, Collect
  PROVE  ShutInv'
  <1> USE DEF ShutInv
  <1>1. /\ hs = "collect" /\ received < Cardinality(Schemes) /\ received' = received + 1
        /\ UNCHANGED <<main, serve, lst, sg, interrupt, shuttingDown, closes, hs, deadline, listenErr, hook, call>>
    BY DEF Collect
  <1>2. received' \in 0..Cardinality(Schemes)
    BY <1>1, SchemesFinite DEF TypeOK
  <1>3. \A r \in Schemes : Quiet(r)' <=> Quiet(r)
    BY <1>1 DEF Quiet, Active
  <1>4. drain \in [Schemes -> {"off", "start", "draining", "ok", "failed", "heard"}]
    BY DEF TypeOK
  <1>5. CASE success
    <2>1. PICK s \in Schemes : drain[s] \in {"ok", "failed"} /\ success' = (drain[s] = "ok")
                              /\ drain' = [drain EXCEPT ![s] = "heard"]
      BY <1>5 DEF Collect
    <2>2. Heard' = Heard \cup {s} /\ s \notin Heard
      BY <1>4, <2>1 DEF Heard
    <2>3. TypeOK' /\ CallsOK'
      BY <1>1, <1>2, <2>1 DEF TypeOK, CallsOK
    <2>4. Started'
      BY <1>1, <1>4, <2>1 DEF Started
    <2>5. Drains'
      BY <1>1, <1>3, <1>4, <2>1 DEF Drains
    <2>6. Cardinality(Heard') = Cardinality(Heard) + 1
      <3>1. IsFiniteSet(Heard)
        BY SchemesFinite, FS_Subset DEF Heard
      <3> QED BY <2>2, <3>1, FS_AddElement
    <2>7. Collected'
      <3>1. success' => Quiet(s)
        BY <2>1, Zenon DEF Drains
      <3>2. \A r \in Heard : r \in Schemes
        BY DEF Heard
      <3>3. success' => received' = Cardinality(Heard') /\ \A r \in Heard' : Quiet(r)'
        BY <1>1, <1>3, <1>5, <2>2, <2>6, <3>1, <3>2 DEF Collected
      <3>4. ~success' => deadline' \/ listenErr' # {}
        BY <1>1, <2>1, Zenon DEF Drains
      <3> QED BY <1>1, <2>1, <3>3, <3>4 DEF Collected
    <2> QED BY <2>3, <2>4, <2>5, <2>7
  <1>6. CASE ~success
    <2>1. UNCHANGED <<success, drain>>
      BY <1>6 DEF Collect
    <2>2. TypeOK' /\ CallsOK'
      BY <1>1, <1>2, <2>1 DEF TypeOK, CallsOK
    <2>3. Started'
      BY <1>1, <2>1 DEF Started
    <2>4. Drains'
      BY <1>1, <1>3, <2>1 DEF Drains
    <2>5. Collected'
      BY <1>1, <1>6, <2>1 DEF Collected
    <2> QED BY <2>2, <2>3, <2>4, <2>5
  <1> QED BY <1>5, <1>6

LEMMA FinishShuts ==
  ASSUME ShutInv, FinishShutdown
  PROVE  ShutInv'
  <1> USE DEF ShutInv
  <1>1. /\ hs = "collect" /\ received = Cardinality(Schemes) /\ hook' = success /\ hs' = "done"
        /\ UNCHANGED <<main, serve, lst, sg, interrupt, shuttingDown, closes, success, received, drain, deadline,
                       listenErr, call>>
    BY DEF FinishShutdown
  <1>2. Heard' = Heard /\ Heard \subseteq Schemes /\ \A r \in Schemes : Quiet(r)' <=> Quiet(r)
    BY <1>1 DEF Heard, Quiet, Active
  <1>3. success => Heard = Schemes
    BY <1>1, <1>2, SchemesFinite, FS_Subset DEF Collected
  <1>4. TypeOK' /\ CallsOK'
    BY <1>1 DEF TypeOK, CallsOK
  <1>5. Started'
    BY <1>1 DEF Started
  <1>6. Drains'
    BY <1>1, <1>2 DEF Drains
  <1>7. Collected'
    BY <1>1, <1>2, <1>3 DEF Collected
  <1> QED BY <1>4, <1>5, <1>6, <1>7

LEMMA ShutHolds == Spec => []ShutInv
  <1>1. Init => ShutInv
    <2> SUFFICES ASSUME Init PROVE ShutInv
      OBVIOUS
    <2>1. Heard = {}
      BY DEF Init, Heard
    <2>2. received = Cardinality(Heard) /\ received \in 0..Cardinality(Schemes)
      BY <2>1, SchemesFinite, FS_EmptySet DEF Init
    <2>3. CallsOK /\ \A c \in Calls : call[c].st = "idle" /\ call[c].conn = "none"
      BY DEF Init, CallsOK, NoCall, CallFields
    <2>4. TypeOK
      BY <2>2, <2>3, MainsKnown DEF Init, TypeOK, ServeStates
    <2>5. Started /\ Drains
      BY DEF Init, Started, Drains
    <2>6. Collected
      BY <2>1, <2>2 DEF Init, Collected
    <2> QED BY <2>3, <2>4, <2>5, <2>6 DEF ShutInv
  <1>2. ShutInv /\ [Next]_vars => ShutInv'
    <2> SUFFICES ASSUME ShutInv, [Next]_vars PROVE ShutInv'
      OBVIOUS
    <2>1. CASE Next
      BY <2>1, CallStepShuts, ServeShuts, ListenShuts, EndShuts, StartDrainsShuts, DrainShuts, CollectShuts, FinishShuts
         DEF Next, ServerStep
    <2>2. CASE UNCHANGED vars
      <3>1. UNCHANGED server /\ call' = call
        BY <2>2 DEF vars
      <3>2. /\ main' = main /\ serve' = serve /\ lst' = lst /\ sg' = sg /\ interrupt' = interrupt
            /\ shuttingDown' = shuttingDown /\ closes' = closes /\ hs' = hs /\ success' = success
            /\ received' = received /\ drain' = drain /\ deadline' = deadline /\ listenErr' = listenErr
            /\ hook' = hook
        BY <3>1 DEF server
      <3>3. Heard' = Heard /\ \A s \in Schemes : Quiet(s)' <=> Quiet(s)
        BY <3>1, <3>2 DEF Heard, Quiet, Active
      <3>4. \A s \in Heard : s \in Schemes
        BY DEF Heard
      <3>5. TypeOK' /\ CallsOK' /\ Started'
        BY <3>1, <3>2 DEF ShutInv, TypeOK, CallsOK, Started
      <3>6. Drains'
        BY <3>2, <3>3 DEF ShutInv, Drains
      <3>7. Collected'
        BY <3>2, <3>3, <3>4 DEF ShutInv, Collected
      <3> QED BY <3>5, <3>6, <3>7 DEF ShutInv
    <2> QED BY <2>1, <2>2
  <1> QED BY <1>1, <1>2, PTL DEF Spec

\* ShutdownInOrder (HookAfterDrain, GracefulReturn): ServerShutdown runs, and
\* Serve returns without a timeout or a failed listener, only when every
\* listener is closed and every accepted request has been served
\* (handleShutdown of restapi/server.go), whichever schemes there are and
\* however signals, drains, the deadline and the calls interleave.
THEOREM ShutdownKeepsOrder == Spec => []ShutdownInOrder
  <1>1. ShutInv => ShutdownInOrder
    <2> SUFFICES ASSUME ShutInv PROVE ShutdownInOrder
      OBVIOUS
    <2>1. hs = "done" /\ success => \A s \in Schemes : Quiet(s)
      BY DEF ShutInv, Collected
    <2>2. listenErr \subseteq Schemes
      BY DEF ShutInv, TypeOK
    <2>3. HookAfterDrain
      BY <2>1, <2>2 DEF ShutInv, Collected, HookAfterDrain, Quiet
    <2>4. GracefulReturn
      BY <2>1 DEF ShutInv, Collected, Started, GracefulReturn, Quiet
    <2> QED BY <2>3, <2>4 DEF ShutInv, ShutdownInOrder
  <1> QED BY <1>1, ShutHolds, PTL

-----------------------------------------------------------------------------
(* The calls                                                               *)

\* A request a client can make: RequestsKnown of one request.
WellFormed(req) ==
  /\ req.op \in Ops
  /\ DOMAIN req.params = ClientParams[req.op].path \cup ClientParams[req.op].query
  /\ \A n \in ClientParams[req.op].path : req.params[n] # None
  /\ ClientParams[req.op].body \/ req.body = None

\* What BoundIsSent says of one call.
Arrived(req, b) ==
  LET set == {n \in DOMAIN req.params : req.params[n] # None}
  IN /\ set \subseteq DOMAIN b.params
     /\ \A n \in set : b.params[n] = req.params[n]
     /\ \A n \in DOMAIN b.params \ set : n = "defaultPlanOnly" /\ b.params[n] = "false"
     /\ b.body = req.body

\* What AnswersReachTheCaller says of one call.
Conveyed(a, r) ==
  IF a = None THEN r.kind = "error"
  ELSE /\ r.name = a.name
       /\ (r.kind = "result") <=> (a.name = "OK")
       /\ r.payload = IF a.payload = None THEN "zero" ELSE a.payload

LEMMA ParamsOfOps == DOMAIN ClientParams = Ops
  BY Zenon DEF ClientParams, Ops, TDOps, WMOps

\* The server binds what the client has written.
LEMMA BoundArrives ==
  ASSUME NEW req, WellFormed(req), NEW op
  PROVE  Arrived(req, Bound(op, WriteToRequest(req)))
  <1> DEFINE p == ClientParams[req.op]
             w == WriteToRequest(req)
             b == Bound(op, w)
             set == {n \in DOMAIN req.params : req.params[n] # None}
  <1>1. /\ w.path = [n \in p.path |-> req.params[n]]
        /\ w.query = [n \in {m \in p.query : req.params[m] # None} |-> req.params[n]]
        /\ w.body = req.body
    BY Zenon DEF WriteToRequest, WellFormed
  <1>2. DOMAIN w.path = p.path /\ DOMAIN w.query = {m \in p.query : req.params[m] # None}
    BY <1>1
  <1>3. DOMAIN req.params = p.path \cup p.query /\ \A n \in p.path : req.params[n] # None
    BY DEF WellFormed
  <1> HIDE DEF p, w
  <1>4. set = DOMAIN w.path \cup DOMAIN w.query
    BY <1>2, <1>3
  <1>5. b.body = req.body
    BY <1>1 DEF Bound
  <1>6. PICK defaults \in SUBSET {"defaultPlanOnly"} :
          b.params = [n \in DOMAIN w.path \cup DOMAIN w.query \cup defaults |->
                        CASE n \in DOMAIN w.path -> w.path[n]
                          [] n \in DOMAIN w.query \ DOMAIN w.path -> w.query[n]
                          [] OTHER -> "false"]
    BY Zenon DEF Bound
  <1>7. \A n \in set : b.params[n] = req.params[n]
    BY <1>1, <1>2, <1>4, <1>6
  <1>8. set \subseteq DOMAIN b.params /\ \A n \in DOMAIN b.params \ set : n = "defaultPlanOnly" /\ b.params[n] = "false"
    BY <1>4, <1>6
  <1> HIDE DEF b
  <1>9. Arrived(req, b)
    BY <1>5, <1>7, <1>8 DEF Arrived
  <1> QED BY <1>9 DEF b, w

\* The registrant of a request that is bound is a UUID.
LEMMA RegistrantBound ==
  ASSUME NEW req, WellFormed(req), req.op = "GetWorkloadsByRegistrant",
         BindRequest(req.op, WriteToRequest(req)) = {}
  PROVE  Bound(req.op, WriteToRequest(req)).params.rid \in UUID
  <1> DEFINE w == WriteToRequest(req)
  <1>1. ClientParams[req.op].path = {"rid"}
    <2>1. ClientParams["GetWorkloadsByRegistrant"] = GetWorkloadsByRegistrantParams
      BY DEF ClientParams
    <2>2. GetWorkloadsByRegistrantParams.path = {"rid"}
      BY DEF GetWorkloadsByRegistrantParams, WritesParams
    <2> QED BY <2>1, <2>2
  <1>2. DOMAIN w.path = {"rid"}
    BY <1>1, Zenon DEF WriteToRequest
  <1>b. BindRequest(req.op, w) = {}
    OBVIOUS
  <1> HIDE DEF w
  <1>3. BindRequest(req.op, w) = PathErrors(w, "rid", UUID)
    BY DEF BindRequest, GetWorkloadsByRegistrantBind
  <1>4. w.path["rid"] \in UUID
    BY <1>b, <1>3 DEF PathErrors
  <1>5. Bound(req.op, w).params["rid"] = w.path["rid"]
    BY <1>2 DEF Bound
  <1> QED BY <1>4, <1>5 DEF w

\* An answer that a handler gives reaches the client as it is.
LEMMA AnswerConveyed ==
  ASSUME NEW op \in Ops, NEW bound, op = "GetWorkloadsByRegistrant" => bound.params.rid \in UUID,
         NEW a \in HandlerAnswers(op, bound), a # Panic
  PROVE  Conveyed(a, ReadResponse(op, WriteResponse(a)))
  <1>1. Known(op, a)
    BY AnswersKnown
  <1>2. a.payload \in Payloads
    BY AnswersCarry
  <1>3. a \in [responder : DOMAIN ClientParams, name : {"OK", "BadRequest", "NotFound"}, payload : Payloads]
    BY <1>1, <1>2, ParamsOfOps DEF Known, Answer
  <1>4. a # None
    BY <1>3, NilIsNoAnswer
  <1>5. Regular(ServerResponders[a.responder])
    BY <1>1, RespondersRegular DEF Known
  <1>6. WriteResponse(a).code = Status[a.name] /\ WriteResponse(a).payload = a.payload
    BY <1>1, <1>5 DEF WriteResponse, Known, Regular
  <1>7. a.name \in DOMAIN ClientReader[op]
    BY <1>1 DEF Known
  <1> HIDE DEF Status
  <1>8. /\ ReadResponse(op, WriteResponse(a)).name = a.name
        /\ ReadResponse(op, WriteResponse(a)).kind = IF a.name = "OK" THEN "result" ELSE "error"
        /\ ReadResponse(op, WriteResponse(a)).payload = IF a.payload = None THEN "zero" ELSE a.payload
    BY <1>6, <1>7, ReadBack
  <1> QED BY <1>4, <1>8 DEF Conveyed

LEMMA RouteOps ==
  /\ DOMAIN TDClientRoutes = TDOps /\ DOMAIN WMClientRoutes = WMOps
  /\ DOMAIN TDHandlers = TDOps /\ DOMAIN WMHandlers = WMOps
  BY DEF TDClientRoutes, WMClientRoutes, TDHandlers, WMHandlers, TDOps, WMOps

\* Each process has the operations of its clients, and no other one's.
LEMMA Routed ==
  ASSUME NEW op \in (IF main = "director" THEN TDOps ELSE WMOps)
  PROVE  {x \in DOMAIN Handlers : Handlers[x] = ClientRoutes[op]} = {op}
  <1>1. \A x \in TDOps : x \notin WMOps
    BY DEF TDOps, WMOps
  <1>2. ClientRoutes[op] = IF main = "director" THEN TDClientRoutes[op] ELSE WMClientRoutes[op]
    BY <1>1, RouteOps DEF ClientRoutes
  <1> QED BY <1>2, RouteOps, TDRouted, WMRouted DEF Handlers

\* Whatever comes of a request, the handler has received what was sent and the
\* client makes of the reply what the handler answered.
LEMMA ServedWell ==
  ASSUME NEW handlers, NEW req, WellFormed(req), NEW o \in Served(handlers, req),
         {op \in DOMAIN handlers : handlers[op] = ClientRoutes[req.op]} = {req.op}
  PROVE  /\ o.bound # None => Arrived(req, o.bound)
         /\ o.reply # None => Conveyed(o.answer, ReadResponse(req.op, o.reply))
  <1> DEFINE w == WriteToRequest(req)
             b == Bound(req.op, w)
  <1>0. req.op \in Ops
    BY DEF WellFormed
  <1>h. o \in Handled(req.op, w)
    BY DEF Served
  <1>1. CASE BindRequest(req.op, w) # {}
    <2>1. o = Refused(UnprocessableEntity)
      BY <1>1, <1>h DEF Handled
    <2>2. o.bound = None /\ o.answer = None /\ o.reply.code = UnprocessableEntity
      BY <2>1 DEF Refused
    <2>3. ReadResponse(req.op, o.reply).kind = "error"
      BY <1>0, <2>2, ReadRefused
    <2> QED BY <2>2, <2>3 DEF Conveyed
  <1>2. CASE BindRequest(req.op, w) = {}
    <2>1. PICK a \in HandlerAnswers(req.op, b) :
            o = [bound |-> b, answer |-> a, reply |-> IF a = Panic THEN None ELSE WriteResponse(a)]
      BY <1>2, <1>h DEF Handled
    <2>2. Arrived(req, b)
      BY BoundArrives, Zenon
    <2>3. req.op = "GetWorkloadsByRegistrant" => b.params.rid \in UUID
      BY <1>2, RegistrantBound
    <2> HIDE DEF b
    <2>4. o.bound = b /\ o.answer = a /\ o.reply = IF a = Panic THEN None ELSE WriteResponse(a)
      BY <2>1
    <2>5. a # Panic => Conveyed(a, ReadResponse(req.op, WriteResponse(a)))
      BY <1>0, <2>3, AnswerConveyed, Zenon
    <2> QED BY <2>2, <2>4, <2>5
  <1> QED BY <1>1, <1>2

\* A call is right when its request is one of its client's for this process,
\* the handler has what was sent, the reply says what the handler answered, and
\* the client has read it so.  Once there is a reply, or a result that is one,
\* the connection has been served and will not be again.
Right(k, m) ==
  /\ k.st # "idle" => WellFormed(k.req) /\ k.req.op \in (IF m = "director" THEN TDOps ELSE WMOps)
  /\ k.st = "idle" => k.bound = None /\ k.reply = None
  /\ k.bound # None => Arrived(k.req, k.bound)
  /\ k.reply # None => k.conn = "closed" /\ Conveyed(k.answer, ReadResponse(k.req.op, k.reply))
  /\ k.st = "done" /\ k.result \notin {Transport("broken"), Transport("timeout")}
       => k.conn = "closed" /\ Conveyed(k.answer, k.result)

CallsRight == \A c \in Calls : Right(call[c], main)

LEMMA CallRight ==
  ASSUME CallsRight, CallsOK, NEW c \in Calls, NEW k, call' = [call EXCEPT ![c] = k], Right(k, main), main' = main
  PROVE  CallsRight'
  <1>1. \A d \in Calls : call'[d] = IF d = c THEN k ELSE call[d]
    BY DEF CallsOK
  <1> QED BY <1>1 DEF CallsRight

LEMMA CallStepRight ==
  ASSUME CallsRight, ShutInv, NEW c \in Calls, Submit(c) \/ CallStep(c)
  PROVE  CallsRight'
  <1> DEFINE k == call[c]
             r == call'[c]
  <1>1. CallsOK /\ DOMAIN call = Calls /\ DOMAIN k = CallFields /\ k.st \in {"idle", "sent", "done"}
        /\ (k.st = "idle" => k.conn = "none") /\ main \in {"director", "monitor"}
    BY DEF ShutInv, CallsOK, TypeOK
  <1>2. main' = main
    BY Zenon DEF Submit, CallStep, Accept, ServeHTTP, Receive, Broken, TimeOut, server
  <1>3. Right(k, main)
    BY DEF CallsRight
  <1>4. CASE Submit(c)
    <2>1. PICK i \in Inputs[c] :
            /\ i.req.op \in (IF main = "director" THEN DOMAIN TDClientRoutes ELSE DOMAIN WMClientRoutes)
            /\ call' = [call EXCEPT ![c].st = "sent", ![c].req = i.req, ![c].scheme = i.scheme]
      BY <1>4, Zenon DEF Submit
    <2>2. /\ call' = [call EXCEPT ![c] = r] /\ r.st = "sent" /\ r.req = i.req
          /\ r.bound = k.bound /\ r.reply = k.reply
      BY <1>1, <2>1, Zenon DEF CallFields
    <2>3. WellFormed(i.req)
      BY RequestsKnown, ParamsOfOps DEF WellFormed
    <2>4. i.req.op \in (IF main = "director" THEN TDOps ELSE WMOps)
      BY <2>1, RouteOps
    <2>5. k.bound = None /\ k.reply = None
      BY <1>3, <1>4, Zenon DEF Submit, Right
    <2> HIDE DEF r, k
    <2>6. Right(r, main)
      BY <2>2, <2>3, <2>4, <2>5 DEF Right
    <2> QED BY <1>1, <1>2, <2>2, <2>6, CallRight, Zenon
  <1>5. CASE Accept(c)
    <2>1. /\ call' = [call EXCEPT ![c] = r] /\ r.st = k.st /\ r.req = k.req /\ r.bound = k.bound
          /\ r.reply = k.reply /\ r.answer = k.answer /\ r.result = k.result
      BY <1>1, <1>5 DEF Accept, CallFields
    <2>2. k.st = "sent" /\ k.conn = "none"
      BY <1>5 DEF Accept
    <2> HIDE DEF r, k
    <2>3. Right(r, main)
      BY <1>3, <2>1, <2>2, Zenon DEF Right
    <2> QED BY <1>1, <1>2, <2>1, <2>3, CallRight, Zenon
  <1>6. CASE ServeHTTP(c)
    <2>1. k.conn = "active"
      BY <1>6 DEF ServeHTTP
    <2>2. k.st # "idle" /\ WellFormed(k.req) /\ k.req.op \in (IF main = "director" THEN TDOps ELSE WMOps)
      BY <1>1, <1>3, <2>1, Zenon DEF Right
    <2>3. PICK o \in Served(Handlers, k.req) :
            call' = [call EXCEPT ![c].conn = "closed", ![c].bound = o.bound, ![c].answer = o.answer, ![c].reply = o.reply]
      BY <1>6, Zenon DEF ServeHTTP
    <2>4. /\ call' = [call EXCEPT ![c] = r] /\ r.st = k.st /\ r.req = k.req /\ r.result = k.result
          /\ r.bound = o.bound /\ r.answer = o.answer /\ r.reply = o.reply /\ r.conn = "closed"
      BY <1>1, <2>3, Zenon DEF CallFields
    <2>5. {op \in DOMAIN Handlers : Handlers[op] = ClientRoutes[k.req.op]} = {k.req.op}
      BY <2>2, Routed
    <2> HIDE DEF r, k
    <2>6. /\ o.bound # None => Arrived(k.req, o.bound)
          /\ o.reply # None => Conveyed(o.answer, ReadResponse(k.req.op, o.reply))
      BY <2>2, <2>5, ServedWell, Zenon
    <2>7. Right(r, main)
      BY <1>3, <2>1, <2>2, <2>4, <2>6, Zenon DEF Right
    <2> QED BY <1>1, <1>2, <2>4, <2>7, CallRight, Zenon
  <1>7. CASE Receive(c)
    <2>1. /\ call' = [call EXCEPT ![c] = r] /\ r.st = "done" /\ r.req = k.req /\ r.bound = k.bound
          /\ r.reply = k.reply /\ r.answer = k.answer /\ r.conn = k.conn
          /\ r.result = ReadResponse(k.req.op, k.reply)
      BY <1>1, <1>7, Zenon DEF Receive, CallFields
    <2>2. k.st = "sent" /\ k.reply # None
      BY <1>7 DEF Receive
    <2> HIDE DEF r, k
    <2>3. Right(r, main)
      BY <1>3, <2>1, <2>2, Zenon DEF Right
    <2> QED BY <1>1, <1>2, <2>1, <2>3, CallRight, Zenon
  <1>8. CASE Broken(c) \/ TimeOut(c)
    <2>1. /\ call' = [call EXCEPT ![c] = r] /\ r.st = "done" /\ r.req = k.req /\ r.bound = k.bound
          /\ r.reply = k.reply /\ r.answer = k.answer /\ r.conn \in {k.conn, "closed"}
          /\ r.result \in {Transport("broken"), Transport("timeout")}
      BY <1>1, <1>8 DEF Broken, TimeOut, CallFields
    <2>2. k.st = "sent"
      BY <1>8 DEF Broken, TimeOut
    <2> HIDE DEF r, k
    <2>3. Right(r, main)
      BY <1>3, <2>1, <2>2, Zenon DEF Right
    <2> QED BY <1>1, <1>2, <2>1, <2>3, CallRight, Zenon
  <1> QED BY <1>4, <1>5, <1>6, <1>7, <1>8 DEF CallStep

\* The steps of the server cut connections and do nothing else to the calls.
LEMMA ServerRight ==
  ASSUME CallsRight, ShutInv, main' = main, call' = call \/ call' = Cut(call)
  PROVE  CallsRight'
  <1>1. CASE call' = call
    BY <1>1 DEF CallsRight
  <1>2. CASE call' = Cut(call)
    <2> SUFFICES ASSUME NEW c \in Calls PROVE Right(call'[c], main)
      BY DEF CallsRight
    <2> DEFINE k == call[c]
               r == call'[c]
    <2>1. DOMAIN k = CallFields
      BY DEF ShutInv, CallsOK
    <2>2. /\ r.st = k.st /\ r.req = k.req /\ r.bound = k.bound /\ r.reply = k.reply /\ r.answer = k.answer
          /\ r.result = k.result /\ r.conn = IF k.conn = "active" THEN "closed" ELSE k.conn
      BY <1>2, <2>1 DEF Cut, CallFields
    <2>3. Right(k, main)
      BY DEF CallsRight
    <2> HIDE DEF k, r
    <2>4. Right(r, main)
      BY <2>2, <2>3, Zenon DEF Right
    <2> QED BY <2>4 DEF r
  <1> QED BY <1>1, <1>2

\* CallsArriveIntact (BoundIsSent, AnswersReachTheCaller): a handler receives
\* what its caller set, and the caller gets back what the handler answered or
\* an error when none ran (the parameters, BindRequest, responders and readers
\* of the generated clients and servers), for any number of calls with any
\* requests, however they interleave with timeouts, signals and the shutdown.
THEOREM CallsStayIntact == Spec => []CallsArriveIntact
  <1>1. Init => CallsRight
    BY DEF Init, NoCall, CallsRight, Right
  <1>2. ShutInv /\ CallsRight /\ [Next]_vars => CallsRight'
    <2> SUFFICES ASSUME ShutInv, CallsRight, [Next]_vars PROVE CallsRight'
      OBVIOUS
    <2>1. ASSUME ServerStep \/ Signal \/ \E s \in Schemes : ServeError(s) PROVE CallsRight'
      <3>1. main' = main /\ (call' = call \/ call' = Cut(call))
        BY <2>1, Zenon DEF ServerStep, Listen, StartShutdownHandler, ServeReturns, StartServer, CloseListener, Drained,
           HandleInterrupt, DirectorMainReturns, MonitorMainReturns, StartDrains, Deadline, Collect, FinishShutdown,
           Signal, ServeError, Exit
      <3> QED BY <3>1, ServerRight
    <2>2. CASE UNCHANGED vars
      <3>1. main' = main /\ call' = call
        BY <2>2 DEF vars, server
      <3> QED BY <3>1, ServerRight
    <2> QED BY <2>1, <2>2, CallStepRight DEF Next
  <1>3. CallsRight => CallsArriveIntact
    <2> SUFFICES ASSUME CallsRight PROVE CallsArriveIntact
      OBVIOUS
    <2>1. BoundIsSent
      BY Zenon DEF CallsRight, Right, Arrived, BoundIsSent
    <2>2. AnswersReachTheCaller
      BY Zenon DEF CallsRight, Right, Conveyed, AnswersReachTheCaller, Transported
    <2> QED BY <2>1, <2>2 DEF CallsArriveIntact
  <1> QED BY <1>1, <1>2, <1>3, ShutHolds, PTL DEF Spec
=============================================================================
