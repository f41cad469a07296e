--------------------------- MODULE RestInterface ---------------------------
(***************************************************************************)
(* The REST interfaces of the test director and of the workload monitor,   *)
(* as the generated clients and servers implement them: what a client      *)
(* writes into a request, what the server accepts of it, the status a      *)
(* responder writes and what the client makes of a status.  Client and     *)
(* server are generated separately, each operation into files of its own,  *)
(* so every operation has four definitions here: Params and Reader for the *)
(* client, Bind and Responders for the server.  A value of a parameter is  *)
(* a representative of those the formats tell apart.                       *)
(***************************************************************************)
EXTENDS Integers, FiniteSets

\* A nil pointer: a parameter, a field or a body that is not given.
CONSTANT None

\* What the formats, patterns and enumerations of the interface accept.
UUID == {"uuid1", "uuid2"}
JiraKey == {"MQ-1"}
EventClassEnum == {"FAIL", "INFO", "WARN"}
EventSourceClassEnum == {"workload-monitor", "log-monitor", "resouce-monitor", "test-conductor"}
WorkloadViolationEnum == {"RESTARTED", "TERMINATED", "NOT_PRESENT"}
TestPlanStatusEnum == {"NOT_STARTED", "RUNNING", "COMPLETE_PASS", "COMPLETE_FAIL"}
TestRunStatusEnum == {"TO DO", "EXECUTING", "PASSED", "FAILED"}

\* Validate of the models that arrive as bodies.
EventSpecValidate(b) ==
    /\ b.class \in EventClassEnum
    /\ b.sourceClass \in EventSourceClassEnum
    /\ b.message # None
    /\ b.sourceInstance # None

WorkloadSpecValidate(b) == b.violations # None /\ b.violations \subseteq WorkloadViolationEnum

TestPlanSpecValidate(b) == b.status \in TestPlanStatusEnum

TestRunSpecValidate(b) == b.status \in TestRunStatusEnum \cup {None} /\ b.testKey \in JiraKey

----------------------------------------------------------------------------
(* The client: the parameters WriteToRequest puts in the path, the query   *)
(* and the body, and the result ReadResponse makes of a status.            *)

WritesParams(path, query, body) == [path |-> path, query |-> query, body |-> body]

AddEventParams == WritesParams({}, {}, TRUE)
DeleteTestPlanByIDParams == WritesParams({"id"}, {}, FALSE)
DeleteTestPlansParams == WritesParams({}, {}, FALSE)
DeleteTestRunByIDParams == WritesParams({"id"}, {}, FALSE)
GetEventsParams == WritesParams({}, {"class", "sourceClass"}, FALSE)
GetTestPlanByIDParams == WritesParams({"id"}, {}, FALSE)
GetTestPlansParams == WritesParams({}, {"defaultPlanOnly"}, FALSE)
GetTestRunByIDParams == WritesParams({"id"}, {}, FALSE)
GetTestRunsParams == WritesParams({}, {}, FALSE)
PutTestPlanByIDParams == WritesParams({"id"}, {}, TRUE)
PutTestRunByIDParams == WritesParams({"id"}, {}, TRUE)
DeleteWorkloadByRegistrantParams == WritesParams({"rid", "wid"}, {}, FALSE)
DeleteWorkloadsByRegistrantParams == WritesParams({"rid"}, {}, FALSE)
GetWorkloadByRegistrantParams == WritesParams({"rid", "wid"}, {}, FALSE)
GetWorkloadsByRegistrantParams == WritesParams({"rid"}, {}, FALSE)
GetWorkloadsParams == WritesParams({}, {"name", "namespace", "registrantId"}, FALSE)
PutWorkloadByRegistrantParams == WritesParams({"rid", "wid"}, {}, TRUE)

ClientParams ==
    [AddEvent |-> AddEventParams,
     DeleteTestPlanByID |-> DeleteTestPlanByIDParams,
     DeleteTestPlans |-> DeleteTestPlansParams,
     DeleteTestRunByID |-> DeleteTestRunByIDParams,
     GetEvents |-> GetEventsParams,
     GetTestPlanByID |-> GetTestPlanByIDParams,
     GetTestPlans |-> GetTestPlansParams,
     GetTestRunByID |-> GetTestRunByIDParams,
     GetTestRuns |-> GetTestRunsParams,
     PutTestPlanByID |-> PutTestPlanByIDParams,
     PutTestRunByID |-> PutTestRunByIDParams,
     DeleteWorkloadByRegistrant |-> DeleteWorkloadByRegistrantParams,
     DeleteWorkloadsByRegistrant |-> DeleteWorkloadsByRegistrantParams,
     GetWorkloadByRegistrant |-> GetWorkloadByRegistrantParams,
     GetWorkloadsByRegistrant |-> GetWorkloadsByRegistrantParams,
     GetWorkloads |-> GetWorkloadsParams,
     PutWorkloadByRegistrant |-> PutWorkloadByRegistrantParams]

\* A path parameter is always written, a query parameter when it is set.
WriteToRequest(r) ==
    LET p == ClientParams[r.op]
    IN [path  |-> [n \in p.path |-> r.params[n]],
        query |-> [n \in {m \in p.query : r.params[m] # None} |-> r.params[n]],
        body  |-> IF p.body THEN r.body ELSE None]

\* Mutant: the client does not know the refusal of an event.
MutAddEventReaderNoRefusal == [OK |-> 200]

AddEventReader == [OK |-> 200, BadRequest |-> 400]
DeleteTestPlanByIDReader == [OK |-> 200, NotFound |-> 404]
DeleteTestPlansReader == [OK |-> 200]
DeleteTestRunByIDReader == [OK |-> 200, NotFound |-> 404]
GetEventsReader == [OK |-> 200, NotFound |-> 404]
GetTestPlanByIDReader == [OK |-> 200, NotFound |-> 404]
GetTestPlansReader == [OK |-> 200, NotFound |-> 404]
GetTestRunByIDReader == [OK |-> 200, NotFound |-> 404]
GetTestRunsReader == [OK |-> 200, NotFound |-> 404]
PutTestPlanByIDReader == [OK |-> 200, BadRequest |-> 400]
PutTestRunByIDReader == [OK |-> 200, BadRequest |-> 400, Forbidden |-> 403]
DeleteWorkloadByRegistrantReader == [OK |-> 200, BadRequest |-> 400, NotFound |-> 404]
DeleteWorkloadsByRegistrantReader == [OK |-> 200, BadRequest |-> 400, NotFound |-> 404]
GetWorkloadByRegistrantReader == [OK |-> 200, BadRequest |-> 400, NotFound |-> 404]
GetWorkloadsByRegistrantReader == [OK |-> 200, BadRequest |-> 400, NotFound |-> 404]
GetWorkloadsReader == [OK |-> 200, NotFound |-> 404]
PutWorkloadByRegistrantReader == [OK |-> 200, BadRequest |-> 400]

ClientReader ==
    [AddEvent |-> AddEventReader,
     DeleteTestPlanByID |-> DeleteTestPlanByIDReader,
     DeleteTestPlans |-> DeleteTestPlansReader,
     DeleteTestRunByID |-> DeleteTestRunByIDReader,
     GetEvents |-> GetEventsReader,
     GetTestPlanByID |-> GetTestPlanByIDReader,
     GetTestPlans |-> GetTestPlansReader,
     GetTestRunByID |-> GetTestRunByIDReader,
     GetTestRuns |-> GetTestRunsReader,
     PutTestPlanByID |-> PutTestPlanByIDReader,
     PutTestRunByID |-> PutTestRunByIDReader,
     DeleteWorkloadByRegistrant |-> DeleteWorkloadByRegistrantReader,
     DeleteWorkloadsByRegistrant |-> DeleteWorkloadsByRegistrantReader,
     GetWorkloadByRegistrant |-> GetWorkloadByRegistrantReader,
     GetWorkloadsByRegistrant |-> GetWorkloadsByRegistrantReader,
     GetWorkloads |-> GetWorkloadsReader,
     PutWorkloadByRegistrant |-> PutWorkloadByRegistrantReader]

\* The case of a status in the reader's switch, by the name of its result.  An
\* empty body is no error: the payload is then the zero value of its type.
ReadResponse(op, reply) ==
    LET cases == {n \in DOMAIN ClientReader[op] : ClientReader[op][n] = reply.code}
        name  == CHOOSE n \in cases : TRUE
    IN IF cases = {} THEN [kind |-> "error", name |-> "APIError", payload |-> None]
       ELSE [kind    |-> IF name = "OK" THEN "result" ELSE "error",
             name    |-> name,
             payload |-> IF reply.payload = None THEN "zero" ELSE reply.payload]

----------------------------------------------------------------------------
(* The server: the fields of a request that BindRequest refuses, and the   *)
(* status each responder writes.                                           *)

PathErrors(w, n, accepted) == IF w.path[n] \in accepted THEN {} ELSE {n}

QueryErrors(w, n, accepted) ==
    IF n \in DOMAIN w.query /\ w.query[n] \notin accepted THEN {n} ELSE {}

BodyErrors(w, required, Valid(_)) ==
    IF (w.body = None /\ required) \/ (w.body # None /\ ~Valid(w.body)) THEN {"body"} ELSE {}

AddEventBind(w) == BodyErrors(w, TRUE, LAMBDA b : EventSpecValidate(b))
DeleteTestPlanByIDBind(w) == PathErrors(w, "id", JiraKey)
DeleteTestPlansBind(w) == {}
DeleteTestRunByIDBind(w) == PathErrors(w, "id", JiraKey)
GetEventsBind(w) ==
    QueryErrors(w, "class", EventClassEnum)
    \cup QueryErrors(w, "sourceClass", {"workload-monitor", "log-monitor", "resouce-monitor"})
GetTestPlanByIDBind(w) == PathErrors(w, "id", JiraKey)
GetTestPlansBind(w) == {}
GetTestRunByIDBind(w) == {}
GetTestRunsBind(w) == {}
PutTestPlanByIDBind(w) ==
    PathErrors(w, "id", JiraKey) \cup BodyErrors(w, TRUE, LAMBDA b : TestPlanSpecValidate(b))
PutTestRunByIDBind(w) == BodyErrors(w, TRUE, LAMBDA b : TestRunSpecValidate(b))
DeleteWorkloadByRegistrantBind(w) == PathErrors(w, "rid", UUID) \cup PathErrors(w, "wid", UUID)
DeleteWorkloadsByRegistrantBind(w) == PathErrors(w, "rid", UUID)
GetWorkloadByRegistrantBind(w) == PathErrors(w, "rid", UUID) \cup PathErrors(w, "wid", UUID)
GetWorkloadsByRegistrantBind(w) == PathErrors(w, "rid", UUID)
GetWorkloadsBind(w) == QueryErrors(w, "registrantId", UUID)
PutWorkloadByRegistrantBind(w) ==
    PathErrors(w, "rid", UUID) \cup PathErrors(w, "wid", UUID)
    \cup BodyErrors(w, FALSE, LAMBDA b : WorkloadSpecValidate(b))

BindRequest(op, w) ==
    CASE op = "AddEvent" -> AddEventBind(w)
      [] op = "DeleteTestPlanByID" -> DeleteTestPlanByIDBind(w)
      [] op = "DeleteTestPlans" -> DeleteTestPlansBind(w)
      [] op = "DeleteTestRunByID" -> DeleteTestRunByIDBind(w)
      [] op = "GetEvents" -> GetEventsBind(w)
      [] op = "GetTestPlanByID" -> GetTestPlanByIDBind(w)
      [] op = "GetTestPlans" -> GetTestPlansBind(w)
      [] op = "GetTestRunByID" -> GetTestRunByIDBind(w)
      [] op = "GetTestRuns" -> GetTestRunsBind(w)
      [] op = "PutTestPlanByID" -> PutTestPlanByIDBind(w)
      [] op = "PutTestRunByID" -> PutTestRunByIDBind(w)
      [] op = "DeleteWorkloadByRegistrant" -> DeleteWorkloadByRegistrantBind(w)
      [] op = "DeleteWorkloadsByRegistrant" -> DeleteWorkloadsByRegistrantBind(w)
      [] op = "GetWorkloadByRegistrant" -> GetWorkloadByRegistrantBind(w)
      [] op = "GetWorkloadsByRegistrant" -> GetWorkloadsByRegistrantBind(w)
      [] op = "GetWorkloads" -> GetWorkloadsBind(w)
      [] op = "PutWorkloadByRegistrant" -> PutWorkloadByRegistrantBind(w)

\* The values the handler receives.  Of the query parameters only
\* defaultPlanOnly has a default.
Bound(op, w) ==
    LET defaults == IF op = "GetTestPlans" THEN {"defaultPlanOnly"} ELSE {}
    IN [params |-> [n \in DOMAIN w.path \cup DOMAIN w.query \cup defaults |->
                       CASE n \in DOMAIN w.path -> w.path[n]
                         [] n \in DOMAIN w.query \ DOMAIN w.path -> w.query[n]
                         [] OTHER -> "false"],
        body   |-> w.body]

AddEventResponders == [OK |-> 200, BadRequest |-> 400]
DeleteTestPlanByIDResponders == [OK |-> 200, NotFound |-> 404]
DeleteTestPlansResponders == [OK |-> 200]
DeleteTestRunByIDResponders == [OK |-> 200, NotFound |-> 404]
GetEventsResponders == [OK |-> 200, NotFound |-> 404]
GetTestPlanByIDResponders == [OK |-> 200, NotFound |-> 404]
GetTestPlansResponders == [OK |-> 200, NotFound |-> 404]
GetTestRunByIDResponders == [OK |-> 200, NotFound |-> 404]
GetTestRunsResponders == [OK |-> 200, NotFound |-> 404]
PutTestPlanByIDResponders == [OK |-> 200, BadRequest |-> 400]
PutTestRunByIDResponders == [OK |-> 200, BadRequest |-> 400, Forbidden |-> 403]
DeleteWorkloadByRegistrantResponders == [OK |-> 200, BadRequest |-> 400, NotFound |-> 404]
DeleteWorkloadsByRegistrantResponders == [OK |-> 200, BadRequest |-> 400, NotFound |-> 404]
GetWorkloadByRegistrantResponders == [OK |-> 200, BadRequest |-> 400, NotFound |-> 404]
GetWorkloadsByRegistrantResponders == [OK |-> 200, BadRequest |-> 400, NotFound |-> 404]
GetWorkloadsResponders == [OK |-> 200, NotFound |-> 404]
PutWorkloadByRegistrantResponders == [OK |-> 200, BadRequest |-> 400]

ServerResponders ==
    [AddEvent |-> AddEventResponders,
     DeleteTestPlanByID |-> DeleteTestPlanByIDResponders,
     DeleteTestPlans |-> DeleteTestPlansResponders,
     DeleteTestRunByID |-> DeleteTestRunByIDResponders,
     GetEvents |-> GetEventsResponders,
     GetTestPlanByID |-> GetTestPlanByIDResponders,
     GetTestPlans |-> GetTestPlansResponders,
     GetTestRunByID |-> GetTestRunByIDResponders,
     GetTestRuns |-> GetTestRunsResponders,
     PutTestPlanByID |-> PutTestPlanByIDResponders,
     PutTestRunByID |-> PutTestRunByIDResponders,
     DeleteWorkloadByRegistrant |-> DeleteWorkloadByRegistrantResponders,
     DeleteWorkloadsByRegistrant |-> DeleteWorkloadsByRegistrantResponders,
     GetWorkloadByRegistrant |-> GetWorkloadByRegistrantResponders,
     GetWorkloadsByRegistrant |-> GetWorkloadsByRegistrantResponders,
     GetWorkloads |-> GetWorkloadsResponders,
     PutWorkloadByRegistrant |-> PutWorkloadByRegistrantResponders]

----------------------------------------------------------------------------
(* Routing: the method and path the client uses for an operation, and the  *)
(* route each operation's handler has in the server's handler cache.       *)

TDClientRoutes ==
    [AddEvent           |-> <<"POST", "/td/events">>,
     DeleteTestPlanByID |-> <<"DELETE", "/td/testplans/{id}">>,
     DeleteTestPlans    |-> <<"DELETE", "/td/testplans">>,
     DeleteTestRunByID  |-> <<"DELETE", "/td/testruns/{id}">>,
     GetEvents          |-> <<"GET", "/td/events">>,
     GetTestPlanByID    |-> <<"GET", "/td/testplans/{id}">>,
     GetTestPlans       |-> <<"GET", "/td/testplans">>,
     GetTestRunByID     |-> <<"GET", "/td/testruns/{id}">>,
     GetTestRuns        |-> <<"GET", "/td/testRuns">>,
     PutTestPlanByID    |-> <<"PUT", "/td/testplans/{id}">>,
     PutTestRunByID     |-> <<"PUT", "/td/testruns/{id}">>]

WMClientRoutes ==
    [DeleteWorkloadByRegistrant  |-> <<"DELETE", "/wm/registrants/{rid}/workloads/{wid}">>,
     DeleteWorkloadsByRegistrant |-> <<"DELETE", "/wm/registrants/{rid}">>,
     GetWorkloadByRegistrant     |-> <<"GET", "/wm/registrants/{rid}/workloads/{wid}">>,
     GetWorkloadsByRegistrant    |-> <<"GET", "/wm/registrants/{rid}">>,
     GetWorkloads                |-> <<"GET", "/wm/workloads">>,
     PutWorkloadByRegistrant     |-> <<"PUT", "/wm/registrants/{rid}/workloads/{wid}">>]

ClientRoutes ==
    [op \in DOMAIN TDClientRoutes \cup DOMAIN WMClientRoutes |->
        IF op \in DOMAIN TDClientRoutes THEN TDClientRoutes[op] ELSE WMClientRoutes[op]]

\* initHandlerCache enters every operation once, so that the cache is given here
\* by operation.
TDHandlers ==
    [AddEvent           |-> <<"POST", "/td/events">>,
     DeleteTestPlanByID |-> <<"DELETE", "/td/testplans/{id}">>,
     DeleteTestPlans    |-> <<"DELETE", "/td/testplans">>,
     DeleteTestRunByID  |-> <<"DELETE", "/td/testruns/{id}">>,
     GetEvents          |-> <<"GET", "/td/events">>,
     GetTestPlanByID    |-> <<"GET", "/td/testplans/{id}">>,
     GetTestPlans       |-> <<"GET", "/td/testplans">>,
     GetTestRunByID     |-> <<"GET", "/td/testruns/{id}">>,
     GetTestRuns        |-> <<"GET", "/td/testRuns">>,
     PutTestPlanByID    |-> <<"PUT", "/td/testplans/{id}">>,
     PutTestRunByID     |-> <<"PUT", "/td/testruns/{id}">>]

WMHandlers ==
    [DeleteWorkloadByRegistrant  |-> <<"DELETE", "/wm/registrants/{rid}/workloads/{wid}">>,
     DeleteWorkloadsByRegistrant |-> <<"DELETE", "/wm/registrants/{rid}">>,
     GetWorkloadByRegistrant     |-> <<"GET", "/wm/registrants/{rid}/workloads/{wid}">>,
     GetWorkloads                |-> <<"GET", "/wm/workloads">>,
     GetWorkloadsByRegistrant    |-> <<"GET", "/wm/registrants/{rid}">>,
     PutWorkloadByRegistrant     |-> <<"PUT", "/wm/registrants/{rid}/workloads/{wid}">>]

----------------------------------------------------------------------------
(* What the handlers answer: the responder they choose (of an operation,   *)
(* by name) and its payload, the set of items in it.  An item of a list    *)
(* stands for the plans, events or workloads a query could select by it.   *)
(* The stores behind the handlers are modelled by TestDirector and         *)
(* WorkloadMonitor; here they may be empty or hold every item.             *)

Answer(op, name, payload) == [responder |-> op, name |-> name, payload |-> payload]

Panic == Answer(None, "panic", None)

Plans == {"default", "other"}

\* PutTestPlanByID calls err.Error() on a nil err when the Jira issue is not
\* a test plan.
TestPlanAnswers(op) ==
    CASE op = "GetTestPlans"       -> {Answer(op, "NotFound", None), Answer(op, "OK", Plans)}
      [] op = "GetTestPlanByID"    -> {Answer(op, "NotFound", None), Answer(op, "OK", {"plan"})}
      [] op = "DeleteTestPlanByID" -> {Answer(op, "NotFound", None), Answer(op, "OK", None)}
      [] op = "DeleteTestPlans"    -> {Answer(op, "OK", {"outcome"})}
      [] op = "PutTestPlanByID"    -> {Answer(op, "BadRequest", {"outcome"}), Answer(op, "OK", {"plan"}),
                                       Panic}

TestRunAnswers(op) ==
    CASE op = "GetTestRuns"       -> {Answer(op, "NotFound", None), Answer(op, "OK", {"run"})}
      [] op = "GetTestRunByID"    -> {Answer(op, "NotFound", None), Answer(op, "OK", {"run"})}
      [] op = "DeleteTestRunByID" -> {Answer(op, "NotFound", None), Answer(op, "OK", None)}
      [] op = "PutTestRunByID"    -> {Answer(op, "BadRequest", {"outcome"}), Answer(op, "OK", {"run"})}

\* A refused event is answered with the responder of another operation.
EventAnswers(op) ==
    CASE op = "GetEvents" -> {Answer(op, "NotFound", None), Answer(op, "OK", EventClassEnum)}
      [] op = "AddEvent"  -> {Answer("PutTestPlanByID", "BadRequest", {"outcome"}), Answer(op, "OK", {"event"})}

WorkloadAnswers(op, bound) ==
    CASE op = "PutWorkloadByRegistrant" ->
             {Answer(op, "BadRequest", {"outcome"})}
             \cup (IF bound.body = None THEN {} ELSE {Answer(op, "OK", {"workload"})})
      [] op \in {"GetWorkloadByRegistrant", "DeleteWorkloadByRegistrant"} ->
             {Answer(op, "NotFound", None), Answer(op, "OK", {"workload"})}
      [] op = "GetWorkloadsByRegistrant" -> {Answer(op, "OK", {}), Answer(op, "OK", {bound.params.rid})}
      [] op = "GetWorkloads" -> {Answer(op, "OK", {}), Answer(op, "OK", UUID)}
      [] op = "DeleteWorkloadsByRegistrant" -> {Answer(op, "OK", {"outcome"})}

\* What an answer carries, which nil is not one of.
Items == Plans \cup EventClassEnum \cup UUID \cup {"plan", "run", "event", "workload", "outcome"}
Payloads == (SUBSET Items) \cup {None}

ASSUME NilIsNoAnswer ==
    None \notin [responder : DOMAIN ClientParams, name : {"OK", "BadRequest", "NotFound"}, payload : Payloads]

\* configureAPI: the operations that get a handler.  An operation that is
\* left without one answers NotImplemented.
TDConfigureAPI ==
    {"GetTestPlans", "GetTestPlanByID", "DeleteTestPlanByID", "DeleteTestPlans", "PutTestPlanByID",
     "GetTestRuns", "GetTestRunByID", "DeleteTestRunByID", "PutTestRunByID", "AddEvent", "GetEvents"}

WMConfigureAPI ==
    {"DeleteWorkloadByRegistrant", "DeleteWorkloadsByRegistrant", "GetWorkloadByRegistrant",
     "GetWorkloadsByRegistrant", "GetWorkloads", "PutWorkloadByRegistrant"}

HandlerAnswers(op, bound) ==
    CASE op \notin TDConfigureAPI \cup WMConfigureAPI -> {Answer(op, "NotImplemented", None)}
      [] op \in {"GetEvents", "AddEvent"} -> EventAnswers(op)
      [] op \in {"GetTestRuns", "GetTestRunByID", "DeleteTestRunByID", "PutTestRunByID"} -> TestRunAnswers(op)
      [] op \in WMConfigureAPI -> WorkloadAnswers(op, bound)
      [] OTHER -> TestPlanAnswers(op)

\* The status of a request that BindRequest refuses, and of an unknown route.
UnprocessableEntity == 422
NotFoundCode == 404

NotImplementedCode == 501

\* What the handler's answer becomes on the wire.
WriteResponse(a) ==
    [code    |-> IF a.name = "NotImplemented" THEN NotImplementedCode ELSE ServerResponders[a.responder][a.name],
     payload |-> a.payload]

\* A request that no handler sees.
Refused(code) == [bound |-> None, answer |-> None, reply |-> [code |-> code, payload |-> None]]

\* ServeHTTP of an operation: what the request binds, or 422, and what the
\* handler may answer.  A panic leaves no response.
Handled(op, w) ==
    IF BindRequest(op, w) # {} THEN {Refused(UnprocessableEntity)}
    ELSE {[bound |-> Bound(op, w), answer |-> a, reply |-> IF a = Panic THEN None ELSE WriteResponse(a)]
             : a \in HandlerAnswers(op, Bound(op, w))}

\* The router finds the operation of a request, or answers 404.
Served(handlers, req) ==
    LET routed == {op \in DOMAIN handlers : handlers[op] = ClientRoutes[req.op]}
    IN IF routed = {} THEN {Refused(NotFoundCode)}
       ELSE UNION {Handled(op, WriteToRequest(req)) : op \in routed}

=============================================================================
