---------------------------- MODULE RestService ----------------------------
(***************************************************************************)
(* A REST service of the framework from start to exit, with calls under    *)
(* way: the goroutines of the generated server (Serve, one http.Server per *)
(* scheme, handleInterrupt, handleShutdown and the drains it starts), the  *)
(* process around it, and clients whose requests go through the conversions*)
(* of RestInterface.  The test director's main waits for Serve; the        *)
(* workload monitor's main waits for a signal of its own.                  *)
(***************************************************************************)
EXTENDS RestInterface, Sequences

CONSTANTS
    Calls,        \* client calls, one request each
    Inputs,       \* Inputs[c]: the requests call c may make, and over which scheme
    Schemes,      \* the enabled listeners
    Mains,        \* which mains to check: "director", "monitor"
    MaxSignals    \* bound on the signals sent to the process

ASSUME SchemesKnown == Schemes \subseteq {"unix", "http", "https"} /\ Schemes # {}
ASSUME MainsKnown == Mains \subseteq {"director", "monitor"}

\* A request sets the fields of its operation's Params: the path parameters are
\* strings, the others and the body may be nil, and there is no body where the
\* operation has none.
ASSUME RequestsKnown ==
    \A c \in Calls : \A i \in Inputs[c] :
        /\ i.req.op \in DOMAIN ClientParams
        /\ DOMAIN i.req.params = ClientParams[i.req.op].path \cup ClientParams[i.req.op].query
        /\ \A n \in ClientParams[i.req.op].path : i.req.params[n] # None
        /\ ClientParams[i.req.op].body \/ i.req.body = None

VARIABLES
    main,       \* which main the process runs
    serve,      \* program counter of Serve
    lst,        \* state of each scheme's listener
    sg,         \* the goroutine that serves each scheme
    interrupt,  \* signals in the channel of capacity one
    signals,    \* signals sent so far
    interrupted, shuttingDown,
    closes,     \* how often the shutdown channel was closed
    hs,         \* program counter of handleShutdown
    success,    \* its local: every drain so far succeeded
    received,   \* drains handleShutdown has gone past
    drain,      \* the goroutine that shuts each http.Server down
    deadline,   \* GracefulTimeout has passed
    listenErr,  \* schemes whose listener failed to close
    hook,       \* ServerShutdown has run
    process,    \* "running" or "exited"
    call        \* the client calls

server == <<main, serve, lst, sg, interrupt, signals, interrupted, shuttingDown, closes, hs, success, received,
            drain, deadline, listenErr, hook, process>>
vars == <<server, call>>

NoCall == [st |-> "idle", conn |-> "none", scheme |-> None, req |-> None, bound |-> None, answer |-> None,
           reply |-> None, result |-> None]

Transport(name) == [kind |-> "error", name |-> name, payload |-> None]

Init ==
    /\ main \in Mains
    /\ serve = "listen"
    /\ lst = [s \in Schemes |-> "none"]
    /\ sg = [s \in Schemes |-> "off"]
    /\ interrupt = 0 /\ signals = 0
    /\ interrupted = FALSE /\ shuttingDown = FALSE /\ closes = 0
    /\ hs = "off" /\ success = TRUE /\ received = 0
    /\ drain = [s \in Schemes |-> "off"]
    /\ deadline = FALSE /\ listenErr = {} /\ hook = FALSE
    /\ process = "running"
    /\ call = [c \in Calls |-> NoCall]

----------------------------------------------------------------------------
(* The process ends: listeners and connections go with it.                 *)

Cut(cs) ==
    [c \in Calls |-> [cs[c] EXCEPT !.conn = IF @ = "active" THEN "closed" ELSE @]]

Exit ==
    /\ process' = "exited"
    /\ lst' = [s \in Schemes |-> "closed"]
    /\ call' = Cut(call)

(* Serve *)

Order == <<"unix", "http", "https">>

\* Listen opens the listeners in turn; the first one that fails ends Serve
\* with an error, which main turns into an exit.
Listen ==
    /\ process = "running" /\ serve = "listen"
    /\ \/ /\ lst' = [s \in Schemes |-> "open"]
          /\ serve' = "start"
          /\ UNCHANGED <<main, sg, interrupt, signals, interrupted, shuttingDown, closes, hs, success, received,
                         drain, deadline, listenErr, hook, process, call>>
       \/ /\ serve' = "failed"
          /\ Exit
          /\ UNCHANGED <<main, sg, interrupt, signals, interrupted, shuttingDown, closes, hs, success, received,
                         drain, deadline, listenErr, hook>>

NotStarted == {s \in Schemes : sg[s] = "off"}

IsNext(s) == \A r \in NotStarted : \E i, j \in 1..3 : Order[i] = s /\ Order[j] = r /\ i <= j

\* One server after the other gets its goroutine.  The https server returns
\* or exits when its certificates cannot be had.
StartServer(s) ==
    /\ process = "running" /\ serve = "start" /\ s \in NotStarted /\ IsNext(s)
    /\ \/ /\ sg' = [sg EXCEPT ![s] = "serving"]
          /\ UNCHANGED <<main, serve, lst, interrupt, signals, interrupted, shuttingDown, closes, hs, success,
                         received, drain, deadline, listenErr, hook, process, call>>
       \/ /\ s = "https"
          /\ serve' = "failed"
          /\ Exit
          /\ UNCHANGED <<main, sg, interrupt, signals, interrupted, shuttingDown, closes, hs, success, received,
                         drain, deadline, listenErr, hook>>

\* The last thing Serve starts is handleShutdown; then it waits for the group.
StartShutdownHandler ==
    /\ process = "running" /\ serve = "start" /\ NotStarted = {}
    /\ serve' = "wait" /\ hs' = "wait"
    /\ UNCHANGED <<main, lst, sg, interrupt, signals, interrupted, shuttingDown, closes, success, received, drain,
                   deadline, listenErr, hook, process, call>>

ServeReturns ==
    /\ process = "running" /\ serve = "wait"
    /\ hs = "done" /\ \A s \in Schemes : sg[s] = "stopped"
    /\ serve' = "returned"
    /\ UNCHANGED <<main, lst, sg, interrupt, signals, interrupted, shuttingDown, closes, hs, success, received,
                   drain, deadline, listenErr, hook, process, call>>

\* http.Server.Serve fails for a reason other than a shutdown: Fatalf.
ServeError(s) ==
    /\ process = "running" /\ sg[s] = "serving" /\ lst[s] = "open"
    /\ Exit
    /\ UNCHANGED <<main, serve, sg, interrupt, signals, interrupted, shuttingDown, closes, hs, success, received,
                   drain, deadline, listenErr, hook>>

----------------------------------------------------------------------------
(* Signals and Shutdown.                                                   *)

\* A signal before Serve has called signalNotify has its default effect.  One
\* that finds the channel full is dropped.
Signal ==
    /\ process = "running" /\ signals < MaxSignals
    /\ signals' = signals + 1
    /\ \/ /\ serve = "listen" /\ main = "director"
          /\ Exit
          /\ UNCHANGED <<interrupt>>
       \/ /\ serve # "listen" \/ main = "monitor"
          /\ interrupt' = IF serve = "listen" THEN interrupt ELSE 1
          /\ UNCHANGED <<process, lst, call>>
    /\ UNCHANGED <<main, serve, sg, interrupted, shuttingDown, closes, hs, success, received, drain, deadline,
                   listenErr, hook>>

Shutdown ==
    /\ shuttingDown' = TRUE
    /\ closes' = IF shuttingDown THEN closes ELSE closes + 1

HandleInterrupt ==
    /\ process = "running" /\ interrupt = 1
    /\ interrupt' = 0
    /\ interrupted' = TRUE
    /\ IF interrupted THEN UNCHANGED <<shuttingDown, closes>> ELSE Shutdown
    /\ UNCHANGED <<main, serve, lst, sg, signals, hs, success, received, drain, deadline, listenErr, hook, process,
                   call>>

\* The deferred Shutdown of the director's main, after Serve has returned.
DirectorMainReturns ==
    /\ process = "running" /\ main = "director" /\ serve = "returned"
    /\ Shutdown
    /\ Exit
    /\ UNCHANGED <<main, serve, sg, interrupt, signals, interrupted, hs, success, received, drain, deadline,
                   listenErr, hook>>

\* WaitSignal has a channel of its own, so the monitor's main returns on the
\* signal that also starts the shutdown of its server.
MonitorMainReturns ==
    /\ process = "running" /\ main = "monitor" /\ signals > 0
    /\ Exit
    /\ UNCHANGED <<main, serve, sg, interrupt, signals, interrupted, shuttingDown, closes, hs, success, received,
                   drain, deadline, listenErr, hook>>

----------------------------------------------------------------------------
(* handleShutdown.                                                         *)

StartDrains ==
    /\ process = "running" /\ hs = "wait" /\ closes > 0
    /\ hs' = "collect"
    /\ drain' = [s \in Schemes |-> "start"]
    /\ UNCHANGED <<main, serve, lst, sg, interrupt, signals, interrupted, shuttingDown, closes, success, received,
                   deadline, listenErr, hook, process, call>>

\* http.Server.Shutdown closes the listener first, which ends the goroutine
\* that serves it, and keeps an error of the closing for later.
CloseListener(s) ==
    /\ process = "running" /\ drain[s] = "start"
    /\ drain' = [drain EXCEPT ![s] = "draining"]
    /\ lst' = [lst EXCEPT ![s] = "closed"]
    /\ sg' = [sg EXCEPT ![s] = "stopped"]
    /\ \E failed \in {{}, {s}} : listenErr' = listenErr \cup failed
    /\ UNCHANGED <<main, serve, interrupt, signals, interrupted, shuttingDown, closes, hs, success, received,
                   deadline, hook, process, call>>

Active(s) == {c \in Calls : call[c].conn = "active" /\ call[c].scheme = s}

\* Mutant: the shutdown of a server has no deadline.
MutDrainedNoDeadline(s) ==
    /\ process = "running" /\ drain[s] = "draining" /\ Active(s) = {}
    /\ drain' = [drain EXCEPT ![s] = IF s \in listenErr THEN "failed" ELSE "ok"]
    /\ UNCHANGED <<main, serve, lst, sg, interrupt, signals, interrupted, shuttingDown, closes, hs, success,
                   received, deadline, listenErr, hook, process, call>>

\* It returns when no connection is active any more, or with the deadline.
Drained(s) ==
    /\ process = "running" /\ drain[s] = "draining"
    /\ \/ /\ Active(s) = {}
          /\ drain' = [drain EXCEPT ![s] = IF s \in listenErr THEN "failed" ELSE "ok"]
       \/ /\ Active(s) # {} /\ deadline
          /\ drain' = [drain EXCEPT ![s] = "failed"]
    /\ UNCHANGED <<main, serve, lst, sg, interrupt, signals, interrupted, shuttingDown, closes, hs, success,
                   received, deadline, listenErr, hook, process, call>>

Deadline ==
    /\ process = "running" /\ hs = "collect" /\ ~deadline
    /\ deadline' = TRUE
    /\ UNCHANGED <<main, serve, lst, sg, interrupt, signals, interrupted, shuttingDown, closes, hs, success,
                   received, drain, listenErr, hook, process, call>>

\* Mutant: the channel is read after a failure too, and the last answer counts.
MutCollectLast ==
    /\ process = "running" /\ hs = "collect" /\ received < Cardinality(Schemes)
    /\ \E s \in Schemes :
          /\ drain[s] \in {"ok", "failed"}
          /\ success' = (drain[s] = "ok")
          /\ drain' = [drain EXCEPT ![s] = "heard"]
    /\ received' = received + 1
    /\ UNCHANGED <<main, serve, lst, sg, interrupt, signals, interrupted, shuttingDown, closes, hs, deadline,
                   listenErr, hook, process, call>>

\* One round of the loop: success = success && <-shutdownChan.  The channel
\* is not read any more once success is false, and the drains that have not
\* been heard stay blocked on it.
Collect ==
    /\ process = "running" /\ hs = "collect" /\ received < Cardinality(Schemes)
    /\ \/ /\ success
          /\ \E s \in Schemes :
                /\ drain[s] \in {"ok", "failed"}
                /\ success' = (drain[s] = "ok")
                /\ drain' = [drain EXCEPT ![s] = "heard"]
       \/ ~success /\ UNCHANGED <<success, drain>>
    /\ received' = received + 1
    /\ UNCHANGED <<main, serve, lst, sg, interrupt, signals, interrupted, shuttingDown, closes, hs, deadline,
                   listenErr, hook, process, call>>

FinishShutdown ==
    /\ process = "running" /\ hs = "collect" /\ received = Cardinality(Schemes)
    /\ hook' = success
    /\ hs' = "done"
    /\ UNCHANGED <<main, serve, lst, sg, interrupt, signals, interrupted, shuttingDown, closes, success, received,
                   drain, deadline, listenErr, process, call>>

----------------------------------------------------------------------------
(* The calls.                                                              *)

Submit(c) ==
    /\ call[c].st = "idle"
    /\ \E i \in Inputs[c] :
          /\ i.req.op \in (IF main = "director" THEN DOMAIN TDClientRoutes ELSE DOMAIN WMClientRoutes)
          /\ call' = [call EXCEPT ![c].st = "sent", ![c].req = i.req, ![c].scheme = i.scheme]
    /\ UNCHANGED server

Accept(c) ==
    /\ process = "running" /\ call[c].st = "sent" /\ call[c].conn = "none"
    /\ lst[call[c].scheme] = "open" /\ sg[call[c].scheme] = "serving"
    /\ call' = [call EXCEPT ![c].conn = "active"]
    /\ UNCHANGED server

Handlers == IF main = "director" THEN TDHandlers ELSE WMHandlers

\* The connection's goroutine runs the handler and is then idle.
ServeHTTP(c) ==
    /\ process = "running" /\ call[c].conn = "active"
    /\ \E o \in Served(Handlers, call[c].req) :
          call' = [call EXCEPT ![c].conn = "closed", ![c].bound = o.bound, ![c].answer = o.answer,
                               ![c].reply = o.reply]
    /\ UNCHANGED server

\* The client reads the response there is.
Receive(c) ==
    /\ call[c].st = "sent" /\ call[c].reply # None
    /\ call' = [call EXCEPT ![c].st = "done", ![c].result = ReadResponse(call[c].req.op, call[c].reply)]
    /\ UNCHANGED server

\* There is no response: the connection is refused, reset or cut.
Broken(c) ==
    /\ call[c].st = "sent" /\ call[c].reply = None
    /\ \/ call[c].conn = "closed"
       \/ call[c].conn = "none" /\ lst[call[c].scheme] # "open"
    /\ call' = [call EXCEPT ![c].st = "done", ![c].conn = "closed", ![c].result = Transport("broken")]
    /\ UNCHANGED server

\* The request's timeout passes first; the server is not told.
TimeOut(c) ==
    /\ call[c].st = "sent"
    /\ call' = [call EXCEPT ![c].st = "done", ![c].conn = IF @ = "none" THEN "closed" ELSE @,
                            ![c].result = Transport("timeout")]
    /\ UNCHANGED server

----------------------------------------------------------------------------

ServerStep ==
    \/ Listen \/ StartShutdownHandler \/ ServeReturns
    \/ \E s \in Schemes : StartServer(s) \/ CloseListener(s) \/ Drained(s)
    \/ HandleInterrupt \/ DirectorMainReturns \/ MonitorMainReturns
    \/ StartDrains \/ Deadline \/ Collect \/ FinishShutdown

CallStep(c) == Accept(c) \/ ServeHTTP(c) \/ Receive(c) \/ Broken(c) \/ TimeOut(c)

Next ==
    \/ ServerStep
    \/ Signal
    \/ \E s \in Schemes : ServeError(s)
    \/ \E c \in Calls : Submit(c) \/ CallStep(c)

Spec == Init /\ [][Next]_vars

\* Goroutines that can run do, and timers expire.  Nothing bounds a handler,
\* which waits for Jira, Xray or the API server, so ServeHTTP is not fair.
Fairness ==
    /\ WF_vars(Listen) /\ WF_vars(StartShutdownHandler) /\ WF_vars(ServeReturns)
    /\ \A s \in Schemes : WF_vars(StartServer(s)) /\ WF_vars(CloseListener(s)) /\ WF_vars(Drained(s))
    /\ WF_vars(HandleInterrupt) /\ WF_vars(DirectorMainReturns) /\ WF_vars(MonitorMainReturns)
    /\ WF_vars(StartDrains) /\ WF_vars(Deadline) /\ WF_vars(Collect) /\ WF_vars(FinishShutdown)
    /\ \A c \in Calls : WF_vars(TimeOut(c))

FairSpec == Spec /\ Fairness

----------------------------------------------------------------------------
(* Properties.                                                             *)

ServeStates == {"listen", "start", "wait", "returned", "failed"}

\* The states of the goroutines are the ones the code has, and the channel of
\* signals holds at most one.
TypeOK ==
    /\ main \in {"director", "monitor"} /\ serve \in ServeStates
    /\ lst \in [Schemes -> {"none", "open", "closed"}] /\ sg \in [Schemes -> {"off", "serving", "stopped"}]
    /\ drain \in [Schemes -> {"off", "start", "draining", "ok", "failed", "heard"}]
    /\ interrupt \in 0..1 /\ closes \in 0..1 /\ received \in 0..Cardinality(Schemes)
    /\ listenErr \subseteq Schemes
    /\ \A c \in Calls : call[c].st \in {"idle", "sent", "done"} /\ call[c].conn \in {"none", "active", "closed"}

\* ServerShutdown runs only after every listener has closed and every accepted
\* request has been served, whatever the drains answered and in which order
\* (handleShutdown: "Wait until all listeners have successfully shut down").
HookAfterDrain ==
    hook => /\ listenErr = {}
            /\ \A s \in Schemes : lst[s] = "closed" /\ Active(s) = {}

\* Serve of the test director returns with a request under way only if the
\* graceful timeout passed or a listener failed to close: the calls accepted
\* before the signal are not cut by the exit that follows.
GracefulReturn ==
    main = "director" /\ serve = "returned" /\ ~deadline /\ listenErr = {}
        => \A s \in Schemes : Active(s) = {}

\* A shutdown is in order: drains, hook and return follow each other as
\* handleShutdown says.
ShutdownInOrder == TypeOK /\ HookAfterDrain /\ GracefulReturn

Transported(c) == call[c].result \notin {Transport("broken"), Transport("timeout")}

\* What a caller gets back is what the handler answered: its payload when the
\* answer was OK, the typed error of the same name otherwise, and an error
\* when no handler ran.  Client and server were generated separately, and the
\* responder of another operation is used for one of the answers.
AnswersReachTheCaller ==
    \A c \in Calls :
        call[c].st = "done" /\ Transported(c) =>
            LET a == call[c].answer
                r == call[c].result
            IN IF a = None THEN r.kind = "error"
               ELSE /\ r.name = a.name
                    /\ (r.kind = "result") <=> (a.name = "OK")
                    /\ r.payload = IF a.payload = None THEN "zero" ELSE a.payload

\* A handler receives what its caller set: every parameter that is set
\* arrives in the path or the query with its value, one that is not set has
\* no value but the documented default, and the body is the same.
BoundIsSent ==
    \A c \in Calls :
        call[c].bound # None =>
            LET set == {n \in DOMAIN call[c].req.params : call[c].req.params[n] # None}
                b   == call[c].bound
            IN /\ set \subseteq DOMAIN b.params
               /\ \A n \in set : b.params[n] = call[c].req.params[n]
               /\ \A n \in DOMAIN b.params \ set : n = "defaultPlanOnly" /\ b.params[n] = "false"
               /\ b.body = call[c].req.body

\* Requests and answers arrive as they were sent, through code that was
\* generated separately for either side.
CallsArriveIntact == BoundIsSent /\ AnswersReachTheCaller

\* A server that has taken its first signal comes to an end, whatever its
\* handlers and drains do.
InterruptedEnds == interrupted ~> process = "exited"

=============================================================================
