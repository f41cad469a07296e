--------------------------- MODULE WorkloadMonitor ---------------------------
(***************************************************************************)
(* The workload monitor of the extended test framework.                    *)
(*                                                                         *)
(* REST handlers (one goroutine per request) register and withdraw pods    *)
(* ("workloads") on behalf of a registrant; a polling goroutine locks the  *)
(* list, looks every registered pod up in Kubernetes and sends a FAIL      *)
(* event to the test director for each violation it sees; a third          *)
(* goroutine waits for a signal and ends the process.                      *)
(*                                                                         *)
(* Kubernetes is the environment: pods restart, finish, fail and go away   *)
(* at any time while the monitor runs, and a list call may fail.  A call   *)
(* to the test director may succeed, be lost, or be processed with its     *)
(* answer lost.                                                            *)
(***************************************************************************)
EXTENDS Naturals, Sequences

CONSTANTS
    Rids,           \* registrants: metadata.uid of test-conductor pods
    Wids,           \* workloads: metadata.uid of pods
    Handlers,       \* goroutines serving REST requests
    ViolationLists, \* the violation lists a PUT may carry
    MaxRestarts     \* bound: container restarts of one pod

Violations == {"RESTARTED", "TERMINATED", "NOT_PRESENT"}

ASSUME ConstantsAssumption ==
    /\ ViolationLists \subseteq Seq(Violations)
    /\ MaxRestarts \in Nat

VARIABLES
    pods,       \* Kubernetes: phase and restart count of every pod
    workloads,  \* gWorkloadList.WorkloadMap, flattened to its items
    mu,         \* gWorkloadList.mu: is it held?
    monitor,    \* the polling goroutine
    handler,    \* the request each handler goroutine is serving
    process,    \* the signal handler and the life of the process
    view,       \* history: what each registrant was last told of a workload
    reported    \* history: events the director got since the registration

vars == <<pods, workloads, mu, monitor, handler, process, view, reported>>

Keys == Rids \X Wids
Phases == {"Running", "Succeeded", "Failed", "Gone"}
Item == [rid: Rids, wid: Wids, violations: ViolationLists,
         restarts: 0..MaxRestarts]
Key(item) == <<item.rid, item.wid>>

\* The failure event a violation leads to; n is the restart count it carries.
Event == [kind: Violations, n: 0..MaxRestarts]
Terminal(e) == e.kind \in {"TERMINATED", "NOT_PRESENT"}

Idle == [op |-> "none"]
KeyRequest == [op: {"delete"}, rid: Rids, wid: Wids]
AllRequest == [op: {"delete_all"}, rid: Rids]
PutRequest == [op: {"put_lookup", "put_add"}, rid: Rids, wid: Wids,
               violations: ViolationLists]
Request == {Idle} \cup KeyRequest \cup AllRequest \cup PutRequest

\* pc is "sleep" outside a pass, "iterate" between two violations of the
\* list, "send" when an event is about to be sent.
Monitor == [pc: {"sleep", "iterate", "send"}, todo: SUBSET Item,
            item: SUBSET Item, violations: Seq(Violations),
            event: SUBSET Event]
Asleep == [pc |-> "sleep", todo |-> {}, item |-> {}, violations |-> <<>>,
           event |-> {}]

TypeOK ==
    /\ pods \in [Wids -> [phase: Phases, restarts: 0..MaxRestarts]]
    /\ workloads \subseteq Item
    /\ mu \in BOOLEAN
    /\ monitor \in Monitor
    /\ handler \in [Handlers -> Request]
    /\ process \in [up: BOOLEAN, exitCode: {0, 1},
                    guardSent: BOOLEAN]
    /\ view \in [Keys -> {"never", "registered", "withdrawn"}]
    /\ reported \in [Keys -> SUBSET Event]

Init ==
    /\ pods \in [Wids -> [phase: {"Running"}, restarts: {0}]]
    /\ workloads = {}
    /\ mu = FALSE
    /\ monitor = Asleep
    /\ handler = [h \in Handlers |-> Idle]
    /\ process = [up |-> TRUE, exitCode |-> 0, guardSent |-> FALSE]
    /\ view = [k \in Keys |-> "never"]
    /\ reported = [k \in Keys |-> {}]

-----------------------------------------------------------------------------
(* Kubernetes                                                              *)

\* A pod's containers restart while it runs; it completes or fails; it goes
\* away from any phase and, its uid being unique, never comes back.
PodChanges(w) ==
    /\ process.up
    /\ \/ /\ pods[w].phase = "Running"
          /\ pods[w].restarts < MaxRestarts
          /\ pods' = [pods EXCEPT ![w].restarts = @ + 1]
       \/ /\ pods[w].phase = "Running"
          /\ \E p \in {"Succeeded", "Failed"}:
                pods' = [pods EXCEPT ![w].phase = p]
       \/ /\ pods[w].phase # "Gone"
          /\ pods' = [pods EXCEPT ![w].phase = "Gone"]
    /\ UNCHANGED <<workloads, mu, monitor, handler, process, view, reported>>

\* GetPodByUuid: "present" is also FALSE when the list call fails.
PresentResults(w) == {pods[w].phase # "Gone", FALSE}

-----------------------------------------------------------------------------
(* The workload list.  The callers hold the lock.                          *)

AddToWorkloadList(r, w, vs) ==
    workloads' = {i \in workloads : Key(i) # <<r, w>>} \cup
                 {[rid |-> r, wid |-> w, violations |-> vs, restarts |-> 0]}

SetWorkloadListItemRestarts(r, w, n) ==
    workloads' = {IF Key(i) = <<r, w>> THEN [i EXCEPT !.restarts = n] ELSE i
                    : i \in workloads}

DeleteWorkload(r, w) == workloads' = {i \in workloads : Key(i) # <<r, w>>}

DeleteWorkloads(r) == workloads' = {i \in workloads : i.rid # r}

\* Every registrant's item for that pod, not only the reported one's.
DeleteWorkloadById(item) == workloads' = {i \in workloads : i.wid # item.wid}

-----------------------------------------------------------------------------
(* REST handlers                                                           *)

Receive(h) ==
    /\ process.up
    /\ handler[h] = Idle
    /\ \E r \in Rids, w \in Wids, vs \in ViolationLists:
          \E req \in {[op |-> "put_lookup", rid |-> r, wid |-> w,
                       violations |-> vs],
                      [op |-> "delete", rid |-> r, wid |-> w],
                      [op |-> "delete_all", rid |-> r]}:
             handler' = [handler EXCEPT ![h] = req]
    /\ UNCHANGED <<pods, workloads, mu, monitor, process, view, reported>>

\* The pod's name is looked up before the lock is taken; a pod that is not
\* found, or a failed call, refuses the request.
PutLookup(h) ==
    /\ process.up
    /\ handler[h].op = "put_lookup"
    /\ \E present \in PresentResults(handler[h].wid):
          handler' = [handler EXCEPT
                        ![h] = IF present THEN [@ EXCEPT !.op = "put_add"]
                                          ELSE Idle]
    /\ UNCHANGED <<pods, workloads, mu, monitor, process, view, reported>>

\* Lock, AddToWorkloadList, Unlock.
PutAdd(h) ==
    LET req == handler[h] IN
    /\ process.up
    /\ req.op = "put_add"
    /\ ~mu
    /\ AddToWorkloadList(req.rid, req.wid, req.violations)
    /\ handler' = [handler EXCEPT ![h] = Idle]
    /\ view' = [view EXCEPT ![<<req.rid, req.wid>>] = "registered"]
    /\ reported' = [reported EXCEPT ![<<req.rid, req.wid>>] = {}]
    /\ UNCHANGED <<pods, mu, monitor, process>>

\* Lock, GetWorkload, DeleteWorkload, Unlock.  Whether the item was found or
\* not, the registrant now knows the workload to be unregistered.
DeleteWorkloadByRegistrant(h) ==
    LET req == handler[h] IN
    /\ process.up
    /\ req.op = "delete"
    /\ ~mu
    /\ DeleteWorkload(req.rid, req.wid)
    /\ handler' = [handler EXCEPT ![h] = Idle]
    /\ view' = [view EXCEPT ![<<req.rid, req.wid>>] = "withdrawn"]
    /\ UNCHANGED <<pods, mu, monitor, process, reported>>

DeleteWorkloadsByRegistrant(h) ==
    LET req == handler[h] IN
    /\ process.up
    /\ req.op = "delete_all"
    /\ ~mu
    /\ DeleteWorkloads(req.rid)
    /\ handler' = [handler EXCEPT ![h] = Idle]
    /\ view' = [k \in Keys |-> IF k[1] = req.rid THEN "withdrawn" ELSE view[k]]
    /\ UNCHANGED <<pods, mu, monitor, process, reported>>

-----------------------------------------------------------------------------
(* StartMonitor: one pass over the list, the lock held throughout          *)

\* Mutant: lock, copy the list, unlock, then iterate.
MutStartPassCopies ==
    /\ process.up
    /\ monitor.pc = "sleep"
    /\ ~mu
    /\ mu' = FALSE
    /\ monitor' = [Asleep EXCEPT !.pc = "iterate", !.todo = workloads]
    /\ UNCHANGED <<pods, workloads, handler, process, view, reported>>

StartPass ==
    /\ process.up
    /\ monitor.pc = "sleep"
    /\ ~mu
    /\ mu' = TRUE
    /\ monitor' = [Asleep EXCEPT !.pc = "iterate", !.todo = workloads]
    /\ UNCHANGED <<pods, workloads, handler, process, view, reported>>

\* The next item of the snapshot: Go iterates a map in any order.
NextItem ==
    /\ process.up
    /\ monitor.pc = "iterate"
    /\ monitor.violations = <<>>
    /\ \E i \in monitor.todo:
          monitor' = [monitor EXCEPT !.todo = @ \ {i}, !.item = {i},
                                     !.violations = i.violations]
    /\ UNCHANGED <<pods, workloads, mu, handler, process, view, reported>>

\* Mutant: any phase but Running counts as terminated.
MutObservedAnyPhase(item, v, present) ==
    {e \in {[kind |-> v, n |-> 0]} :
        \/ v = "TERMINATED" /\ present /\ pods[item.wid].phase # "Running"
        \/ v = "NOT_PRESENT" /\ ~present}

\* Mutant: the case of an absent pod is missing from the switch.
MutObservedNoAbsent(item, v, present) ==
    {e \in {[kind |-> v, n |-> 0]} :
        v = "TERMINATED" /\ present /\ pods[item.wid].phase = "Failed"}

\* What the pod, as Kubernetes describes it, means for a violation.
Observed(item, v, present) ==
    LET pod == pods[item.wid]
        E(n) == [kind |-> v, n |-> n]
    IN  {e \in {E(pod.restarts)} : /\ v = "RESTARTED"
                                   /\ present
                                   /\ pod.restarts # item.restarts}
        \cup {e \in {E(0)} : \/ /\ v = "TERMINATED"
                                /\ present
                                /\ pod.phase = "Failed"
                             \/ v = "NOT_PRESENT" /\ ~present}

\* One case of the switch on the violation, up to the call of SendEventFail.
CheckViolation ==
    /\ process.up
    /\ monitor.pc = "iterate"
    /\ monitor.violations # <<>>
    /\ \E item \in monitor.item:
          \E present \in PresentResults(item.wid):
             LET ev == Observed(item, Head(monitor.violations), present) IN
             monitor' = [monitor EXCEPT
                            !.pc = IF ev = {} THEN "iterate" ELSE "send",
                            !.violations = Tail(@),
                            !.event = ev]
    /\ UNCHANGED <<pods, workloads, mu, handler, process, view, reported>>

\* Mutant: the workload is dropped whether the event was sent or not.
MutAfterSendAlwaysDrops(item, e, ok) ==
    IF e.kind = "RESTARTED"
    THEN SetWorkloadListItemRestarts(item.rid, item.wid, e.n)
    ELSE DeleteWorkloadById(item)

\* What follows the call: a restart count is recorded whether the event was
\* sent or not, a terminated or absent pod is dropped once it was.
AfterSend(item, e, ok) ==
    IF e.kind = "RESTARTED"
    THEN SetWorkloadListItemRestarts(item.rid, item.wid, e.n)
    ELSE IF ok THEN DeleteWorkloadById(item) ELSE UNCHANGED workloads

Send(delivered, ok) ==
    /\ process.up
    /\ monitor.pc = "send"
    /\ \E item \in monitor.item, e \in monitor.event:
          /\ AfterSend(item, e, ok)
          /\ reported' = [reported EXCEPT
                            ![Key(item)] = IF delivered THEN @ \cup {e} ELSE @]
    /\ monitor' = [monitor EXCEPT !.pc = "iterate", !.event = {}]
    /\ UNCHANGED <<pods, mu, handler, process, view>>

SendOk == Send(TRUE, TRUE)
SendLost == Send(FALSE, FALSE)
SendUnanswered == Send(TRUE, FALSE)

\* Mutant: the lock is not released at the end of the pass.
MutEndPassKeepsLock ==
    /\ process.up
    /\ monitor.pc = "iterate"
    /\ monitor.violations = <<>>
    /\ monitor.todo = {}
    /\ monitor' = Asleep
    /\ UNCHANGED <<pods, workloads, mu, handler, process, view, reported>>

EndPass ==
    /\ process.up
    /\ monitor.pc = "iterate"
    /\ monitor.violations = <<>>
    /\ monitor.todo = {}
    /\ mu' = FALSE
    /\ monitor' = Asleep
    /\ UNCHANGED <<pods, workloads, handler, process, view, reported>>

-----------------------------------------------------------------------------
(* Signals                                                                 *)

\* current_registrant is never assigned: there is no registrant to name.
CurrentRegistrant == {}

\* InstallSignalHandler's goroutine maps the signal to a code, WaitSignal
\* receives it and main returns.  For an abnormal signal WaitSignal first
\* sends an event for *current_registrant; the nil pointer panics instead.
WaitSignal ==
    /\ process.up
    /\ \E exitCode \in {0, 1}:
          process' = [up |-> FALSE, exitCode |-> exitCode,
                      guardSent |-> exitCode # 0 /\ CurrentRegistrant # {}]
    /\ UNCHANGED <<pods, workloads, mu, monitor, handler, view, reported>>

-----------------------------------------------------------------------------
HandlerStep(h) ==
    \/ PutLookup(h)
    \/ PutAdd(h)
    \/ DeleteWorkloadByRegistrant(h)
    \/ DeleteWorkloadsByRegistrant(h)

MonitorStep ==
    \/ StartPass
    \/ NextItem
    \/ CheckViolation
    \/ SendOk
    \/ SendLost
    \/ SendUnanswered
    \/ EndPass

Next ==
    \/ \E w \in Wids: PodChanges(w)
    \/ \E h \in Handlers: Receive(h) \/ HandlerStep(h)
    \/ MonitorStep
    \/ WaitSignal

Spec == Init /\ [][Next]_vars

\* The goroutines are scheduled; sync.Mutex hands the lock to a waiter after
\* 1 ms of starvation; the test director answers again and again, whichever
\* pod the event is about.
Fairness ==
    /\ WF_vars(MonitorStep)
    /\ SF_vars(StartPass)
    /\ \A w \in Wids: SF_vars(SendOk /\ \E i \in monitor.item: i.wid = w)
    /\ \A h \in Handlers: SF_vars(HandlerStep(h))

FairSpec == Spec /\ Fairness

-----------------------------------------------------------------------------
(* Properties                                                              *)

Registered(k) == \E i \in workloads: Key(i) = k

ReportsOnlyRegistered ==
    \A k \in Keys: reported'[k] \subseteq reported[k] \/ view[k] = "registered"

\* StartMonitor keeps the list locked while it iterates, so that no event is
\* sent about a workload its registrant has already withdrawn: whenever the
\* director receives an event, the registrant's last word was a registration.
NoReportAfterWithdrawal == [][ReportsOnlyRegistered]_vars

EventHolds(e, w) ==
    /\ e.kind = "RESTARTED" => pods[w].restarts >= e.n
    /\ e.kind = "TERMINATED" => pods[w].phase \in {"Failed", "Gone"}

\* The events tell the truth although the pod is looked up in one step and
\* the event sent in another: a restart count was reached, and a pod
\* reported terminated did fail (StartMonitor, cases RESTARTED, TERMINATED).
ReportsAreTrue ==
    \A k \in Keys: \A e \in reported[k]: EventHolds(e, k[2])

\* The monitor stops watching a workload by itself only when the director
\* has been told that the pod terminated or is absent: after a pass, no
\* registration has been dropped silently (StartMonitor, DeleteWorkloadById).
NoSilentRemoval ==
    \A k \in Keys: view[k] = "registered" /\ monitor.pc = "sleep" =>
        Registered(k) \/ \E e \in reported[k]: Terminal(e)

\* A registered pod that goes away is reported, or withdrawn, in the end, as
\* long as the monitor lives (StartMonitor polls for ever and retries).
AbsenceIsReported ==
    \A k \in Keys:
        (Registered(k) /\ pods[k[2]].phase = "Gone")
            ~> (~Registered(k) \/ ~process.up)

\* A REST call is never blocked for ever by the lock the monitor holds while
\* it talks to Kubernetes and to the director.
RequestsAreServed ==
    \A h \in Handlers: (handler[h] # Idle) ~> (handler[h] = Idle \/ ~process.up)
=============================================================================
