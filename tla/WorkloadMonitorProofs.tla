------------------------ MODULE WorkloadMonitorProofs ------------------------
(***************************************************************************)
(* The workload monitor for any number of registrants, pods, handlers and  *)
(* restarts.  The strengthening says what the lock protects: during a pass *)
(* the snapshot only holds workloads that are still registered.            *)
(***************************************************************************)
EXTENDS WorkloadMonitor, TLAPS

\* The polling goroutine holds the lock exactly during a pass.
LockHeldDuringPass == mu <=> monitor.pc # "sleep"

\* Every item of the list, and every item the pass still works on, stands
\* for a registration its registrant has not withdrawn.
OnlyRegisteredItems ==
    \A i \in workloads \cup monitor.todo \cup monitor.item:
        view[Key(i)] = "registered"

AsleepHoldsNothing ==
    monitor.pc = "sleep" => monitor.todo = {} /\ monitor.item = {}

LockInv ==
    /\ TypeOK
    /\ LockHeldDuringPass
    /\ AsleepHoldsNothing
    /\ OnlyRegisteredItems

-----------------------------------------------------------------------------
LEMMA AsleepType == Asleep \in Monitor
  BY DEF Asleep, Monitor

LEMMA KeyType == \A i \in Item: Key(i) \in Keys /\ Key(i)[1] = i.rid /\ Key(i)[2] = i.wid
  BY DEF Item, Key, Keys

LEMMA TypeInit == Init => TypeOK
  <1> SUFFICES ASSUME Init PROVE TypeOK
    OBVIOUS
  <1>1. pods \in [Wids -> [phase: Phases, restarts: 0..MaxRestarts]]
    BY ConstantsAssumption DEF Init, Phases
  <1> QED BY <1>1, AsleepType, Zenon DEF Init, TypeOK, Request

\* TypeOK: every action of the monitor keeps the list, the snapshot, the
\* requests and the histories within their types.
LEMMA TypeStep == TypeOK /\ [Next]_vars => TypeOK'
  <1> SUFFICES ASSUME TypeOK, [Next]_vars PROVE TypeOK'
    OBVIOUS
  <1> USE DEF TypeOK
  <1>1. ASSUME NEW w \in Wids, PodChanges(w) PROVE TypeOK'
    <2>1. pods' \in [Wids -> [phase: Phases, restarts: 0..MaxRestarts]]
      <3> DEFINE Pod == [phase: Phases, restarts: 0..MaxRestarts]
      <3>1. pods[w] \in Pod
        OBVIOUS
      <3>2. [pods[w] EXCEPT !.phase = "Succeeded"] \in Pod
        BY <3>1 DEF Phases
      <3>3. [pods[w] EXCEPT !.phase = "Failed"] \in Pod
        BY <3>1 DEF Phases
      <3>4. [pods[w] EXCEPT !.phase = "Gone"] \in Pod
        BY <3>1 DEF Phases
      <3>5. pods[w].restarts < MaxRestarts =>
               [pods[w] EXCEPT !.restarts = @ + 1] \in Pod
        <4>1. pods[w].restarts < MaxRestarts =>
                 pods[w].restarts + 1 \in 0..MaxRestarts
          BY <3>1, ConstantsAssumption
        <4> QED BY <3>1, <4>1
      <3> QED BY <1>1, <3>2, <3>3, <3>4, <3>5 DEF PodChanges
    <2> QED BY <1>1, <2>1 DEF PodChanges
  <1>2. ASSUME NEW h \in Handlers, Receive(h) PROVE TypeOK'
    <2>1. handler' \in [Handlers -> Request]
      BY <1>2 DEF Receive, Request, KeyRequest, AllRequest, PutRequest
    <2> QED BY <1>2, <2>1 DEF Receive
  <1>3. ASSUME NEW h \in Handlers, PutLookup(h) PROVE TypeOK'
    <2>1. handler[h] \in PutRequest
      BY <1>3 DEF PutLookup, Request, Idle, KeyRequest, AllRequest, PutRequest
    <2>2. [handler[h] EXCEPT !.op = "put_add"] \in Request
      BY <2>1 DEF Request, PutRequest
    <2>3. handler' \in [Handlers -> Request]
      BY <1>3, <2>2 DEF PutLookup, Request
    <2> QED BY <1>3, <2>3 DEF PutLookup
  <1>4. ASSUME NEW h \in Handlers, PutAdd(h) PROVE TypeOK'
    <2>1. handler[h] \in PutRequest
      BY <1>4 DEF PutAdd, Request, Idle, KeyRequest, AllRequest, PutRequest
    <2>2. [rid |-> handler[h].rid, wid |-> handler[h].wid,
           violations |-> handler[h].violations, restarts |-> 0] \in Item
      BY <2>1, ConstantsAssumption DEF PutRequest, Item
    <2>3. workloads' \subseteq Item
      BY <1>4, <2>2 DEF PutAdd, AddToWorkloadList
    <2>4. <<handler[h].rid, handler[h].wid>> \in Keys
      BY <2>1 DEF PutRequest, Keys
    <2> QED BY <1>4, <2>3, <2>4 DEF PutAdd, Request
  <1>5. ASSUME NEW h \in Handlers, DeleteWorkloadByRegistrant(h) PROVE TypeOK'
    BY <1>5, Zenon DEF DeleteWorkloadByRegistrant, DeleteWorkload, Request
  <1>6. ASSUME NEW h \in Handlers, DeleteWorkloadsByRegistrant(h) PROVE TypeOK'
    BY <1>6 DEF DeleteWorkloadsByRegistrant, DeleteWorkloads, Request
  <1>7. CASE StartPass
    <2>1. monitor' \in Monitor
      BY <1>7, AsleepType, Zenon DEF StartPass, Monitor
    <2> QED BY <1>7, <2>1 DEF StartPass
  <1>8. CASE NextItem
    <2>1. PICK i \in monitor.todo:
             monitor' = [monitor EXCEPT !.todo = @ \ {i}, !.item = {i},
                                        !.violations = i.violations]
      BY <1>8, Zenon DEF NextItem
    <2>2. i \in Item /\ i.violations \in Seq(Violations)
      BY ConstantsAssumption DEF Monitor, Item
    <2>3. monitor' \in Monitor
      BY <2>1, <2>2, Zenon DEF Monitor
    <2> QED BY <1>8, <2>3 DEF NextItem
  <1>9. CASE CheckViolation
    <2>1. PICK item \in monitor.item, present \in BOOLEAN:
             LET ev == Observed(item, Head(monitor.violations), present) IN
             monitor' = [monitor EXCEPT
                            !.pc = IF ev = {} THEN "iterate" ELSE "send",
                            !.violations = Tail(@),
                            !.event = ev]
      BY <1>9, Zenon DEF CheckViolation, PresentResults
    <2> DEFINE v == Head(monitor.violations)
    <2>2. v \in Violations /\ Tail(monitor.violations) \in Seq(Violations)
      BY <1>9 DEF CheckViolation, Monitor
    <2>3. item \in Item /\ pods[item.wid].restarts \in 0..MaxRestarts
      BY DEF Monitor, Item
    <2>4. Observed(item, v, present) \subseteq Event
      BY <2>2, <2>3, ConstantsAssumption DEF Observed, Event
    <2>5. monitor' \in Monitor
      BY <2>1, <2>2, <2>4, Zenon DEF Monitor
    <2> QED BY <1>9, <2>5 DEF CheckViolation
  <1>10. ASSUME NEW delivered \in BOOLEAN, NEW ok \in BOOLEAN,
                Send(delivered, ok)
         PROVE  TypeOK'
    <2>1. PICK item \in monitor.item, e \in monitor.event:
             /\ AfterSend(item, e, ok)
             /\ reported' = [reported EXCEPT
                   ![Key(item)] = IF delivered THEN @ \cup {e} ELSE @]
      BY <1>10, Zenon DEF Send
    <2>2. item \in Item /\ e \in Event
      BY DEF Monitor
    <2>3. workloads' \subseteq Item
      <3>1. CASE e.kind = "RESTARTED"
        <4>1. workloads' = {IF Key(i) = <<item.rid, item.wid>>
                            THEN [i EXCEPT !.restarts = e.n] ELSE i
                              : i \in workloads}
          BY <2>1, <3>1 DEF AfterSend, SetWorkloadListItemRestarts
        <4>2. \A i \in Item: [i EXCEPT !.restarts = e.n] \in Item
          BY <2>2 DEF Item, Event
        <4> QED BY <4>1, <4>2
      <3>2. CASE e.kind # "RESTARTED"
        BY <2>1, <3>2 DEF AfterSend, DeleteWorkloadById
      <3> QED BY <3>1, <3>2
    <2>4. reported' \in [Keys -> SUBSET Event]
      BY <2>1, <2>2, KeyType
    <2>5. monitor' \in Monitor
      BY <1>10, Zenon DEF Send, Monitor
    <2> QED BY <1>10, <2>3, <2>4, <2>5 DEF Send
  <1>11. CASE EndPass
    BY <1>11, AsleepType, Zenon DEF EndPass
  <1>12. CASE WaitSignal
    BY <1>12 DEF WaitSignal
  <1>13. CASE UNCHANGED vars
    BY <1>13 DEF vars
  <1> QED
    BY <1>1, <1>2, <1>3, <1>4, <1>5, <1>6, <1>7, <1>8, <1>9, <1>10, <1>11,
       <1>12, <1>13
       DEF Next, HandlerStep, MonitorStep, SendOk, SendLost, SendUnanswered

\* Type correctness of the workload monitor, for every value of the
\* constants: list, snapshot, requests and histories stay within their types.
THEOREM TypeCorrect == Spec => []TypeOK
  BY TypeInit, TypeStep, PTL DEF Spec

-----------------------------------------------------------------------------
LEMMA LockInit == Init => LockInv
  BY TypeInit DEF Init, LockInv, LockHeldDuringPass, AsleepHoldsNothing,
                  OnlyRegisteredItems, Asleep

\* The lock keeps handlers out of a pass; the handlers that run outside one
\* change the list and the registrants' view together.
LEMMA LockStep == LockInv /\ [Next]_vars => LockInv'
  <1> SUFFICES ASSUME LockInv, [Next]_vars PROVE LockInv'
    OBVIOUS
  <1>0. TypeOK'
    BY TypeStep DEF LockInv
  <1> USE DEF LockInv, LockHeldDuringPass, AsleepHoldsNothing,
              OnlyRegisteredItems
  <1>1. ASSUME NEW w \in Wids, PodChanges(w) PROVE LockInv'
    BY <1>0, <1>1 DEF PodChanges
  <1>2. ASSUME NEW h \in Handlers, Receive(h) \/ PutLookup(h) PROVE LockInv'
    BY <1>0, <1>2 DEF Receive, PutLookup
  <1>3. ASSUME NEW h \in Handlers, PutAdd(h) PROVE LockInv'
    <2> DEFINE r == handler[h].rid
               w == handler[h].wid
    <2>1. \A i \in workloads': Key(i) = <<r, w>> \/ i \in workloads
      BY <1>3 DEF PutAdd, AddToWorkloadList, Key
    <2>2. view' = [view EXCEPT ![<<r, w>>] = "registered"]
      BY <1>3 DEF PutAdd
    <2>3. \A i \in workloads': Key(i) \in Keys
      BY <1>0, KeyType DEF TypeOK
    <2>4. \A i \in workloads': view'[Key(i)] = "registered"
      BY <2>1, <2>2, <2>3 DEF TypeOK
    <2>5. monitor.todo = {} /\ monitor.item = {}
      BY <1>3 DEF PutAdd
    <2> QED BY <1>0, <1>3, <2>4, <2>5 DEF PutAdd
  <1>4. ASSUME NEW h \in Handlers, DeleteWorkloadByRegistrant(h)
        PROVE  LockInv'
    <2> DEFINE k == <<handler[h].rid, handler[h].wid>>
    <2>1. \A i \in workloads': i \in workloads /\ Key(i) # k
      BY <1>4 DEF DeleteWorkloadByRegistrant, DeleteWorkload
    <2>2. view' = [view EXCEPT ![k] = "withdrawn"]
      BY <1>4 DEF DeleteWorkloadByRegistrant
    <2>3. \A i \in workloads: Key(i) \in Keys
      BY KeyType DEF TypeOK
    <2>4. \A i \in workloads': view'[Key(i)] = "registered"
      BY <2>1, <2>2, <2>3 DEF TypeOK
    <2>5. monitor.todo = {} /\ monitor.item = {}
      BY <1>4 DEF DeleteWorkloadByRegistrant
    <2> QED BY <1>0, <1>4, <2>4, <2>5 DEF DeleteWorkloadByRegistrant
  <1>5. ASSUME NEW h \in Handlers, DeleteWorkloadsByRegistrant(h)
        PROVE  LockInv'
    <2>1. \A i \in workloads': i \in workloads /\ i.rid # handler[h].rid
      BY <1>5 DEF DeleteWorkloadsByRegistrant, DeleteWorkloads
    <2>2. \A i \in workloads: Key(i) \in Keys /\ Key(i)[1] = i.rid
      BY KeyType DEF TypeOK
    <2>3. view' = [k \in Keys |-> IF k[1] = handler[h].rid THEN "withdrawn"
                                                          ELSE view[k]]
      BY <1>5 DEF DeleteWorkloadsByRegistrant
    <2>4. \A i \in workloads': view'[Key(i)] = "registered"
      BY <2>1, <2>2, <2>3
    <2>5. monitor.todo = {} /\ monitor.item = {}
      BY <1>5 DEF DeleteWorkloadsByRegistrant
    <2> QED BY <1>0, <1>5, <2>4, <2>5 DEF DeleteWorkloadsByRegistrant
  <1>6. CASE StartPass
    BY <1>0, <1>6 DEF StartPass, Asleep
  <1>7. CASE NextItem
    <2>1. PICK i \in monitor.todo:
             monitor' = [monitor EXCEPT !.todo = @ \ {i}, !.item = {i},
                                        !.violations = i.violations]
      BY <1>7, Zenon DEF NextItem
    <2>2. /\ monitor'.pc = monitor.pc
          /\ monitor'.todo \subseteq monitor.todo
          /\ monitor'.item = {i}
      BY <2>1 DEF TypeOK, Monitor
    <2> QED BY <1>0, <1>7, <2>2 DEF NextItem
  <1>8. CASE CheckViolation
    <2>1. /\ monitor'.pc \in {"iterate", "send"}
          /\ monitor'.todo = monitor.todo
          /\ monitor'.item = monitor.item
      BY <1>8 DEF CheckViolation, TypeOK, Monitor
    <2> QED BY <1>0, <1>8, <2>1 DEF CheckViolation
  <1>9. ASSUME NEW delivered \in BOOLEAN, NEW ok \in BOOLEAN,
               Send(delivered, ok)
        PROVE  LockInv'
    <2>1. /\ monitor'.pc = "iterate"
          /\ monitor'.todo = monitor.todo
          /\ monitor'.item = monitor.item
      BY <1>9 DEF Send, TypeOK, Monitor
    <2>2. \A i \in workloads': \E j \in workloads: Key(i) = Key(j)
      BY <1>9 DEF Send, AfterSend, SetWorkloadListItemRestarts,
                  DeleteWorkloadById, Key, TypeOK, Item
    <2> QED BY <1>0, <1>9, <2>1, <2>2 DEF Send
  <1>10. CASE EndPass
    BY <1>0, <1>10 DEF EndPass, Asleep
  <1>11. CASE WaitSignal
    BY <1>0, <1>11 DEF WaitSignal
  <1>12. CASE UNCHANGED vars
    BY <1>0, <1>12 DEF vars
  <1> QED
    BY <1>1, <1>2, <1>3, <1>4, <1>5, <1>6, <1>7, <1>8, <1>9, <1>10, <1>11,
       <1>12
       DEF Next, HandlerStep, MonitorStep, SendOk, SendLost, SendUnanswered

\* The comment in StartMonitor claims that keeping the list locked while
\* iterating avoids the race with a withdrawal.  It does: the director never
\* receives an event about a workload that its registrant has withdrawn.
THEOREM WithdrawalIsRespected == Spec => NoReportAfterWithdrawal
  <1>1. LockInv /\ [Next]_vars => [ReportsOnlyRegistered]_vars
    <2> SUFFICES ASSUME LockInv, Next PROVE ReportsOnlyRegistered
      BY DEF vars
    <2> USE DEF ReportsOnlyRegistered
    <2>1. ASSUME NEW delivered \in BOOLEAN, NEW ok \in BOOLEAN,
                 Send(delivered, ok)
          PROVE  ReportsOnlyRegistered
      <3>1. PICK item \in monitor.item, e \in monitor.event:
               reported' = [reported EXCEPT
                   ![Key(item)] = IF delivered THEN @ \cup {e} ELSE @]
        BY <2>1, Zenon DEF Send
      <3>2. view[Key(item)] = "registered"
        BY DEF LockInv, OnlyRegisteredItems
      <3>3. \A k \in Keys: k # Key(item) => reported'[k] = reported[k]
        BY <3>1 DEF LockInv, TypeOK
      <3> QED BY <3>2, <3>3
    <2>2. ASSUME NEW h \in Handlers, PutAdd(h) PROVE ReportsOnlyRegistered
      <3>1. reported' = [reported EXCEPT
                            ![<<handler[h].rid, handler[h].wid>>] = {}]
        BY <2>2 DEF PutAdd
      <3> QED BY <3>1 DEF LockInv, TypeOK
    <2>3. CASE UNCHANGED reported
      BY <2>3
    <2> QED
      BY <2>1, <2>2, <2>3, Zenon
         DEF Next, HandlerStep, MonitorStep, SendOk, SendLost, SendUnanswered,
             PodChanges, Receive, PutLookup, DeleteWorkloadByRegistrant,
             DeleteWorkloadsByRegistrant, StartPass, NextItem, CheckViolation,
             EndPass, WaitSignal
  <1> QED
    BY <1>1, LockInit, LockStep, PTL DEF Spec, NoReportAfterWithdrawal

-----------------------------------------------------------------------------
\* The event the pass is about to send is still true when it is sent.
PendingEventHolds ==
    \A item \in monitor.item, e \in monitor.event: EventHolds(e, item.wid)

OneItemAtATime == \A i, j \in monitor.item: i = j

TruthInv == TypeOK /\ ReportsAreTrue /\ PendingEventHolds /\ OneItemAtATime /\
            (monitor.pc # "send" => monitor.event = {})

\* Restart counts grow and a failed pod stays failed until it is gone, so
\* what held at the lookup holds at any later time.
LEMMA PodsOnlyWorsen ==
  ASSUME TypeOK, NEW w \in Wids, PodChanges(w), NEW e \in Event,
         NEW x \in Wids, EventHolds(e, x)
  PROVE  EventHolds(e, x)'
  <1> USE DEF TypeOK
  <1>1. /\ pods[x].restarts \in Nat
        /\ e.n \in Nat
    BY ConstantsAssumption DEF Event
  <1>2. pods'[x].restarts >= pods[x].restarts
    BY <1>1 DEF PodChanges
  <1>3. pods'[x].restarts \in Nat
    BY <1>1 DEF PodChanges
  <1>4. pods[x].phase \in {"Failed", "Gone"} =>
           pods'[x].phase \in {"Failed", "Gone"}
    BY DEF PodChanges
  <1> QED BY <1>1, <1>2, <1>3, <1>4 DEF EventHolds

\* What Observed derives from a pod's status holds of the pod.
LEMMA ObservedHolds ==
  ASSUME TypeOK, NEW item \in Item, NEW v \in Violations,
         NEW present \in BOOLEAN, NEW e \in Observed(item, v, present)
  PROVE  EventHolds(e, item.wid)
  <1>1. pods[item.wid].restarts \in Nat
    BY ConstantsAssumption DEF TypeOK, Item
  <1> QED BY <1>1 DEF Observed, EventHolds

\* Between the lookup of a pod and the call of the director the pod may
\* change, yet every RESTARTED or TERMINATED event received is true.
THEOREM EventsAreTrue == Spec => []ReportsAreTrue
  <1>1. Init => TruthInv
    BY TypeInit DEF Init, TruthInv, ReportsAreTrue, PendingEventHolds,
                    OneItemAtATime, Asleep
  <1>2. TruthInv /\ [Next]_vars => TruthInv'
    <2> SUFFICES ASSUME TruthInv, [Next]_vars PROVE TruthInv'
      OBVIOUS
    <2>0. TypeOK /\ TypeOK'
      BY TypeStep DEF TruthInv
    <2> USE DEF TruthInv
    <2>1. ASSUME NEW w \in Wids, PodChanges(w) PROVE TruthInv'
      <3>1. ReportsAreTrue'
        BY <2>0, <2>1, PodsOnlyWorsen
           DEF ReportsAreTrue, PodChanges, TypeOK, Keys
      <3>2. PendingEventHolds'
        BY <2>0, <2>1, PodsOnlyWorsen, Zenon
           DEF PendingEventHolds, PodChanges, TypeOK, Monitor, Item
      <3> QED BY <2>0, <2>1, <3>1, <3>2 DEF PodChanges, OneItemAtATime
    <2>2. ASSUME NEW h \in Handlers, PutAdd(h) PROVE TruthInv'
      <3>1. \A k \in Keys: reported'[k] \subseteq reported[k]
        BY <2>0, <2>2 DEF PutAdd, TypeOK
      <3> QED BY <2>0, <2>2, <3>1
              DEF PutAdd, ReportsAreTrue, PendingEventHolds, OneItemAtATime,
                  EventHolds
    <2>3. CASE NextItem
      <3>1. PICK i \in monitor.todo:
               monitor' = [monitor EXCEPT !.todo = @ \ {i}, !.item = {i},
                                          !.violations = i.violations]
        BY <2>3, Zenon DEF NextItem
      <3>2. /\ monitor'.pc = monitor.pc
            /\ monitor'.item = {i}
            /\ monitor'.event = {}
        BY <2>0, <2>3, <3>1, Zenon DEF NextItem, TypeOK, Monitor
      <3>3. ReportsAreTrue'
        BY <2>3 DEF NextItem, ReportsAreTrue, EventHolds
      <3> QED BY <2>0, <3>2, <3>3 DEF PendingEventHolds, OneItemAtATime
    <2>4. CASE CheckViolation
      <3> DEFINE v == Head(monitor.violations)
      <3>1. PICK item \in monitor.item, present \in BOOLEAN:
               LET ev == Observed(item, v, present) IN
               monitor' = [monitor EXCEPT
                              !.pc = IF ev = {} THEN "iterate" ELSE "send",
                              !.violations = Tail(@),
                              !.event = ev]
        BY <2>4, Zenon DEF CheckViolation, PresentResults
      <3>2. item \in Item
        BY <2>0 DEF TypeOK, Monitor
      <3>3. v \in Violations
        <4>1. monitor.violations \in Seq(Violations)
          BY <2>0 DEF TypeOK, Monitor
        <4> QED BY <2>4, <4>1 DEF CheckViolation
      <3>4. /\ monitor'.item = monitor.item
            /\ monitor'.event = Observed(item, v, present)
            /\ monitor'.pc # "send" => monitor'.event = {}
        BY <2>0, <3>1, Zenon DEF TypeOK, Monitor
      <3>5. \A e \in monitor'.event: EventHolds(e, item.wid)
        BY <2>0, <3>2, <3>3, <3>4, ObservedHolds
      <3>6. ReportsAreTrue' /\ PendingEventHolds'
        BY <2>4, <3>4, <3>5
           DEF CheckViolation, ReportsAreTrue, PendingEventHolds,
               OneItemAtATime, EventHolds
      <3> QED BY <2>0, <3>4, <3>6 DEF OneItemAtATime
    <2>5. ASSUME NEW delivered \in BOOLEAN, NEW ok \in BOOLEAN,
                 Send(delivered, ok)
          PROVE  TruthInv'
      <3>1. PICK item \in monitor.item, e \in monitor.event:
               reported' = [reported EXCEPT
                     ![Key(item)] = IF delivered THEN @ \cup {e} ELSE @]
        BY <2>5, Zenon DEF Send
      <3>2. EventHolds(e, item.wid) /\ item \in Item
        BY <2>0 DEF PendingEventHolds, TypeOK, Monitor
      <3>3. \A k \in Keys: reported'[k] \subseteq reported[k] \/
               (k = Key(item) /\ reported'[k] \subseteq reported[k] \cup {e})
        BY <2>0, <3>1 DEF TypeOK
      <3>4. \A k \in Keys: \A f \in reported'[k]: EventHolds(f, k[2])
        BY <3>2, <3>3, KeyType DEF ReportsAreTrue
      <3>5. /\ monitor'.item = monitor.item
            /\ monitor'.event = {}
        BY <2>0, <2>5 DEF Send, TypeOK, Monitor
      <3>6. ReportsAreTrue'
        BY <2>5, <3>4 DEF Send, ReportsAreTrue, EventHolds
      <3> QED BY <2>0, <3>5, <3>6 DEF PendingEventHolds, OneItemAtATime
    <2>6. CASE StartPass \/ EndPass
      <3>1. /\ monitor'.item = {} /\ monitor'.event = {}
            /\ UNCHANGED <<pods, reported>>
        <4>1. CASE StartPass
          BY <4>1 DEF StartPass, Asleep
        <4>2. CASE EndPass
          BY <4>2 DEF EndPass, Asleep
        <4> QED BY <2>6, <4>1, <4>2
      <3> QED BY <2>0, <3>1 DEF ReportsAreTrue, PendingEventHolds,
                                OneItemAtATime, EventHolds
    <2>7. CASE UNCHANGED <<pods, monitor, reported>>
      BY <2>0, <2>7 DEF ReportsAreTrue, PendingEventHolds, OneItemAtATime,
                        EventHolds
    <2> QED
      BY <2>1, <2>2, <2>3, <2>4, <2>5, <2>6, <2>7, Zenon
         DEF Next, HandlerStep, MonitorStep, SendOk, SendLost, SendUnanswered,
             Receive, PutLookup, DeleteWorkloadByRegistrant,
             DeleteWorkloadsByRegistrant, WaitSignal, vars
  <1>3. TruthInv => ReportsAreTrue
    BY DEF TruthInv
  <1> QED BY <1>1, <1>2, <1>3, PTL DEF Spec

-----------------------------------------------------------------------------
OneRegistrant == \A r, s \in Rids: r = s

\* A registration that holds is in the list, or the director was told of its end,
\* in the middle of a pass too.
Accounted(k) == view[k] = "registered" => Registered(k) \/ \E e \in reported[k]: Terminal(e)

AccountInv == TypeOK /\ \A k \in Keys: Accounted(k)

\* What follows an event leaves every other workload alone, and drops the one the
\* event is about only after the director has received the event.
LEMMA SendAccounts ==
  ASSUME OneRegistrant, AccountInv, NEW delivered \in BOOLEAN, NEW ok \in BOOLEAN,
         ok => delivered, Send(delivered, ok), NEW k \in Keys
  PROVE  Accounted(k)'
  <1>1. PICK item \in monitor.item, e \in monitor.event:
           /\ AfterSend(item, e, ok)
           /\ reported' = [reported EXCEPT ![Key(item)] = IF delivered THEN @ \cup {e} ELSE @]
    BY Zenon DEF Send
  <1>2. item \in Item /\ e \in Event /\ workloads \subseteq Item /\ view' = view
    BY DEF AccountInv, TypeOK, Monitor, Send
  <1>3. reported[k] \subseteq reported'[k]
    BY <1>1 DEF AccountInv, TypeOK
  <1>4. CASE e.kind = "RESTARTED"
    <2>1. ASSUME NEW i \in workloads, Key(i) = k
          PROVE  \E j \in workloads': Key(j) = k
      <3> DEFINE j == IF Key(i) = <<item.rid, item.wid>> THEN [i EXCEPT !.restarts = e.n] ELSE i
      <3>1. j \in workloads'
        BY <1>1, <1>4 DEF AfterSend, SetWorkloadListItemRestarts
      <3>2. Key(j) = Key(i)
        BY <1>2 DEF Key, Item
      <3> QED BY <2>1, <3>1, <3>2
    <2> QED BY <1>2, <1>3, <2>1 DEF AccountInv, Accounted, Registered
  <1>5. CASE e.kind # "RESTARTED" /\ ok
    <2>1. CASE k = Key(item)
      <3>1. e \in reported'[k]
        BY <1>1, <1>5, <2>1 DEF AccountInv, TypeOK
      <3>2. Terminal(e)
        BY <1>2, <1>5 DEF Event, Violations, Terminal
      <3> QED BY <3>1, <3>2 DEF Accounted
    <2>2. CASE k # Key(item)
      <3>1. k[2] # item.wid
        BY <1>2, <2>2, KeyType DEF OneRegistrant, Item, Key, Keys
      <3>2. \A i \in workloads: Key(i) = k => i.wid # item.wid
        BY <1>2, <3>1, KeyType
      <3>3. \A i \in workloads: Key(i) = k => i \in workloads'
        BY <1>1, <1>5, <3>2 DEF AfterSend, DeleteWorkloadById
      <3> QED BY <1>2, <1>3, <3>3 DEF AccountInv, Accounted, Registered
    <2> QED BY <2>1, <2>2
  <1>6. CASE e.kind # "RESTARTED" /\ ~ok
    <2>1. workloads' = workloads
      BY <1>1, <1>6 DEF AfterSend
    <2> QED BY <1>2, <1>3, <2>1 DEF AccountInv, Accounted, Registered
  <1> QED BY <1>4, <1>5, <1>6

\* A registration, renewed or withdrawn, concerns no key but its own.
LEMMA HandlerAccounts ==
  ASSUME AccountInv, NEW h \in Handlers, HandlerStep(h), NEW k \in Keys
  PROVE  Accounted(k)'
  <1> DEFINE key == <<handler[h].rid, handler[h].wid>>
  <1> USE DEF AccountInv
  <1>1. CASE PutLookup(h)
    BY <1>1 DEF PutLookup, Accounted, Registered
  <1>2. CASE PutAdd(h)
    <2>1. CASE k = key
      <3> DEFINE i == [rid |-> handler[h].rid, wid |-> handler[h].wid,
                       violations |-> handler[h].violations, restarts |-> 0]
      <3>1. i \in workloads' /\ Key(i) = key
        BY <1>2 DEF PutAdd, AddToWorkloadList, Key
      <3> QED BY <2>1, <3>1 DEF Accounted, Registered
    <2>2. CASE k # key
      <3>1. view'[k] = view[k] /\ reported'[k] = reported[k]
        BY <1>2, <2>2 DEF PutAdd, TypeOK
      <3>2. \A i \in workloads: Key(i) = k => i \in workloads'
        BY <1>2, <2>2 DEF PutAdd, AddToWorkloadList
      <3> QED BY <3>1, <3>2, Zenon DEF Accounted, Registered
    <2> QED BY <2>1, <2>2
  <1>3. CASE DeleteWorkloadByRegistrant(h)
    <2>1. CASE k = key
      BY <1>3, <2>1 DEF DeleteWorkloadByRegistrant, Accounted, TypeOK
    <2>2. CASE k # key
      <3>1. view'[k] = view[k] /\ reported'[k] = reported[k]
        BY <1>3, <2>2 DEF DeleteWorkloadByRegistrant, TypeOK
      <3>2. \A i \in workloads: Key(i) = k => i \in workloads'
        BY <1>3, <2>2 DEF DeleteWorkloadByRegistrant, DeleteWorkload
      <3> QED BY <3>1, <3>2, Zenon DEF Accounted, Registered
    <2> QED BY <2>1, <2>2
  <1>4. CASE DeleteWorkloadsByRegistrant(h)
    <2>1. CASE k[1] = handler[h].rid
      BY <1>4, <2>1 DEF DeleteWorkloadsByRegistrant, Accounted
    <2>2. CASE k[1] # handler[h].rid
      <3>1. view'[k] = view[k] /\ reported'[k] = reported[k]
        BY <1>4, <2>2 DEF DeleteWorkloadsByRegistrant
      <3>2. \A i \in workloads: Key(i) = k => i.rid # handler[h].rid
        BY <2>2, KeyType DEF TypeOK
      <3>3. \A i \in workloads: Key(i) = k => i \in workloads'
        BY <1>4, <3>2 DEF DeleteWorkloadsByRegistrant, DeleteWorkloads
      <3> QED BY <3>1, <3>3, Zenon DEF Accounted, Registered
    <2> QED BY <2>1, <2>2
  <1> QED BY <1>1, <1>2, <1>3, <1>4 DEF HandlerStep

\* With one registrant no workload is dropped before the director has heard why,
\* whichever events are lost or go unanswered.  (DeleteWorkloadById also drops the
\* items that other registrants have for the pod, so this needs the one.)
THEOREM RemovalIsReported ==
  ASSUME OneRegistrant
  PROVE  Spec => []NoSilentRemoval
  <1>1. Init => AccountInv
    <2>1. Init => \A k \in Keys: view[k] = "never"
      BY DEF Init
    <2> QED BY <2>1, TypeInit DEF AccountInv, Accounted
  <1>2. AccountInv /\ [Next]_vars => AccountInv'
    <2> SUFFICES ASSUME AccountInv, [Next]_vars, NEW k \in Keys PROVE Accounted(k)'
      BY TypeStep DEF AccountInv
    <2>1. CASE \E h \in Handlers: HandlerStep(h)
      BY <2>1, HandlerAccounts
    <2>2. CASE SendOk \/ SendLost \/ SendUnanswered
      BY <2>2, SendAccounts, Zenon DEF SendOk, SendLost, SendUnanswered
    <2>3. CASE UNCHANGED <<workloads, view, reported>>
      BY <2>3 DEF AccountInv, Accounted, Registered
    <2> QED BY <2>1, <2>2, <2>3, Zenon
            DEF Next, MonitorStep, PodChanges, Receive, StartPass, NextItem, CheckViolation, EndPass, WaitSignal, vars
  <1>3. AccountInv => NoSilentRemoval
    BY DEF AccountInv, Accounted, NoSilentRemoval
  <1> QED BY <1>1, <1>2, <1>3, PTL DEF Spec
=============================================================================
