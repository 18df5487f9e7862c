------------------------ MODULE TaskLifecycleProofs ------------------------
(***************************************************************************)
(* Proofs about TaskLifecycle for every set of tasks and workers and every *)
(* value of the bounds: its types, the records of the broker, and where    *)
(* the copies of a task are whatever connections break: a task is never in *)
(* two places, the semaphore of a worker is the number of its handlers,    *)
(* and dead connections are no fewer than the tasks lost on them.          *)
(***************************************************************************)
EXTENDS TaskLifecycle, FiniteSetTheorems, TLAPS

\* Facts about the handlers that the types alone do not give: a handler under
\* way belongs to a worker, and one that backs off has an attempt left.
HandlerInv ==
  \A t \in Tasks :
    /\ pc[t] \in PendingPcs => owner[t] \in Workers
    /\ pc[t] = "backoff" => attempt[t] <= Retries

\* The initial state is well typed.
LEMMA InitTypes == Init => TypeOK /\ HandlerInv
<1> SUFFICES ASSUME Init PROVE TypeOK /\ HandlerInv OBVIOUS
<1> USE DEF Init, Pcs, PendingPcs, SlotPcs, Status, None, StreamState, Modes
<1>1. BrokerTypeOK
  <2>1. <<>> \in Seq(Tasks) OBVIOUS
  <2>2. wire \in [Workers -> Seq(Tasks)] BY <2>1 DEF BrokerInit
  <2> QED BY <2>1, <2>2 DEF BrokerInit, BrokerTypeOK
<1>2. WorkerTypeOK BY WorkerAssumption DEF WorkerInit, WorkerTypeOK
<1>3. ClientTypeOK BY DEF ClientInit, ClientTypeOK
<1>4. HandlerInv BY DEF WorkerInit, HandlerInv
<1> QED BY <1>1, <1>2, <1>3, <1>4 DEF TypeOK

\* Every step of a client keeps the types.
LEMMA ClientTypes ==
  ASSUME TypeOK, HandlerInv, ClientNext, UNCHANGED workerVars
  PROVE  TypeOK' /\ HandlerInv'
<1>1. WorkerTypeOK' /\ HandlerInv'
  BY DEF TypeOK, WorkerTypeOK, HandlerInv, workerVars, handlerVars
<1>2. BrokerTypeOK' /\ ClientTypeOK'
  <2> USE DEF TypeOK, BrokerTypeOK, ClientTypeOK, Fetch, TakeResult, PutResult, brokerRest, brokerVars,
             Status, None, Modes
  <2> PICK t \in Tasks :
        \/ Submit(t)
        \/ CallResult(t) \/ WaiterStep(t) \/ WaitTimesOut(t)
        \/ CallCheck(t) \/ CheckPoll(t)
        \/ Watch(t) \/ WatchPoll(t)
        \/ CancellerStep(t)
        \/ \E mode \in Modes : CallCancel(t, mode)
    BY DEF ClientNext
  <2>1. CASE Submit(t) BY <2>1 DEF Submit
  <2>2. CASE CallResult(t) BY <2>2 DEF CallResult
  <2>3. CASE ReceiveResult(t) BY <2>3 DEF ReceiveResult
  <2>4. CASE ObserveHeartbeat(t) BY <2>4 DEF ObserveHeartbeat
  <2>5. CASE WaitStalls(t) BY <2>5 DEF WaitStalls, Stall
  <2>6. CASE WaitTimesOut(t) BY <2>6 DEF WaitTimesOut
  <2>7. CASE CallCheck(t) BY <2>7 DEF CallCheck
  <2>8. CASE CheckPoll(t)
    <3>1. CASE Fetch(t) BY <2>8, <3>1 DEF CheckPoll
    <3>2. CASE results[t] = None /\ UNCHANGED <<results, handle>>
      BY <2>8, <3>2 DEF CheckPoll
    <3> QED BY <2>8, <3>1, <3>2 DEF CheckPoll
  <2>9. CASE Watch(t) BY <2>9 DEF Watch
  <2>10. CASE WatchPoll(t)
    <3>1. CASE WatchRead(t) BY <3>1 DEF WatchRead
    <3>2. CASE WatchRound(t)
      <4>1. handle' \in [Tasks -> Status \cup {None}] BY <3>2 DEF WatchRound
      <4>2. watcher' \in [Tasks -> {"idle", "watching", "ended", None} \cup Status]
        BY <3>2 DEF WatchRound
      <4> QED BY <3>2, <4>1, <4>2 DEF WatchRound
    <3> QED BY <2>10, <3>1, <3>2 DEF WatchPoll
  <2>11. CASE ReceiveConfirmation(t) BY <2>11 DEF ReceiveConfirmation, Return
  <2>12. CASE CancelTimesOut(t) BY <2>12 DEF CancelTimesOut
  <2>13. CASE SeedCancelled(t) BY <2>13 DEF SeedCancelled, Return
  <2>14. CASE \E mode \in Modes : CallCancel(t, mode)
    BY <2>14 DEF CallCancel
  <2> QED
    BY <2>1, <2>2, <2>3, <2>4, <2>5, <2>6, <2>7, <2>8, <2>9, <2>10, <2>11,
       <2>12, <2>13, <2>14 DEF WaiterStep, CancellerStep
<1> QED BY <1>1, <1>2 DEF TypeOK

\* Every step of the broker keeps the types.
LEMMA BrokerTypes ==
  ASSUME TypeOK, HandlerInv, BrokerNext, UNCHANGED <<workerVars, clientVars>>
  PROVE  TypeOK' /\ HandlerInv'
<1>1. WorkerTypeOK' /\ HandlerInv' /\ ClientTypeOK'
  BY DEF TypeOK, WorkerTypeOK, HandlerInv, workerVars, handlerVars, ClientTypeOK, clientVars
<1>2. BrokerTypeOK'
  <2> USE DEF TypeOK, BrokerTypeOK, StreamState
  <2>1. CASE CoolDown BY <2>1 DEF CoolDown
  <2>2. ASSUME NEW w \in Workers, Deliver(w) PROVE BrokerTypeOK'
    BY <2>2 DEF Deliver
  <2>3. ASSUME NEW w \in Workers, DeliverToDeadPeer(w) PROVE BrokerTypeOK'
    BY <2>3 DEF DeliverToDeadPeer
  <2>4. ASSUME NEW w \in Workers, PutTaskBack(w) PROVE BrokerTypeOK'
    BY <2>4 DEF PutTaskBack
  <2> QED BY <2>1, <2>2, <2>3, <2>4 DEF BrokerNext
<1> QED BY <1>1, <1>2 DEF TypeOK

\* Going to a point of the code keeps pc typed.
LEMMA GotoType ==
  ASSUME pc \in [Tasks -> Pcs], NEW t \in Tasks, NEW l \in Pcs, Goto(t, l)
  PROVE  pc' \in [Tasks -> Pcs]
BY DEF Goto

\* Releasing the slot of a handler under way keeps the semaphores typed.
LEMMA ReleaseType ==
  ASSUME WorkerTypeOK, HandlerInv, NEW t \in Tasks, pc[t] \in PendingPcs,
         Release(t)
  PROVE  free' \in [Workers -> Nat]
<1>1. owner[t] \in Workers BY DEF HandlerInv
<1>2. free[owner[t]] + 1 \in Nat BY <1>1 DEF WorkerTypeOK
<1> QED BY <1>1, <1>2 DEF WorkerTypeOK, Release

\* The decision to retry keeps what it writes typed.
LEMMA NextAttemptType ==
  ASSUME WorkerTypeOK, NEW t \in Tasks, NextAttempt(t)
  PROVE  /\ pc' \in [Tasks -> Pcs]
         /\ envelope' \in [Tasks -> Status \cup {None}]
<1>1. {"backoff", "settle"} \subseteq Pcs BY DEF Pcs, PendingPcs, SlotPcs
<1>2. CASE attempt[t] <= Retries
  BY <1>1, <1>2, GotoType DEF NextAttempt, WorkerTypeOK
<1>3. CASE ~(attempt[t] <= Retries)
  <2>1. "error" \in Status BY DEF Status
  <2> QED BY <1>1, <1>3, <2>1, GotoType DEF NextAttempt, WorkerTypeOK, Finish
<1> QED BY <1>2, <1>3

\* Every step of a worker keeps the types.
LEMMA WorkerTypes ==
  ASSUME TypeOK, HandlerInv, WorkerNext, UNCHANGED clientVars
  PROVE  TypeOK' /\ HandlerInv'
<1> USE WorkerAssumption
<1> USE DEF TypeOK, BrokerTypeOK, WorkerTypeOK, HandlerInv, At, Goto, handlerRest, execRest, sendRest, brokerVars
<1>1. ClientTypeOK'
  BY DEF ClientTypeOK, clientVars
<1>2. ASSUME NEW w \in Workers, LoopStep(w) \/ Signal(w) \/ ListenEnds(w) \/ Crash(w)
      PROVE  BrokerTypeOK' /\ WorkerTypeOK' /\ HandlerInv'
  <2>1. CASE Accept(w)
    <3> USE DEF Accept
    <3>1. pc' \in [Tasks -> Pcs]
      BY <2>1 DEF Pcs, PendingPcs, SlotPcs
    <3>2. free' \in [Workers -> Nat]
      BY <2>1 DEF PendingPcs, SlotPcs
    <3>3. /\ envelope' \in [Tasks -> Status \cup {None}]
          /\ verdict' \in [Tasks -> Status \cup {None}]
      BY <2>1 DEF Status, None
    <3>4. WorkerTypeOK' BY <2>1, <3>1, <3>2, <3>3
    <3>5. BrokerTypeOK' BY <2>1 DEF Status, None, StreamState
    <3>6. HandlerInv' BY <2>1 DEF PendingPcs, SlotPcs
    <3> QED BY <3>4, <3>5, <3>6
  <2>2. CASE Signal(w)
    <3> USE DEF Signal, Pending
    <3>1. pc' \in [Tasks -> Pcs]
      BY <2>2 DEF Pcs, PendingPcs, SlotPcs
    <3>2. free' \in [Workers -> Nat]
      BY <2>2 DEF PendingPcs, SlotPcs
    <3>3. /\ envelope' \in [Tasks -> Status \cup {None}]
          /\ verdict' \in [Tasks -> Status \cup {None}]
      BY <2>2 DEF Status, None
    <3>4. WorkerTypeOK' BY <2>2, <3>1, <3>2, <3>3
    <3>5. BrokerTypeOK' BY <2>2 DEF Status, None, StreamState
    <3>6. HandlerInv' BY <2>2 DEF PendingPcs, SlotPcs
    <3> QED BY <3>4, <3>5, <3>6
  <2>3. CASE StopListening(w)
    <3> USE DEF StopListening, DropWire, CloseStream
    <3>1. pc' \in [Tasks -> Pcs]
      BY <2>3 DEF Pcs, PendingPcs, SlotPcs
    <3>2. free' \in [Workers -> Nat]
      BY <2>3 DEF PendingPcs, SlotPcs
    <3>3. /\ envelope' \in [Tasks -> Status \cup {None}]
          /\ verdict' \in [Tasks -> Status \cup {None}]
      BY <2>3 DEF Status, None
    <3>4. WorkerTypeOK' BY <2>3, <3>1, <3>2, <3>3
    <3>5. BrokerTypeOK' BY <2>3 DEF Status, None, StreamState
    <3>6. HandlerInv' BY <2>3 DEF PendingPcs, SlotPcs
    <3> QED BY <3>4, <3>5, <3>6
  <2>4. CASE ListenEnds(w)
    <3> USE DEF ListenEnds, DropWire, CloseStream, Fault
    <3>1. WorkerTypeOK' BY <2>4 DEF Pcs, PendingPcs, SlotPcs, Status, None
    <3>2. BrokerTypeOK' BY <2>4 DEF Status, None, StreamState
    <3>3. HandlerInv' BY <2>4 DEF PendingPcs, SlotPcs
    <3> QED BY <3>1, <3>2, <3>3
  <2>5. CASE Stop(w)
    <3> USE DEF Stop
    <3>1. WorkerTypeOK' BY <2>5 DEF Pcs, PendingPcs, SlotPcs, Status, None
    <3>2. BrokerTypeOK' BY <2>5 DEF Status, None, StreamState
    <3>3. HandlerInv' BY <2>5 DEF PendingPcs, SlotPcs
    <3> QED BY <3>1, <3>2, <3>3
  <2>6. CASE Crash(w)
    <3> USE DEF Crash, CloseStream
    <3>1. pc' \in [Tasks -> Pcs]
      BY <2>6 DEF Pcs, PendingPcs, SlotPcs
    <3>2. free' \in [Workers -> Nat]
      BY <2>6 DEF PendingPcs, SlotPcs
    <3>3. /\ envelope' \in [Tasks -> Status \cup {None}]
          /\ verdict' \in [Tasks -> Status \cup {None}]
      BY <2>6 DEF Status, None
    <3>4. WorkerTypeOK' BY <2>6, <3>1, <3>2, <3>3
    <3>5. BrokerTypeOK' BY <2>6 DEF Status, None, StreamState
    <3>6. HandlerInv' BY <2>6 DEF PendingPcs, SlotPcs
    <3> QED BY <3>4, <3>5, <3>6
  <2> QED BY <1>2, <2>1, <2>2, <2>3, <2>4, <2>5, <2>6 DEF LoopStep
<1>3. ASSUME NEW t \in Tasks,
             HandlerStep(t) \/ HandlerFault(t) \/ Heartbeat(t) \/ ThreadReturns(t)
      PROVE  BrokerTypeOK' /\ WorkerTypeOK' /\ HandlerInv'
  <2>1. CASE WakeUp(t)
    <3> USE DEF WakeUp
    <3>1. WorkerTypeOK' BY <2>1 DEF Pcs, PendingPcs, SlotPcs, Status, None
    <3>2. BrokerTypeOK' BY <2>1 DEF Status, None, StreamState
    <3>3. HandlerInv' BY <2>1 DEF PendingPcs, SlotPcs
    <3> QED BY <3>1, <3>2, <3>3
  <2>2. CASE Acquire(t)
    <3> USE DEF Acquire
    <3>1. pc' \in [Tasks -> Pcs]
      BY <2>2 DEF Pcs, PendingPcs, SlotPcs
    <3>2. free' \in [Workers -> Nat]
      BY <2>2 DEF PendingPcs, SlotPcs
    <3>3. /\ envelope' \in [Tasks -> Status \cup {None}]
          /\ verdict' \in [Tasks -> Status \cup {None}]
      BY <2>2 DEF Status, None
    <3>4. WorkerTypeOK' BY <2>2, <3>1, <3>2, <3>3
    <3>5. BrokerTypeOK' BY <2>2 DEF Status, None, StreamState
    <3>6. HandlerInv' BY <2>2 DEF PendingPcs, SlotPcs
    <3> QED BY <3>4, <3>5, <3>6
  <2>3. CASE CheckCancelled(t)
    <3>1. pc' \in [Tasks -> Pcs]
      BY <2>3 DEF CheckCancelled, Pcs, PendingPcs, SlotPcs
    <3>2. free' \in [Workers -> Nat]
      BY <2>3, ReleaseType DEF CheckCancelled, PendingPcs, SlotPcs
    <3>3. envelope' \in [Tasks -> Status \cup {None}]
      BY <2>3 DEF CheckCancelled
    <3>4. verdict' \in [Tasks -> Status \cup {None}]
      BY <2>3 DEF CheckCancelled, Status, None
    <3>5. WorkerTypeOK' BY <2>3, <3>1, <3>2, <3>3, <3>4 DEF CheckCancelled
    <3>6. BrokerTypeOK' BY <2>3 DEF CheckCancelled, Status, None, StreamState
    <3>7. HandlerInv' BY <2>3 DEF CheckCancelled, PendingPcs, SlotPcs
    <3> QED BY <3>5, <3>6, <3>7
  <2>4. CASE CheckThrottle(t)
    <3>1. pc' \in [Tasks -> Pcs]
      <4>1. {"send", "build"} \subseteq Pcs BY DEF Pcs, PendingPcs, SlotPcs
      <4> QED BY <2>4, <4>1, GotoType DEF CheckThrottle
    <3>2. free' \in [Workers -> Nat]
      BY <2>4 DEF CheckThrottle
    <3>3. envelope' \in [Tasks -> Status \cup {None}]
      BY <2>4 DEF CheckThrottle, Status, None
    <3>4. verdict' \in [Tasks -> Status \cup {None}]
      BY <2>4 DEF CheckThrottle, Status, None
    <3>5. WorkerTypeOK' BY <2>4, <3>1, <3>2, <3>3, <3>4 DEF CheckThrottle
    <3>6. BrokerTypeOK' BY <2>4 DEF CheckThrottle, Status, None, StreamState
    <3>7. HandlerInv' BY <2>4 DEF CheckThrottle, PendingPcs, SlotPcs
    <3> QED BY <3>5, <3>6, <3>7
  <2>5. CASE CheckFails(t)
    <3> USE DEF CheckFails, Fault
    <3>1. pc' \in [Tasks -> Pcs]
      BY <2>5 DEF Pcs, PendingPcs, SlotPcs
    <3>2. free' \in [Workers -> Nat]
      BY <2>5 DEF PendingPcs, SlotPcs
    <3>3. /\ envelope' \in [Tasks -> Status \cup {None}]
          /\ verdict' \in [Tasks -> Status \cup {None}]
      BY <2>5 DEF Status, None
    <3>4. WorkerTypeOK' BY <2>5, <3>1, <3>2, <3>3
    <3>5. BrokerTypeOK' BY <2>5 DEF Status, None, StreamState
    <3>6. HandlerInv' BY <2>5 DEF PendingPcs, SlotPcs
    <3> QED BY <3>4, <3>5, <3>6
  <2>6. CASE BuildFails(t)
    <3> USE DEF BuildFails
    <3>1. WorkerTypeOK' BY <2>6 DEF Pcs, PendingPcs, SlotPcs, Status, None
    <3>2. BrokerTypeOK' BY <2>6 DEF Status, None, StreamState
    <3>3. HandlerInv' BY <2>6 DEF PendingPcs, SlotPcs
    <3> QED BY <3>1, <3>2, <3>3
  <2>7. CASE StartRun(t)
    <3>1. pc' \in [Tasks -> Pcs]
      BY <2>7 DEF StartRun, Pcs, PendingPcs, SlotPcs
    <3>2. attempt' \in [Tasks -> 0..(1 + Retries)]
      BY <2>7, WorkerAssumption DEF StartRun
    <3>4. WorkerTypeOK' BY <2>7, <3>1, <3>2 DEF StartRun
    <3>5. BrokerTypeOK' BY <2>7 DEF StartRun, Status, None, StreamState
    <3>6. HandlerInv' BY <2>7 DEF StartRun, PendingPcs, SlotPcs
    <3> QED BY <3>4, <3>5, <3>6
  <2>8. CASE RunSucceeds(t)
    <3> USE DEF RunSucceeds, Finish
    <3>1. WorkerTypeOK' BY <2>8 DEF Pcs, PendingPcs, SlotPcs, Status, None
    <3>2. BrokerTypeOK' BY <2>8 DEF Status, None, StreamState
    <3>3. HandlerInv' BY <2>8 DEF PendingPcs, SlotPcs
    <3> QED BY <3>1, <3>2, <3>3
  <2>9. CASE RunRaises(t)
    <3>1. pc' \in [Tasks -> Pcs]
      BY <2>9, NextAttemptType DEF RunRaises
    <3>2. free' \in [Workers -> Nat]
      BY <2>9 DEF RunRaises
    <3>3. envelope' \in [Tasks -> Status \cup {None}]
      BY <2>9, NextAttemptType DEF RunRaises
    <3>4. verdict' \in [Tasks -> Status \cup {None}]
      BY <2>9 DEF RunRaises, Status, None
    <3>5. WorkerTypeOK' BY <2>9, <3>1, <3>2, <3>3, <3>4 DEF RunRaises
    <3>6. BrokerTypeOK' BY <2>9 DEF RunRaises, Status, None, StreamState
    <3>7. HandlerInv'
      BY <2>9 DEF RunRaises, NextAttempt, Finish, PendingPcs, SlotPcs
    <3> QED BY <3>5, <3>6, <3>7
  <2>10. CASE SyncRunTimesOut(t)
    <3>1. pc' \in [Tasks -> Pcs]
      BY <2>10, NextAttemptType DEF SyncRunTimesOut
    <3>2. free' \in [Workers -> Nat]
      BY <2>10 DEF SyncRunTimesOut
    <3>3. envelope' \in [Tasks -> Status \cup {None}]
      BY <2>10, NextAttemptType DEF SyncRunTimesOut
    <3>4. verdict' \in [Tasks -> Status \cup {None}]
      BY <2>10 DEF SyncRunTimesOut, Status, None
    <3>8. threads' \in [Tasks -> Nat] BY <2>10 DEF SyncRunTimesOut
    <3>5. WorkerTypeOK' BY <2>10, <3>1, <3>2, <3>3, <3>4, <3>8 DEF SyncRunTimesOut
    <3>6. BrokerTypeOK' BY <2>10 DEF SyncRunTimesOut, Status, None, StreamState
    <3>7. HandlerInv'
      BY <2>10 DEF SyncRunTimesOut, NextAttempt, Finish, PendingPcs, SlotPcs
    <3> QED BY <3>5, <3>6, <3>7
  <2>11. CASE RetryRun(t)
    <3> USE DEF RetryRun
    <3>1. pc' \in [Tasks -> Pcs]
      BY <2>11 DEF Pcs, PendingPcs, SlotPcs
    <3>2. free' \in [Workers -> Nat]
      BY <2>11 DEF PendingPcs, SlotPcs
    <3>3. /\ envelope' \in [Tasks -> Status \cup {None}]
          /\ verdict' \in [Tasks -> Status \cup {None}]
      BY <2>11 DEF Status, None
    <3>4. WorkerTypeOK' BY <2>11, <3>1, <3>2, <3>3
    <3>5. BrokerTypeOK' BY <2>11 DEF Status, None, StreamState
    <3>6. HandlerInv' BY <2>11 DEF PendingPcs, SlotPcs
    <3> QED BY <3>4, <3>5, <3>6
  <2>12. CASE Abort(t)
    <3> USE DEF Abort, Finish
    <3>1. pc' \in [Tasks -> Pcs]
      BY <2>12 DEF Pcs, PendingPcs, SlotPcs
    <3>2. free' \in [Workers -> Nat]
      BY <2>12 DEF PendingPcs, SlotPcs
    <3>3. /\ envelope' \in [Tasks -> Status \cup {None}]
          /\ verdict' \in [Tasks -> Status \cup {None}]
      BY <2>12 DEF Status, None
    <3>4. WorkerTypeOK' BY <2>12, <3>1, <3>2, <3>3
    <3>5. BrokerTypeOK' BY <2>12 DEF Status, None, StreamState
    <3>6. HandlerInv' BY <2>12 DEF PendingPcs, SlotPcs
    <3> QED BY <3>4, <3>5, <3>6
  <2>13. CASE SwallowCancel(t)
    <3> USE DEF SwallowCancel
    <3>1. WorkerTypeOK' BY <2>13 DEF Pcs, PendingPcs, SlotPcs, Status, None
    <3>2. BrokerTypeOK' BY <2>13 DEF Status, None, StreamState
    <3>3. HandlerInv' BY <2>13 DEF PendingPcs, SlotPcs
    <3> QED BY <3>1, <3>2, <3>3
  <2>14. CASE Heartbeat(t)
    <3> USE DEF Heartbeat
    <3>1. WorkerTypeOK' BY <2>14 DEF Pcs, PendingPcs, SlotPcs, Status, None
    <3>2. BrokerTypeOK' BY <2>14 DEF Status, None, StreamState
    <3>3. HandlerInv' BY <2>14 DEF PendingPcs, SlotPcs
    <3> QED BY <3>1, <3>2, <3>3
  <2>15. CASE ThreadReturns(t)
    <3> USE DEF ThreadReturns
    <3>1. WorkerTypeOK' BY <2>15 DEF Pcs, PendingPcs, SlotPcs, Status, None
    <3>2. BrokerTypeOK' BY <2>15 DEF Status, None, StreamState
    <3>3. HandlerInv' BY <2>15 DEF PendingPcs, SlotPcs
    <3> QED BY <3>1, <3>2, <3>3
  <2>16. CASE Settle(t)
    <3> USE DEF Settle
    <3>1. WorkerTypeOK' BY <2>16 DEF Pcs, PendingPcs, SlotPcs, Status, None
    <3>2. BrokerTypeOK' BY <2>16 DEF Status, None, StreamState
    <3>3. HandlerInv' BY <2>16 DEF PendingPcs, SlotPcs
    <3> QED BY <3>1, <3>2, <3>3
  <2>17. CASE Send(t)
    <3>1. pc' \in [Tasks -> Pcs]
      <4>1. {"record", "done"} \subseteq Pcs BY DEF Pcs, PendingPcs, SlotPcs
      <4> QED BY <2>17, <4>1, GotoType DEF Send
    <3>2. free' \in [Workers -> Nat]
      BY <2>17, ReleaseType DEF Send, PendingPcs, SlotPcs
    <3>3. envelope' \in [Tasks -> Status \cup {None}]
      BY <2>17 DEF Send
    <3>4. verdict' \in [Tasks -> Status \cup {None}]
      BY <2>17 DEF Send, Report, Status, None
    <3>5. WorkerTypeOK' BY <2>17, <3>1, <3>2, <3>3, <3>4 DEF Send
    <3>6. BrokerTypeOK'
      BY <2>17 DEF Send, Report, PutResult, Status, None, StreamState
    <3>7. HandlerInv' BY <2>17 DEF Send, PendingPcs, SlotPcs
    <3> QED BY <3>5, <3>6, <3>7
  <2>18. CASE Reject(t)
    <3> USE DEF Reject, Report, PutResult
    <3>1. WorkerTypeOK' BY <2>18 DEF Pcs, PendingPcs, SlotPcs, Status, None
    <3>2. BrokerTypeOK' BY <2>18 DEF Status, None, StreamState
    <3>3. HandlerInv' BY <2>18 DEF PendingPcs, SlotPcs
    <3> QED BY <3>1, <3>2, <3>3
  <2>19. CASE SendFails(t)
    <3>1. pc' \in [Tasks -> Pcs]
      BY <2>19 DEF SendFails, Pcs, PendingPcs, SlotPcs
    <3>2. free' \in [Workers -> Nat]
      BY <2>19, ReleaseType DEF SendFails, PendingPcs, SlotPcs
    <3>3. envelope' \in [Tasks -> Status \cup {None}]
      BY <2>19 DEF SendFails
    <3>4. verdict' \in [Tasks -> Status \cup {None}]
      BY <2>19 DEF SendFails, Report, Status, None
    <3>8. faults' \in 0..MaxFaults BY <2>19 DEF SendFails, Fault
    <3>5. WorkerTypeOK'
      BY <2>19, <3>1, <3>2, <3>3, <3>4, <3>8 DEF SendFails
    <3>6. BrokerTypeOK'
      BY <2>19 DEF SendFails, Report, PutResult, Status, None, StreamState
    <3>7. HandlerInv' BY <2>19 DEF SendFails, PendingPcs, SlotPcs
    <3> QED BY <3>5, <3>6, <3>7
  <2>20. CASE Record(t)
    <3>1. pc' \in [Tasks -> Pcs]
      BY <2>20 DEF Record, Pcs, PendingPcs, SlotPcs
    <3>2. free' \in [Workers -> Nat]
      BY <2>20, ReleaseType DEF Record, PendingPcs, SlotPcs
    <3>3. envelope' \in [Tasks -> Status \cup {None}]
      BY <2>20 DEF Record
    <3>4. verdict' \in [Tasks -> Status \cup {None}]
      BY <2>20 DEF Record, Status, None
    <3>8. faults' \in 0..MaxFaults
      <4>1. CASE UNCHANGED faults BY <4>1
      <4>2. CASE Fault("record") BY <4>2 DEF Fault
      <4> QED BY <2>20, <4>1, <4>2 DEF Record
    <3>5. WorkerTypeOK'
      BY <2>20, <3>1, <3>2, <3>3, <3>4, <3>8 DEF Record
    <3>9. cooling' \in BOOLEAN BY <2>20 DEF Record
    <3>6. BrokerTypeOK' BY <2>20, <3>9 DEF Record, Status, None, StreamState
    <3>7. HandlerInv' BY <2>20 DEF Record, PendingPcs, SlotPcs
    <3> QED BY <3>5, <3>6, <3>7
  <2>21. CASE Interrupted(t)
    <3>1. pc' \in [Tasks -> Pcs]
      BY <2>21 DEF Interrupted, Pcs, PendingPcs, SlotPcs
    <3>2. free' \in [Workers -> Nat]
      BY <2>21, ReleaseType DEF Interrupted, PendingPcs
    <3>3. envelope' \in [Tasks -> Status \cup {None}]
      BY <2>21 DEF Interrupted
    <3>4. verdict' \in [Tasks -> Status \cup {None}]
      BY <2>21 DEF Interrupted, Report, Status, None
    <3>5. WorkerTypeOK' BY <2>21, <3>1, <3>2, <3>3, <3>4 DEF Interrupted
    <3>6. BrokerTypeOK'
      BY <2>21 DEF Interrupted, Report, PutResult, Status, None, StreamState
    <3>7. HandlerInv' BY <2>21 DEF Interrupted, PendingPcs, SlotPcs
    <3> QED BY <3>5, <3>6, <3>7
  <2>22. CASE SettleInterrupted(t)
    <3>1. pc' \in [Tasks -> Pcs]
      BY <2>22 DEF SettleInterrupted, Pcs, PendingPcs, SlotPcs
    <3>2. free' \in [Workers -> Nat]
      BY <2>22, ReleaseType DEF SettleInterrupted, PendingPcs, SlotPcs
    <3>3. envelope' \in [Tasks -> Status \cup {None}]
      BY <2>22 DEF SettleInterrupted
    <3>4. verdict' \in [Tasks -> Status \cup {None}]
      BY <2>22 DEF SettleInterrupted, Status, None
    <3>5. WorkerTypeOK' BY <2>22, <3>1, <3>2, <3>3, <3>4 DEF SettleInterrupted
    <3>6. BrokerTypeOK' BY <2>22 DEF SettleInterrupted, Status, None, StreamState
    <3>7. HandlerInv' BY <2>22 DEF SettleInterrupted, PendingPcs, SlotPcs
    <3> QED BY <3>5, <3>6, <3>7
  <2> QED BY <1>3, <2>1, <2>2, <2>3, <2>4, <2>5, <2>6, <2>7, <2>8, <2>9, <2>10, <2>11, <2>12, <2>13, <2>14, <2>15, <2>16, <2>17, <2>18, <2>19, <2>20, <2>21, <2>22 DEF HandlerStep, HandlerFault
<1> QED BY <1>1, <1>2, <1>3 DEF WorkerNext

\* Every step of the system keeps the types.
LEMMA NextTypes ==
  ASSUME TypeOK, HandlerInv, [Next]_vars
  PROVE  TypeOK' /\ HandlerInv'
<1>1. CASE UNCHANGED vars
  BY <1>1 DEF vars, brokerVars, workerVars, handlerVars, clientVars, TypeOK,
     BrokerTypeOK, WorkerTypeOK, ClientTypeOK, HandlerInv
<1> QED BY <1>1, ClientTypes, BrokerTypes, WorkerTypes DEF Next

\* The types and the facts about handlers hold in every reachable state.
LEMMA TypesInvariant == Spec => [](TypeOK /\ HandlerInv)
<1>1. Init => TypeOK /\ HandlerInv BY InitTypes
<1>2. TypeOK /\ HandlerInv /\ [Next]_vars => TypeOK' /\ HandlerInv'
  BY NextTypes
<1> QED BY <1>1, <1>2, PTL DEF Spec

\* The system is well typed, whatever the constants; the attempts of
\* run_with_policy, above all, never exceed 1 + retries.
THEOREM TypeCorrect == Spec => []TypeOK
BY TypesInvariant, PTL

-----------------------------------------------------------------------------
(* Sequences.                                                              *)

\* What Append adds, and when it keeps the members distinct.
LEMMA AppendFacts ==
  ASSUME NEW S, NEW s \in Seq(S), NEW e \in S
  PROVE  /\ \A x : Contains(Append(s, e), x) <=> Contains(s, x) \/ x = e
         /\ IsInjective(s) /\ ~Contains(s, e) => IsInjective(Append(s, e))
<1>1. /\ Len(Append(s, e)) = Len(s) + 1 /\ Len(s) \in Nat
      /\ \A i \in 1..Len(s) : Append(s, e)[i] = s[i]
      /\ Append(s, e)[Len(s) + 1] = e
      /\ DOMAIN Append(s, e) = 1..(Len(s) + 1) /\ DOMAIN s = 1..Len(s)
  OBVIOUS
<1>2. \A x : Contains(Append(s, e), x) <=> Contains(s, x) \/ x = e
  BY <1>1 DEF Contains
<1>3. IsInjective(s) /\ ~Contains(s, e) => IsInjective(Append(s, e))
  BY <1>1 DEF Contains, IsInjective
<1> QED BY <1>2, <1>3

\* Removing the head of a sequence of distinct members removes it for good.
LEMMA TailFacts ==
  ASSUME NEW S, NEW s \in Seq(S), s # <<>>
  PROVE  /\ Head(s) \in S /\ Contains(s, Head(s))
         /\ \A x : Contains(Tail(s), x) => Contains(s, x)
         /\ \A x : Contains(s, x) => Contains(Tail(s), x) \/ x = Head(s)
         /\ IsInjective(s) => IsInjective(Tail(s))
         /\ IsInjective(s) => ~Contains(Tail(s), Head(s))
<1>1. /\ Len(s) \in Nat \ {0} /\ Len(Tail(s)) = Len(s) - 1
      /\ \A i \in 1..(Len(s) - 1) : Tail(s)[i] = s[i + 1]
      /\ DOMAIN Tail(s) = 1..(Len(s) - 1) /\ DOMAIN s = 1..Len(s)
      /\ Head(s) = s[1] /\ s[1] \in S
  OBVIOUS
<1>2. Contains(s, Head(s)) BY <1>1 DEF Contains
<1>3. \A x : Contains(Tail(s), x) => Contains(s, x)
  BY <1>1 DEF Contains
<1>4. ASSUME NEW x, Contains(s, x) PROVE Contains(Tail(s), x) \/ x = Head(s)
  <2>1. PICK i \in 1..Len(s) : s[i] = x BY <1>4 DEF Contains
  <2>2. CASE i = 1 BY <1>1, <2>1, <2>2
  <2>3. CASE i # 1
    <3>1. i - 1 \in 1..(Len(s) - 1) /\ Tail(s)[i - 1] = x
      BY <1>1, <2>1, <2>3
    <3> QED BY <1>1, <3>1 DEF Contains
  <2> QED BY <2>2, <2>3
<1>5. IsInjective(s) => IsInjective(Tail(s))
  BY <1>1 DEF IsInjective
<1>6. IsInjective(s) => ~Contains(Tail(s), Head(s))
  BY <1>1 DEF IsInjective, Contains
<1> QED BY <1>1, <1>2, <1>3, <1>4, <1>5, <1>6

\* An empty sequence contains nothing.
LEMMA EmptyFacts == IsInjective(<<>>) /\ \A x : ~Contains(<<>>, x)
BY DEF IsInjective, Contains

-----------------------------------------------------------------------------
(* The invariant.                                                          *)

\* AtMostOneCopy task by task, and what makes it inductive: a task nobody
\* submitted is nowhere, and only a handler under way is ever interrupted.
CopyInv ==
  /\ IsInjective(queue)
  /\ \A w \in Workers : IsInjective(wire[w])
  /\ \A t \in Tasks : \A w \in Workers : InFlight(w, t) =>
       /\ ~Queued(t)
       /\ \A v \in Workers : InFlight(v, t) => v = w
       /\ Submitted(t) /\ owner[t] = None /\ pc[t] = "idle"
  /\ \A t \in Tasks : Queued(t) =>
       Submitted(t) /\ owner[t] = None /\ pc[t] = "idle"
  /\ \A t \in Tasks : ~Submitted(t) => owner[t] = None /\ pc[t] = "idle"
  /\ \A t \in doomed : pc[t] \in PendingPcs \ {"run", "backoff"}

\* The task by task form is at least as strong as the property.
LEMMA CopyInvImplies == CopyInv => AtMostOneCopy
BY DEF CopyInv, AtMostOneCopy

\* No task is anywhere at first.
LEMMA InitCopy == Init => CopyInv
BY EmptyFacts DEF Init, BrokerInit, WorkerInit, ClientInit, CopyInv, Queued,
   InFlight, Submitted

\* A step that leaves the queue, the wires and the owners alone, starts no
\* idle task and interrupts only handlers under way keeps the invariant.
LEMMA CopyFrame ==
  ASSUME CopyInv, UNCHANGED <<queue, wire, owner>>,
         \A t \in Tasks : Submitted(t)' = Submitted(t),
         \A t \in Tasks : pc[t] = "idle" => pc'[t] = "idle",
         \A t \in doomed' : pc'[t] \in PendingPcs \ {"run", "backoff"}
  PROVE  CopyInv'
BY DEF CopyInv, Queued, InFlight

\* A step of a handler leaves the queue, the connections and the owners alone.
LEMMA HandlerFrame ==
  ASSUME TypeOK, CopyInv, NEW t \in Tasks,
         HandlerStep(t) \/ HandlerFault(t) \/ Heartbeat(t) \/ ThreadReturns(t)
  PROVE  /\ UNCHANGED <<queue, wire, stream, owner>>
         /\ \A x \in Tasks : pc'[x] = "idle" <=> pc[x] = "idle"
         /\ \A x \in doomed' : pc'[x] \in PendingPcs \ {"run", "backoff"}
<1> USE DEF At, Goto, handlerRest, execRest, sendRest, brokerVars, PendingPcs,
            SlotPcs
<1>0. /\ pc \in [Tasks -> Pcs] /\ doomed \subseteq Tasks
      /\ \A x \in doomed : pc[x] \in PendingPcs \ {"run", "backoff"}
  BY DEF TypeOK, WorkerTypeOK, CopyInv
<1>1. CASE WakeUp(t) BY <1>0, <1>1 DEF WakeUp
<1>2. CASE Acquire(t) BY <1>0, <1>2 DEF Acquire
<1>3. CASE CheckCancelled(t) BY <1>0, <1>3 DEF CheckCancelled
<1>4. CASE CheckThrottle(t) BY <1>0, <1>4 DEF CheckThrottle
<1>5. CASE CheckFails(t) BY <1>0, <1>5 DEF CheckFails
<1>6. CASE BuildFails(t) BY <1>0, <1>6 DEF BuildFails
<1>7. CASE StartRun(t) BY <1>0, <1>7 DEF StartRun
<1>8. CASE RunSucceeds(t) BY <1>0, <1>8 DEF RunSucceeds, Finish
<1>9. CASE RunRaises(t) BY <1>0, <1>9 DEF RunRaises, NextAttempt, Finish
<1>10. CASE SyncRunTimesOut(t) BY <1>0, <1>10 DEF SyncRunTimesOut, NextAttempt, Finish
<1>11. CASE RetryRun(t) BY <1>0, <1>11 DEF RetryRun
<1>12. CASE Abort(t) BY <1>0, <1>12 DEF Abort, Finish
<1>13. CASE SwallowCancel(t) BY <1>0, <1>13 DEF SwallowCancel
<1>14. CASE Heartbeat(t) BY <1>0, <1>14 DEF Heartbeat
<1>15. CASE ThreadReturns(t) BY <1>0, <1>15 DEF ThreadReturns
<1>16. CASE Settle(t) BY <1>0, <1>16 DEF Settle
<1>17. CASE Send(t) BY <1>0, <1>17 DEF Send
<1>18. CASE Reject(t) BY <1>0, <1>18 DEF Reject
<1>19. CASE SendFails(t) BY <1>0, <1>19 DEF SendFails
<1>20. CASE Record(t) BY <1>0, <1>20 DEF Record
<1>21. CASE Interrupted(t) BY <1>0, <1>21 DEF Interrupted
<1>22. CASE SettleInterrupted(t) BY <1>0, <1>22 DEF SettleInterrupted
<1> QED
  BY <1>1, <1>2, <1>3, <1>4, <1>5, <1>6, <1>7, <1>8, <1>9, <1>10, <1>11, <1>12, <1>13, <1>14, <1>15, <1>16, <1>17, <1>18, <1>19, <1>20, <1>21, <1>22
     DEF HandlerStep, HandlerFault

\* What a worker's loop does keeps every task in one place.
LEMMA LoopCopy ==
  ASSUME TypeOK, HandlerInv, CopyInv, NEW w \in Workers, UNCHANGED clientVars,
         LoopStep(w) \/ Signal(w) \/ ListenEnds(w) \/ Crash(w)
  PROVE  CopyInv'
<1>0. /\ queue \in Seq(Tasks) /\ wire \in [Workers -> Seq(Tasks)]
      /\ pc \in [Tasks -> Pcs] /\ owner \in [Tasks -> Workers \cup {None}]
      /\ doomed \subseteq Tasks
  BY DEF TypeOK, BrokerTypeOK, WorkerTypeOK
<1>s. \A t \in Tasks : Submitted(t)' = Submitted(t)
  BY DEF Submitted, clientVars
<1>1. CASE Accept(w)
  <2>1. wire[w] \in Seq(Tasks) /\ wire[w] # <<>> BY <1>0, <1>1 DEF Accept
  <2> PICK t : t = Head(wire[w]) OBVIOUS
  <2>2. /\ t \in Tasks /\ InFlight(w, t)
        /\ \A x : Contains(Tail(wire[w]), x) => Contains(wire[w], x)
        /\ IsInjective(Tail(wire[w])) /\ ~Contains(Tail(wire[w]), t)
    BY <2>1, TailFacts DEF CopyInv, InFlight
  <2>3. /\ wire' = [wire EXCEPT ![w] = Tail(@)] /\ queue' = queue
        /\ owner' = [owner EXCEPT ![t] = w] /\ doomed' = doomed
        /\ \A x \in Tasks : x # t => pc'[x] = pc[x]
    BY <1>0, <1>1 DEF Accept, Goto
  <2>4. \A v \in Workers, x \in Tasks :
          InFlight(v, x)' => InFlight(v, x) /\ (v = w => x # t)
    BY <1>0, <2>2, <2>3 DEF InFlight
  <2>5. /\ ~Queued(t) /\ Submitted(t) /\ pc[t] = "idle"
        /\ \A v \in Workers : InFlight(v, t) => v = w
    BY <2>2 DEF CopyInv
  <2>6. \A v \in Workers : ~InFlight(v, t)' BY <2>2, <2>4, <2>5
  <2>7. t \notin doomed BY <2>5 DEF CopyInv, PendingPcs, SlotPcs
  <2>8. \A x \in Tasks : x # t => owner'[x] = owner[x]
    BY <1>0, <2>3
  <2>9. \A x : Queued(x)' <=> Queued(x) BY <2>3 DEF Queued
  <2>10. \A v \in Workers : IsInjective(wire'[v])
    BY <1>0, <2>2, <2>3 DEF CopyInv
  <2>11. \A x \in Tasks : \A v \in Workers : InFlight(v, x)' =>
           /\ ~Queued(x)'
           /\ \A u \in Workers : InFlight(u, x)' => u = v
           /\ Submitted(x)' /\ owner'[x] = None /\ pc'[x] = "idle"
    BY <1>s, <2>3, <2>4, <2>6, <2>8, <2>9 DEF CopyInv
  <2>12. \A x \in Tasks : Queued(x)' =>
           Submitted(x)' /\ owner'[x] = None /\ pc'[x] = "idle"
    BY <1>s, <2>3, <2>5, <2>8, <2>9 DEF CopyInv
  <2>13. \A x \in Tasks : ~Submitted(x)' => owner'[x] = None /\ pc'[x] = "idle"
    BY <1>s, <2>3, <2>5, <2>8 DEF CopyInv
  <2>14. \A x \in doomed' : pc'[x] \in PendingPcs \ {"run", "backoff"}
    BY <1>0, <2>3, <2>7 DEF CopyInv
  <2> QED BY <2>3, <2>10, <2>11, <2>12, <2>13, <2>14 DEF CopyInv
<1>2. CASE Signal(w)
  <2>1. UNCHANGED <<queue, wire, owner, pc>>
    BY <1>2 DEF Signal, brokerVars
  <2>2. \A x \in doomed' : pc'[x] \in PendingPcs \ {"run", "backoff"}
    BY <1>2, <2>1 DEF Signal, Pending, CopyInv
  <2> QED BY <1>s, <2>1, <2>2, CopyFrame
<1>3. CASE Stop(w)
  BY <1>3, <1>s, CopyFrame DEF Stop, brokerVars, CopyInv
<1>4. ASSUME wire' = [wire EXCEPT ![w] = <<>>], UNCHANGED <<queue, owner>>,
             \A t \in Tasks : pc[t] = "idle" /\ ~InFlight(w, t) =>
                             pc'[t] = "idle",
             \A t \in doomed' : pc'[t] \in PendingPcs \ {"run", "backoff"}
      PROVE  CopyInv'
  <2>1. \A v \in Workers, x \in Tasks :
          InFlight(v, x)' => InFlight(v, x) /\ v # w
    BY <1>0, <1>4, EmptyFacts DEF InFlight
  <2>2. \A v \in Workers : IsInjective(wire'[v])
    BY <1>0, <1>4, EmptyFacts DEF CopyInv
  <2>3. \A x : Queued(x)' <=> Queued(x) BY <1>4 DEF Queued
  <2>4. \A x \in Tasks : InFlight(w, x) => ~Queued(x) /\ Submitted(x)
    BY DEF CopyInv
  <2>5. \A x \in Tasks : \A v \in Workers : InFlight(v, x)' =>
           /\ ~Queued(x)'
           /\ \A u \in Workers : InFlight(u, x)' => u = v
           /\ Submitted(x)' /\ owner'[x] = None /\ pc'[x] = "idle"
    BY <1>s, <1>4, <2>1, <2>3 DEF CopyInv
  <2>6. \A x \in Tasks : Queued(x)' =>
           Submitted(x)' /\ owner'[x] = None /\ pc'[x] = "idle"
    BY <1>s, <1>4, <2>3, <2>4 DEF CopyInv
  <2>7. \A x \in Tasks : ~Submitted(x)' => owner'[x] = None /\ pc'[x] = "idle"
    BY <1>s, <1>4, <2>4 DEF CopyInv
  <2> QED BY <1>4, <2>2, <2>5, <2>6, <2>7 DEF CopyInv
<1>5. ASSUME DropWire(w), UNCHANGED doomed
      PROVE  /\ wire' = [wire EXCEPT ![w] = <<>>]
             /\ \A t \in Tasks : pc[t] = "idle" /\ ~InFlight(w, t) =>
                             pc'[t] = "idle"
             /\ \A t \in doomed' : pc'[t] \in PendingPcs \ {"run", "backoff"}
  <2>1. \A t \in doomed : ~InFlight(w, t)
    BY <1>0 DEF CopyInv, PendingPcs, SlotPcs
  <2> QED BY <1>0, <1>5, <2>1 DEF DropWire, CloseStream, CopyInv
<1>6. CASE StopListening(w)
  BY <1>4, <1>5, <1>6 DEF StopListening
<1>7. CASE ListenEnds(w)
  BY <1>4, <1>5, <1>7 DEF ListenEnds
<1>8. CASE Crash(w)
  <2>1. \A t \in Tasks : pc[t] = "idle" => t \notin Pending(w)
    BY DEF Pending, PendingPcs, SlotPcs
  <2>2. \A t \in doomed : ~InFlight(w, t)
    BY <1>0 DEF CopyInv, PendingPcs, SlotPcs
  <2> QED BY <1>0, <1>4, <1>8, <2>1, <2>2 DEF Crash, CloseStream, CopyInv
<1> QED
  BY <1>1, <1>2, <1>3, <1>6, <1>7, <1>8 DEF LoopStep

\* What a call of the client does besides submit() takes no task from anywhere.
LEMMA ClientFrame ==
  ASSUME NEW t \in Tasks,
         waiter \in [Tasks -> {"unsubmitted", "idle", "waiting", "returned",
                               "timedout", "stalled"}],
         \/ CallResult(t) \/ WaiterStep(t) \/ WaitTimesOut(t)
         \/ CallCheck(t) \/ CheckPoll(t)
         \/ Watch(t) \/ WatchPoll(t)
         \/ CancellerStep(t)
         \/ \E mode \in Modes : CallCancel(t, mode)
  PROVE  /\ UNCHANGED <<queue, wire, stream>>
         /\ \A x \in Tasks : Submitted(x)' = Submitted(x)
<1> USE DEF Submitted, brokerVars, brokerRest, Return
<1>1. CASE CallResult(t) BY <1>1 DEF CallResult
<1>2. CASE ReceiveResult(t) BY <1>2 DEF ReceiveResult
<1>3. CASE ObserveHeartbeat(t) BY <1>3 DEF ObserveHeartbeat
<1>4. CASE WaitStalls(t) BY <1>4 DEF WaitStalls, Stall
<1>5. CASE WaitTimesOut(t) BY <1>5 DEF WaitTimesOut
<1>6. CASE CallCheck(t) BY <1>6 DEF CallCheck
<1>7. CASE CheckPoll(t) BY <1>7 DEF CheckPoll
<1>8. CASE Watch(t) BY <1>8 DEF Watch
<1>9. CASE WatchPoll(t) BY <1>9 DEF WatchPoll, WatchRead, WatchRound
<1>10. CASE CancellerStep(t)
  BY <1>10 DEF CancellerStep, ReceiveConfirmation, CancelTimesOut,
     SeedCancelled
<1>11. CASE \E mode \in Modes : CallCancel(t, mode)
  BY <1>11 DEF CallCancel
<1> QED
  BY <1>1, <1>2, <1>3, <1>4, <1>5, <1>6, <1>7, <1>8, <1>9, <1>10,
     <1>11 DEF WaiterStep

\* A client's steps keep every task in one place: submit() appends a new one.
LEMMA ClientCopy ==
  ASSUME TypeOK, CopyInv, ClientNext, UNCHANGED workerVars
  PROVE  CopyInv'
<1>0. /\ queue \in Seq(Tasks) /\ waiter \in [Tasks -> {"unsubmitted", "idle",
           "waiting", "returned", "timedout", "stalled"}]
      /\ UNCHANGED <<owner, pc, doomed>>
  BY DEF TypeOK, BrokerTypeOK, ClientTypeOK, workerVars, handlerVars
<1> PICK t \in Tasks :
      \/ Submit(t)
      \/ CallResult(t) \/ WaiterStep(t) \/ WaitTimesOut(t)
      \/ CallCheck(t) \/ CheckPoll(t)
      \/ Watch(t) \/ WatchPoll(t)
      \/ CancellerStep(t)
      \/ \E mode \in Modes : CallCancel(t, mode)
  BY DEF ClientNext
<1>1. CASE Submit(t)
  <2>1. /\ queue' = Append(queue, t) /\ wire' = wire /\ ~Submitted(t)
        /\ waiter' = [waiter EXCEPT ![t] = "idle"]
    BY <1>1 DEF Submit
  <2>2. /\ ~Queued(t) /\ \A w \in Workers : ~InFlight(w, t)
        /\ owner[t] = None /\ pc[t] = "idle"
    BY <2>1 DEF CopyInv
  <2>3. \A x : Queued(x)' <=> Queued(x) \/ x = t
    BY <1>0, <2>1, AppendFacts DEF Queued
  <2>4. \A x \in Tasks : Submitted(x)' <=> Submitted(x) \/ x = t
    BY <1>0, <2>1 DEF Submitted
  <2>5. IsInjective(queue')
    BY <1>0, <2>1, <2>2, AppendFacts DEF CopyInv, Queued
  <2>6. \A w \in Workers, x \in Tasks : InFlight(w, x)' <=> InFlight(w, x)
    BY <2>1 DEF InFlight
  <2>7. \A w \in Workers : IsInjective(wire'[w]) BY <2>1 DEF CopyInv
  <2>8. \A x \in Tasks : \A w \in Workers : InFlight(w, x)' =>
          /\ ~Queued(x)'
          /\ \A v \in Workers : InFlight(v, x)' => v = w
          /\ Submitted(x)' /\ owner'[x] = None /\ pc'[x] = "idle"
    BY <1>0, <2>2, <2>3, <2>4, <2>6 DEF CopyInv
  <2>9. /\ \A x \in Tasks : Queued(x)' =>
            Submitted(x)' /\ owner'[x] = None /\ pc'[x] = "idle"
        /\ \A x \in Tasks : ~Submitted(x)' =>
            owner'[x] = None /\ pc'[x] = "idle"
        /\ \A x \in doomed' : pc'[x] \in PendingPcs \ {"run", "backoff"}
    BY <1>0, <2>2, <2>3, <2>4 DEF CopyInv
  <2> QED BY <2>5, <2>7, <2>8, <2>9 DEF CopyInv
<1>2. CASE ~Submit(t)
  <2>1. UNCHANGED <<queue, wire>> /\ \A x \in Tasks : Submitted(x)' = Submitted(x)
    BY <1>0, <1>2, ClientFrame
  <2>2. /\ \A x \in Tasks : pc[x] = "idle" => pc'[x] = "idle"
        /\ \A x \in doomed' : pc'[x] \in PendingPcs \ {"run", "backoff"}
    BY <1>0 DEF CopyInv
  <2> QED BY <1>0, <2>1, <2>2, CopyFrame
<1> QED BY <1>1, <1>2

\* The broker's coroutines take a task out of the queue before they write it,
\* and put it back only when nobody got it.
LEMMA BrokerCopy ==
  ASSUME TypeOK, CopyInv, BrokerNext, UNCHANGED <<workerVars, clientVars>>
  PROVE  CopyInv'
<1>0. /\ queue \in Seq(Tasks) /\ wire \in [Workers -> Seq(Tasks)]
      /\ UNCHANGED <<owner, pc, doomed>>
      /\ \A x \in Tasks : Submitted(x)' = Submitted(x)
  BY DEF TypeOK, BrokerTypeOK, workerVars, handlerVars, clientVars, Submitted
<1>1. CASE CoolDown
  BY <1>0, <1>1, CopyFrame DEF CoolDown, CopyInv
<1>2. ASSUME NEW w \in Workers,
             Deliver(w) \/ DeliverToDeadPeer(w) \/ PutTaskBack(w)
      PROVE  CopyInv'
  <2>0. queue # <<>> BY <1>2 DEF Deliver, DeliverToDeadPeer, PutTaskBack
  <2> PICK t : t = Head(queue) OBVIOUS
  <2>1. /\ t \in Tasks /\ Queued(t) /\ Tail(queue) \in Seq(Tasks)
        /\ \A x : Contains(Tail(queue), x) => Queued(x) /\ x # t
        /\ IsInjective(Tail(queue))
    BY <1>0, <2>0, TailFacts DEF CopyInv, Queued
  <2>2. /\ Submitted(t) /\ owner[t] = None /\ pc[t] = "idle"
        /\ \A v \in Workers : ~InFlight(v, t)
    BY <2>1 DEF CopyInv
  <2>3. CASE Deliver(w)
    <3>1. /\ queue' = Tail(queue)
          /\ wire' = [wire EXCEPT ![w] = Append(wire[w], t)]
      BY <2>3 DEF Deliver
    <3>2. /\ \A x : Contains(Append(wire[w], t), x) <=>
                     Contains(wire[w], x) \/ x = t
          /\ IsInjective(Append(wire[w], t))
      BY <1>0, <2>1, <2>2, AppendFacts DEF CopyInv, InFlight
    <3>3. \A v \in Workers, x \in Tasks :
            InFlight(v, x)' <=> InFlight(v, x) \/ (v = w /\ x = t)
      BY <1>0, <3>1, <3>2 DEF InFlight
    <3>4. \A x : Queued(x)' => Queued(x) /\ x # t
      BY <2>1, <3>1 DEF Queued
    <3>5. \A v \in Workers : IsInjective(wire'[v])
      BY <1>0, <3>1, <3>2 DEF CopyInv
    <3>6. \A x \in Tasks : \A v \in Workers : InFlight(v, x)' =>
            /\ ~Queued(x)'
            /\ \A u \in Workers : InFlight(u, x)' => u = v
            /\ Submitted(x)' /\ owner'[x] = None /\ pc'[x] = "idle"
      BY <1>0, <2>2, <3>3, <3>4 DEF CopyInv
    <3> QED BY <1>0, <2>1, <3>1, <3>4, <3>5, <3>6 DEF CopyInv
  <2>4. CASE DeliverToDeadPeer(w) \/ PutTaskBack(w)
    <3>1. /\ wire' = wire
          /\ queue' = Tail(queue) \/ queue' = Append(Tail(queue), t)
      BY <2>4 DEF DeliverToDeadPeer, PutTaskBack
    <3>2. /\ IsInjective(queue')
          /\ \A x : Queued(x)' => Queued(x)
      <4>1. ~Contains(Tail(queue), t) BY <2>1
      <4>2. CASE queue' = Tail(queue) BY <2>1, <4>2 DEF Queued
      <4>3. CASE queue' = Append(Tail(queue), t)
        <5>1. /\ IsInjective(Append(Tail(queue), t))
              /\ \A x : Contains(Append(Tail(queue), t), x) =>
                         Contains(Tail(queue), x) \/ x = t
          BY <2>1, <4>1, AppendFacts
        <5> QED BY <2>1, <4>3, <5>1 DEF Queued
      <4> QED BY <3>1, <4>2, <4>3
    <3>3. \A v \in Workers, x \in Tasks : InFlight(v, x)' <=> InFlight(v, x)
      BY <3>1 DEF InFlight
    <3> QED BY <1>0, <3>1, <3>2, <3>3 DEF CopyInv
  <2> QED BY <1>2, <2>3, <2>4
<1> QED BY <1>1, <1>2 DEF BrokerNext

\* Every step of the system keeps every task in one place.
LEMMA NextCopy ==
  ASSUME TypeOK, HandlerInv, CopyInv, [Next]_vars
  PROVE  CopyInv'
<1>1. CASE WorkerNext /\ UNCHANGED clientVars
  <2>1. \A t \in Tasks : Submitted(t)' = Submitted(t)
    BY <1>1 DEF Submitted, clientVars
  <2> QED BY <1>1, <2>1, LoopCopy, HandlerFrame, CopyFrame DEF WorkerNext
<1>2. CASE UNCHANGED vars
  <2>1. UNCHANGED <<queue, wire, owner, pc, doomed, waiter>>
    BY <1>2 DEF vars, brokerVars, workerVars, handlerVars, clientVars
  <2> QED BY <2>1, CopyFrame DEF CopyInv, Submitted
<1> QED BY <1>1, <1>2, ClientCopy, BrokerCopy DEF Next

\* The invariant holds in every reachable state.
LEMMA CopyInvariant == Spec => []CopyInv
<1>1. Init => CopyInv BY InitCopy
<1>2. TypeOK /\ HandlerInv /\ CopyInv /\ [Next]_vars => CopyInv'
  BY NextCopy
<1> QED BY <1>1, <1>2, TypesInvariant, PTL DEF Spec

\* A task is never in two places: whatever connections break and workers die,
\* the broker's put-back makes no second copy (local.py:195-198).
THEOREM OneCopy == Spec => []AtMostOneCopy
<1>1. CopyInv => AtMostOneCopy BY CopyInvImplies
<1> QED BY <1>1, CopyInvariant, PTL


-----------------------------------------------------------------------------
(* How a step may change the holders of a worker's slots.                  *)

\* The holders of a slot are finitely many.
LEMMA HoldersFinite ==
  ASSUME NEW w PROVE IsFiniteSet(Holders(w)) /\ Cardinality(Holders(w)) \in Nat
<1>1. IsFiniteSet(Tasks) /\ Holders(w) \subseteq Tasks
  BY BrokerAssumption DEF Holders
<1>2. IsFiniteSet(Holders(w)) BY <1>1, FS_Subset
<1> QED BY <1>2, FS_CardinalityType

\* A step that moves no handler into or out of a slot changes no count.
LEMMA KeepSlots ==
  ASSUME SlotAccounting, UNCHANGED free,
         \A w \in Workers, t \in Tasks :
           (owner'[t] = w /\ pc'[t] \in SlotPcs) <=>
           (owner[t] = w /\ pc[t] \in SlotPcs)
  PROVE  SlotAccounting'
<1>1. \A w \in Workers : Holders(w)' = Holders(w) BY DEF Holders
<1> QED BY <1>1 DEF SlotAccounting

\* Acquiring the semaphore adds the handler to the holders.
LEMMA TakeSlot ==
  ASSUME TypeOK, HandlerInv, SlotAccounting, NEW t \in Tasks,
         pc[t] \in PendingPcs \ SlotPcs, NEW l \in SlotPcs, Goto(t, l),
         UNCHANGED owner, free' = [free EXCEPT ![owner[t]] = @ - 1]
  PROVE  SlotAccounting'
<1>1. /\ owner[t] \in Workers /\ free \in [Workers -> Nat]
      /\ pc' = [pc EXCEPT ![t] = l] /\ pc \in [Tasks -> Pcs]
  BY DEF TypeOK, WorkerTypeOK, HandlerInv, Goto
<1>2. ASSUME NEW w \in Workers
      PROVE  free'[w] + Cardinality(Holders(w)') = Concurrency
  <2>1. CASE w = owner[t]
    <3>1. t \notin Holders(w) /\ Holders(w)' = Holders(w) \cup {t}
      BY <1>1, <2>1 DEF Holders
    <3>2. Cardinality(Holders(w)') = Cardinality(Holders(w)) + 1
      BY <3>1, HoldersFinite, FS_AddElement
    <3>3. free'[w] = free[w] - 1 BY <1>1, <2>1
    <3> QED BY <1>1, <3>2, <3>3, HoldersFinite DEF SlotAccounting
  <2>2. CASE w # owner[t]
    <3>1. Holders(w)' = Holders(w) /\ free'[w] = free[w]
      BY <1>1, <2>2 DEF Holders
    <3> QED BY <3>1 DEF SlotAccounting
  <2> QED BY <2>1, <2>2
<1> QED BY <1>2 DEF SlotAccounting

\* Releasing it removes the handler from them.
LEMMA GiveSlotBack ==
  ASSUME TypeOK, HandlerInv, SlotAccounting, NEW t \in Tasks,
         pc[t] \in SlotPcs, NEW l, l \notin SlotPcs, Goto(t, l),
         UNCHANGED owner, Release(t)
  PROVE  SlotAccounting'
<1>1. /\ owner[t] \in Workers /\ free \in [Workers -> Nat]
      /\ pc' = [pc EXCEPT ![t] = l] /\ pc \in [Tasks -> Pcs]
      /\ free' = [free EXCEPT ![owner[t]] = @ + 1]
  BY DEF TypeOK, WorkerTypeOK, HandlerInv, Goto, Release, PendingPcs
<1>2. ASSUME NEW w \in Workers
      PROVE  free'[w] + Cardinality(Holders(w)') = Concurrency
  <2>1. CASE w = owner[t]
    <3>1. t \in Holders(w) /\ Holders(w)' = Holders(w) \ {t}
      BY <1>1, <2>1 DEF Holders
    <3>2. Cardinality(Holders(w)') = Cardinality(Holders(w)) - 1
      BY <3>1, HoldersFinite, FS_RemoveElement
    <3>3. free'[w] = free[w] + 1 BY <1>1, <2>1
    <3> QED BY <1>1, <3>2, <3>3, HoldersFinite DEF SlotAccounting
  <2>2. CASE w # owner[t]
    <3>1. Holders(w)' = Holders(w) /\ free'[w] = free[w]
      BY <1>1, <2>2 DEF Holders
    <3> QED BY <3>1 DEF SlotAccounting
  <2> QED BY <2>1, <2>2
<1> QED BY <1>2 DEF SlotAccounting

\* All slots are free at first.
LEMMA InitSlots == Init => SlotAccounting
<1> SUFFICES ASSUME Init, NEW w \in Workers
             PROVE  free[w] + Cardinality(Holders(w)) = Concurrency
  BY DEF SlotAccounting
<1>1. Holders(w) = {} /\ free[w] = Concurrency
  BY DEF Init, WorkerInit, Holders, SlotPcs
<1> QED BY <1>1, FS_EmptySet, WorkerAssumption

-----------------------------------------------------------------------------
(* The steps.                                                              *)

\* A step of a handler takes a slot, gives its own back or keeps it.
LEMMA HandlerSlots ==
  ASSUME TypeOK, HandlerInv, CopyInv, SlotAccounting, NEW t \in Tasks,
         HandlerStep(t) \/ HandlerFault(t) \/ Heartbeat(t) \/ ThreadReturns(t)
  PROVE  SlotAccounting'
<1> USE DEF At, handlerRest, execRest, sendRest, brokerVars
<1>0. /\ pc \in [Tasks -> Pcs] /\ UNCHANGED owner
      /\ \A x \in doomed : pc[x] \in PendingPcs \ {"run", "backoff"}
  BY HandlerFrame DEF TypeOK, WorkerTypeOK, CopyInv
<1>k. ASSUME NEW l, Goto(t, l), UNCHANGED free, l \in SlotPcs <=> pc[t] \in SlotPcs
      PROVE  SlotAccounting'
  <2>1. \A x \in Tasks : pc'[x] \in SlotPcs <=> pc[x] \in SlotPcs
    BY <1>0, <1>k DEF Goto
  <2> QED BY <1>0, <1>k, <2>1, KeepSlots
<1>1. CASE WakeUp(t)
  BY <1>0, <1>1, <1>k DEF WakeUp, SlotPcs
<1>2. CASE Acquire(t)
  BY <1>0, <1>2, TakeSlot DEF Acquire, PendingPcs, SlotPcs
<1>3. CASE CheckCancelled(t)
  BY <1>0, <1>3, <1>k, GiveSlotBack DEF CheckCancelled, SlotPcs
<1>4. CASE CheckThrottle(t)
  BY <1>0, <1>4, <1>k DEF CheckThrottle, SlotPcs
<1>5. CASE CheckFails(t)
  BY <1>0, <1>5, <1>k DEF CheckFails, SlotPcs
<1>6. CASE BuildFails(t)
  BY <1>0, <1>6, <1>k DEF BuildFails, SlotPcs
<1>7. CASE StartRun(t)
  BY <1>0, <1>7, <1>k DEF StartRun, SlotPcs
<1>8. CASE RunSucceeds(t)
  BY <1>0, <1>8, <1>k DEF RunSucceeds, Finish, SlotPcs
<1>9. CASE RunRaises(t)
  BY <1>0, <1>9, <1>k DEF RunRaises, NextAttempt, Finish, SlotPcs
<1>10. CASE SyncRunTimesOut(t)
  BY <1>0, <1>10, <1>k DEF SyncRunTimesOut, NextAttempt, Finish, SlotPcs
<1>11. CASE RetryRun(t)
  BY <1>0, <1>11, <1>k DEF RetryRun, SlotPcs
<1>12. CASE Abort(t)
  BY <1>0, <1>12, <1>k DEF Abort, Finish, SlotPcs
<1>13. CASE SwallowCancel(t) BY <1>0, <1>13, KeepSlots DEF SwallowCancel
<1>14. CASE Heartbeat(t) BY <1>0, <1>14, KeepSlots DEF Heartbeat
<1>15. CASE ThreadReturns(t) BY <1>0, <1>15, KeepSlots DEF ThreadReturns
<1>16. CASE Settle(t)
  BY <1>0, <1>16, <1>k DEF Settle, SlotPcs
<1>17. CASE Send(t)
  BY <1>0, <1>17, <1>k, GiveSlotBack DEF Send, SlotPcs
<1>18. CASE Reject(t)
  BY <1>0, <1>18, <1>k DEF Reject, SlotPcs
<1>19. CASE SendFails(t)
  BY <1>0, <1>19, <1>k, GiveSlotBack DEF SendFails, SlotPcs
<1>20. CASE Record(t)
  BY <1>0, <1>20, <1>k, GiveSlotBack DEF Record, SlotPcs
<1>21. CASE Interrupted(t)
  BY <1>0, <1>21, <1>k, GiveSlotBack DEF Interrupted, SlotPcs
<1>22. CASE SettleInterrupted(t)
  BY <1>0, <1>22, <1>k, GiveSlotBack DEF SettleInterrupted, SlotPcs
<1> QED
  BY <1>1, <1>2, <1>3, <1>4, <1>5, <1>6, <1>7, <1>8, <1>9, <1>10, <1>11, <1>12, <1>13, <1>14, <1>15, <1>16, <1>17, <1>18, <1>19, <1>20, <1>21, <1>22
     DEF HandlerStep, HandlerFault

\* What a worker's loop does moves no other worker's handler; a process that
\* dies takes its slots with it.
LEMMA LoopSlots ==
  ASSUME TypeOK, HandlerInv, CopyInv, SlotAccounting, NEW w \in Workers,
         LoopStep(w) \/ Signal(w) \/ ListenEnds(w) \/ Crash(w)
  PROVE  SlotAccounting'
<1>0. /\ wire \in [Workers -> Seq(Tasks)] /\ pc \in [Tasks -> Pcs]
      /\ owner \in [Tasks -> Workers \cup {None}] /\ free \in [Workers -> Nat]
      /\ \A t \in Tasks : InFlight(w, t) => pc[t] \notin SlotPcs
  BY DEF TypeOK, BrokerTypeOK, WorkerTypeOK, CopyInv, SlotPcs
<1>1. CASE Accept(w)
  <2>1. wire[w] \in Seq(Tasks) /\ wire[w] # <<>> BY <1>0, <1>1 DEF Accept
  <2> PICK t : t = Head(wire[w]) OBVIOUS
  <2>2. t \in Tasks /\ InFlight(w, t) BY <2>1, TailFacts DEF InFlight
  <2>3. /\ pc'[t] \notin SlotPcs /\ pc[t] \notin SlotPcs
        /\ \A x \in Tasks : x # t => pc'[x] = pc[x] /\ owner'[x] = owner[x]
    BY <1>0, <1>1, <2>2 DEF Accept, Goto, SlotPcs
  <2>4. UNCHANGED free BY <1>1 DEF Accept
  <2> QED BY <2>3, <2>4, KeepSlots
<1>2. CASE Signal(w) BY <1>2, KeepSlots DEF Signal
<1>3. CASE Stop(w) BY <1>3, KeepSlots DEF Stop
<1>4. ASSUME DropWire(w), UNCHANGED <<free, owner>> PROVE SlotAccounting'
  <2>1. \A t \in Tasks : pc'[t] \in SlotPcs <=> pc[t] \in SlotPcs
    BY <1>0, <1>4 DEF DropWire, SlotPcs
  <2> QED BY <1>4, <2>1, KeepSlots
<1>5. CASE StopListening(w) BY <1>4, <1>5 DEF StopListening
<1>6. CASE ListenEnds(w) BY <1>4, <1>6 DEF ListenEnds
<1>7. CASE Crash(w)
  <2>1. /\ free' = [free EXCEPT ![w] = Concurrency] /\ UNCHANGED owner
        /\ \A t \in Tasks : pc'[t] = IF t \in Pending(w) \/ InFlight(w, t)
                                     THEN "lost" ELSE pc[t]
    BY <1>7 DEF Crash
  <2>2. Holders(w)' = {}
    BY <2>1 DEF Holders, Pending, PendingPcs, SlotPcs
  <2>3. ASSUME NEW v \in Workers, v # w PROVE Holders(v)' = Holders(v)
    BY <1>0, <2>1, <2>3 DEF Holders, Pending, SlotPcs
  <2>4. ASSUME NEW v \in Workers
        PROVE  free'[v] + Cardinality(Holders(v)') = Concurrency
    <3>1. CASE v = w
      <4>1. Cardinality(Holders(v)') = 0 BY <2>2, <3>1, FS_EmptySet
      <4> QED BY <1>0, <2>1, <3>1, <4>1, WorkerAssumption
    <3>2. CASE v # w BY <1>0, <2>1, <2>3, <3>2 DEF SlotAccounting
    <3> QED BY <3>1, <3>2
  <2> QED BY <2>4 DEF SlotAccounting
<1> QED BY <1>1, <1>2, <1>3, <1>5, <1>6, <1>7 DEF LoopStep

\* The semaphore of every worker counts its handlers exactly, so at most
\* `concurrency` tasks execute at once and no path out of _execute_task leaks a
\* slot (remote.py:649-655).
THEOREM SlotsAccounted == Spec => []SlotAccounting
<1>1. Init => SlotAccounting BY InitSlots
<1>2. TypeOK /\ HandlerInv /\ CopyInv /\ SlotAccounting /\ [Next]_vars =>
        SlotAccounting'
  <2> SUFFICES ASSUME TypeOK, HandlerInv, CopyInv, SlotAccounting, [Next]_vars
               PROVE  SlotAccounting'
    OBVIOUS
  <2>1. CASE UNCHANGED workerVars
    BY <2>1, KeepSlots DEF workerVars, handlerVars
  <2>2. CASE WorkerNext /\ UNCHANGED clientVars
    BY <2>2, HandlerSlots, LoopSlots DEF WorkerNext
  <2> QED BY <2>1, <2>2 DEF Next, vars
<1> QED BY <1>1, <1>2, TypesInvariant, CopyInvariant, PTL DEF Spec

-----------------------------------------------------------------------------
(* Losses on dead connections.                                             *)

\* Submitted tasks that are nowhere, and the connections whose end the
\* broker has met.
Strays == {t \in Tasks : /\ Submitted(t) /\ pc[t] = "idle"
                        /\ ~Queued(t) /\ \A w \in Workers : ~InFlight(w, t)}

Broken == {w \in Workers : stream[w] \in {"reset", "ended"}}

\* Both are finite, and nothing is lost where nothing is new.
LEMMA FewerStrays ==
  ASSUME OneLossPerConnection, Strays' \subseteq Strays, Broken \subseteq Broken'
  PROVE  OneLossPerConnection'
<1>1. /\ IsFiniteSet(Strays) /\ IsFiniteSet(Broken')
      /\ Cardinality(Strays) <= Cardinality(Broken)
  BY BrokerAssumption, FS_Subset DEF Strays, Broken, OneLossPerConnection
<1>2. /\ Cardinality(Strays') <= Cardinality(Strays)
      /\ Cardinality(Broken) <= Cardinality(Broken')
  BY <1>1, FS_Subset
<1>3. /\ Cardinality(Strays') \in Nat /\ Cardinality(Strays) \in Nat
      /\ Cardinality(Broken) \in Nat /\ Cardinality(Broken') \in Nat
  BY <1>1, FS_Subset, FS_CardinalityType
<1>4. Cardinality(Strays') <= Cardinality(Broken') BY <1>1, <1>2, <1>3
<1> QED BY <1>4 DEF Strays, Broken, OneLossPerConnection

\* A task written to a dead peer is lost with the first write to it.
LEMMA DeadPeerLoss ==
  ASSUME TypeOK, OneLossPerConnection, NEW w \in Workers, DeliverToDeadPeer(w),
         UNCHANGED <<workerVars, clientVars>>
  PROVE  OneLossPerConnection'
<1> DEFINE h == Head(queue)
<1>1. /\ queue \in Seq(Tasks) /\ queue # <<>> /\ queue' = Tail(queue)
      /\ stream \in [Workers -> StreamState] /\ stream[w] = "closed"
      /\ stream' = [stream EXCEPT ![w] = "reset"]
      /\ UNCHANGED <<wire, pc, waiter>>
  BY DEF DeliverToDeadPeer, TypeOK, BrokerTypeOK, workerVars, handlerVars, clientVars
<1>2. \A x : Queued(x) => Queued(x)' \/ x = h
  BY <1>1, TailFacts DEF Queued
<1>3. Strays' \subseteq Strays \cup {h}
  BY <1>1, <1>2 DEF Strays, Submitted, InFlight
<1>4. w \notin Broken /\ Broken' = Broken \cup {w}
  BY <1>1 DEF Broken
<1>5. /\ IsFiniteSet(Strays) /\ IsFiniteSet(Broken)
      /\ Cardinality(Strays) <= Cardinality(Broken)
  BY BrokerAssumption, FS_Subset DEF Strays, Broken, OneLossPerConnection
<1>6. Cardinality(Strays) \in Nat /\ Cardinality(Broken) \in Nat
  BY <1>5, FS_CardinalityType
<1>7. /\ IsFiniteSet(Strays \cup {h})
      /\ Cardinality(Strays \cup {h}) <= Cardinality(Strays) + 1
  BY <1>5, <1>6, FS_AddElement
<1>8. Cardinality(Broken') = Cardinality(Broken) + 1
  BY <1>4, <1>5, FS_AddElement
<1>9. /\ Cardinality(Strays') <= Cardinality(Strays \cup {h})
      /\ Cardinality(Strays') \in Nat /\ Cardinality(Strays \cup {h}) \in Nat
  BY <1>3, <1>7, FS_Subset, FS_CardinalityType
<1>10. Cardinality(Strays') <= Cardinality(Broken')
  BY <1>5, <1>6, <1>7, <1>8, <1>9
<1> QED BY <1>10 DEF Strays, Broken, OneLossPerConnection

\* A step that takes no task from where it is and mends no connection.
LEMMA KeepPlaces ==
  ASSUME OneLossPerConnection,
         \A t \in Tasks : /\ pc'[t] = "idle" => pc[t] = "idle"
                          /\ pc'[t] = "idle" /\ Submitted(t)' =>
                               Submitted(t) \/ Queued(t)'
                          /\ pc'[t] = "idle" /\ Queued(t) =>
                               Queued(t)' \/ \E w \in Workers : InFlight(w, t)'
                          /\ \A w \in Workers : pc'[t] = "idle" /\ InFlight(w, t) =>
                               InFlight(w, t)',
         \A w \in Workers : stream[w] \in {"reset", "ended"} =>
                             stream'[w] \in {"reset", "ended"}
  PROVE  OneLossPerConnection'
BY FewerStrays DEF Strays, Broken

\* The loop takes tasks off the wire, or marks them as lost with it.
LEMMA LoopLosses ==
  ASSUME TypeOK, CopyInv, OneLossPerConnection, NEW w \in Workers,
         UNCHANGED clientVars,
         LoopStep(w) \/ Signal(w) \/ ListenEnds(w) \/ Crash(w)
  PROVE  OneLossPerConnection'
<1>0. /\ wire \in [Workers -> Seq(Tasks)] /\ pc \in [Tasks -> Pcs]
      /\ stream \in [Workers -> StreamState]
      /\ \A t \in Tasks : Submitted(t)' = Submitted(t)
  BY DEF TypeOK, BrokerTypeOK, WorkerTypeOK, Submitted, clientVars
<1>1. CASE Accept(w)
  <2>1. wire[w] \in Seq(Tasks) /\ wire[w] # <<>> BY <1>0, <1>1 DEF Accept
  <2> PICK t : t = Head(wire[w]) OBVIOUS
  <2>2. /\ t \in Tasks
        /\ \A x : Contains(wire[w], x) => Contains(Tail(wire[w]), x) \/ x = t
    BY <2>1, TailFacts
  <2>3. /\ wire' = [wire EXCEPT ![w] = Tail(@)] /\ UNCHANGED <<queue, stream>>
        /\ pc'[t] # "idle" /\ \A x \in Tasks : x # t => pc'[x] = pc[x]
    BY <1>0, <1>1, <2>2 DEF Accept, Goto
  <2>4. \A x \in Tasks, v \in Workers :
          InFlight(v, x) /\ x # t => InFlight(v, x)'
    BY <1>0, <2>2, <2>3 DEF InFlight
  <2> QED BY <1>0, <2>3, <2>4, KeepPlaces DEF Queued
<1>2. CASE Signal(w)
  <2>1. UNCHANGED <<queue, wire, stream, pc>> BY <1>2 DEF Signal, brokerVars
  <2> QED BY <1>0, <2>1, KeepPlaces DEF Queued, InFlight
<1>3. CASE Stop(w)
  <2>1. UNCHANGED <<queue, wire, stream, pc>> BY <1>3 DEF Stop, brokerVars
  <2> QED BY <1>0, <2>1, KeepPlaces DEF Queued, InFlight
<1>4. ASSUME CloseStream(w), UNCHANGED queue,
             \A t \in Tasks : /\ pc'[t] = "idle" => pc[t] = "idle"
                              /\ InFlight(w, t) => pc'[t] # "idle"
      PROVE  OneLossPerConnection'
  <2>1. \A x \in Tasks, v \in Workers :
          InFlight(v, x) /\ v # w => InFlight(v, x)'
    BY <1>0, <1>4 DEF InFlight, CloseStream
  <2>2. \A v \in Workers : stream[v] \in {"reset", "ended"} => stream'[v] = stream[v]
    BY <1>0, <1>4 DEF CloseStream
  <2> QED BY <1>0, <1>4, <2>1, <2>2, KeepPlaces DEF Queued
<1>5. CASE StopListening(w)
  BY <1>0, <1>4, <1>5 DEF StopListening, DropWire
<1>6. CASE ListenEnds(w)
  BY <1>0, <1>4, <1>6 DEF ListenEnds, DropWire
<1>7. CASE Crash(w)
  BY <1>0, <1>4, <1>7 DEF Crash
<1> QED BY <1>1, <1>2, <1>3, <1>5, <1>6, <1>7 DEF LoopStep

\* submit() queues its task; nothing else the client calls moves one.
LEMMA ClientLosses ==
  ASSUME TypeOK, OneLossPerConnection, ClientNext, UNCHANGED workerVars
  PROVE  OneLossPerConnection'
<1>0. /\ queue \in Seq(Tasks) /\ UNCHANGED pc
      /\ waiter \in [Tasks -> {"unsubmitted", "idle", "waiting", "returned",
                               "timedout", "stalled"}]
  BY DEF TypeOK, BrokerTypeOK, ClientTypeOK, workerVars, handlerVars
<1>1. ASSUME NEW t \in Tasks, Submit(t) PROVE OneLossPerConnection'
  <2>1. /\ queue' = Append(queue, t) /\ UNCHANGED <<wire, stream>>
        /\ \A x \in Tasks : x # t => Submitted(x)' = Submitted(x)
    BY <1>0, <1>1 DEF Submit, Submitted
  <2>2. \A x : Queued(x)' <=> Queued(x) \/ x = t
    BY <1>0, <2>1, AppendFacts DEF Queued
  <2> QED BY <1>0, <2>1, <2>2, KeepPlaces DEF InFlight
<1>2. CASE ~\E t \in Tasks : Submit(t)
  <2>1. /\ UNCHANGED <<queue, wire, stream>>
        /\ \A x \in Tasks : Submitted(x)' = Submitted(x)
    BY <1>0, <1>2, ClientFrame DEF ClientNext
  <2> QED BY <1>0, <2>1, KeepPlaces DEF Queued, InFlight
<1> QED BY <1>1, <1>2

\* Of the broker's steps only the write to a dead peer loses a task.
LEMMA BrokerLosses ==
  ASSUME TypeOK, OneLossPerConnection, BrokerNext,
         UNCHANGED <<workerVars, clientVars>>
  PROVE  OneLossPerConnection'
<1>0. /\ queue \in Seq(Tasks) /\ wire \in [Workers -> Seq(Tasks)]
      /\ stream \in [Workers -> StreamState]
      /\ UNCHANGED pc /\ \A x \in Tasks : Submitted(x)' = Submitted(x)
  BY DEF TypeOK, BrokerTypeOK, workerVars, handlerVars, clientVars, Submitted
<1>1. CASE CoolDown
  BY <1>0, <1>1, KeepPlaces DEF CoolDown, Queued, InFlight
<1>2. ASSUME NEW w \in Workers, Deliver(w) PROVE OneLossPerConnection'
  <2>1. /\ queue # <<>> /\ queue' = Tail(queue) /\ UNCHANGED stream
        /\ wire' = [wire EXCEPT ![w] = Append(@, Head(queue))]
    BY <1>2 DEF Deliver
  <2>2. /\ Head(queue) \in Tasks
        /\ \A x : Queued(x) => Queued(x)' \/ x = Head(queue)
    BY <1>0, <2>1, TailFacts DEF Queued
  <2>3. \A x \in Tasks : /\ \A v \in Workers : InFlight(v, x) => InFlight(v, x)'
                         /\ x = Head(queue) => InFlight(w, x)'
    BY <1>0, <2>1, <2>2, AppendFacts DEF InFlight
  <2> QED BY <1>0, <2>1, <2>2, <2>3, KeepPlaces
<1>3. ASSUME NEW w \in Workers, PutTaskBack(w) PROVE OneLossPerConnection'
  <2>1. /\ queue # <<>> /\ queue' = Append(Tail(queue), Head(queue))
        /\ stream' = [stream EXCEPT ![w] = "ended"] /\ UNCHANGED wire
    BY <1>3 DEF PutTaskBack
  <2>2. /\ Head(queue) \in Tasks /\ Tail(queue) \in Seq(Tasks)
        /\ \A x : Queued(x) => Contains(Tail(queue), x) \/ x = Head(queue)
    BY <1>0, <2>1, TailFacts DEF Queued
  <2>3. \A x : Queued(x) => Queued(x)'
    BY <2>1, <2>2, AppendFacts DEF Queued
  <2> QED BY <1>0, <2>1, <2>3, KeepPlaces DEF InFlight
<1> QED BY <1>1, <1>2, <1>3, DeadPeerLoss DEF BrokerNext

\* Whatever connections break, the broker loses no more tasks than one for
\* each connection whose end it has met (local.py:184-198).
THEOREM LossesBounded == Spec => []OneLossPerConnection
<1>1. Init => OneLossPerConnection
  <2> SUFFICES ASSUME Init PROVE OneLossPerConnection OBVIOUS
  <2>1. Strays = {} /\ Broken = {}
    BY DEF Init, BrokerInit, ClientInit, Strays, Broken, Submitted
  <2> QED BY <2>1, FS_EmptySet DEF Strays, Broken, OneLossPerConnection
<1>2. TypeOK /\ HandlerInv /\ CopyInv /\ OneLossPerConnection /\ [Next]_vars =>
        OneLossPerConnection'
  <2> SUFFICES ASSUME TypeOK, HandlerInv, CopyInv, OneLossPerConnection, [Next]_vars
               PROVE  OneLossPerConnection'
    OBVIOUS
  <2>1. CASE WorkerNext /\ UNCHANGED clientVars
    <3>1. \A t \in Tasks : Submitted(t)' = Submitted(t)
      BY <2>1 DEF Submitted, clientVars
    <3>2. ASSUME NEW t \in Tasks,
                 HandlerStep(t) \/ HandlerFault(t) \/ Heartbeat(t) \/ ThreadReturns(t)
          PROVE  OneLossPerConnection'
      BY <3>1, <3>2, HandlerFrame, KeepPlaces DEF Queued, InFlight
    <3> QED BY <2>1, <3>2, LoopLosses DEF WorkerNext
  <2>2. CASE UNCHANGED vars
    <3>1. UNCHANGED <<queue, wire, stream, pc, waiter>>
      BY <2>2 DEF vars, brokerVars, workerVars, handlerVars, clientVars
    <3> QED BY <3>1, KeepPlaces DEF Queued, InFlight, Submitted
  <2> QED BY <2>1, <2>2, ClientLosses, BrokerLosses DEF Next
<1> QED BY <1>1, <1>2, TypesInvariant, CopyInvariant, PTL DEF Spec

=============================================================================
