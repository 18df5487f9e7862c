---------------------------- MODULE AnswerProofs ----------------------------
(***************************************************************************)
(* Verdicts and answers.  TaskLifecycle implements TaskPromise: whatever   *)
(* interleaves, breaks or dies, a task gets at most one verdict, and the   *)
(* client's handle shows that verdict or a cancellation the client asked   *)
(* for.  A task is left without an answer only for a reason, a graceful    *)
(* shutdown answers what it accepted, a heartbeat ends before the result   *)
(* it belongs to can be read, and a stall is reported only for a reason.   *)
(***************************************************************************)
EXTENDS TaskLifecycleProofs

-----------------------------------------------------------------------------
(* One verdict: the invariant.                                             *)

\* Between its acceptance and the sending of its envelope a task has no
\* verdict; what the result slot holds, or the progress stream took from it, is
\* the verdict or the cancellation the client put there itself.
VerdictInv ==
  \A t \in Tasks :
    /\ pc[t] \in (PendingPcs \ {"record"}) \cup {"idle"} => verdict[t] = None
    /\ pc[t] \in {"settle", "send", "reject"} => envelope[t] \in Status
    /\ results[t] # None =>
         results[t] = verdict[t] \/ (t \in cancelled /\ results[t] = "cancelled")
    /\ watcher[t] \in Status =>
         watcher[t] = verdict[t] \/ (t \in cancelled /\ watcher[t] = "cancelled")
    /\ canceller[t] # "idle" => t \in cancelled

\* Nothing is reported at first.
LEMMA InitVerdict == Init => VerdictInv
BY DEF Init, BrokerInit, WorkerInit, ClientInit, VerdictInv, PendingPcs, SlotPcs, Status

\* A client's step puts nothing into the slot but a cancellation it asked for.
LEMMA ClientVerdict ==
  ASSUME TypeOK, VerdictInv, ClientNext, UNCHANGED workerVars
  PROVE  VerdictInv'
<1> USE DEF VerdictInv
<1>0. /\ results \in [Tasks -> Status \cup {None}] /\ cancelled \subseteq Tasks
      /\ canceller \in [Tasks -> Modes \cup {"idle", "expired", "returned"}]
      /\ watcher \in [Tasks -> {"idle", "watching", "ended", None} \cup Status]
      /\ UNCHANGED <<pc, verdict, envelope>>
  BY DEF TypeOK, BrokerTypeOK, ClientTypeOK, workerVars, handlerVars
<1> PICK t \in Tasks :
      \/ Submit(t)
      \/ CallResult(t) \/ WaiterStep(t) \/ WaitTimesOut(t)
      \/ CallCheck(t) \/ CheckPoll(t)
      \/ Watch(t) \/ WatchPoll(t)
      \/ CancellerStep(t)
      \/ \E mode \in Modes : CallCancel(t, mode)
  BY DEF ClientNext
<1>1. CASE UNCHANGED <<results, cancelled, canceller, watcher>>
  BY <1>0, <1>1
<1>2. CASE Fetch(t) /\ UNCHANGED <<cancelled, watcher>> /\ canceller[t] # "idle"
           /\ \A x \in Tasks : x # t => canceller'[x] = canceller[x]
  BY <1>0, <1>2 DEF Fetch, TakeResult
<1>3. CASE Fetch(t) /\ UNCHANGED <<cancelled, canceller, watcher>>
  BY <1>0, <1>3 DEF Fetch, TakeResult
<1>11. CASE Watch(t) \/ WatchRound(t)
  <2>1. /\ UNCHANGED <<results, cancelled, canceller>>
        /\ \E s \in {"watching", "ended"} : watcher' = [watcher EXCEPT ![t] = s]
    BY <1>11 DEF Watch, WatchRound, brokerVars
  <2> QED BY <1>0, <2>1 DEF Status
<1>12. CASE WatchRead(t)
  <2>1. /\ UNCHANGED <<cancelled, canceller>>
        /\ watcher' = [watcher EXCEPT ![t] = results[t]]
        /\ results' = [results EXCEPT ![t] = None]
    BY <1>12 DEF WatchRead, brokerRest
  <2> QED BY <1>0, <2>1 DEF Status, None
<1>4. CASE ReceiveConfirmation(t)
  BY <1>0, <1>2, <1>4 DEF ReceiveConfirmation, Return, brokerRest, Modes
<1>5. CASE CancelTimesOut(t)
  <2>1. /\ UNCHANGED <<results, cancelled, watcher>> /\ canceller[t] # "idle"
        /\ \A x \in Tasks : x # t => canceller'[x] = canceller[x]
    BY <1>0, <1>5 DEF CancelTimesOut, brokerVars
  <2> QED BY <1>0, <2>1
<1>6. CASE SeedCancelled(t)
  <2>1. /\ UNCHANGED <<cancelled, watcher>> /\ canceller[t] # "idle" /\ t \in cancelled
        /\ \A x \in Tasks : x # t => canceller'[x] = canceller[x]
        /\ \A x \in Tasks : x # t => results'[x] = results[x]
        /\ results'[t] = results[t] \/ results'[t] = "cancelled"
    BY <1>0, <1>6 DEF SeedCancelled, PutResult, Return, brokerRest
  <2> QED BY <1>0, <2>1
<1>7. CASE \E mode \in Modes : CallCancel(t, mode)
  <2>1. /\ UNCHANGED <<results, watcher>> /\ cancelled' = cancelled \cup {t}
        /\ \A x \in Tasks : x # t => canceller'[x] = canceller[x]
    BY <1>0, <1>7 DEF CallCancel
  <2> QED BY <1>0, <2>1
<1>8. CASE Submit(t) \/ CallResult(t) \/ WaitTimesOut(t) \/ CallCheck(t)
  BY <1>1, <1>8 DEF Submit, CallResult, WaitTimesOut, CallCheck, brokerVars
<1>9. CASE WaiterStep(t)
  BY <1>1, <1>3, <1>9 DEF WaiterStep, ReceiveResult, ObserveHeartbeat,
     WaitStalls, Stall, brokerVars, brokerRest
<1>10. CASE CheckPoll(t)
  BY <1>1, <1>3, <1>10 DEF CheckPoll, brokerRest
<1> QED
  BY <1>4, <1>5, <1>6, <1>7, <1>8, <1>9, <1>10, <1>11, <1>12
     DEF CancellerStep, WatchPoll

\* The sending of an envelope fills an empty slot with the verdict and leaves a
\* cancellation where it is: the first result wins (local.py:128).
LEMMA ReportVerdict ==
  ASSUME TypeOK, VerdictInv, NEW t \in Tasks, pc[t] \in {"send", "reject"},
         NEW l \in {"done", "lost", "record"}, Goto(t, l), Report(t),
         UNCHANGED <<envelope, cancelled, canceller, watcher>>
  PROVE  VerdictInv'
<1>0. /\ results \in [Tasks -> Status \cup {None}] /\ pc \in [Tasks -> Pcs]
      /\ verdict \in [Tasks -> Status \cup {None}]
      /\ pc' = [pc EXCEPT ![t] = l]
      /\ results' = [results EXCEPT ![t] = IF @ = None THEN envelope[t] ELSE @]
      /\ verdict' = [verdict EXCEPT ![t] = envelope[t]]
  BY DEF TypeOK, BrokerTypeOK, WorkerTypeOK, Goto, Report, PutResult
<1>1. verdict[t] = None /\ envelope[t] \in Status
  BY DEF VerdictInv, PendingPcs, SlotPcs
<1>2. /\ results[t] # None => t \in cancelled /\ results[t] = "cancelled"
      /\ results'[t] = IF results[t] = None THEN envelope[t] ELSE results[t]
      /\ verdict'[t] = envelope[t] /\ pc'[t] = l
  BY <1>0, <1>1 DEF VerdictInv
<1>3. \A x \in Tasks : x # t => results'[x] = results[x] /\ pc'[x] = pc[x]
                              /\ verdict'[x] = verdict[x]
  BY <1>0
<1>4. l \notin (PendingPcs \ {"record"}) \cup {"idle"} /\ l \notin {"settle", "send", "reject"}
  BY DEF PendingPcs, SlotPcs
<1>5. watcher[t] \in Status => t \in cancelled /\ watcher[t] = "cancelled"
  BY <1>1 DEF VerdictInv, Status, None
<1> QED BY <1>2, <1>3, <1>4, <1>5 DEF VerdictInv

-----------------------------------------------------------------------------
(* What a step of a worker does, seen from outside.                        *)

\* A handler reports its envelope, or handlers move on and report nothing.
Quiet ==
  /\ UNCHANGED <<results, verdict>>
  /\ \A x \in Tasks : pc'[x] # pc[x] =>
       /\ pc[x] \in PendingPcs \cup {"idle"} /\ pc'[x] # "idle"
       /\ pc'[x] \in PendingPcs => pc[x] # "record" /\ pc'[x] # "record"
  /\ \A x \in Tasks : pc'[x] \in {"settle", "send", "reject"} =>
       \/ envelope'[x] \in Status
       \/ pc[x] \in {"settle", "send", "reject"} /\ envelope'[x] = envelope[x]

Reports(t) ==
  /\ pc[t] \in {"send", "reject"} /\ Report(t) /\ UNCHANGED envelope
  /\ \E l \in {"done", "lost", "record"} : Goto(t, l)

\* A step of a handler is of one of these kinds.
LEMMA HandlerView ==
  ASSUME TypeOK, CopyInv, VerdictInv, NEW t \in Tasks, UNCHANGED clientVars,
         HandlerStep(t) \/ HandlerFault(t) \/ Heartbeat(t) \/ ThreadReturns(t)
  PROVE  UNCHANGED cancelled /\ (Quiet \/ Reports(t))
<1> USE DEF At, Goto, handlerRest, execRest, sendRest, brokerVars, PendingPcs,
            SlotPcs, Status
<1>0. /\ pc \in [Tasks -> Pcs]
      /\ envelope \in [Tasks -> Status \cup {None}]
      /\ \A x \in doomed : pc[x] \in PendingPcs \ {"run", "backoff"}
      /\ \A x \in Tasks : pc[x] \in {"settle", "send", "reject"} =>
           envelope[x] \in Status
  BY DEF TypeOK, WorkerTypeOK, CopyInv, VerdictInv
<1>1. CASE WakeUp(t) BY <1>0, <1>1 DEF Quiet, WakeUp
<1>2. CASE Acquire(t) BY <1>0, <1>2 DEF Quiet, Acquire
<1>3. CASE CheckCancelled(t) BY <1>0, <1>3 DEF Quiet, CheckCancelled
<1>4. CASE CheckThrottle(t) BY <1>0, <1>4 DEF Quiet, CheckThrottle
<1>5. CASE CheckFails(t) BY <1>0, <1>5 DEF Quiet, CheckFails
<1>6. CASE BuildFails(t) BY <1>0, <1>6 DEF Quiet, BuildFails
<1>7. CASE StartRun(t) BY <1>0, <1>7 DEF Quiet, StartRun
<1>8. CASE RunSucceeds(t) BY <1>0, <1>8 DEF Quiet, RunSucceeds, Finish
<1>9. CASE RunRaises(t) BY <1>0, <1>9 DEF Quiet, RunRaises, NextAttempt, Finish
<1>10. CASE SyncRunTimesOut(t) BY <1>0, <1>10 DEF Quiet, SyncRunTimesOut, NextAttempt, Finish
<1>11. CASE RetryRun(t) BY <1>0, <1>11 DEF Quiet, RetryRun
<1>12. CASE Abort(t) BY <1>0, <1>12 DEF Quiet, Abort, Finish
<1>13. CASE SwallowCancel(t) BY <1>0, <1>13 DEF Quiet, SwallowCancel
<1>14. CASE Heartbeat(t) BY <1>0, <1>14 DEF Quiet, Heartbeat
<1>15. CASE ThreadReturns(t) BY <1>0, <1>15 DEF Quiet, ThreadReturns
<1>16. CASE Settle(t) BY <1>0, <1>16 DEF Quiet, Settle
<1>17. CASE SendFails(t) BY <1>0, <1>17 DEF Quiet, Reports, SendFails
<1>18. CASE Record(t) BY <1>0, <1>18 DEF Quiet, Record
<1>19. CASE SettleInterrupted(t) BY <1>0, <1>19 DEF Quiet, SettleInterrupted
<1>20. CASE Send(t) BY <1>0, <1>20 DEF Reports, Send
<1>21. CASE Reject(t) BY <1>0, <1>21 DEF Reports, Reject
<1>22. CASE Interrupted(t) BY <1>0, <1>22 DEF Quiet, Reports, Interrupted
<1> QED
  BY <1>1, <1>2, <1>3, <1>4, <1>5, <1>6, <1>7, <1>8, <1>9, <1>10, <1>11, <1>12, <1>13, <1>14, <1>15, <1>16, <1>17, <1>18, <1>19, <1>20, <1>21, <1>22
     DEF HandlerStep, HandlerFault

\* The steps of a worker's loop and its death report nothing.
LEMMA LoopView ==
  ASSUME TypeOK, CopyInv, VerdictInv, NEW w \in Workers,
         LoopStep(w) \/ Signal(w) \/ ListenEnds(w) \/ Crash(w)
  PROVE  UNCHANGED cancelled /\ Quiet
<1> USE DEF Quiet, brokerVars
<1>0. /\ pc \in [Tasks -> Pcs] /\ wire \in [Workers -> Seq(Tasks)]
      /\ envelope \in [Tasks -> Status \cup {None}]
      /\ \A x \in Tasks : InFlight(w, x) => pc[x] = "idle"
      /\ \A x \in Tasks : pc[x] \in {"settle", "send", "reject"} =>
           envelope[x] \in Status
  BY DEF TypeOK, BrokerTypeOK, WorkerTypeOK, CopyInv, VerdictInv
<1>1. CASE Accept(w)
  <2>1. wire[w] \in Seq(Tasks) /\ wire[w] # <<>> BY <1>0, <1>1 DEF Accept
  <2> PICK t : t = Head(wire[w]) OBVIOUS
  <2>2. t \in Tasks /\ pc[t] = "idle"
    BY <1>0, <2>1, TailFacts DEF InFlight
  <2> QED BY <1>0, <1>1, <2>2 DEF Accept, Goto, PendingPcs, SlotPcs, Status
<1>2. CASE Signal(w) BY <1>0, <1>2 DEF Signal
<1>3. CASE StopListening(w)
  BY <1>0, <1>3 DEF StopListening, DropWire, PendingPcs, SlotPcs
<1>4. CASE ListenEnds(w)
  BY <1>0, <1>4 DEF ListenEnds, DropWire, PendingPcs, SlotPcs
<1>5. CASE Stop(w) BY <1>0, <1>5 DEF Stop
<1>6. CASE Crash(w)
  BY <1>0, <1>6 DEF Crash, Pending, PendingPcs, SlotPcs
<1> QED BY <1>1, <1>2, <1>3, <1>4, <1>5, <1>6 DEF LoopStep

\* So a step of a worker is of one of these kinds.
LEMMA WorkerView ==
  ASSUME TypeOK, CopyInv, VerdictInv, WorkerNext, UNCHANGED clientVars
  PROVE  UNCHANGED cancelled /\ (Quiet \/ \E t \in Tasks : Reports(t))
BY HandlerView, LoopView DEF WorkerNext

\* Moving on quietly keeps the invariant.
LEMMA QuietVerdict ==
  ASSUME VerdictInv, Quiet, UNCHANGED <<cancelled, canceller, watcher>>
  PROVE  VerdictInv'
<1>1. ASSUME NEW x \in Tasks,
             pc'[x] \in (PendingPcs \ {"record"}) \cup {"idle"}
      PROVE  verdict'[x] = None
  BY <1>1 DEF Quiet, VerdictInv
<1>2. ASSUME NEW x \in Tasks, pc'[x] \in {"settle", "send", "reject"}
      PROVE  envelope'[x] \in Status
  BY <1>2 DEF Quiet, VerdictInv
<1> QED BY <1>1, <1>2 DEF VerdictInv, Quiet

\* Every step of the system keeps the invariant.
LEMMA NextVerdict ==
  ASSUME TypeOK, CopyInv, VerdictInv, [Next]_vars
  PROVE  VerdictInv'
<1>1. CASE WorkerNext /\ UNCHANGED clientVars
  <2>1. UNCHANGED <<cancelled, canceller, watcher>>
    BY <1>1, WorkerView DEF clientVars
  <2>2. CASE Quiet BY <2>1, <2>2, QuietVerdict
  <2>3. ASSUME NEW t \in Tasks, Reports(t) PROVE VerdictInv'
    BY <2>1, <2>3, ReportVerdict DEF Reports
  <2> QED BY <1>1, <2>2, <2>3, WorkerView
<1>2. CASE BrokerNext /\ UNCHANGED <<workerVars, clientVars>>
  BY <1>2 DEF BrokerNext, Deliver, DeliverToDeadPeer, PutTaskBack, CoolDown,
     workerVars, handlerVars, clientVars, VerdictInv
<1>3. CASE UNCHANGED vars
  BY <1>3 DEF vars, brokerVars, workerVars, handlerVars, clientVars, VerdictInv
<1> QED BY <1>1, <1>2, <1>3, ClientVerdict DEF Next

\* The invariant holds in every reachable state.
LEMMA VerdictInvariant == Spec => []VerdictInv
<1>1. Init => VerdictInv BY InitVerdict
<1>2. TypeOK /\ CopyInv /\ VerdictInv /\ [Next]_vars => VerdictInv'
  BY NextVerdict
<1> QED BY <1>1, <1>2, TypesInvariant, CopyInvariant, PTL DEF Spec

-----------------------------------------------------------------------------
(* The refinement.                                                         *)

\* The initial state maps to the initial state of the promise.
LEMMA InitMaps == Init => Promise!PromiseInit
BY DEF Init, BrokerInit, WorkerInit, ClientInit, Promise!PromiseInit, Job,
   Submitted

\* Moving on quietly leaves the promise alone or gives some jobs up.
LEMMA QuietMaps ==
  ASSUME Quiet, UNCHANGED <<cancelled, clientVars>>
  PROVE  [Promise!PromiseNext]_(Promise!promiseVars)
<1>0. /\ \A t \in Tasks : Submitted(t)' = Submitted(t)
      /\ UNCHANGED <<verdict, cancelled, handle>>
  BY DEF Quiet, clientVars, Submitted
<1> DEFINE S == {t \in Tasks : Job(t) = "open" /\ Job(t)' = "abandoned"}
<1>1. \A t \in Tasks : Job(t)' = IF t \in S THEN "abandoned" ELSE Job(t)
  BY <1>0 DEF Quiet, Job, PendingPcs, SlotPcs
<1>2. S \in SUBSET Tasks /\ \A t \in S : Job(t) = "open" OBVIOUS
<1> HIDE DEF S
<1>3. Promise!Abandon(S)
  BY <1>0, <1>1, <1>2 DEF Promise!Abandon
<1> QED BY <1>2, <1>3 DEF Promise!PromiseNext

\* A report answers an open job.
LEMMA ReportMaps ==
  ASSUME TypeOK, CopyInv, VerdictInv, NEW t \in Tasks, Reports(t),
         UNCHANGED <<cancelled, clientVars>>
  PROVE  Promise!PromiseNext
<1>0. /\ pc \in [Tasks -> Pcs] /\ verdict \in [Tasks -> Status \cup {None}]
      /\ verdict' = [verdict EXCEPT ![t] = envelope[t]]
      /\ envelope[t] \in Status /\ verdict[t] = None
      /\ Submitted(t) /\ pc[t] \in {"send", "reject"}
      /\ \A x \in Tasks : x # t => pc'[x] = pc[x]
  BY DEF TypeOK, WorkerTypeOK, CopyInv, VerdictInv, Reports, Report, Goto,
     PendingPcs, SlotPcs
<1>1. \A x \in Tasks : Submitted(x)' = Submitted(x) BY DEF clientVars, Submitted
<1>2. Job(t) = "open" BY <1>0 DEF Job
<1>3. envelope[t] # None BY <1>0 DEF Status, None
<1>4. \A x \in Tasks : Job(x)' = IF x = t THEN "answered" ELSE Job(x)
  BY <1>0, <1>1, <1>3 DEF Job
<1>5. UNCHANGED handle BY DEF clientVars
<1>6. Promise!Answer(t, envelope[t])
  BY <1>0, <1>2, <1>4, <1>5 DEF Promise!Answer
<1> QED BY <1>0, <1>6 DEF Promise!PromiseNext

\* A client's step opens a job, requests its cancellation, shows its verdict or
\* the cancellation, or changes nothing the promise speaks of.
LEMMA ClientMaps ==
  ASSUME TypeOK, CopyInv, VerdictInv, ClientNext, UNCHANGED workerVars
  PROVE  [Promise!PromiseNext]_(Promise!promiseVars)
<1>0. /\ results \in [Tasks -> Status \cup {None}]
      /\ handle \in [Tasks -> Status \cup {None}]
      /\ waiter \in [Tasks -> {"unsubmitted", "idle", "waiting", "returned",
                              "timedout", "stalled"}]
      /\ UNCHANGED <<pc, verdict>>
  BY DEF TypeOK, BrokerTypeOK, ClientTypeOK, workerVars, handlerVars
<1> PICK t \in Tasks :
      \/ Submit(t)
      \/ CallResult(t) \/ WaiterStep(t) \/ WaitTimesOut(t)
      \/ CallCheck(t) \/ CheckPoll(t)
      \/ Watch(t) \/ WatchPoll(t)
      \/ CancellerStep(t)
      \/ \E mode \in Modes : CallCancel(t, mode)
  BY DEF ClientNext
<1>1. ASSUME \A x \in Tasks : Submitted(x)' = Submitted(x)
      PROVE  \A x \in Tasks : Job(x)' = Job(x)
  BY <1>0, <1>1 DEF Job
<1>2. ASSUME \A x \in Tasks : Submitted(x)' = Submitted(x),
             UNCHANGED <<cancelled, handle>>
      PROVE  UNCHANGED Promise!promiseVars
  BY <1>0, <1>1, <1>2 DEF Promise!promiseVars
<1>3. ASSUME \A x \in Tasks : Submitted(x)' = Submitted(x),
             UNCHANGED cancelled, NEW s \in Status,
             handle' = [handle EXCEPT ![t] = s],
             \/ Submitted(t) /\ s = verdict[t]
             \/ t \in cancelled /\ s = "cancelled"
      PROVE  Promise!PromiseNext
  <2>1. s # None BY DEF Status, None
  <2>2. \/ Job(t) = "answered" /\ s = verdict[t]
        \/ t \in cancelled /\ s = "cancelled"
    <3>1. CASE Submitted(t) /\ s = verdict[t]
      <4>1. verdict[t] # None BY <2>1, <3>1
      <4> QED BY <3>1, <4>1 DEF Job
    <3>2. CASE t \in cancelled /\ s = "cancelled"
      BY <3>2
    <3> QED BY <1>3, <3>1, <3>2
  <2>3. Promise!See(t, s)
    BY <1>0, <1>1, <1>3, <2>2 DEF Promise!See
  <2> QED BY <2>3 DEF Promise!PromiseNext
<1>4. ASSUME \A x \in Tasks : Submitted(x)' = Submitted(x),
             UNCHANGED cancelled, Fetch(t)
      PROVE  Promise!PromiseNext
  <2>1. /\ results[t] \in Status /\ handle' = [handle EXCEPT ![t] = results[t]]
        /\ \/ results[t] = verdict[t]
           \/ t \in cancelled /\ results[t] = "cancelled"
    BY <1>0, <1>4 DEF Fetch, TakeResult, VerdictInv
  <2>2. results[t] = verdict[t] => Submitted(t)
    BY <2>1 DEF VerdictInv, CopyInv, Status, None
  <2> QED BY <1>3, <1>4, <2>1, <2>2
<1>5. CASE Submit(t)
  <2>1. /\ ~Submitted(t) /\ waiter' = [waiter EXCEPT ![t] = "idle"]
        /\ UNCHANGED <<cancelled, handle>>
    BY <1>5 DEF Submit
  <2>2. verdict[t] = None /\ pc[t] = "idle" BY <2>1 DEF CopyInv, VerdictInv
  <2>3. \A x \in Tasks : Job(x)' = IF x = t THEN "open" ELSE Job(x)
    BY <1>0, <2>1, <2>2 DEF Job, Submitted
  <2>4. Job(t) = "new" BY <2>1 DEF Job
  <2>5. Promise!Open(t) BY <1>0, <2>1, <2>3, <2>4 DEF Promise!Open
  <2> QED BY <2>5 DEF Promise!PromiseNext
<1>6. CASE \E mode \in Modes : CallCancel(t, mode)
  <2>1. /\ Submitted(t) /\ cancelled' = cancelled \cup {t}
        /\ UNCHANGED <<handle, waiter>>
    BY <1>6 DEF CallCancel
  <2>2. \A x \in Tasks : Job(x)' = Job(x) BY <1>1, <2>1 DEF Submitted
  <2>3. Job(t) # "new" BY <2>1 DEF Job
  <2>4. Promise!RequestCancel(t)
    BY <1>0, <2>1, <2>2, <2>3 DEF Promise!RequestCancel
  <2> QED BY <2>4 DEF Promise!PromiseNext
<1>7. CASE \/ CallResult(t) \/ ObserveHeartbeat(t) \/ WaitStalls(t)
           \/ WaitTimesOut(t) \/ CallCheck(t) \/ Watch(t) \/ CancelTimesOut(t)
  <2>1. /\ \A x \in Tasks : Submitted(x)' = Submitted(x)
        /\ UNCHANGED <<cancelled, handle>>
    BY <1>0, <1>7 DEF CallResult, ObserveHeartbeat, WaitStalls, Stall,
       WaitTimesOut, CallCheck, Watch, CancelTimesOut, Submitted, brokerVars
  <2> QED BY <1>2, <2>1
<1>8. CASE ReceiveResult(t) \/ CheckPoll(t) \/ ReceiveConfirmation(t)
  <2>1. /\ \A x \in Tasks : Submitted(x)' = Submitted(x)
        /\ UNCHANGED cancelled
        /\ Fetch(t) \/ UNCHANGED handle
    BY <1>0, <1>8 DEF ReceiveResult, CheckPoll, ReceiveConfirmation,
       Submitted, brokerRest
  <2> QED BY <1>2, <1>4, <2>1
<1>9. CASE SeedCancelled(t)
  <2>1. /\ \A x \in Tasks : Submitted(x)' = Submitted(x)
        /\ UNCHANGED cancelled /\ t \in cancelled
        /\ handle' = [handle EXCEPT ![t] = "cancelled"]
    BY <1>9 DEF SeedCancelled, Submitted, brokerRest, VerdictInv
  <2> QED BY <1>3, <2>1 DEF Status
<1>10. CASE WatchRead(t)
  <2>1. /\ \A x \in Tasks : Submitted(x)' = Submitted(x)
        /\ UNCHANGED <<cancelled, handle>>
    BY <1>10 DEF WatchRead, Submitted, brokerRest
  <2> QED BY <1>2, <2>1
<1>11. CASE WatchRound(t)
  <2>1. /\ \A x \in Tasks : Submitted(x)' = Submitted(x)
        /\ UNCHANGED cancelled /\ watcher[t] \in Status \cup {None}
    BY <1>11 DEF WatchRound, Submitted, brokerVars
  <2>2. CASE watcher[t] = None
    BY <1>2, <1>11, <2>1, <2>2 DEF WatchRound
  <2>3. CASE watcher[t] # None
    <3>1. /\ watcher[t] \in Status /\ handle' = [handle EXCEPT ![t] = watcher[t]]
          /\ \/ watcher[t] = verdict[t]
             \/ t \in cancelled /\ watcher[t] = "cancelled"
      BY <1>11, <2>1, <2>3 DEF WatchRound, VerdictInv
    <3>2. watcher[t] = verdict[t] => Submitted(t)
      BY <2>3 DEF VerdictInv, CopyInv
    <3> QED BY <1>3, <2>1, <3>1, <3>2
  <2> QED BY <2>2, <2>3
<1> QED
  BY <1>5, <1>6, <1>7, <1>8, <1>9, <1>10, <1>11 DEF WaiterStep, CancellerStep, WatchPoll

\* Every step of the system is a step of the promise or a stutter.
LEMMA NextMaps ==
  ASSUME TypeOK, CopyInv, VerdictInv, [Next]_vars
  PROVE  [Promise!PromiseNext]_(Promise!promiseVars)
<1>1. CASE WorkerNext /\ UNCHANGED clientVars
  BY <1>1, WorkerView, QuietMaps, ReportMaps
<1>2. ASSUME UNCHANGED <<pc, verdict, waiter, cancelled, handle>>
      PROVE  UNCHANGED Promise!promiseVars
  BY <1>2 DEF Promise!promiseVars, Job, Submitted
<1>3. CASE BrokerNext /\ UNCHANGED <<workerVars, clientVars>>
  <2>1. UNCHANGED <<pc, verdict, waiter, cancelled, handle>>
    BY <1>3 DEF BrokerNext, Deliver, DeliverToDeadPeer, PutTaskBack, CoolDown,
       workerVars, handlerVars, clientVars
  <2> QED BY <1>2, <2>1
<1>4. CASE UNCHANGED vars
  <2>1. UNCHANGED <<pc, verdict, waiter, cancelled, handle>>
    BY <1>4 DEF vars, brokerVars, workerVars, handlerVars, clientVars
  <2> QED BY <1>2, <2>1
<1> QED BY <1>1, <1>3, <1>4, ClientMaps DEF Next

\* The system keeps TaskPromise: one verdict for a task at most, never revised,
\* and a handle that shows nothing but that verdict or a requested cancellation
\* (result.py:279-366, remote.py:582-815).
THEOREM KeepsPromise == Spec => PromiseKept
<1>1. Init => Promise!PromiseInit BY InitMaps
<1>2. TypeOK /\ CopyInv /\ VerdictInv /\ [Next]_vars =>
        [Promise!PromiseNext]_(Promise!promiseVars)
  BY NextMaps
<1> QED
  BY <1>1, <1>2, TypesInvariant, CopyInvariant, VerdictInvariant, PTL
     DEF Spec, PromiseKept, Promise!PromiseSpec

-----------------------------------------------------------------------------
(* Answers: the invariant, task by task.                                   *)

\* The points a handler passes before its first attempt.
EarlyPcs == {"idle", "reject", "sleep", "wait", "check", "throttle", "build"}

\* No attempt precedes the execution, a throttle is recorded after the answer,
\* and a handler that ended without answering had skipped a cancelled task.
Phase(t) ==
  /\ pc[t] \in EarlyPcs => attempt[t] = 0
  /\ pc[t] = "record" => verdict[t] # None
  /\ pc[t] = "done" /\ verdict[t] = None => attempt[t] = 0 /\ t \in cancelled

\* A handler under way, and a heartbeat loop, belong to a live worker.
Live(t) ==
  /\ pc[t] \in PendingPcs => worker[owner[t]] = "serving"
  /\ owner[t] \in Workers => pc[t] # "idle"
  /\ owner[t] = None => pc[t] \in {"idle", "lost"}
  /\ t \in hb => owner[t] \in Workers /\ worker[owner[t]] = "serving"

\* The heartbeat loop runs beside the execution, or after a handler that was
\* interrupted; no result is sent in either.
Beating(t) ==
  t \in hb => /\ pc[t] \in {"run", "backoff", "settle", "lost"}
             /\ verdict[t] = None

\* What a task is lost to: before a worker accepted it, a listening connection;
\* after that, the second signal, the death of its own worker, or the sending of
\* its envelope.
Loss(t) ==
  /\ t \in doomed => signals[owner[t]] > 1
  /\ pc[t] = "lost" =>
       IF owner[t] = None
       THEN \E w \in Workers : ~listening[w]
       ELSE \/ faults > 0 /\ envelope[t] # None
            \/ signals[owner[t]] > 1 \/ worker[owner[t]] = "crashed"

Answered(t) == Phase(t) /\ Live(t) /\ Beating(t) /\ Loss(t)

AnswerInv == \A t \in Tasks : Answered(t)

\* Nobody works and nothing is lost at first.
LEMMA InitAnswer == Init => AnswerInv
BY BrokerAssumption DEF Init, BrokerInit, WorkerInit, ClientInit, AnswerInv, Answered, Phase,
   Live, Beating, Loss, PendingPcs, SlotPcs, EarlyPcs, None

-----------------------------------------------------------------------------
(* Steps that leave the workers alone.                                     *)

\* Cancellations are only added.
LEMMA AnswerFrame ==
  ASSUME AnswerInv, cancelled \subseteq cancelled', UNCHANGED workerVars
  PROVE  AnswerInv'
BY DEF AnswerInv, Answered, Phase, Live, Beating, Loss, workerVars, handlerVars

\* A client's step is such a step.
LEMMA ClientAnswer ==
  ASSUME AnswerInv, ClientNext, UNCHANGED workerVars
  PROVE  AnswerInv'
<1>1. cancelled \subseteq cancelled'
  BY DEF ClientNext, Submit, CallResult, WaiterStep, WaitTimesOut, CallCheck,
     CheckPoll, Watch, WatchPoll, WatchRead, WatchRound, CancellerStep, CallCancel, ReceiveResult,
     ObserveHeartbeat, WaitStalls, Stall, ReceiveConfirmation, CancelTimesOut,
     SeedCancelled, brokerVars, brokerRest
<1> QED BY <1>1, AnswerFrame

\* And so is a step of the broker.
LEMMA BrokerAnswer ==
  ASSUME AnswerInv, BrokerNext, UNCHANGED <<workerVars, clientVars>>
  PROVE  AnswerInv'
<1>1. cancelled \subseteq cancelled'
  BY DEF BrokerNext, Deliver, DeliverToDeadPeer, PutTaskBack, CoolDown
<1> QED BY <1>1, AnswerFrame

-----------------------------------------------------------------------------
(* Steps of a handler.                                                     *)

\* What a step of the handler of t leaves alone.
OthersKept(t) ==
  /\ UNCHANGED <<worker, signals, listening, owner, cancelled>>
  /\ faults > 0 => faults' > 0
  /\ \A x \in Tasks : x # t =>
       /\ pc'[x] = pc[x] /\ attempt'[x] = attempt[x] /\ verdict'[x] = verdict[x]
       /\ envelope'[x] = envelope[x]
       /\ x \in hb' <=> x \in hb
       /\ x \in doomed' <=> x \in doomed

\* So the other tasks keep the invariant.
LEMMA OthersAnswer ==
  ASSUME AnswerInv, NEW t \in Tasks, OthersKept(t), Answered(t)'
  PROVE  AnswerInv'
<1>1. ASSUME NEW x \in Tasks, x # t PROVE Answered(x)'
  BY <1>1 DEF AnswerInv, OthersKept, Answered, Phase, Live, Beating, Loss
<1> QED BY <1>1 DEF AnswerInv

\* A step of the handler of t leaves the others alone.
LEMMA HandlerKeeps ==
  ASSUME TypeOK, NEW t \in Tasks, UNCHANGED clientVars,
         HandlerStep(t) \/ HandlerFault(t) \/ Heartbeat(t) \/ ThreadReturns(t)
  PROVE  OthersKept(t)
<1> USE DEF At, Goto, handlerRest, execRest, sendRest, brokerVars, OthersKept
<1>0. /\ pc \in [Tasks -> Pcs] /\ attempt \in [Tasks -> 0..(1 + Retries)]
      /\ verdict \in [Tasks -> Status \cup {None}]
      /\ envelope \in [Tasks -> Status \cup {None}]
      /\ faults \in Nat
  BY WorkerAssumption DEF TypeOK, WorkerTypeOK
<1>1. CASE WakeUp(t) BY <1>0, <1>1 DEF WakeUp
<1>2. CASE Acquire(t) BY <1>0, <1>2 DEF Acquire
<1>3. CASE CheckCancelled(t) BY <1>0, <1>3 DEF CheckCancelled
<1>4. CASE CheckThrottle(t) BY <1>0, <1>4 DEF CheckThrottle
<1>5. CASE CheckFails(t) BY <1>0, <1>5 DEF CheckFails, Fault
<1>6. CASE BuildFails(t) BY <1>0, <1>6 DEF BuildFails
<1>7. CASE StartRun(t) BY <1>0, <1>7 DEF StartRun
<1>8. CASE RunSucceeds(t) BY <1>0, <1>8 DEF RunSucceeds, Finish
<1>9. CASE RunRaises(t) BY <1>0, <1>9 DEF RunRaises, NextAttempt, Finish
<1>10. CASE SyncRunTimesOut(t) BY <1>0, <1>10 DEF SyncRunTimesOut, NextAttempt, Finish
<1>11. CASE RetryRun(t) BY <1>0, <1>11 DEF RetryRun
<1>12. CASE Abort(t) BY <1>0, <1>12 DEF Abort, Finish
<1>13. CASE SwallowCancel(t) BY <1>0, <1>13 DEF SwallowCancel
<1>14. CASE Heartbeat(t) BY <1>0, <1>14 DEF Heartbeat
<1>15. CASE ThreadReturns(t) BY <1>0, <1>15 DEF ThreadReturns
<1>16. CASE Settle(t) BY <1>0, <1>16 DEF Settle
<1>17. CASE Send(t) BY <1>0, <1>17 DEF Send, Report
<1>18. CASE Reject(t) BY <1>0, <1>18 DEF Reject, Report
<1>19. CASE SendFails(t) BY <1>0, <1>19 DEF SendFails, Report, Fault
<1>20. CASE Record(t)
  <2>1. faults > 0 => faults' > 0
    <3>1. CASE UNCHANGED faults BY <3>1
    <3>2. CASE Fault("record") BY <1>0, <3>2 DEF Fault
    <3> QED BY <1>20, <3>1, <3>2 DEF Record
  <2> QED BY <1>0, <1>20, <2>1 DEF Record
<1>21. CASE Interrupted(t) BY <1>0, <1>21 DEF Interrupted, Report
<1>22. CASE SettleInterrupted(t) BY <1>0, <1>22 DEF SettleInterrupted
<1> QED
  BY <1>1, <1>2, <1>3, <1>4, <1>5, <1>6, <1>7, <1>8, <1>9, <1>10, <1>11,
     <1>12, <1>13, <1>14, <1>15, <1>16, <1>17, <1>18, <1>19, <1>20, <1>21,
     <1>22
     DEF HandlerStep, HandlerFault

\* It keeps track of the attempts and of the answer.
LEMMA HandlerPhase ==
  ASSUME TypeOK, VerdictInv, NEW t \in Tasks, Phase(t), UNCHANGED clientVars,
         HandlerStep(t) \/ HandlerFault(t) \/ Heartbeat(t) \/ ThreadReturns(t)
  PROVE  Phase(t)'
<1> USE DEF At, Goto, handlerRest, execRest, sendRest, brokerVars, Phase,
            EarlyPcs
<1>0. /\ pc \in [Tasks -> Pcs] /\ attempt \in [Tasks -> 0..(1 + Retries)]
      /\ verdict \in [Tasks -> Status \cup {None}]
      /\ pc[t] \in {"settle", "send", "reject"} => envelope[t] # None
  BY DEF TypeOK, WorkerTypeOK, VerdictInv, Status, None
<1>1. CASE WakeUp(t) BY <1>0, <1>1 DEF WakeUp
<1>2. CASE Acquire(t) BY <1>0, <1>2 DEF Acquire
<1>3. CASE CheckCancelled(t) BY <1>0, <1>3 DEF CheckCancelled
<1>4. CASE CheckThrottle(t) BY <1>0, <1>4 DEF CheckThrottle
<1>5. CASE CheckFails(t) BY <1>0, <1>5 DEF CheckFails, Fault
<1>6. CASE BuildFails(t) BY <1>0, <1>6 DEF BuildFails
<1>7. CASE StartRun(t) BY <1>0, <1>7 DEF StartRun
<1>8. CASE RunSucceeds(t) BY <1>0, <1>8 DEF RunSucceeds, Finish
<1>9. CASE RunRaises(t) BY <1>0, <1>9 DEF RunRaises, NextAttempt, Finish
<1>10. CASE SyncRunTimesOut(t) BY <1>0, <1>10 DEF SyncRunTimesOut, NextAttempt, Finish
<1>11. CASE RetryRun(t) BY <1>0, <1>11 DEF RetryRun
<1>12. CASE Abort(t) BY <1>0, <1>12 DEF Abort, Finish
<1>13. CASE SwallowCancel(t) BY <1>0, <1>13 DEF SwallowCancel
<1>14. CASE Heartbeat(t) BY <1>0, <1>14 DEF Heartbeat
<1>15. CASE ThreadReturns(t) BY <1>0, <1>15 DEF ThreadReturns
<1>16. CASE Settle(t) BY <1>0, <1>16 DEF Settle
<1>17. CASE Send(t) BY <1>0, <1>17 DEF Send, Report
<1>18. CASE Reject(t) BY <1>0, <1>18 DEF Reject, Report
<1>19. CASE SendFails(t) BY <1>0, <1>19 DEF SendFails, Report, Fault
<1>20. CASE Record(t) BY <1>0, <1>20 DEF Record, Fault
<1>21. CASE Interrupted(t) BY <1>0, <1>21 DEF Interrupted, Report
<1>22. CASE SettleInterrupted(t) BY <1>0, <1>22 DEF SettleInterrupted
<1> QED
  BY <1>1, <1>2, <1>3, <1>4, <1>5, <1>6, <1>7, <1>8, <1>9, <1>10, <1>11,
     <1>12, <1>13, <1>14, <1>15, <1>16, <1>17, <1>18, <1>19, <1>20, <1>21,
     <1>22
     DEF HandlerStep, HandlerFault

\* Its worker is alive before the step and after it.
LEMMA HandlerLive ==
  ASSUME TypeOK, HandlerInv, CopyInv, NEW t \in Tasks, Live(t), UNCHANGED clientVars,
         HandlerStep(t) \/ HandlerFault(t) \/ Heartbeat(t) \/ ThreadReturns(t)
  PROVE  Live(t)'
<1> USE DEF At, Goto, handlerRest, execRest, sendRest, brokerVars, Live,
            PendingPcs, SlotPcs
<1>0. /\ pc \in [Tasks -> Pcs]
      /\ t \in doomed => pc[t] \in PendingPcs \ {"run", "backoff"}
      /\ pc[t] \in PendingPcs => owner[t] \in Workers
  BY DEF TypeOK, WorkerTypeOK, HandlerInv, CopyInv
<1>1. CASE WakeUp(t) BY <1>0, <1>1 DEF WakeUp
<1>2. CASE Acquire(t) BY <1>0, <1>2 DEF Acquire
<1>3. CASE CheckCancelled(t) BY <1>0, <1>3 DEF CheckCancelled
<1>4. CASE CheckThrottle(t) BY <1>0, <1>4 DEF CheckThrottle
<1>5. CASE CheckFails(t) BY <1>0, <1>5 DEF CheckFails, Fault
<1>6. CASE BuildFails(t) BY <1>0, <1>6 DEF BuildFails
<1>7. CASE StartRun(t) BY <1>0, <1>7 DEF StartRun
<1>8. CASE RunSucceeds(t) BY <1>0, <1>8 DEF RunSucceeds, Finish
<1>9. CASE RunRaises(t) BY <1>0, <1>9 DEF RunRaises, NextAttempt, Finish
<1>10. CASE SyncRunTimesOut(t) BY <1>0, <1>10 DEF SyncRunTimesOut, NextAttempt, Finish
<1>11. CASE RetryRun(t) BY <1>0, <1>11 DEF RetryRun
<1>12. CASE Abort(t) BY <1>0, <1>12 DEF Abort, Finish
<1>13. CASE SwallowCancel(t) BY <1>0, <1>13 DEF SwallowCancel
<1>14. CASE Heartbeat(t) BY <1>0, <1>14 DEF Heartbeat
<1>15. CASE ThreadReturns(t) BY <1>0, <1>15 DEF ThreadReturns
<1>16. CASE Settle(t) BY <1>0, <1>16 DEF Settle
<1>17. CASE Send(t) BY <1>0, <1>17 DEF Send, Report
<1>18. CASE Reject(t) BY <1>0, <1>18 DEF Reject, Report
<1>19. CASE SendFails(t) BY <1>0, <1>19 DEF SendFails, Report, Fault
<1>20. CASE Record(t) BY <1>0, <1>20 DEF Record, Fault
<1>21. CASE Interrupted(t) BY <1>0, <1>21 DEF Interrupted, Report
<1>22. CASE SettleInterrupted(t) BY <1>0, <1>22 DEF SettleInterrupted
<1> QED
  BY <1>1, <1>2, <1>3, <1>4, <1>5, <1>6, <1>7, <1>8, <1>9, <1>10, <1>11,
     <1>12, <1>13, <1>14, <1>15, <1>16, <1>17, <1>18, <1>19, <1>20, <1>21,
     <1>22
     DEF HandlerStep, HandlerFault

\* Its heartbeat loop ends before the sending of its result.
LEMMA HandlerBeats ==
  ASSUME TypeOK, CopyInv, VerdictInv, NEW t \in Tasks, Beating(t),
         UNCHANGED clientVars,
         HandlerStep(t) \/ HandlerFault(t) \/ Heartbeat(t) \/ ThreadReturns(t)
  PROVE  Beating(t)'
<1> USE DEF At, Goto, handlerRest, execRest, sendRest, brokerVars, Beating,
            PendingPcs, SlotPcs
<1>0. /\ pc \in [Tasks -> Pcs] /\ verdict \in [Tasks -> Status \cup {None}]
      /\ t \in doomed => pc[t] \in PendingPcs \ {"run", "backoff"}
      /\ pc[t] = "build" => verdict[t] = None
  BY DEF TypeOK, WorkerTypeOK, CopyInv, VerdictInv
<1>1. CASE WakeUp(t) BY <1>0, <1>1 DEF WakeUp
<1>2. CASE Acquire(t) BY <1>0, <1>2 DEF Acquire
<1>3. CASE CheckCancelled(t) BY <1>0, <1>3 DEF CheckCancelled
<1>4. CASE CheckThrottle(t) BY <1>0, <1>4 DEF CheckThrottle
<1>5. CASE CheckFails(t) BY <1>0, <1>5 DEF CheckFails, Fault
<1>6. CASE BuildFails(t) BY <1>0, <1>6 DEF BuildFails
<1>7. CASE StartRun(t) BY <1>0, <1>7 DEF StartRun
<1>8. CASE RunSucceeds(t) BY <1>0, <1>8 DEF RunSucceeds, Finish
<1>9. CASE RunRaises(t) BY <1>0, <1>9 DEF RunRaises, NextAttempt, Finish
<1>10. CASE SyncRunTimesOut(t) BY <1>0, <1>10 DEF SyncRunTimesOut, NextAttempt, Finish
<1>11. CASE RetryRun(t) BY <1>0, <1>11 DEF RetryRun
<1>12. CASE Abort(t) BY <1>0, <1>12 DEF Abort, Finish
<1>13. CASE SwallowCancel(t) BY <1>0, <1>13 DEF SwallowCancel
<1>14. CASE Heartbeat(t) BY <1>0, <1>14 DEF Heartbeat
<1>15. CASE ThreadReturns(t) BY <1>0, <1>15 DEF ThreadReturns
<1>16. CASE Settle(t) BY <1>0, <1>16 DEF Settle
<1>17. CASE Send(t) BY <1>0, <1>17 DEF Send, Report
<1>18. CASE Reject(t) BY <1>0, <1>18 DEF Reject, Report
<1>19. CASE SendFails(t) BY <1>0, <1>19 DEF SendFails, Report, Fault
<1>20. CASE Record(t) BY <1>0, <1>20 DEF Record, Fault
<1>21. CASE Interrupted(t) BY <1>0, <1>21 DEF Interrupted, Report
<1>22. CASE SettleInterrupted(t) BY <1>0, <1>22 DEF SettleInterrupted
<1> QED
  BY <1>1, <1>2, <1>3, <1>4, <1>5, <1>6, <1>7, <1>8, <1>9, <1>10, <1>11,
     <1>12, <1>13, <1>14, <1>15, <1>16, <1>17, <1>18, <1>19, <1>20, <1>21,
     <1>22
     DEF HandlerStep, HandlerFault

\* It is lost to a fault or to the second signal only.
LEMMA HandlerLoss ==
  ASSUME TypeOK, HandlerInv, CopyInv, VerdictInv, NEW t \in Tasks, Loss(t),
         UNCHANGED clientVars,
         HandlerStep(t) \/ HandlerFault(t) \/ Heartbeat(t) \/ ThreadReturns(t)
  PROVE  Loss(t)'
<1> USE DEF At, Goto, handlerRest, execRest, sendRest, brokerVars, Loss,
            PendingPcs, SlotPcs
<1>0. /\ pc \in [Tasks -> Pcs] /\ faults \in Nat
      /\ t \in doomed => pc[t] \in PendingPcs \ {"run", "backoff"}
      /\ pc[t] \in PendingPcs => owner[t] \in Workers /\ owner[t] # None
      /\ pc[t] \in {"send", "reject"} => envelope[t] # None
  BY WorkerAssumption, BrokerAssumption
     DEF TypeOK, WorkerTypeOK, HandlerInv, CopyInv, VerdictInv, Status, None
<1>1. CASE WakeUp(t) BY <1>0, <1>1 DEF WakeUp
<1>2. CASE Acquire(t) BY <1>0, <1>2 DEF Acquire
<1>3. CASE CheckCancelled(t) BY <1>0, <1>3 DEF CheckCancelled
<1>4. CASE CheckThrottle(t) BY <1>0, <1>4 DEF CheckThrottle
<1>5. CASE CheckFails(t) BY <1>0, <1>5 DEF CheckFails, Fault
<1>6. CASE BuildFails(t) BY <1>0, <1>6 DEF BuildFails
<1>7. CASE StartRun(t) BY <1>0, <1>7 DEF StartRun
<1>8. CASE RunSucceeds(t) BY <1>0, <1>8 DEF RunSucceeds, Finish
<1>9. CASE RunRaises(t) BY <1>0, <1>9 DEF RunRaises, NextAttempt, Finish
<1>10. CASE SyncRunTimesOut(t) BY <1>0, <1>10 DEF SyncRunTimesOut, NextAttempt, Finish
<1>11. CASE RetryRun(t) BY <1>0, <1>11 DEF RetryRun
<1>12. CASE Abort(t) BY <1>0, <1>12 DEF Abort, Finish
<1>13. CASE SwallowCancel(t) BY <1>0, <1>13 DEF SwallowCancel
<1>14. CASE Heartbeat(t) BY <1>0, <1>14 DEF Heartbeat
<1>15. CASE ThreadReturns(t) BY <1>0, <1>15 DEF ThreadReturns
<1>16. CASE Settle(t) BY <1>0, <1>16 DEF Settle
<1>17. CASE Send(t) BY <1>0, <1>17 DEF Send, Report
<1>18. CASE Reject(t) BY <1>0, <1>18 DEF Reject, Report
<1>19. CASE SendFails(t) BY <1>0, <1>19 DEF SendFails, Report, Fault
<1>20. CASE Record(t) BY <1>0, <1>20 DEF Record, Fault
<1>21. CASE Interrupted(t) BY <1>0, <1>21 DEF Interrupted, Report
<1>22. CASE SettleInterrupted(t) BY <1>0, <1>22 DEF SettleInterrupted
<1> QED
  BY <1>1, <1>2, <1>3, <1>4, <1>5, <1>6, <1>7, <1>8, <1>9, <1>10, <1>11,
     <1>12, <1>13, <1>14, <1>15, <1>16, <1>17, <1>18, <1>19, <1>20, <1>21,
     <1>22
     DEF HandlerStep, HandlerFault

\* So a step of a handler keeps the invariant.
LEMMA HandlerAnswer ==
  ASSUME TypeOK, HandlerInv, CopyInv, VerdictInv, AnswerInv, NEW t \in Tasks,
         UNCHANGED clientVars,
         HandlerStep(t) \/ HandlerFault(t) \/ Heartbeat(t) \/ ThreadReturns(t)
  PROVE  AnswerInv'
<1>1. Phase(t) /\ Live(t) /\ Beating(t) /\ Loss(t) BY DEF AnswerInv, Answered
<1>2. OthersKept(t) BY HandlerKeeps
<1>3. Phase(t)' BY <1>1, HandlerPhase
<1>4. Live(t)' BY <1>1, HandlerLive
<1>5. Beating(t)' BY <1>1, HandlerBeats
<1>6. Loss(t)' BY <1>1, HandlerLoss
<1> QED BY <1>2, <1>3, <1>4, <1>5, <1>6, OthersAnswer DEF Answered

-----------------------------------------------------------------------------
(* Steps of a worker's loop and its death.                                 *)

\* Accepting gives a task a live worker.
LEMMA AcceptAnswer ==
  ASSUME TypeOK, CopyInv, AnswerInv, NEW w \in Workers, Accept(w)
  PROVE  AnswerInv'
<1>1. wire[w] \in Seq(Tasks) /\ wire[w] # <<>>
  BY DEF Accept, TypeOK, BrokerTypeOK
<1> PICK t : t = Head(wire[w]) OBVIOUS
<1>2. t \in Tasks /\ InFlight(w, t) BY <1>1, TailFacts DEF InFlight
<1>3. pc[t] = "idle" /\ t \notin doomed
  BY <1>2 DEF CopyInv, PendingPcs, SlotPcs
<1>4. /\ UNCHANGED <<worker, signals, listening, cancelled, faults, attempt, verdict,
                     hb, doomed>>
      /\ worker[w] = "serving"
      /\ UNCHANGED envelope \/ envelope' = [envelope EXCEPT ![t] = "error"]
      /\ owner' = [owner EXCEPT ![t] = w]
      /\ \E l \in {"reject", "sleep", "wait"} : pc' = [pc EXCEPT ![t] = l]
  BY DEF Accept, Goto
<1>5. /\ pc \in [Tasks -> Pcs] /\ owner \in [Tasks -> Workers \cup {None}]
      /\ envelope \in [Tasks -> Status \cup {None}]
  BY DEF TypeOK, WorkerTypeOK
<1>6. Answered(t)'
  BY <1>2, <1>3, <1>4, <1>5, BrokerAssumption
     DEF AnswerInv, Answered, Phase, Live, Beating, Loss, EarlyPcs, PendingPcs,
         SlotPcs
<1>7. ASSUME NEW x \in Tasks, x # t PROVE Answered(x)'
  BY <1>2, <1>4, <1>5, <1>7 DEF AnswerInv, Answered, Phase, Live, Beating, Loss
<1> QED BY <1>6, <1>7 DEF AnswerInv

\* A connection that ends loses tasks nobody accepted.
LEMMA DropAnswer ==
  ASSUME TypeOK, CopyInv, AnswerInv, NEW w \in Workers, DropWire(w),
         UNCHANGED <<worker, signals, owner, attempt, hb, doomed, verdict, cancelled,
                     envelope>>,
         listening' = [listening EXCEPT ![w] = FALSE], faults > 0 => faults' > 0
  PROVE  AnswerInv'
<1>0. ~listening'[w] /\ \A v \in Workers : ~listening[v] => ~listening'[v]
  BY DEF TypeOK, WorkerTypeOK
<1>1. ASSUME NEW x \in Tasks, InFlight(w, x) PROVE Answered(x)'
  <2>1. pc[x] = "idle" /\ owner[x] = None BY <1>1 DEF CopyInv
  <2>2. pc'[x] = "lost" BY <1>1 DEF DropWire
  <2> QED
    BY <1>0, <2>1, <2>2, BrokerAssumption
       DEF AnswerInv, Answered, Phase, Live, Beating, Loss, EarlyPcs,
           PendingPcs, SlotPcs
<1>2. ASSUME NEW x \in Tasks, ~InFlight(w, x) PROVE Answered(x)'
  <2>1. pc'[x] = pc[x] BY <1>2 DEF DropWire
  <2> QED BY <1>0, <2>1 DEF AnswerInv, Answered, Phase, Live, Beating, Loss
<1> QED BY <1>1, <1>2 DEF AnswerInv

\* A signal interrupts handlers from the second on.
LEMMA SignalAnswer ==
  ASSUME TypeOK, HandlerInv, CopyInv, AnswerInv, NEW w \in Workers, Signal(w)
  PROVE  AnswerInv'
<1>1. /\ signals \in [Workers -> 0..MaxSignals] /\ MaxSignals \in Nat
  BY WorkerAssumption DEF TypeOK, WorkerTypeOK
<1>2. /\ UNCHANGED <<worker, listening, owner, pc, attempt, hb, verdict, cancelled, faults,
                     envelope>>
      /\ signals' = [signals EXCEPT ![w] = @ + 1]
  BY DEF Signal, brokerVars
<1>3. \A v \in Workers : signals'[v] \in Nat /\ signals[v] \in Nat /\ signals'[v] >= signals[v]
  BY <1>1, <1>2
<1>4. ASSUME NEW x \in Tasks, x \in doomed' \ doomed PROVE signals'[owner[x]] > 1
  <2>1. signals[w] # 0 /\ owner[x] = w BY <1>4 DEF Signal, Pending
  <2> QED BY <1>1, <1>2, <2>1
<1>5. ASSUME NEW x \in Tasks PROVE Phase(x)' /\ Live(x)' /\ Beating(x)'
  BY <1>2 DEF AnswerInv, Answered, Phase, Live, Beating
<1>6. ASSUME NEW x \in Tasks PROVE Loss(x)'
  <2>1. Loss(x) BY DEF AnswerInv, Answered
  <2>2. x \in doomed => owner[x] \in Workers
    BY DEF CopyInv, HandlerInv
  <2>3. owner[x] \in Workers \cup {None} BY DEF TypeOK, WorkerTypeOK
  <2>4. x \in doomed' => signals'[owner'[x]] > 1
    BY <1>2, <1>3, <1>4, <2>1, <2>2 DEF Loss
  <2>5. CASE owner[x] = None BY <1>2, <1>3, <2>1, <2>4, <2>5 DEF Loss
  <2>6. CASE owner[x] # None BY <1>2, <1>3, <2>1, <2>3, <2>4, <2>6 DEF Loss
  <2> QED BY <2>5, <2>6
<1> QED BY <1>5, <1>6 DEF AnswerInv, Answered

\* A worker stops once nothing is pending; its heartbeat loops end with it.
LEMMA StopAnswer ==
  ASSUME TypeOK, HandlerInv, AnswerInv, NEW w \in Workers, Stop(w)
  PROVE  AnswerInv'
<1>1. /\ UNCHANGED <<signals, listening, owner, pc, attempt, verdict, cancelled, doomed,
                     faults, envelope>>
      /\ worker[w] = "serving" /\ worker' = [worker EXCEPT ![w] = "stopped"]
      /\ hb' = hb \ {t \in Tasks : owner[t] = w}
      /\ \A t \in Tasks : pc[t] \in PendingPcs => owner[t] # w
  BY DEF Stop, brokerVars, Owned, Pending
<1>2. /\ worker \in [Workers -> {"serving", "stopped", "crashed"}]
      /\ \A t \in Tasks : pc[t] \in PendingPcs => owner[t] \in Workers
  BY DEF TypeOK, WorkerTypeOK, HandlerInv
<1>3. /\ \A v \in Workers : v # w => worker'[v] = worker[v]
      /\ \A v \in Workers : worker[v] = "crashed" => worker'[v] = "crashed"
  BY <1>1, <1>2
<1>4. ASSUME NEW x \in Tasks PROVE Answered(x)'
  <2>1. Phase(x)' /\ Beating(x)'
    BY <1>1 DEF AnswerInv, Answered, Phase, Beating
  <2>2. Live(x)' BY <1>1, <1>2, <1>3 DEF AnswerInv, Answered, Live
  <2>3. owner[x] \in Workers \cup {None} BY DEF TypeOK, WorkerTypeOK
  <2>4. Loss(x)' BY <1>1, <1>3, <2>3 DEF AnswerInv, Answered, Loss
  <2> QED BY <2>1, <2>2, <2>4 DEF Answered
<1> QED BY <1>4 DEF AnswerInv

\* A death loses the worker's handlers and what was on its way to it.
LEMMA CrashAnswer ==
  ASSUME TypeOK, HandlerInv, CopyInv, AnswerInv, NEW w \in Workers, Crash(w)
  PROVE  AnswerInv'
<1>1. /\ UNCHANGED <<signals, owner, attempt, verdict, cancelled, faults, envelope>>
      /\ worker[w] = "serving" /\ worker' = [worker EXCEPT ![w] = "crashed"]
      /\ listening' = [listening EXCEPT ![w] = FALSE]
      /\ hb' = hb \ {t \in Tasks : owner[t] = w}
      /\ doomed' \subseteq doomed
  BY DEF Crash, Owned
<1>2. /\ worker \in [Workers -> {"serving", "stopped", "crashed"}]
      /\ \A t \in Tasks : pc[t] \in PendingPcs => owner[t] \in Workers
      /\ \A t \in Tasks : owner[t] \in Workers \cup {None}
  BY DEF TypeOK, WorkerTypeOK, HandlerInv
<1>6. ~listening'[w] /\ \A v \in Workers : ~listening[v] => ~listening'[v]
  BY <1>1 DEF TypeOK, WorkerTypeOK
<1>3. /\ worker'[w] = "crashed"
      /\ \A v \in Workers : v # w => worker'[v] = worker[v]
  BY <1>1, <1>2
<1>4. ASSUME NEW x \in Tasks, x \in Pending(w) \/ InFlight(w, x)
      PROVE  Answered(x)'
  <2>1. pc'[x] = "lost" BY <1>4 DEF Crash
  <2>2. owner[x] = w \/ (owner[x] = None /\ pc[x] = "idle")
    <3>1. CASE x \in Pending(w) BY <3>1 DEF Pending
    <3>2. CASE InFlight(w, x) BY <3>2 DEF CopyInv
    <3> QED BY <1>4, <3>1, <3>2
  <2>3. Phase(x)' BY <2>1 DEF Phase, EarlyPcs
  <2>4. Live(x)'
    BY <1>1, <2>1, <2>2, BrokerAssumption
       DEF AnswerInv, Answered, Live, PendingPcs, SlotPcs
  <2>5. Beating(x)'
    BY <1>1, <2>1 DEF AnswerInv, Answered, Beating
  <2>6. Loss(x)'
    BY <1>1, <1>3, <1>6, <2>1, <2>2, BrokerAssumption DEF AnswerInv, Answered, Loss
  <2> QED BY <2>3, <2>4, <2>5, <2>6 DEF Answered
<1>5. ASSUME NEW x \in Tasks, ~(x \in Pending(w) \/ InFlight(w, x))
      PROVE  Answered(x)'
  <2>1. pc'[x] = pc[x] BY <1>5 DEF Crash
  <2>2. pc[x] \in PendingPcs => owner[x] # w BY <1>5 DEF Pending
  <2>3. Phase(x)' /\ Beating(x)'
    BY <1>1, <2>1 DEF AnswerInv, Answered, Phase, Beating
  <2>4. Live(x)'
    BY <1>1, <1>2, <1>3, <2>1, <2>2 DEF AnswerInv, Answered, Live
  <2>5. Loss(x)'
    BY <1>1, <1>2, <1>3, <1>6, <2>1 DEF AnswerInv, Answered, Loss
  <2> QED BY <2>3, <2>4, <2>5 DEF Answered
<1> QED BY <1>4, <1>5 DEF AnswerInv

\* So a step of the loop keeps the invariant.
LEMMA LoopAnswer ==
  ASSUME TypeOK, HandlerInv, CopyInv, AnswerInv, NEW w \in Workers,
         LoopStep(w) \/ Signal(w) \/ ListenEnds(w) \/ Crash(w)
  PROVE  AnswerInv'
<1>1. CASE Accept(w) BY <1>1, AcceptAnswer
<1>2. CASE StopListening(w)
  <2>1. /\ DropWire(w) /\ UNCHANGED faults
        /\ listening' = [listening EXCEPT ![w] = FALSE]
        /\ UNCHANGED <<worker, signals, owner, attempt, hb, doomed, verdict, cancelled,
                       envelope>>
    BY <1>2 DEF StopListening
  <2> QED BY <2>1, DropAnswer
<1>3. CASE ListenEnds(w)
  <2>1. /\ DropWire(w)
        /\ listening' = [listening EXCEPT ![w] = FALSE]
        /\ UNCHANGED <<worker, signals, owner, attempt, hb, doomed, verdict, cancelled,
                       envelope>>
        /\ faults' = faults + 1
    BY <1>3 DEF ListenEnds, Fault
  <2>2. faults > 0 => faults' > 0
    BY <2>1, WorkerAssumption DEF TypeOK, WorkerTypeOK
  <2> QED BY <2>1, <2>2, DropAnswer
<1>4. CASE Stop(w) BY <1>4, StopAnswer
<1>5. CASE Signal(w) BY <1>5, SignalAnswer
<1>6. CASE Crash(w) BY <1>6, CrashAnswer
<1> QED BY <1>1, <1>2, <1>3, <1>4, <1>5, <1>6 DEF LoopStep

-----------------------------------------------------------------------------

\* Every step keeps it.
LEMMA NextAnswer ==
  ASSUME TypeOK, HandlerInv, CopyInv, VerdictInv, AnswerInv, [Next]_vars
  PROVE  AnswerInv'
<1>1. CASE ClientNext /\ UNCHANGED workerVars BY <1>1, ClientAnswer
<1>2. CASE BrokerNext /\ UNCHANGED <<workerVars, clientVars>>
  BY <1>2, BrokerAnswer
<1>3. CASE WorkerNext /\ UNCHANGED clientVars
  BY <1>3, HandlerAnswer, LoopAnswer DEF WorkerNext
<1>4. CASE UNCHANGED vars
  BY <1>4, AnswerFrame DEF vars, brokerVars
<1> QED BY <1>1, <1>2, <1>3, <1>4 DEF Next

\* What the verdicts rest on holds in every state.
LEMMA AnswerInvariant == Spec => [](TypeOK /\ AnswerInv)
<1>1. TypeOK /\ HandlerInv /\ CopyInv /\ VerdictInv /\ AnswerInv /\ [Next]_vars
        => AnswerInv'
  BY NextAnswer
<1> QED
  BY <1>1, InitAnswer, TypesInvariant, CopyInvariant, VerdictInvariant, PTL
     DEF Spec

-----------------------------------------------------------------------------
(* What follows.                                                           *)

\* A handler of _handle_task that ends without an answer has skipped a task
\* cancelled before it started; a task is lost otherwise only on the way to a
\* worker that listens no more, with its worker, or when its result is sent.
THEOREM NothingLostSilently == Spec => []NoSilentLoss
<1>1. TypeOK /\ AnswerInv => NoSilentLoss
  <2> SUFFICES ASSUME TypeOK, AnswerInv, NEW t \in Tasks
               PROVE  /\ pc[t] = "done" /\ verdict[t] = None =>
                          attempt[t] = 0 /\ t \in cancelled
                      /\ pc[t] = "lost" /\ owner[t] = None =>
                           \E w \in Workers : ~listening[w]
                      /\ pc[t] = "lost" /\ owner[t] # None =>
                           \/ faults > 0 /\ envelope[t] # None
                           \/ signals[owner[t]] > 1 \/ worker[owner[t]] = "crashed"
    BY DEF NoSilentLoss
  <2>1. Phase(t) /\ Loss(t) BY DEF AnswerInv, Answered
  <2> QED BY <2>1 DEF Phase, Loss
<1> QED BY <1>1, AnswerInvariant, PTL

\* A worker that stopped after one signal has answered what it had accepted:
\* _worker_loop gathers the pending handlers, and nothing interrupts them.
THEOREM GracefulDrain == Spec => []DrainAnswersAll
<1>1. TypeOK /\ AnswerInv => DrainAnswersAll
  <2> SUFFICES ASSUME TypeOK, AnswerInv, NEW w \in Workers,
                      worker[w] = "stopped", signals[w] = 1, faults = 0,
                      NEW t \in Tasks, owner[t] = w
               PROVE  verdict[t] # None \/ (attempt[t] = 0 /\ t \in cancelled)
    BY DEF DrainAnswersAll, Owned
  <2>1. Phase(t) /\ Live(t) /\ Loss(t) BY DEF AnswerInv, Answered
  <2>2. pc[t] \in Pcs BY DEF TypeOK, WorkerTypeOK
  <2>3. pc[t] \notin PendingPcs /\ pc[t] # "idle" BY <2>1 DEF Live
  <2>4. pc[t] # "lost" BY <2>1, BrokerAssumption DEF Loss
  <2> QED BY <2>1, <2>2, <2>3, <2>4 DEF Phase, Pcs
<1> QED BY <1>1, AnswerInvariant, PTL

\* _execute_task ends its heartbeat loop before it sends the result, and no
\* heartbeat outlives the worker.
THEOREM HeartbeatsEndFirst == Spec => []NoHeartbeatAfterResult
<1>1. TypeOK /\ AnswerInv => NoHeartbeatAfterResult
  BY DEF TypeOK, WorkerTypeOK, AnswerInv, Answered, Live, Beating,
     NoHeartbeatAfterResult
<1> QED BY <1>1, AnswerInvariant, PTL

-----------------------------------------------------------------------------
(* A stall is real.                                                        *)

\* A heartbeat tells of an execution; an execution without one was cancelled;
\* a result that was sent and is not in its slot is in the handle, or in the
\* hands of the progress stream.
Beaten(t) ==
  /\ t \in fresh \cup observed \cup hb => attempt[t] > 0
  /\ pc[t] \in {"run", "backoff"} /\ t \notin hb => t \in cancelled
  /\ verdict[t] # None /\ results[t] = None /\ watcher[t] \notin Status =>
       handle[t] # None

BeatInv == \A t \in Tasks : Beaten(t)

\* There is no heartbeat at first.
LEMMA InitBeat == Init => BeatInv
BY DEF Init, BrokerInit, WorkerInit, ClientInit, BeatInv, Beaten

\* A handle keeps what it got, and what leaves the slot goes there.
LEMMA ClientBeat ==
  ASSUME TypeOK, BeatInv, ClientNext, UNCHANGED workerVars
  PROVE  BeatInv'
<1>0. /\ results \in [Tasks -> Status \cup {None}]
      /\ handle \in [Tasks -> Status \cup {None}]
      /\ watcher \in [Tasks -> {"idle", "watching", "ended", None} \cup Status]
      /\ UNCHANGED <<pc, attempt, verdict, hb>>
  BY DEF TypeOK, BrokerTypeOK, ClientTypeOK, workerVars, handlerVars
<1>1. /\ cancelled \subseteq cancelled'
      /\ fresh' \cup observed' \subseteq fresh \cup observed
  BY DEF ClientNext, Submit, CallResult, WaiterStep, WaitTimesOut, CallCheck,
     CheckPoll, Watch, WatchPoll, WatchRead, WatchRound, CancellerStep, CallCancel, ReceiveResult,
     ObserveHeartbeat, WaitStalls, Stall, ReceiveConfirmation, CancelTimesOut,
     SeedCancelled, brokerVars, brokerRest
<1>2. \A x \in Tasks :
        results'[x] = None /\ watcher'[x] \notin Status /\ handle'[x] = None =>
          results[x] = None /\ watcher[x] \notin Status /\ handle[x] = None
  BY <1>0
     DEF ClientNext, Submit, CallResult, WaiterStep, WaitTimesOut, CallCheck,
         CheckPoll, Watch, WatchPoll, WatchRead, WatchRound, CancellerStep, CallCancel, ReceiveResult,
         ObserveHeartbeat, WaitStalls, Stall, ReceiveConfirmation, Fetch,
         CancelTimesOut, SeedCancelled, TakeResult, PutResult, brokerVars,
         brokerRest, Status, None
<1> QED BY <1>0, <1>1, <1>2 DEF BeatInv, Beaten

\* A step of the broker touches no heartbeat and no result.
LEMMA BrokerBeat ==
  ASSUME BeatInv, BrokerNext, UNCHANGED <<workerVars, clientVars>>
  PROVE  BeatInv'
BY DEF BeatInv, Beaten, BrokerNext, Deliver, DeliverToDeadPeer, PutTaskBack,
   CoolDown, workerVars, handlerVars, clientVars

\* What the steps of a handler do to the heartbeats and the results.
BeatKept(t) ==
  /\ \A x \in Tasks : x # t =>
       /\ pc'[x] = pc[x] /\ attempt'[x] = attempt[x] /\ verdict'[x] = verdict[x]
       /\ x \in hb' <=> x \in hb
       /\ x \in fresh' <=> x \in fresh
       /\ results'[x] = results[x]
  /\ UNCHANGED <<observed, handle, watcher, cancelled>>

\* A step of the worker keeps what a heartbeat proves.
LEMMA HandlerBeat ==
  ASSUME TypeOK, NEW t \in Tasks, Beaten(t), UNCHANGED clientVars,
         HandlerStep(t) \/ HandlerFault(t) \/ Heartbeat(t) \/ ThreadReturns(t)
  PROVE  Beaten(t)' /\ BeatKept(t)
<1> USE DEF At, Goto, handlerRest, execRest, sendRest, brokerVars, clientVars,
            Beaten, BeatKept
<1>0. /\ pc \in [Tasks -> Pcs] /\ attempt \in [Tasks -> Nat]
      /\ verdict \in [Tasks -> Status \cup {None}]
      /\ envelope \in [Tasks -> Status \cup {None}]
      /\ results \in [Tasks -> Status \cup {None}]
  BY WorkerAssumption DEF TypeOK, BrokerTypeOK, WorkerTypeOK
<1>1. CASE WakeUp(t) BY <1>0, <1>1 DEF WakeUp
<1>2. CASE Acquire(t) BY <1>0, <1>2 DEF Acquire
<1>3. CASE CheckCancelled(t) BY <1>0, <1>3 DEF CheckCancelled
<1>4. CASE CheckThrottle(t) BY <1>0, <1>4 DEF CheckThrottle
<1>5. CASE CheckFails(t) BY <1>0, <1>5 DEF CheckFails, Fault
<1>6. CASE BuildFails(t) BY <1>0, <1>6 DEF BuildFails
<1>7. CASE StartRun(t) BY <1>0, <1>7 DEF StartRun
<1>8. CASE RunSucceeds(t) BY <1>0, <1>8 DEF RunSucceeds, Finish
<1>9. CASE RunRaises(t) BY <1>0, <1>9 DEF RunRaises, NextAttempt, Finish
<1>10. CASE SyncRunTimesOut(t) BY <1>0, <1>10 DEF SyncRunTimesOut, NextAttempt, Finish
<1>11. CASE RetryRun(t) BY <1>0, <1>11 DEF RetryRun
<1>12. CASE Abort(t) BY <1>0, <1>12 DEF Abort, Finish
<1>13. CASE SwallowCancel(t) BY <1>0, <1>13 DEF SwallowCancel
<1>14. CASE Heartbeat(t) BY <1>0, <1>14 DEF Heartbeat
<1>15. CASE ThreadReturns(t) BY <1>0, <1>15 DEF ThreadReturns
<1>16. CASE Settle(t) BY <1>0, <1>16 DEF Settle
<1>17. CASE Send(t) BY <1>0, <1>17 DEF Send, Report, PutResult
<1>18. CASE Reject(t) BY <1>0, <1>18 DEF Reject, Report, PutResult
<1>19. CASE SendFails(t) BY <1>0, <1>19 DEF SendFails, Report, PutResult, Fault
<1>20. CASE Record(t) BY <1>0, <1>20 DEF Record, Fault
<1>21. CASE Interrupted(t) BY <1>0, <1>21 DEF Interrupted, Report, PutResult
<1>22. CASE SettleInterrupted(t) BY <1>0, <1>22 DEF SettleInterrupted
<1> QED
  BY <1>1, <1>2, <1>3, <1>4, <1>5, <1>6, <1>7, <1>8, <1>9, <1>10, <1>11,
     <1>12, <1>13, <1>14, <1>15, <1>16, <1>17, <1>18, <1>19, <1>20, <1>21,
     <1>22
     DEF HandlerStep, HandlerFault

\* The loop starts no execution, and ends heartbeats with the process.
LEMMA LoopBeat ==
  ASSUME TypeOK, HandlerInv, CopyInv, BeatInv, NEW w \in Workers,
         UNCHANGED clientVars,
         LoopStep(w) \/ Signal(w) \/ ListenEnds(w) \/ Crash(w)
  PROVE  BeatInv'
<1>1. /\ UNCHANGED <<fresh, observed, cancelled, handle, watcher, results, verdict,
                     attempt>>
      /\ hb' \subseteq hb
  BY DEF LoopStep, Accept, StopListening, ListenEnds, Stop, Signal, Crash,
     clientVars, brokerVars
<1>2. ASSUME NEW x \in Tasks, pc'[x] \in {"run", "backoff"}
      PROVE  pc[x] = pc'[x] /\ (x \in hb => x \in hb')
  <2>1. pc \in [Tasks -> Pcs] BY DEF TypeOK, WorkerTypeOK
  <2>2. CASE Accept(w) BY <1>2, <2>1, <2>2 DEF Accept, Goto
  <2>3. CASE StopListening(w) BY <1>2, <2>3 DEF StopListening, DropWire
  <2>4. CASE ListenEnds(w) BY <1>2, <2>4 DEF ListenEnds, DropWire
  <2>5. CASE Stop(w)
    BY <1>2, <2>5 DEF Stop, Owned, Pending, PendingPcs, SlotPcs
  <2>6. CASE Signal(w) BY <1>2, <2>6 DEF Signal
  <2>7. CASE Crash(w)
    BY <1>2, <2>7 DEF Crash, Owned, Pending, PendingPcs, SlotPcs
  <2> QED BY <2>2, <2>3, <2>4, <2>5, <2>6, <2>7 DEF LoopStep
<1> QED BY <1>1, <1>2 DEF BeatInv, Beaten

\* What a heartbeat proves holds in every state.
LEMMA BeatInvariant == Spec => []BeatInv
<1>1. ASSUME TypeOK, HandlerInv, CopyInv, BeatInv, [Next]_vars PROVE BeatInv'
  <2>1. CASE ClientNext /\ UNCHANGED workerVars BY <1>1, <2>1, ClientBeat
  <2>2. CASE BrokerNext /\ UNCHANGED <<workerVars, clientVars>>
    BY <1>1, <2>2, BrokerBeat
  <2>3. CASE WorkerNext /\ UNCHANGED clientVars
    <3>1. CASE \E w \in Workers :
                 LoopStep(w) \/ Signal(w) \/ ListenEnds(w) \/ Crash(w)
      BY <1>1, <2>3, <3>1, LoopBeat
    <3>2. ASSUME NEW t \in Tasks, HandlerStep(t) \/ HandlerFault(t)
                                  \/ Heartbeat(t) \/ ThreadReturns(t)
          PROVE  BeatInv'
      <4>1. Beaten(t)' /\ BeatKept(t)
        BY <1>1, <2>3, <3>2, HandlerBeat DEF BeatInv
      <4> QED BY <1>1, <4>1 DEF BeatInv, Beaten, BeatKept
    <3> QED BY <2>3, <3>1, <3>2 DEF WorkerNext
  <2>4. CASE UNCHANGED vars
    BY <1>1, <2>4 DEF BeatInv, Beaten, vars, brokerVars, workerVars,
       handlerVars, clientVars
  <2> QED BY <1>1, <2>1, <2>2, <2>3, <2>4 DEF Next
<1> QED
  BY <1>1, InitBeat, TypesInvariant, CopyInvariant, PTL DEF Spec

\* Result.result raises TaskStalled only for a task that was lost, that is being
\* cancelled, or whose envelope another coroutine put into the handle.
THEOREM StallsAreReal == Spec => StallIsReal
<1> DEFINE Real == \A t \in Tasks :
             waiter[t] = "waiting" /\ waiter'[t] = "stalled" =>
               \/ pc[t] = "lost"
               \/ t \in cancelled
               \/ (verdict[t] # None /\ handle[t] # None)
<1>1. ASSUME TypeOK, AnswerInv, BeatInv, [Next]_vars PROVE Real
  <2> SUFFICES ASSUME NEW t \in Tasks, waiter[t] = "waiting",
                      waiter'[t] = "stalled"
               PROVE  \/ pc[t] = "lost"
                      \/ t \in cancelled
                      \/ (verdict[t] # None /\ handle[t] # None)
    OBVIOUS
  <2>1. WaitStalls(t)
    <3>1. ~UNCHANGED waiter OBVIOUS
    <3>2. ClientNext
      BY <1>1, <3>1 DEF Next, BrokerNext, WorkerNext, clientVars, vars
    <3>3. waiter \in [Tasks -> {"unsubmitted", "idle", "waiting", "returned",
                               "timedout", "stalled"}]
      BY <1>1 DEF TypeOK, ClientTypeOK
    <3>4. PICK x \in Tasks :
            \/ Submit(x)
            \/ CallResult(x) \/ WaiterStep(x) \/ WaitTimesOut(x)
            \/ CallCheck(x) \/ CheckPoll(x)
            \/ Watch(x) \/ WatchPoll(x)
            \/ CancellerStep(x)
            \/ \E mode \in Modes : CallCancel(x, mode)
      BY <3>2 DEF ClientNext
    <3> QED
      BY <3>1, <3>3, <3>4
         DEF Submit, CallResult, WaiterStep, WaitTimesOut, CallCheck, CheckPoll,
             Watch, WatchPoll, WatchRead, WatchRound, CancellerStep, CallCancel, ReceiveResult,
             ObserveHeartbeat, WaitStalls, Stall, ReceiveConfirmation,
             CancelTimesOut, SeedCancelled
  <2>2. /\ t \in observed /\ t \notin hb /\ results[t] = None
        /\ pc[t] \notin {"settle", "send"} /\ watcher[t] \notin Status
    BY <2>1 DEF WaitStalls, Stall
  <2>3. Phase(t) /\ Beaten(t) BY <1>1 DEF AnswerInv, Answered, BeatInv
  <2>4. pc[t] \in Pcs /\ attempt[t] \in Nat
    BY <1>1, WorkerAssumption DEF TypeOK, WorkerTypeOK
  <2>5. pc[t] \in {"run", "backoff", "record", "done", "lost"}
    BY <2>2, <2>3, <2>4
       DEF Phase, Beaten, EarlyPcs, Pcs, PendingPcs, SlotPcs
  <2> QED BY <2>2, <2>3, <2>5 DEF Phase, Beaten
<1>2. TypeOK /\ AnswerInv /\ BeatInv /\ [Next]_vars => [Real]_vars
  BY <1>1
<1> QED
  BY <1>2, AnswerInvariant, BeatInvariant, PTL DEF Spec, StallIsReal

=============================================================================
