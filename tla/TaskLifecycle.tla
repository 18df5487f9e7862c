--------------------------- MODULE TaskLifecycle ---------------------------
(***************************************************************************)
(* Clients, broker and workers together: what a submitted task goes        *)
(* through, from submit() to the envelope in the client's handle.          *)
(***************************************************************************)
EXTENDS Execution, ClientHandle

vars == <<brokerVars, workerVars, clientVars>>

Queued(t) == Contains(queue, t)

Init == BrokerInit /\ WorkerInit /\ ClientInit

\* Time enough for a stall passes only while no heartbeat is sent, the handler
\* is not busy sending a result and the progress stream has not just taken one:
\* the default stall_timeout, 600 s, is far above the heartbeat interval, 5 s,
\* and the time a request takes.
WaitStalls(t) ==
  /\ t \notin hb /\ pc[t] \notin {"settle", "send"} /\ watcher[t] \notin Status
  /\ Stall(t)

\* The coroutines of one handle once they have been called.
WaiterStep(t) == ReceiveResult(t) \/ ObserveHeartbeat(t) \/ WaitStalls(t)
CancellerStep(t) ==
  ReceiveConfirmation(t) \/ CancelTimesOut(t) \/ SeedCancelled(t)

ClientNext ==
  \E t \in Tasks :
    \/ Submit(t)
    \/ CallResult(t) \/ WaiterStep(t) \/ WaitTimesOut(t)
    \/ CallCheck(t) \/ CheckPoll(t)
    \/ Watch(t) \/ WatchPoll(t)
    \/ CancellerStep(t)
    \/ \E mode \in Modes : CallCancel(t, mode)

BrokerNext ==
  \/ \E w \in Workers : Deliver(w) \/ DeliverToDeadPeer(w) \/ PutTaskBack(w)
  \/ CoolDown

Next ==
  \/ ClientNext /\ UNCHANGED workerVars
  \/ BrokerNext /\ UNCHANGED <<workerVars, clientVars>>
  \/ WorkerNext /\ UNCHANGED clientVars

Spec == Init /\ [][Next]_vars

\* The event loops run: a coroutine that can take a step takes it.  User code
\* ends, asynchronous or not; nothing is said of signals, crashes, faults, of
\* what the user calls, nor of when a cooldown or an executor thread ends.
Fairness ==
  /\ \A t \in Tasks :
       /\ WF_vars(HandlerStep(t) /\ UNCHANGED clientVars)
       /\ WF_vars(Heartbeat(t) /\ UNCHANGED clientVars)
       /\ WF_vars(WaiterStep(t) /\ UNCHANGED workerVars)
       /\ WF_vars(CancellerStep(t) /\ UNCHANGED workerVars)
       /\ WF_vars(CheckPoll(t) /\ UNCHANGED workerVars)
       /\ WF_vars(WatchPoll(t) /\ UNCHANGED workerVars)
  /\ \A w \in Workers :
       /\ WF_vars(LoopStep(w) /\ UNCHANGED clientVars)
       /\ WF_vars(Deliver(w) /\ UNCHANGED <<workerVars, clientVars>>)

FairSpec == Spec /\ Fairness

-----------------------------------------------------------------------------
(* Safety.                                                                 *)

TypeOK == BrokerTypeOK /\ WorkerTypeOK /\ ClientTypeOK

\* The semaphore of _worker_loop counts exactly the handlers between its
\* acquisition and their end: none of the early returns of _execute_task,
\* and no interruption by a forced shutdown, leaks a slot or frees one twice.
SlotAccounting ==
  \A w \in Workers : free[w] + Cardinality(Holders(w)) = Concurrency

\* A task is in the queue, on the way to one worker, or with one worker, and
\* in one copy, whatever listening connections break: the broker's
\* _stream_tasks never duplicates the task it puts back.
AtMostOneCopy ==
  /\ IsInjective(queue)
  /\ \A w \in Workers : IsInjective(wire[w])
  /\ \A t \in Tasks :
       LET carriers == {w \in Workers : InFlight(w, t)} IN
         /\ \A v, w \in carriers : v = w
         /\ carriers # {} => ~Queued(t)
         /\ carriers # {} \/ Queued(t) =>
              Submitted(t) /\ owner[t] = None /\ pc[t] = "idle"

\* A submitted task that no worker took is in the queue or on its way to a
\* worker, except for at most one task for each listening connection that the
\* broker's _stream_tasks wrote to after it had broken.
OneLossPerConnection ==
  LET strays == {t \in Tasks :
                   /\ Submitted(t) /\ pc[t] = "idle"
                   /\ ~Queued(t) /\ \A w \in Workers : ~InFlight(w, t)}
      broken == {w \in Workers : stream[w] \in {"reset", "ended"}}
  IN Cardinality(strays) <= Cardinality(broken)

\* A handler that came to its end has sent a result, unless it skipped a task
\* cancelled before it started.  A task is lost with the connection of a worker
\* that had not read it; with its own worker, by a second signal or its death;
\* or by the failure of the very call that sends its result.
NoSilentLoss ==
  \A t \in Tasks :
    /\ pc[t] = "done" /\ verdict[t] = None => attempt[t] = 0 /\ t \in cancelled
    /\ pc[t] = "lost" /\ owner[t] = None =>
         \E w \in Workers : ~listening[w]
    /\ pc[t] = "lost" /\ owner[t] # None =>
         \/ faults > 0 /\ envelope[t] # None
         \/ signals[owner[t]] > 1 \/ worker[owner[t]] = "crashed"

\* A worker that was shut down gracefully has answered every task it had
\* accepted, the ones waiting for their time or for a slot included.
DrainAnswersAll ==
  \A w \in Workers :
    worker[w] = "stopped" /\ signals[w] = 1 /\ faults = 0 =>
      \A t \in Owned(w) :
        verdict[t] # None \/ (attempt[t] = 0 /\ t \in cancelled)

\* The heartbeat of a task ends before its result can be read: a client that
\* sees a heartbeat change has no result to miss.
NoHeartbeatAfterResult ==
  \A t \in hb : verdict[t] = None /\ worker[owner[t]] = "serving"

\* TaskStalled is never raised for a task that is queued, waiting for its
\* time or a slot, or running with its heartbeat: the task was lost, its
\* heartbeat loop ended on a cancellation, or another coroutine of this
\* client took its envelope.
StallIsReal ==
  [][\A t \in Tasks :
       waiter[t] = "waiting" /\ waiter'[t] = "stalled" =>
         \/ pc[t] = "lost"
         \/ t \in cancelled
         \/ (verdict[t] # None /\ handle[t] # None)]_vars

\* The handle shows the one verdict of the worker or a cancellation that was
\* asked for, as TaskPromise says.
Job(t) ==
  IF ~Submitted(t) THEN "new"
  ELSE IF verdict[t] # None THEN "answered"
  ELSE IF pc[t] \in {"done", "lost"} THEN "abandoned"
  ELSE "open"

Promise == INSTANCE TaskPromise
             WITH job <- [t \in Tasks |-> Job(t)], requested <- cancelled,
                  seen <- handle

PromiseKept == Promise!PromiseSpec

-----------------------------------------------------------------------------
(* Liveness, under FairSpec.                                               *)

OnDeadWorker(t) == \E w \in Workers : owner[t] = w /\ worker[w] = "crashed"

\* A result() call without a timeout returns the task's result, if no worker
\* is stopped or dies, the task is not cancelled and nobody else reads the
\* result slot.
EveryWaitReturns ==
  \A t \in Tasks \ (Cancellable \cup Watched \cup Checked \cup Impatient) :
    waiter[t] = "waiting" ~>
      \/ waiter[t] = "returned"
      \/ pc[t] = "lost"
      \/ \E w \in Workers : ~listening[w]

\* "Any failure in the backend checks below must still surface to the client"
\* (remote.py:666): a task that reaches its checks is answered, unless it is
\* skipped as cancelled, the sending itself raises or the worker dies.
ChecksSurface ==
  \A t \in Tasks :
    pc[t] = "check" ~>
      \/ verdict[t] # None
      \/ t \in cancelled
      \/ pc[t] = "lost" /\ (envelope[t] # None \/ OnDeadWorker(t))

\* A cancel() without a timeout, made while the task executes, gets the
\* envelope of that execution into the handle.
RunningCancelConfirmed ==
  \A t \in Tasks :
    canceller[t] = "forever" /\ t \in hb ~> handle[t] # None \/ pc[t] = "lost"

\* The first SIGINT or SIGTERM stops the worker, once what it accepted is done.
DrainEnds ==
  \A w \in Workers : signals[w] = 1 ~> worker[w] # "serving"

\* When the worker dies during an execution whose heartbeat has reached the
\* broker, result() does not wait for ever.
CrashEndsWait ==
  \A t \in Tasks :
    /\ waiter[t] = "waiting" /\ t \in fresh \cup observed
    /\ OnDeadWorker(t)
    ~> waiter[t] # "waiting"

-----------------------------------------------------------------------------
(* What the repository's texts say and the code does not do.               *)

\* TECHNICAL_OVERVIEW.md:557: the client receives TaskCancelled when awaiting
\* a cancelled task (at any rate the call returns an envelope).
CancelledWaitReturns ==
  \A t \in Tasks :
    waiter[t] = "waiting" /\ t \in cancelled ~> waiter[t] = "returned"
=============================================================================
