----------------------------- MODULE Execution -----------------------------
(***************************************************************************)
(* The execution phase of a handler: the attempts of run_with_policy, the  *)
(* heartbeat loop that watches for a cancellation, the end of the          *)
(* execution, the sending of its result, and what a CancelledError does to *)
(* a handler at each of its awaits (the forced shutdown).                  *)
(***************************************************************************)
EXTENDS WorkerLoop

execRest == <<worker, signals, listening, owner, doomed>>

-----------------------------------------------------------------------------
(* Worker.run_with_policy, awaited by the handler through exec_task.       *)

Finish(t, s) ==
  /\ envelope' = [envelope EXCEPT ![t] = s]
  /\ Goto(t, "settle")

RunSucceeds(t) ==
  /\ pc[t] = "run" /\ t \notin aborting
  /\ Finish(t, "ok")
  /\ UNCHANGED <<brokerVars, execRest, free, attempt, hb, aborting, threads,
                 verdict, faults>>

\* A wrong retry loop for the mutation tests: range(2 + retries).
NextAttemptOffByOne(t) ==
  IF attempt[t] <= 1 + Retries
  THEN Goto(t, "backoff") /\ UNCHANGED envelope
  ELSE Finish(t, "error")

\* After an exception: back off and try again, or give up with the last one.
NextAttempt(t) ==
  IF attempt[t] <= Retries
  THEN Goto(t, "backoff") /\ UNCHANGED envelope
  ELSE Finish(t, "error")

\* The function raises; an asynchronous one may also have been timed out.
RunRaises(t) ==
  /\ pc[t] = "run" /\ t \notin aborting
  /\ NextAttempt(t)
  /\ UNCHANGED <<brokerVars, execRest, free, attempt, hb, aborting, threads,
                 verdict, faults>>

\* wait_for gives up on a synchronous function; its executor thread goes on.
SyncRunTimesOut(t) ==
  /\ t \in SyncTasks
  /\ pc[t] = "run" /\ t \notin aborting
  /\ NextAttempt(t)
  /\ threads' = [threads EXCEPT ![t] = @ + 1]
  /\ UNCHANGED <<brokerVars, execRest, free, attempt, hb, aborting, verdict,
                 faults>>

ThreadReturns(t) ==
  /\ threads[t] > 0
  /\ threads' = [threads EXCEPT ![t] = @ - 1]
  /\ UNCHANGED <<brokerVars, execRest, free, pc, attempt, envelope, hb,
                 aborting, verdict, faults>>

RetryRun(t) ==
  /\ pc[t] = "backoff" /\ t \notin aborting
  /\ attempt' = [attempt EXCEPT ![t] = @ + 1]
  /\ Goto(t, "run")
  /\ UNCHANGED <<brokerVars, execRest, free, envelope, hb, aborting, threads,
                 verdict, faults>>

\* CancelledError surfaces from the function or from the backoff sleep; it is
\* not an Exception, so run_with_policy does not retry.
Abort(t) ==
  /\ pc[t] \in {"run", "backoff"} /\ t \in aborting
  /\ aborting' = aborting \ {t}
  /\ Finish(t, "cancelled")
  /\ threads' = IF t \in SyncTasks /\ pc[t] = "run"
                THEN [threads EXCEPT ![t] = @ + 1] ELSE threads
  /\ UNCHANGED <<brokerVars, execRest, free, attempt, hb, verdict, faults>>

\* An asynchronous function catches the CancelledError and goes on.
SwallowCancel(t) ==
  /\ t \notin SyncTasks
  /\ pc[t] = "run" /\ t \in aborting
  /\ aborting' = aborting \ {t}
  /\ UNCHANGED <<brokerVars, execRest, free, pc, attempt, envelope, hb,
                 threads, verdict, faults>>

-----------------------------------------------------------------------------
(* _heartbeat_loop.                                                        *)

\* heartbeat_and_check_cancel: on a cancelled task the execution, if it is
\* not over, gets a CancelledError, and the loop returns.
Heartbeat(t) ==
  /\ t \in hb
  /\ fresh' = fresh \cup {t}
  /\ IF t \in cancelled
     THEN /\ hb' = hb \ {t}
          /\ aborting' = IF pc[t] \in {"run", "backoff"}
                         THEN aborting \cup {t} ELSE aborting
     ELSE UNCHANGED <<hb, aborting>>
  /\ UNCHANGED <<queue, results, cancelled, cooling, stream, wire, execRest,
                 free, pc, attempt, envelope, threads, verdict, faults>>

\* A wrong end of the execution for the mutation tests: cancel_event stays
\* unset.
SettleKeepsHeartbeat(t) ==
  /\ At(t, "settle")
  /\ Goto(t, "send")
  /\ UNCHANGED <<brokerVars, execRest, free, attempt, envelope, hb, aborting,
                 threads, verdict, faults>>

\* The finally block of _execute_task: the logs are drained, the heartbeat
\* loop is told to end and is awaited.  A result that cannot be serialized
\* becomes an error.
Settle(t) ==
  /\ At(t, "settle")
  /\ hb' = hb \ {t}
  /\ Goto(t, "send")
  /\ \/ UNCHANGED envelope
     \/ /\ envelope[t] = "ok"
        /\ envelope' = [envelope EXCEPT ![t] = "error"]
  /\ UNCHANGED <<brokerVars, execRest, free, attempt, aborting, threads,
                 verdict, faults>>

-----------------------------------------------------------------------------
(* Sending the result, and what follows.                                   *)

sendRest == <<queue, fresh, cancelled, cooling, stream, wire, execRest,
              attempt, envelope, hb, aborting, threads>>

Report(t) ==
  /\ PutResult(t, envelope[t])
  /\ verdict' = [verdict EXCEPT ![t] = envelope[t]]

\* A wrong sending for the mutation tests: what TECHNICAL_OVERVIEW.md says of
\* a task cancelled while it ran, applied to every verdict.
SendUnlessCancelled(t) ==
  /\ At(t, "send")
  /\ IF t \in cancelled THEN UNCHANGED <<results, verdict>> ELSE Report(t)
  /\ Goto(t, "done") /\ Release(t)
  /\ UNCHANGED <<sendRest, faults>>

\* send_result; after a success of a throttled function the slot is kept
\* until the cooldown is recorded.
Send(t) ==
  /\ At(t, "send")
  /\ Report(t)
  /\ IF envelope[t] = "ok" /\ t \in Throttled
     THEN Goto(t, "record") /\ UNCHANGED free
     ELSE Goto(t, "done") /\ Release(t)
  /\ UNCHANGED <<sendRest, faults>>

\* A rejected task is answered without a slot: what clients submit has the
\* "id" that the answer needs (core/task.py:431, core/envelope.py:77).
Reject(t) ==
  /\ At(t, "reject")
  /\ Report(t)
  /\ Goto(t, "done")
  /\ UNCHANGED <<sendRest, free, faults>>

\* send_result raises: the handler ends with an exception nobody reads.  The
\* connection may have broken after the broker had executed the request.
SendFails(t) ==
  /\ At(t, "send") \/ At(t, "reject")
  /\ Fault("send")
  /\ Goto(t, "lost")
  /\ IF pc[t] = "send" THEN Release(t) ELSE UNCHANGED free
  /\ Report(t) \/ UNCHANGED <<results, verdict>>
  /\ UNCHANGED sendRest

\* record_throttle: the cooldown starts, or the call raises, executed or not.
Record(t) ==
  /\ At(t, "record")
  /\ \/ cooling' = TRUE /\ UNCHANGED faults
     \/ Fault("record") /\ cooling' \in {TRUE, cooling}
  /\ Goto(t, "done") /\ Release(t)
  /\ UNCHANGED <<queue, results, fresh, cancelled, stream, wire, execRest,
                 attempt, envelope, hb, aborting, threads, verdict>>

-----------------------------------------------------------------------------
(* The forced shutdown: CancelledError is thrown into a handler.           *)

\* A wrong interruption for the mutation tests: the slot is not given back.
InterruptedLeaksSlot(t) ==
  /\ t \in doomed /\ pc[t] # "settle"
  /\ doomed' = doomed \ {t}
  /\ Goto(t, IF pc[t] = "record" THEN "done" ELSE "lost")
  /\ \/ UNCHANGED <<results, verdict>>
     \/ pc[t] \in {"send", "reject"} /\ Report(t)
  /\ UNCHANGED <<queue, fresh, cancelled, cooling, stream, wire, worker,
                 signals, listening, free, owner, attempt, envelope, hb,
                 aborting, threads, faults>>

\* The handler ends where it is, with its slot.  A request under way may
\* have reached the broker.
Interrupted(t) ==
  /\ t \in doomed /\ pc[t] # "settle"
  /\ doomed' = doomed \ {t}
  /\ Goto(t, IF pc[t] = "record" THEN "done" ELSE "lost")
  /\ IF pc[t] \in SlotPcs THEN Release(t) ELSE UNCHANGED free
  /\ \/ UNCHANGED <<results, cooling, verdict>>
     \/ pc[t] \in {"send", "reject"} /\ Report(t) /\ UNCHANGED cooling
     \/ pc[t] = "record" /\ cooling' = TRUE /\ UNCHANGED <<results, verdict>>
  /\ UNCHANGED <<queue, fresh, cancelled, stream, wire, worker, signals,
                 listening, owner, attempt, envelope, hb, aborting, threads,
                 faults>>

\* While the finally block drains the logs the error ends the handler, its
\* heartbeat loop still running; while it awaits the loop, the error is
\* suppressed (the loop ends) and the result is sent after all.
SettleInterrupted(t) ==
  /\ t \in doomed /\ pc[t] = "settle"
  /\ doomed' = doomed \ {t}
  /\ \/ Goto(t, "lost") /\ Release(t) /\ UNCHANGED hb
     \/ Goto(t, "send") /\ hb' = hb \ {t} /\ UNCHANGED free
  /\ UNCHANGED <<brokerVars, worker, signals, listening, owner, attempt,
                 envelope, aborting, threads, verdict, faults>>

-----------------------------------------------------------------------------

HandlerStep(t) ==
  \/ WakeUp(t) \/ Acquire(t) \/ CheckCancelled(t) \/ CheckThrottle(t)
  \/ BuildFails(t) \/ StartRun(t)
  \/ RunSucceeds(t) \/ RunRaises(t) \/ SyncRunTimesOut(t) \/ RetryRun(t)
  \/ Abort(t) \/ SwallowCancel(t)
  \/ Settle(t) \/ Send(t) \/ Reject(t) \/ Record(t)
  \/ Interrupted(t) \/ SettleInterrupted(t)

HandlerFault(t) == CheckFails(t) \/ SendFails(t)

LoopStep(w) == Accept(w) \/ StopListening(w) \/ Stop(w)

WorkerNext ==
  \/ \E w \in Workers : LoopStep(w) \/ Signal(w) \/ ListenEnds(w) \/ Crash(w)
  \/ \E t \in Tasks :
       HandlerStep(t) \/ HandlerFault(t) \/ Heartbeat(t) \/ ThreadReturns(t)

=============================================================================
