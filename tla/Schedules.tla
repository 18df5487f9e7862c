------------------------------ MODULE Schedules ------------------------------
(* A recurring task over signed envelopes: submit_recurring, the worker that *)
(* verifies, waits, executes, records the cooldown and submits the next      *)
(* occurrence, and ScheduleHandle.cancel; preceded by the pairing of client  *)
(* and worker where no token is set.  A tick is half a second.               *)
EXTENDS Envelopes, SequencesExt

CONSTANTS RunFor,        \* run_for, from the start, and the bound of the clock
          MaxQueued      \* bound on the submissions

ASSUME ScheduleAssumption ==
  /\ RunFor \in Nat /\ MaxQueued \in Nat \ {0}
  /\ \A s \in Scenarios :
       /\ {s.capacity, s.throttle, s.runs, s.plain, s.duplicates, s.crashes, s.faults} \subseteq Nat
       /\ {s.offset, s.interval} \subseteq Int

VARIABLES queue,       \* the envelopes in the broker's task queue
          handlers,    \* the coroutines of _handle_task, in the order of delivery
          submitted,   \* envelopes ever submitted, duplicates not counted
          flag,        \* the schedule is cancelled, at the broker
          held,        \* RabbitMQ: a reader has the flag and will put it back
          cooldown,    \* the throttle of the function ends
          cancel,      \* the coroutine of ScheduleHandle.cancel
          budget       \* duplicates, crashes and faults still to come

schedVars == <<queue, handlers, submitted, flag, held, cooldown, cancel, budget>>
vars == <<pairVars, trustVars, schedVars>>

Live == {"sleep", "check", "run", "record", "limits", "put back", "submit"}

\* How a handler ended.  "next" is the only end that carries the chain on.
Ends == {"refused", "throttled", "unbuildable", "fault", "lost", "exhausted", "cancelled",
         "next", "done"}

Init ==
  /\ PairInit /\ EnvelopeInit
  /\ queue = <<>> /\ handlers = <<>> /\ submitted = 0
  /\ flag = FALSE /\ held = FALSE /\ cooldown = 0
  /\ cancel = [pc |-> "idle", starts |-> 0, missed |-> 0]
  /\ budget = [plain |-> setup.plain, duplicates |-> setup.duplicates,
               crashes |-> setup.crashes, faults |-> setup.faults]

InSlot == {i \in DOMAIN handlers : handlers[i].pc \in Live \ {"sleep"}}

Goto(i, pc) == handlers' = [handlers EXCEPT ![i].pc = pc]

----------------------------------------------------------------------------
(* The client. *)

Occurrence(id, n, at, left) == [id |-> id, n |-> n, at |-> at, left |-> left]

\* submit_recurring; max_runs = 0 stands for None.
SubmitRecurring ==
  /\ submitted = 0 /\ responder.pc \in AtRest
  /\ queue' = <<Encode(Occurrence(1, 1, now, setup.runs), "client", RootToken("client"))>>
  /\ submitted' = 1
  /\ UNCHANGED <<pairVars, trustVars, handlers, flag, held, cooldown, cancel, budget>>

\* submit_remote of the same function: a task that is no occurrence.
SubmitRemote ==
  /\ submitted \in 1..(MaxQueued - 1) /\ budget.plain > 0
  /\ budget' = [budget EXCEPT !.plain = @ - 1]
  /\ queue' = Append(queue, Encode(Occurrence(submitted + 1, 0, now, 0),
                                   "client", RootToken("client")))
  /\ submitted' = submitted + 1
  /\ UNCHANGED <<pairVars, trustVars, handlers, flag, held, cooldown, cancel>>

\* cancel() sets the flag, ...
CancelSchedule ==
  /\ setup.cancels /\ cancel.pc = "idle" /\ submitted > 0
  /\ flag' = TRUE
  /\ cancel' = [cancel EXCEPT !.pc = "poll"]
  /\ UNCHANGED <<pairVars, trustVars, queue, handlers, submitted, held, cooldown, budget>>

\* ... and reads it back until it is there; over RabbitMQ by taking it.
PollFlag ==
  /\ cancel.pc = "poll" /\ ~held
  /\ held' = (setup.backend = "rabbitmq")
  /\ cancel' = [cancel EXCEPT !.pc = IF held' THEN "put back" ELSE "done"]
  /\ UNCHANGED <<pairVars, trustVars, queue, handlers, submitted, flag, cooldown, budget>>

PutFlagBack ==
  /\ cancel.pc = "put back"
  /\ held' = FALSE
  /\ cancel' = [cancel EXCEPT !.pc = "done"]
  /\ UNCHANGED <<pairVars, trustVars, queue, handlers, submitted, flag, cooldown, budget>>

----------------------------------------------------------------------------
(* The worker. *)

\* A task is taken from the queue and verified; what is refused is answered
\* with a failure nobody reads.
Deliver ==
  /\ proc.up /\ queue # <<>>
  /\ LET e == Head(queue) IN
       /\ handlers' = Append(handlers,
            [env |-> e, verdict |-> Verdict(e), era |-> budget.crashes, next |-> None,
             pc |-> IF Verdict(e) = "accepted" THEN "sleep" ELSE "refused",
             start |-> None, cooled |-> None])
       /\ Verify(e)
  /\ queue' = Tail(queue)
  /\ UNCHANGED <<pairVars, setup, now, seed, admin, submitted, flag, held, cooldown,
                 cancel, budget>>

\* The sleep until scheduled_at is over and a slot is free.
Acquire(i) ==
  /\ handlers[i].pc = "sleep" /\ handlers[i].env.task.at <= now
  /\ Cardinality(InSlot) < setup.slots
  /\ Goto(i, "check")
  /\ UNCHANGED <<pairVars, trustVars, queue, submitted, flag, held, cooldown, cancel, budget>>

Throttled == setup.throttle > 0 /\ now < cooldown

\* check_throttle, then the start.
Check(i) ==
  /\ handlers[i].pc = "check"
  /\ IF Throttled
       THEN Goto(i, "throttled") /\ UNCHANGED cancel
       ELSE /\ handlers' = [handlers EXCEPT ![i].pc = "run", ![i].start = now]
            /\ cancel' = IF cancel.pc = "idle" THEN cancel
                         ELSE [cancel EXCEPT !.starts = @ + 1]
  /\ UNCHANGED <<pairVars, trustVars, queue, submitted, flag, held, cooldown, budget>>

\* is_streaming raises: the worker cannot rebuild the code or lacks a package.
\* A failure is sent and the handler returns, so no occurrence follows.
Unbuildable(i) ==
  /\ setup.unbuildable
  /\ handlers[i].pc = "check" /\ ~Throttled
  /\ Goto(i, "unbuildable")
  /\ UNCHANGED <<pairVars, trustVars, queue, submitted, flag, held, cooldown, cancel, budget>>

\* A variant: a task that failed is not submitted again.
FinishOrStop(i) ==
  /\ handlers[i].pc = "run"
  /\ \E ok \in IF setup.failing THEN BOOLEAN ELSE {TRUE} :
       Goto(i, IF ~ok THEN "done" ELSE IF setup.throttle > 0 THEN "record" ELSE "limits")
  /\ UNCHANGED <<pairVars, trustVars, queue, submitted, flag, held, cooldown, cancel, budget>>

\* The function returns or raises, and the envelope is sent.  What it raised
\* is not recorded as a cooldown.
Finish(i) ==
  /\ handlers[i].pc = "run"
  /\ \E ok \in IF setup.failing THEN BOOLEAN ELSE {TRUE} :
       Goto(i, IF ok /\ setup.throttle > 0 THEN "record" ELSE "limits")
  /\ UNCHANGED <<pairVars, trustVars, queue, submitted, flag, held, cooldown, cancel, budget>>

\* record_throttle: Redis takes whole seconds, one at least.
Cooldown(throttle) ==
  IF setup.backend # "redis" THEN throttle
  ELSE 2 * (IF throttle < 4 THEN 1 ELSE throttle \div 2)

\* A variant: the cooldown is counted from the start of the function.
RecordFromStart(i) ==
  /\ handlers[i].pc = "record"
  /\ cooldown' = handlers[i].start + Cooldown(setup.throttle)
  /\ handlers' = [handlers EXCEPT ![i].pc = "limits", ![i].cooled = now]
  /\ UNCHANGED <<pairVars, trustVars, queue, submitted, flag, held, cancel, budget>>

Record(i) ==
  /\ handlers[i].pc = "record"
  /\ cooldown' = now + Cooldown(setup.throttle)
  /\ handlers' = [handlers EXCEPT ![i].pc = "limits", ![i].cooled = now]
  /\ UNCHANGED <<pairVars, trustVars, queue, submitted, flag, held, cancel, budget>>

\* A variant: the last run is not counted.
ExhaustedLate(task) ==
  \/ now + setup.interval > RunFor
  \/ setup.runs > 0 /\ task.left < 1

\* Over RabbitMQ a reader takes the flag, and another does not see it then.
FlagSeen == flag /\ ~held

Exhausted(task) ==
  \/ now + setup.interval > RunFor
  \/ setup.runs > 0 /\ task.left <= 1

\* A variant: the flag is not looked at.
LimitsOnly(i) ==
  /\ handlers[i].pc = "limits"
  /\ LET n == handlers[i].env.task.n
         exhausted == n > 0 /\ Exhausted(handlers[i].env.task)
     IN  /\ flag' = (flag \/ exhausted)
         /\ handlers' = [handlers EXCEPT
              ![i].pc = IF n = 0 THEN "done" ELSE IF exhausted THEN "exhausted" ELSE "submit",
              ![i].next = now + setup.interval]
  /\ UNCHANGED <<pairVars, trustVars, queue, submitted, held, cooldown, cancel, budget>>

\* After the run of an occurrence: the limits, or else the flag.
Limits(i) ==
  /\ handlers[i].pc = "limits"
  /\ LET exhausted == Exhausted(handlers[i].env.task)
         end == IF handlers[i].env.task.n = 0 THEN "done"
                ELSE IF exhausted THEN "exhausted"
                ELSE IF ~FlagSeen THEN "submit"
                ELSE IF setup.backend = "rabbitmq" THEN "put back" ELSE "cancelled"
     IN  /\ flag' = (flag \/ end = "exhausted")
         /\ held' = (held \/ end = "put back")
         /\ handlers' = [handlers EXCEPT ![i].pc = end, ![i].next = now + setup.interval]
         /\ cancel' = IF flag /\ end = "submit" THEN [cancel EXCEPT !.missed = @ + 1]
                      ELSE cancel
  /\ UNCHANGED <<pairVars, trustVars, queue, submitted, cooldown, budget>>

Nack(i) ==
  /\ handlers[i].pc = "put back"
  /\ held' = FALSE
  /\ Goto(i, "cancelled")
  /\ UNCHANGED <<pairVars, trustVars, queue, submitted, flag, cooldown, cancel, budget>>

\* The next occurrence, signed with the worker's own identity.
Resubmit(i) ==
  /\ handlers[i].pc = "submit" /\ submitted < MaxQueued
  /\ LET t == handlers[i].env.task
         next == Occurrence(submitted + 1, t.n + 1, handlers[i].next, t.left - 1)
     IN  queue' = Append(queue, Encode(next, "worker", proc.root))
  /\ submitted' = submitted + 1
  /\ Goto(i, "next")
  /\ UNCHANGED <<pairVars, trustVars, flag, held, cooldown, cancel, budget>>

\* A call of the backend raises: no occurrence follows, and nobody is told.
Fault(i) ==
  /\ handlers[i].pc \in {"check", "run", "record", "limits", "submit"}
  /\ budget.faults > 0
  /\ budget' = [budget EXCEPT !.faults = @ - 1]
  /\ Goto(i, "fault")
  /\ UNCHANGED <<pairVars, trustVars, queue, submitted, flag, held, cooldown, cancel>>

Handle(i) == \/ Acquire(i) \/ Check(i) \/ Unbuildable(i) \/ Finish(i) \/ Record(i)
             \/ Limits(i) \/ Nack(i) \/ Resubmit(i)

----------------------------------------------------------------------------
(* What happens around them. *)

\* The worker dies with its handlers, asleep or not; what it held of the
\* broker goes back.
Crash ==
  /\ proc.up /\ budget.crashes > 0
  /\ budget' = [budget EXCEPT !.crashes = @ - 1]
  /\ proc' = StopProcess
  /\ held' = (cancel.pc = "put back")
  /\ handlers' = [i \in DOMAIN handlers |->
       IF handlers[i].pc \in Live THEN [handlers[i] EXCEPT !.pc = "lost"] ELSE handlers[i]]
  /\ UNCHANGED <<pairVars, setup, now, seed, file, admin, queue, submitted, flag,
                 cooldown, cancel>>

Serve == StartWorker /\ UNCHANGED <<pairVars, schedVars>>

\* An envelope is in the queue once more: a submission that was sent again
\* after a dropped connection, a task put back after a failed write.
Duplicate ==
  /\ budget.duplicates > 0
  /\ budget' = [budget EXCEPT !.duplicates = @ - 1]
  /\ \E e \in {queue[i] : i \in DOMAIN queue} \cup {handlers[i].env : i \in DOMAIN handlers} :
       queue' = Append(queue, e)
  /\ UNCHANGED <<pairVars, trustVars, handlers, submitted, flag, held, cooldown, cancel>>

Beside == (ReplaceIdentity \/ AdminNext) /\ UNCHANGED <<pairVars, schedVars>>

Tick ==
  /\ now < RunFor /\ submitted > 0
  /\ now' = now + 1
  /\ UNCHANGED <<pairVars, setup, seed, proc, file, admin, schedVars>>

\* The client and the worker are paired before they are used.
PairFirst ==
  /\ setup.pairing /\ submitted = 0 /\ ~proc.up
  /\ PairNext
  /\ UNCHANGED <<trustVars, schedVars>>

Next ==
  \/ SubmitRecurring \/ SubmitRemote \/ CancelSchedule \/ PollFlag \/ PutFlagBack
  \/ Deliver \/ Serve \/ Crash \/ Duplicate \/ Beside \/ Tick \/ PairFirst
  \/ \E i \in DOMAIN handlers : Handle(i) \/ Fault(i)

Spec == Init /\ [][Next]_vars

\* The worker is started again after a crash, its handlers and its listener
\* are scheduled, the clock goes on; cancel() polls.  Nobody has to cancel.
FairSpec ==
  /\ Spec
  /\ WF_vars(Deliver) /\ WF_vars(Serve) /\ WF_vars(Tick) /\ WF_vars(PutFlagBack)
  /\ \A i \in 1..(2 * MaxQueued) : WF_vars(i \in DOMAIN handlers /\ Handle(i))

----------------------------------------------------------------------------
(* Properties. *)

Started == {i \in DOMAIN handlers : handlers[i].start # None}

\* What keeps a second copy of an envelope from being executed.
Unforked == \/ setup.duplicates = 0
            \/ setup.signing /\ setup.crashes = 0 /\ setup.capacity >= MaxQueued

\* The occurrences form one chain: a task is executed once, and so is each
\* number of the schedule, and no more of them than max_runs, when no envelope
\* comes twice or when they are signed and the nonces are kept (remote.py, the
\* end of _execute_task).
OneChain ==
  Unforked =>
    /\ \A i, j \in Started :
         \/ handlers[i].env.task.id = handlers[j].env.task.id
         \/ handlers[i].env.task.n = handlers[j].env.task.n /\ handlers[i].env.task.n > 0
         => i = j
    /\ setup.runs > 0 =>
         Cardinality({i \in Started : handlers[i].env.task.n > 0}) <= setup.runs

\* schedule.py: `The worker stops re-enqueuing new occurrences after the
\* current one completes.'  After the flag is set one more occurrence starts:
\* the one that waits, or the one whose handler had looked already; and over
\* RabbitMQ one for each look while cancel() has the flag in its hands.
StopsAfterCancel ==
  /\ Unforked /\ setup.plain = 0 => cancel.starts <= 1 + cancel.missed
  /\ cancel.missed > 0 => setup.backend = "rabbitmq"

Recorded == {i \in DOMAIN handlers :
  handlers[i].verdict \notin {"unsigned", "revoked", "stale", "replay"}}

Accepted == {i \in DOMAIN handlers : handlers[i].verdict = "accepted"}

\* One life of a signing worker accepts an envelope once, for as long as the
\* envelope is fresh by the client's clock, unless as many others as the
\* cache holds were recorded in between (NonceLRU, verify_task_envelope).
AcceptedOnce ==
  \A i, j \in Accepted :
    /\ i < j /\ setup.signing
    /\ handlers[i].era = handlers[j].era
    /\ Nonce(handlers[i].env) = Nonce(handlers[j].env)
    => Cardinality({k \in Recorded : i < k /\ k < j}) >= setup.capacity

\* All that is accepted of one client_id was signed with one key, over the
\* restarts of the worker and the commands of the administrator, who has one
\* client to look after (KnownClients).
OnePin ==
  \A i, j \in Accepted :
    /\ setup.signing
    /\ handlers[i].env.client = handlers[j].env.client
    => handlers[i].env.pubkey = handlers[j].env.pubkey

\* With one slot a function does not start within the throttle of its last
\* recorded success, less the part of a second Redis cuts off (remote.py
\* 680-698 and 819-821: the cooldown is recorded inside the slot).
CooldownKept ==
  [][setup.slots = 1 =>
       \A i, j \in DOMAIN handlers :
         /\ handlers[i].cooled # None
         /\ handlers[j].start = None /\ handlers'[j].start # None
         => now >= handlers[i].cooled + setup.throttle
                    - (IF setup.backend = "redis" THEN 1 ELSE 0)]_vars

\* A schedule never just stops: it comes to its limits or its cancellation,
\* or one of its occurrences was refused, throttled, not rebuilt from its code,
\* lost with the worker or hit by a fault of the backend.  A function that
\* raises does not stop it (remote.py, _execute_task from is_streaming on).
ScheduleGoesOn ==
  submitted > 0 /\ proc.up
    ~> flag \/ \E i \in DOMAIN handlers :
                 handlers[i].pc \in {"refused", "throttled", "unbuildable", "lost", "fault"}
=============================================================================
