---------------------------- MODULE ScheduleProofs ----------------------------
(***************************************************************************)
(* Proofs about recurring schedules, for any scenarios and any bounds: the *)
(* nonce cache accepts an envelope once, the occurrences form one chain    *)
(* that the limits and cancel() end, and the cooldown is kept.             *)
(***************************************************************************)
EXTENDS TrustProofs, FiniteSetTheorems, SequenceTheorems

-----------------------------------------------------------------------------
(* The invariant.                                                          *)

\* What is left of a budget never grows; a handler was delivered in the
\* current life of the worker or in one before.
BudgetInv ==
  /\ budget.plain \in 0..setup.plain
  /\ budget.duplicates \in 0..setup.duplicates
  /\ budget.crashes \in 0..setup.crashes
  /\ \A i \in DOMAIN handlers :
       /\ handlers[i].era \in budget.crashes..setup.crashes
       /\ ~proc.up => handlers[i].era # budget.crashes

\* What is refused is never more than that, and only a success is recorded.
StageInv ==
  \A i \in DOMAIN handlers :
    /\ handlers[i].verdict # "accepted" =>
         handlers[i].pc = "refused" /\ handlers[i].start = None
    /\ handlers[i].pc = "record" => setup.throttle > 0

\* No cooldown that was recorded ends after the one that stands.
CooldownInv ==
  /\ cooldown \in Int
  /\ \A i \in DOMAIN handlers :
       handlers[i].cooled # None =>
         /\ setup.throttle > 0 /\ handlers[i].cooled <= now
         /\ handlers[i].cooled + Cooldown(setup.throttle) <= cooldown

Sent == {queue[k] : k \in DOMAIN queue} \cup {handlers[i].env : i \in DOMAIN handlers}

\* The identifier of a task is of one envelope, however often that is sent.
IdentityInv ==
  /\ submitted \in 0..MaxQueued
  /\ \A e \in Sent : e.task.id \in 1..submitted /\ e.task.n \in Nat
  /\ \A e, f \in Sent : e.task.id = f.task.id => e = f

\* Where nothing is duplicated an envelope is in one place.
PlaceInv ==
  setup.duplicates = 0 =>
    /\ \A k, l \in DOMAIN queue : queue[k].task.id = queue[l].task.id => k = l
    /\ \A i, j \in DOMAIN handlers : handlers[i].env.task.id = handlers[j].env.task.id => i = j
    /\ \A k \in DOMAIN queue, i \in DOMAIN handlers :
         queue[k].task.id # handlers[i].env.task.id

Entries == [key : (Roles \cup {None}) \X Int, ts : Int]

\* A cache holds nonces that came in, each once, in the order of their times.
InOrderOnce(nonces) ==
  /\ nonces \in Seq(Entries)
  /\ \A p \in DOMAIN nonces :
       /\ nonces[p].ts <= now
       /\ \E e \in Sent : nonces[p].key = Nonce(e)
  /\ \A p, q \in DOMAIN nonces :
       /\ p < q => nonces[p].ts <= nonces[q].ts
       /\ nonces[p].key = nonces[q].key => p = q

CacheInv == InOrderOnce(proc.nonces)

After(i) == {k \in Recorded : i < k}

\* The nonce of handler i is in the cache and holds until its envelope is
\* stale, with no more entries behind it than were recorded since.
KeptIn(nonces, i) ==
  \E p \in DOMAIN nonces :
    /\ nonces[p].key = Nonce(handlers[i].env)
    /\ handlers[i].env.iat - Skew <= nonces[p].ts
    /\ Len(nonces) - p <= Cardinality(After(i))

\* The cache has lost it to that many others as it has room for; it has room
\* for all there are if its capacity is MaxQueued.
PushedOut(i) ==
  setup.capacity < MaxQueued /\ Cardinality(After(i)) >= setup.capacity

\* What this life of a signing worker accepted is kept while it is fresh.
FreshKept ==
  setup.signing /\ proc.up =>
    \A i \in Accepted :
      handlers[i].era = budget.crashes /\ now - handlers[i].env.iat <= Skew
        => KeptIn(proc.nonces, i) \/ PushedOut(i)

\* Where the chain cannot fork, a task is accepted once.
TaskOnce ==
  Unforked => \A i, j \in Accepted :
    handlers[i].env.task.id = handlers[j].env.task.id => i = j

\* The occurrence of e was carried on by the next one.
Passed(e) == \E i \in Accepted : handlers[i].env = e /\ handlers[i].pc = "next"

\* Every number is that of one task, and the ones that were not carried on
\* are the last.
ChainInv ==
  Unforked =>
    /\ \A e, f \in Sent : e.task.n = f.task.n /\ e.task.n > 0 => e = f
    /\ \A e, f \in Sent : e.task.n > 0 /\ ~Passed(e) => f.task.n <= e.task.n

\* The occurrences that are left are counted down, and an occurrence is
\* followed by another only if one is left.
CountInv ==
  /\ \A e \in Sent :
       e.task.n > 0 /\ setup.runs > 0 =>
         e.task.n <= setup.runs /\ e.task.left = setup.runs + 1 - e.task.n
  /\ \A i \in DOMAIN handlers :
       handlers[i].pc = "submit" =>
         handlers[i].env.task.n > 0 /\ (setup.runs > 0 => handlers[i].env.task.left > 1)

\* An occurrence is still to start without another look at the flag.
Pending ==
  \E e \in Sent : \A i \in Accepted :
    handlers[i].env = e => handlers[i].pc \in {"sleep", "check", "submit"}

\* The flag is set by cancel() and stays.
FlagInv ==
  /\ cancel \in [pc : {"idle", "poll", "put back", "done"}, starts : Nat, missed : Nat]
  /\ flag \in BOOLEAN /\ held \in BOOLEAN
  /\ cancel.pc = "idle" => cancel.starts = 0
  /\ cancel.pc # "idle" => flag /\ submitted > 0

\* Only over RabbitMQ a reader holds the flag and an occurrence misses it.
HeldInv ==
  \/ held
  \/ cancel.pc = "put back" \/ cancel.missed > 0
  \/ \E i \in DOMAIN handlers : handlers[i].pc = "put back"
  => setup.backend = "rabbitmq"

\* An occurrence that starts after the flag was set uses up the one that was
\* pending, or one that missed the flag.
StopInv ==
  Unforked /\ setup.plain = 0 =>
    /\ \A e \in Sent : e.task.n > 0
    /\ cancel.starts <= 1 + cancel.missed
    /\ cancel.pc # "idle" /\ Pending => cancel.starts <= cancel.missed

ScheduleInv ==
  /\ BudgetInv /\ StageInv /\ CooldownInv
  /\ IdentityInv /\ PlaceInv
  /\ CacheInv /\ FreshKept /\ AcceptedOnce /\ TaskOnce
  /\ ChainInv /\ CountInv
  /\ FlagInv /\ HeldInv /\ StopInv

-----------------------------------------------------------------------------
(* What a step does to the handlers.                                       *)

\* The scenario and the bounds are the numbers they should be.
LEMMA Settings ==
  ASSUME TrustInv
  PROVE  /\ {setup.capacity, setup.throttle, setup.runs, setup.plain, setup.duplicates,
             setup.crashes, setup.faults} \subseteq Nat
         /\ {setup.offset, setup.interval} \subseteq Int /\ now \in Int
         /\ Skew \in Nat /\ NonceTtl \in Nat /\ 2 * Skew <= NonceTtl
         /\ MaxQueued \in Nat /\ MaxQueued > 0
BY ScheduleAssumption, EnvelopeAssumption DEF TrustInv, TrustTypes

\* The scenario is for good, and the clock goes forward.
LEMMA ClockStep ==
  ASSUME TrustInv, [Next]_vars
  PROVE  setup' = setup /\ now' \in Int /\ now <= now'
<1>1. now \in Int
  BY Settings
<1> USE DEF trustVars
<1>2. CASE UNCHANGED vars BY <1>1, <1>2 DEF vars
<1>3. ASSUME NEW i \in DOMAIN handlers, Handle(i) \/ Fault(i) PROVE UNCHANGED trustVars
  BY <1>3 DEF Handle, Acquire, Check, Unbuildable, Finish, Record, Limits, Nack, Resubmit, Fault
<1>4. CASE \/ SubmitRecurring \/ SubmitRemote \/ CancelSchedule \/ PollFlag \/ PutFlagBack
           \/ Deliver \/ Crash \/ Duplicate \/ PairFirst
  <2>1. SubmitRecurring \/ SubmitRemote => UNCHANGED <<setup, now>>
    BY DEF SubmitRecurring, SubmitRemote
  <2>2. CancelSchedule \/ PollFlag \/ PutFlagBack => UNCHANGED <<setup, now>>
    BY DEF CancelSchedule, PollFlag, PutFlagBack
  <2>3. Deliver => UNCHANGED <<setup, now>>
    BY DEF Deliver
  <2>4. Crash => UNCHANGED <<setup, now>>
    BY DEF Crash
  <2>5. Duplicate \/ PairFirst => UNCHANGED <<setup, now>>
    BY DEF Duplicate, PairFirst
  <2> QED BY <1>1, <1>4, <2>1, <2>2, <2>3, <2>4, <2>5
<1>6. CASE Serve \/ Beside
  BY <1>1, <1>6 DEF Serve, StartWorker, Beside, ReplaceIdentity, AdminNext, AdminLoad, AdminSave
<1>5. CASE Tick BY <1>1, <1>5 DEF Tick
<1> QED BY <1>1, <1>2, <1>3, <1>4, <1>5, <1>6 DEF Next

\* The handlers are the same, and what they were delivered.
SameTasks ==
  /\ DOMAIN handlers' = DOMAIN handlers
  /\ \A i \in DOMAIN handlers : /\ handlers'[i].env = handlers[i].env
                                /\ handlers'[i].verdict = handlers[i].verdict
                                /\ handlers'[i].era = handlers[i].era

\* One handler moves to another point, and all it keeps stays but these three.
MovedTo(i, pc, start, cooled) ==
  /\ SameTasks
  /\ \A j \in DOMAIN handlers : j # i => handlers'[j] = handlers[j]
  /\ handlers'[i].pc = pc /\ handlers'[i].start = start /\ handlers'[i].cooled = cooled

\* The fields of a handler and of its envelope.
LEMMA HandlersTyped ==
  ASSUME TrustInv
  PROVE  /\ Len(handlers) \in Nat /\ DOMAIN handlers = 1..Len(handlers)
         /\ \A i \in DOMAIN handlers :
              /\ handlers[i] \in Handlers
              /\ handlers[i].env \in SignedEnvelopes /\ handlers[i].env.task \in Tasks
              /\ handlers[i].env.iat \in Int
              /\ {handlers[i].era, handlers[i].env.task.id, handlers[i].env.task.n,
                  handlers[i].env.task.left} \subseteq Int
              /\ {handlers[i].start, handlers[i].cooled} \subseteq Time
<1>1. Len(handlers) \in Nat /\ DOMAIN handlers = 1..Len(handlers)
      /\ \A i \in DOMAIN handlers : handlers[i] \in Handlers
  BY DEF TrustInv, TrustTypes
<1>2. ASSUME NEW h \in Handlers
      PROVE  /\ h.env \in SignedEnvelopes /\ h.era \in Int
             /\ h.start \in Time /\ h.cooled \in Time
  BY DEF Handlers
<1>3. ASSUME NEW e \in SignedEnvelopes PROVE e.task \in Tasks /\ e.iat \in Int
  BY DEF SignedEnvelopes
<1>4. ASSUME NEW t \in Tasks PROVE {t.id, t.n, t.left} \subseteq Int
  BY DEF Tasks
<1> QED BY <1>1, <1>2, <1>3, <1>4

\* Another record in the place of a handler, of the same delivery, is a move of it.
LEMMA Replaced ==
  ASSUME TrustInv, NEW i \in DOMAIN handlers, NEW g,
         handlers' = [handlers EXCEPT ![i] = g],
         g.env = handlers[i].env, g.verdict = handlers[i].verdict, g.era = handlers[i].era
  PROVE  MovedTo(i, g.pc, g.start, g.cooled)
<1>1. /\ DOMAIN handlers' = DOMAIN handlers /\ handlers'[i] = g
      /\ \A j \in DOMAIN handlers : j # i => handlers'[j] = handlers[j]
  OBVIOUS
<1> QED BY <1>1 DEF MovedTo, SameTasks

\* Going to another point of the coroutine leaves the notes of a handler alone.
LEMMA WentTo ==
  ASSUME TrustInv, NEW i \in DOMAIN handlers, NEW pc, Goto(i, pc)
  PROVE  MovedTo(i, pc, handlers[i].start, handlers[i].cooled)
<1> DEFINE g == [handlers[i] EXCEPT !.pc = pc]
<1>1. handlers[i] \in Handlers
  BY HandlersTyped
<1>2. /\ g.env = handlers[i].env /\ g.verdict = handlers[i].verdict /\ g.era = handlers[i].era
      /\ g.pc = pc /\ g.start = handlers[i].start /\ g.cooled = handlers[i].cooled
  BY <1>1 DEF Handlers
<1>3. handlers' = [handlers EXCEPT ![i] = g]
  BY DEF Goto
<1> HIDE DEF g
<1> QED BY <1>2, <1>3, Replaced

\* The points a handler goes through, and what it notes on its way.
LEMMA HandlerPath ==
  ASSUME TrustInv, NEW i \in DOMAIN handlers
  PROVE  LET h == handlers[i]
             to(pc) == MovedTo(i, pc, h.start, h.cooled)
         IN  /\ Acquire(i) => h.pc = "sleep" /\ to("check")
             /\ Check(i) => h.pc = "check" /\ (to("throttled") \/ MovedTo(i, "run", now, h.cooled))
             /\ Unbuildable(i) => h.pc = "check" /\ to("unbuildable")
             /\ Finish(i) => h.pc = "run" /\ (to("limits") \/ (to("record") /\ setup.throttle > 0))
             /\ Record(i) => h.pc = "record" /\ MovedTo(i, "limits", h.start, now)
             /\ Limits(i) => h.pc = "limits"
                  /\ \E pc \in {"done", "exhausted", "submit", "put back", "cancelled"} : to(pc)
             /\ Nack(i) => h.pc = "put back" /\ to("cancelled")
             /\ Resubmit(i) => h.pc = "submit" /\ to("next")
             /\ Fault(i) => h.pc \in {"check", "run", "record", "limits", "submit"} /\ to("fault")
<1> DEFINE h == handlers[i]
           to(pc) == MovedTo(i, pc, h.start, h.cooled)
<1>1. h \in Handlers
  BY HandlersTyped
<1>2. ASSUME NEW pc, Goto(i, pc) PROVE to(pc)
  BY <1>2, WentTo
<1> HIDE DEF to
<1>3. Acquire(i) => h.pc = "sleep" /\ to("check")
  BY <1>2 DEF Acquire
<1>4. Check(i) => h.pc = "check" /\ (to("throttled") \/ MovedTo(i, "run", now, h.cooled))
  <2> SUFFICES ASSUME Check(i) PROVE to("throttled") \/ MovedTo(i, "run", now, h.cooled)
    BY DEF Check
  <2> DEFINE g == [handlers[i] EXCEPT !.pc = "run", !.start = now]
  <2>1. Goto(i, "throttled") \/ handlers' = [handlers EXCEPT ![i] = g]
    BY DEF Check
  <2>2. /\ g.env = h.env /\ g.verdict = h.verdict /\ g.era = h.era
        /\ g.pc = "run" /\ g.start = now /\ g.cooled = h.cooled
    BY <1>1 DEF Handlers
  <2> HIDE DEF g
  <2> QED BY <1>2, <2>1, <2>2, Replaced
<1>5. Finish(i) => h.pc = "run" /\ (to("limits") \/ (to("record") /\ setup.throttle > 0))
  BY <1>2 DEF Finish
<1>6. Record(i) => h.pc = "record" /\ MovedTo(i, "limits", h.start, now)
  <2> SUFFICES ASSUME Record(i) PROVE MovedTo(i, "limits", h.start, now)
    BY DEF Record
  <2> DEFINE g == [handlers[i] EXCEPT !.pc = "limits", !.cooled = now]
  <2>1. handlers' = [handlers EXCEPT ![i] = g]
    BY DEF Record
  <2>2. /\ g.env = h.env /\ g.verdict = h.verdict /\ g.era = h.era
        /\ g.pc = "limits" /\ g.start = h.start /\ g.cooled = now
    BY <1>1 DEF Handlers
  <2> HIDE DEF g
  <2> QED BY <2>1, <2>2, Replaced
<1>7. ASSUME Limits(i)
      PROVE  \E pc \in {"done", "exhausted", "submit", "put back", "cancelled"} : to(pc)
  <2>1. PICK pc \in {"done", "exhausted", "submit", "put back", "cancelled"} :
          handlers' = [handlers EXCEPT ![i].pc = pc, ![i].next = now + setup.interval]
    BY <1>7 DEF Limits
  <2> DEFINE g == [handlers[i] EXCEPT !.pc = pc, !.next = now + setup.interval]
  <2>2. handlers' = [handlers EXCEPT ![i] = g]
    BY <2>1
  <2>3. /\ g.env = h.env /\ g.verdict = h.verdict /\ g.era = h.era
        /\ g.pc = pc /\ g.start = h.start /\ g.cooled = h.cooled
    BY <1>1 DEF Handlers
  <2> HIDE DEF g
  <2>4. MovedTo(i, pc, h.start, h.cooled)
    BY <2>2, <2>3, Replaced
  <2> QED BY <2>4 DEF to
<1>8. Nack(i) => h.pc = "put back" /\ to("cancelled")
  BY <1>2 DEF Nack
<1>9. Resubmit(i) => h.pc = "submit" /\ to("next")
  BY <1>2 DEF Resubmit
<1>12. Unbuildable(i) => h.pc = "check" /\ to("unbuildable")
  BY <1>2 DEF Unbuildable
<1>10. Fault(i) => h.pc \in {"check", "run", "record", "limits", "submit"} /\ to("fault")
  BY <1>2 DEF Fault
<1>11. Limits(i) => h.pc = "limits"
  BY DEF Limits
<1> QED BY <1>3, <1>4, <1>5, <1>6, <1>7, <1>8, <1>9, <1>10, <1>11, <1>12 DEF to

\* The steps that leave the handlers alone.
Beyond == \/ SubmitRecurring \/ SubmitRemote \/ CancelSchedule \/ PollFlag \/ PutFlagBack
          \/ Serve \/ Duplicate \/ Beside \/ Tick \/ PairFirst \/ UNCHANGED vars

\* The rest of the system leaves the handlers alone.
LEMMA BeyondHandlers == Beyond => handlers' = handlers
<1>1. SubmitRecurring \/ SubmitRemote => handlers' = handlers
  BY DEF SubmitRecurring, SubmitRemote
<1>2. CancelSchedule \/ PollFlag \/ PutFlagBack => handlers' = handlers
  BY DEF CancelSchedule, PollFlag, PutFlagBack
<1>3. Serve \/ Beside \/ PairFirst \/ UNCHANGED vars => handlers' = handlers
  BY DEF Serve, Beside, PairFirst, schedVars, vars
<1>4. Tick => handlers' = handlers
  BY DEF Tick, schedVars
<1>5. Duplicate => handlers' = handlers
  BY DEF Duplicate
<1> QED BY <1>1, <1>2, <1>3, <1>4, <1>5 DEF Beyond

\* Where a step is not beyond the handlers, it is one of these.
LEMMA StepKinds ==
  ASSUME [Next]_vars
  PROVE  Beyond \/ Deliver \/ Crash \/ \E i \in DOMAIN handlers : Handle(i) \/ Fault(i)
BY DEF Next, Beyond

\* The end of those a crash meets.
Dropped ==
  /\ SameTasks
  /\ \A i \in DOMAIN handlers :
       /\ handlers'[i].pc = IF handlers[i].pc \in Live THEN "lost" ELSE handlers[i].pc
       /\ handlers'[i].start = handlers[i].start
       /\ handlers'[i].cooled = handlers[i].cooled

\* A crash ends what is under way and changes no note.
LEMMA CrashDrops ==
  ASSUME TrustInv, Crash
  PROVE  Dropped
<1>1. DOMAIN handlers' = DOMAIN handlers /\ \A i \in DOMAIN handlers :
        handlers'[i] = IF handlers[i].pc \in Live THEN [handlers[i] EXCEPT !.pc = "lost"]
                       ELSE handlers[i]
  BY DEF Crash
<1>2. ASSUME NEW h \in Handlers
      PROVE  LET g == [h EXCEPT !.pc = "lost"]
             IN  /\ g.env = h.env /\ g.verdict = h.verdict /\ g.era = h.era
                 /\ g.pc = "lost" /\ g.start = h.start /\ g.cooled = h.cooled
  BY DEF Handlers
<1> SUFFICES ASSUME NEW i \in DOMAIN handlers
      PROVE  /\ handlers'[i].env = handlers[i].env /\ handlers'[i].era = handlers[i].era
             /\ handlers'[i].verdict = handlers[i].verdict
             /\ handlers'[i].pc = IF handlers[i].pc \in Live THEN "lost" ELSE handlers[i].pc
             /\ handlers'[i].start = handlers[i].start
             /\ handlers'[i].cooled = handlers[i].cooled
  BY <1>1 DEF Dropped, SameTasks
<1>3. handlers[i] \in Handlers
  BY HandlersTyped
<1> QED BY <1>1, <1>2, <1>3

\* The newest handler.
Arrived ==
  LET n == Len(handlers) + 1
      e == Head(queue)
  IN  /\ n \notin DOMAIN handlers /\ DOMAIN handlers' = DOMAIN handlers \cup {n}
      /\ \A i \in DOMAIN handlers : i < n /\ handlers'[i] = handlers[i]
      /\ handlers'[n].env = e /\ handlers'[n].verdict = Verdict(e)
      /\ handlers'[n].era = budget.crashes
      /\ handlers'[n].pc = IF Verdict(e) = "accepted" THEN "sleep" ELSE "refused"
      /\ handlers'[n].start = None /\ handlers'[n].cooled = None

\* A delivery adds a handler at the end, which has not started.
LEMMA DeliverArrives ==
  ASSUME TrustInv, Deliver
  PROVE  Arrived
<1> DEFINE h == [env |-> Head(queue), verdict |-> Verdict(Head(queue)),
                 era |-> budget.crashes, next |-> None,
                 pc |-> IF Verdict(Head(queue)) = "accepted" THEN "sleep" ELSE "refused",
                 start |-> None, cooled |-> None]
<1>1. handlers' = Append(handlers, h)
  BY DEF Deliver
<1>2. /\ h.env = Head(queue) /\ h.verdict = Verdict(Head(queue)) /\ h.era = budget.crashes
      /\ h.pc = IF Verdict(Head(queue)) = "accepted" THEN "sleep" ELSE "refused"
      /\ h.start = None /\ h.cooled = None
  OBVIOUS
<1>3. handlers \in Seq(Handlers)
  BY DEF TrustInv, TrustTypes
<1> HIDE DEF h
<1> QED BY <1>1, <1>2, <1>3 DEF Arrived

\* Every other step leaves what was delivered as it is.
LEMMA TasksStay ==
  ASSUME TrustInv, [Next]_vars, ~Deliver
  PROVE  SameTasks
<1>1. ASSUME NEW i \in DOMAIN handlers, Handle(i) \/ Fault(i) PROVE SameTasks
  BY <1>1, HandlerPath DEF Handle, MovedTo
<1> QED BY <1>1, StepKinds, BeyondHandlers, CrashDrops DEF SameTasks, Dropped

\* What a handler notes in a step, and when.
LEMMA HandlerNotes ==
  ASSUME TrustInv, [Next]_vars, NEW i \in DOMAIN handlers
  PROVE  /\ i \in DOMAIN handlers'
         /\ handlers'[i].env = handlers[i].env
         /\ handlers'[i].verdict = handlers[i].verdict
         /\ handlers'[i].era = handlers[i].era
         /\ handlers'[i].start = handlers[i].start \/ Check(i)
         /\ handlers'[i].cooled = handlers[i].cooled \/ (Record(i) /\ handlers'[i].cooled = now)
<1>1. CASE Beyond
  BY <1>1, BeyondHandlers
<1>2. CASE Deliver
  BY <1>2, DeliverArrives DEF Arrived
<1>3. CASE Crash
  BY <1>3, CrashDrops DEF Dropped, SameTasks
<1>4. ASSUME NEW j \in DOMAIN handlers, Handle(j) \/ Fault(j)
      PROVE  /\ i \in DOMAIN handlers'
             /\ handlers'[i].env = handlers[i].env
             /\ handlers'[i].verdict = handlers[i].verdict
             /\ handlers'[i].era = handlers[i].era
             /\ handlers'[i].start = handlers[i].start \/ Check(i)
             /\ handlers'[i].cooled = handlers[i].cooled \/ (Record(i) /\ handlers'[i].cooled = now)
  BY <1>4, HandlerPath DEF Handle, MovedTo, SameTasks
<1> QED BY <1>1, <1>2, <1>3, <1>4, StepKinds

-----------------------------------------------------------------------------
(* The cooldown.                                                           *)

\* Only record_throttle sets the cooldown.
LEMMA CooldownStays ==
  ASSUME [Next]_vars
  PROVE  cooldown' = cooldown \/ \E i \in DOMAIN handlers : Record(i)
<1>1. Beyond => cooldown' = cooldown
  <2>1. SubmitRecurring \/ SubmitRemote => cooldown' = cooldown
    BY DEF SubmitRecurring, SubmitRemote
  <2>2. CancelSchedule \/ PollFlag \/ PutFlagBack => cooldown' = cooldown
    BY DEF CancelSchedule, PollFlag, PutFlagBack
  <2>3. Serve \/ Beside \/ PairFirst \/ Tick \/ UNCHANGED vars => cooldown' = cooldown
    BY DEF Serve, Beside, PairFirst, Tick, schedVars, vars
  <2>4. Duplicate => cooldown' = cooldown
    BY DEF Duplicate
  <2> QED BY <2>1, <2>2, <2>3, <2>4 DEF Beyond
<1>2. Deliver => cooldown' = cooldown
  BY DEF Deliver
<1>3. Crash => cooldown' = cooldown
  BY DEF Crash
<1>4. ASSUME NEW i \in DOMAIN handlers, Handle(i) \/ Fault(i), ~Record(i)
      PROVE  cooldown' = cooldown
  <2>1. Acquire(i) \/ Finish(i) => cooldown' = cooldown
    BY DEF Acquire, Finish
  <2>2. Check(i) => cooldown' = cooldown
    BY DEF Check
  <2>3. Limits(i) => cooldown' = cooldown
    BY DEF Limits
  <2>4. Nack(i) \/ Resubmit(i) \/ Unbuildable(i) \/ Fault(i) => cooldown' = cooldown
    BY DEF Nack, Resubmit, Unbuildable, Fault
  <2> QED BY <1>4, <2>1, <2>2, <2>3, <2>4 DEF Handle
<1> QED BY <1>1, <1>2, <1>3, <1>4, StepKinds

\* A refused handler ends at once; only a throttled function is recorded.
LEMMA StageStep == TrustInv /\ StageInv /\ [Next]_vars => StageInv'
<1> SUFFICES ASSUME TrustInv, StageInv, [Next]_vars, NEW i \in DOMAIN handlers'
             PROVE  /\ handlers'[i].verdict # "accepted" =>
                         handlers'[i].pc = "refused" /\ handlers'[i].start = None
                    /\ handlers'[i].pc = "record" => setup.throttle > 0
  BY ClockStep DEF StageInv
<1>1. CASE Beyond
  BY <1>1, BeyondHandlers DEF StageInv
<1>2. CASE Deliver
  BY <1>2, DeliverArrives DEF StageInv, Arrived
<1>3. CASE Crash
  BY <1>3, CrashDrops DEF StageInv, Dropped, SameTasks, Live
<1>4. ASSUME NEW j \in DOMAIN handlers, Handle(j) \/ Fault(j)
      PROVE  /\ handlers'[i].verdict # "accepted" =>
                  handlers'[i].pc = "refused" /\ handlers'[i].start = None
             /\ handlers'[i].pc = "record" => setup.throttle > 0
  <2>1. i \in DOMAIN handlers /\ (i # j => handlers'[i] = handlers[i])
        /\ handlers'[i].verdict = handlers[i].verdict
    BY <1>4, HandlerPath DEF Handle, MovedTo, SameTasks
  <2>2. CASE i # j
    BY <2>1, <2>2 DEF StageInv
  <2>3. CASE i = j
    <3>1. handlers[j].pc # "refused"
      BY <1>4, HandlerPath DEF Handle
    <3>2. handlers[j].verdict = "accepted"
      BY <3>1 DEF StageInv
    <3>3. handlers'[j].pc = "record" => setup.throttle > 0
      BY <1>4, HandlerPath DEF Handle, MovedTo
    <3> QED BY <2>1, <2>3, <3>2, <3>3
  <2> QED BY <2>2, <2>3
<1> QED BY <1>1, <1>2, <1>3, <1>4, StepKinds

\* Redis cuts off part of a second at most.
LEMMA CooldownLength ==
  ASSUME TrustInv, setup.throttle > 0
  PROVE  /\ Cooldown(setup.throttle) \in Int
         /\ Cooldown(setup.throttle)
              >= setup.throttle - (IF setup.backend = "redis" THEN 1 ELSE 0)
<1>1. \A t \in Nat : t \div 2 \in Int /\ 2 * (t \div 2) >= t - 1
  BY Z3
<1>2. setup.throttle \in Nat
  BY Settings
<1> QED BY <1>1, <1>2 DEF Cooldown

\* The cooldown set last ends last, since every one is as long and time goes on.
LEMMA CooldownStep == TrustInv /\ StageInv /\ CooldownInv /\ [Next]_vars => CooldownInv'
<1> SUFFICES ASSUME TrustInv, StageInv, CooldownInv, [Next]_vars
             PROVE  CooldownInv'
  OBVIOUS
<1>1. setup' = setup /\ now' \in Int /\ now <= now' /\ now \in Int
  BY ClockStep, Settings
<1>2. Cooldown(setup.throttle)' = Cooldown(setup.throttle)
  BY <1>1 DEF Cooldown
<1>3. \A i \in DOMAIN handlers : handlers[i].cooled # None => handlers[i].cooled \in Int
  BY HandlersTyped DEF Time
<1>4. PICK C \in Int : C = Cooldown(setup.throttle) \/ ~(setup.throttle > 0)
  BY CooldownLength
<1>5. CASE \A j \in DOMAIN handlers : ~Record(j)
  <2> SUFFICES ASSUME NEW i \in DOMAIN handlers', handlers'[i].cooled # None
               PROVE  /\ setup.throttle > 0 /\ handlers'[i].cooled <= now'
                      /\ handlers'[i].cooled + Cooldown(setup.throttle) <= cooldown
    BY <1>1, <1>2, <1>5, CooldownStays DEF CooldownInv
  <2>1. i \in DOMAIN handlers /\ handlers'[i].cooled = handlers[i].cooled
    <3>1. i \in DOMAIN handlers
      <4>1. CASE Deliver
        BY <4>1, DeliverArrives DEF Arrived
      <4> QED BY <4>1, TasksStay DEF SameTasks
    <3> QED BY <1>5, <3>1, HandlerNotes
  <2> QED BY <1>1, <1>3, <2>1 DEF CooldownInv
<1>6. ASSUME NEW j \in DOMAIN handlers, Record(j) PROVE CooldownInv'
  <2>1. setup.throttle > 0 /\ cooldown' = now + C /\ C = Cooldown(setup.throttle)
    BY <1>4, <1>6 DEF StageInv, Record
  <2>2. ASSUME NEW i \in DOMAIN handlers', handlers'[i].cooled # None
        PROVE  handlers'[i].cooled \in Int /\ handlers'[i].cooled <= now
    <3>1. i \in DOMAIN handlers
      BY <1>6, HandlerPath DEF MovedTo, SameTasks
    <3>2. handlers'[i].cooled = handlers[i].cooled \/ handlers'[i].cooled = now
      BY <3>1, HandlerNotes
    <3> QED BY <1>1, <1>3, <2>2, <3>1, <3>2 DEF CooldownInv
  <2>3. ASSUME NEW i \in DOMAIN handlers', handlers'[i].cooled # None
        PROVE  handlers'[i].cooled <= now' /\ handlers'[i].cooled + C <= now + C
    BY <1>1, <2>2, <2>3
  <2> QED BY <1>1, <1>2, <2>1, <2>3 DEF CooldownInv
<1> QED BY <1>5, <1>6

\* A function starts after the cooldown of every success that was recorded,
\* the last part of a second on Redis excepted (check_throttle and
\* record_throttle in _execute_task).
THEOREM CooldownHolds == Spec => CooldownKept
<1>1. ASSUME TrustInv, StageInv, CooldownInv, [Next]_vars,
             NEW i \in DOMAIN handlers, NEW j \in DOMAIN handlers,
             handlers[i].cooled # None, handlers'[j].start # handlers[j].start
      PROVE  now >= handlers[i].cooled + setup.throttle
                      - (IF setup.backend = "redis" THEN 1 ELSE 0)
  <2>1. Check(j) /\ ~Goto(j, "throttled")
    <3>1. Check(j)
      BY <1>1, HandlerNotes
    <3>2. Goto(j, "throttled") => handlers'[j].start = handlers[j].start
      BY <1>1, WentTo DEF MovedTo
    <3> QED BY <1>1, <3>1, <3>2
  <2>2. ~(setup.throttle > 0 /\ now < cooldown)
    BY <2>1 DEF Check, Throttled
  <2> DEFINE late == IF setup.backend = "redis" THEN 1 ELSE 0
  <2>3. /\ cooldown \in Int /\ now \in Int /\ setup.throttle > 0
        /\ handlers[i].cooled \in Int
        /\ handlers[i].cooled + Cooldown(setup.throttle) <= cooldown
    BY <1>1, HandlersTyped, Settings DEF CooldownInv, Time
  <2>4. /\ Cooldown(setup.throttle) \in Int /\ setup.throttle \in Int /\ late \in Int
        /\ Cooldown(setup.throttle) >= setup.throttle - late
    BY <1>1, <2>3, CooldownLength, Settings
  <2> HIDE DEF late
  <2>5. now >= handlers[i].cooled + setup.throttle - late
    BY <2>2, <2>3, <2>4
  <2> QED BY <2>5 DEF late
<1>2. TrustInv /\ StageInv /\ CooldownInv /\ [Next]_vars =>
        [setup.slots = 1 =>
           \A i, j \in DOMAIN handlers :
             /\ handlers[i].cooled # None
             /\ handlers[j].start = None /\ handlers'[j].start # None
             => now >= handlers[i].cooled + setup.throttle
                        - (IF setup.backend = "redis" THEN 1 ELSE 0)]_vars
  BY <1>1
<1>3. Init => StageInv /\ CooldownInv /\ PairInit
  BY DEF Init, StageInv, CooldownInv
<1> QED BY <1>2, <1>3, TrustInitially, TrustStep, PairInitially, PairStep, PairingWithin,
           StageStep, CooldownStep, PTL DEF Spec, CooldownKept

-----------------------------------------------------------------------------
(* The envelopes that were sent.                                           *)

\* The fields of an envelope that was sent.
LEMMA SentTyped ==
  ASSUME TrustInv, NEW e \in Sent
  PROVE  /\ e \in SignedEnvelopes /\ e.task \in Tasks /\ e.iat \in Int
         /\ {e.task.id, e.task.n, e.task.left} \subseteq Int
<1>1. e \in SignedEnvelopes
  BY HandlersTyped DEF Sent, TrustInv, TrustTypes
<1>2. e.task \in Tasks /\ e.iat \in Int
  BY <1>1 DEF SignedEnvelopes
<1> QED BY <1>1, <1>2 DEF Tasks

\* A submission adds its envelope to those that were sent.
LEMMA SentJoined ==
  ASSUME TrustInv, SameTasks, NEW e \in SignedEnvelopes, queue' = Append(queue, e)
  PROVE  Sent' = Sent \cup {e}
<1>1. queue \in Seq(SignedEnvelopes)
  BY DEF TrustInv, TrustTypes
<1>2. {queue'[k] : k \in DOMAIN queue'} = {queue[k] : k \in DOMAIN queue} \cup {e}
  <2>1. DOMAIN queue' = DOMAIN queue \cup {Len(queue) + 1}
        /\ queue'[Len(queue) + 1] = e /\ \A k \in DOMAIN queue : queue'[k] = queue[k]
    BY <1>1
  <2> QED BY <2>1
<1>3. {handlers'[i].env : i \in DOMAIN handlers'} = {handlers[i].env : i \in DOMAIN handlers}
  BY DEF SameTasks
<1> QED BY <1>2, <1>3 DEF Sent

\* A delivery takes an envelope from the queue to a handler.
LEMMA SentDelivered ==
  ASSUME TrustInv, Deliver
  PROVE  /\ Head(queue) \in Sent /\ Sent' = Sent /\ submitted' = submitted
         /\ queue # <<>> /\ Head(queue) = queue[1] /\ Len(queue') = Len(queue) - 1
         /\ \A k \in DOMAIN queue' : k + 1 \in DOMAIN queue /\ queue'[k] = queue[k + 1]
<1>1. queue \in Seq(SignedEnvelopes) /\ queue # <<>> /\ queue' = Tail(queue)
      /\ submitted' = submitted
  BY DEF Deliver, TrustInv, TrustTypes
<1>2. /\ Head(queue) = queue[1] /\ 1 \in DOMAIN queue /\ Len(queue') = Len(queue) - 1
      /\ Len(queue) \in Nat /\ DOMAIN queue = 1..Len(queue) /\ DOMAIN queue' = 1..Len(queue')
      /\ \A k \in DOMAIN queue' : k + 1 \in DOMAIN queue /\ queue'[k] = queue[k + 1]
  BY <1>1
<1>3. {queue[k] : k \in DOMAIN queue} = {queue'[k] : k \in DOMAIN queue'} \cup {Head(queue)}
  <2>1. ASSUME NEW k \in DOMAIN queue, k # 1 PROVE k - 1 \in DOMAIN queue' /\ queue'[k - 1] = queue[k]
    BY <1>2, <2>1
  <2>2. ASSUME NEW k \in DOMAIN queue
        PROVE  queue[k] \in {queue'[l] : l \in DOMAIN queue'} \cup {Head(queue)}
    BY <1>2, <2>1
  <2> QED BY <1>2, <2>2
<1>4. {handlers'[i].env : i \in DOMAIN handlers'}
        = {handlers[i].env : i \in DOMAIN handlers} \cup {Head(queue)}
  <2>1. Arrived
    BY DeliverArrives
  <2> QED BY <2>1 DEF Arrived
<1> QED BY <1>1, <1>2, <1>3, <1>4 DEF Sent

\* A new task joins the queue.
Submission(e) ==
  /\ e \in SignedEnvelopes /\ queue' = Append(queue, e)
  /\ submitted < MaxQueued /\ submitted' = submitted + 1 /\ e.task.id = submitted + 1
  /\ SameTasks

\* It opens the schedule, or it is a plain one, or it follows an occurrence.
Follows(e) ==
  \/ SubmitRecurring /\ submitted = 0 /\ e.task.n = 1 /\ e.task.left = setup.runs
  \/ SubmitRemote /\ e.task.n = 0
  \/ \E i \in DOMAIN handlers : /\ Resubmit(i)
                                /\ e.task.n = handlers[i].env.task.n + 1
                                /\ e.task.left = handlers[i].env.task.left - 1

\* Signing an envelope leaves the task in it alone.
LEMMA EncodedTask ==
  ASSUME NEW task, NEW role, NEW root
  PROVE  Encode(task, role, root).task = task
BY DEF Encode

\* The three submissions send one envelope each, under the next identifier.
LEMMA SubmissionStep ==
  ASSUME TrustInv, PairInv, IdentityInv,
         \/ SubmitRecurring \/ SubmitRemote \/ \E i \in DOMAIN handlers : Resubmit(i)
  PROVE  \E e : Submission(e) /\ Follows(e)
<1>1. submitted \in Nat /\ now \in Int /\ setup.runs \in Int /\ MaxQueued \in Nat /\ MaxQueued > 0
  BY Settings DEF IdentityInv
<1>2. "client" \in Roles /\ RootToken("client") \in RootKeys
  BY TokenTyped DEF Roles
<1>3. handlers' = handlers => SameTasks
  BY DEF SameTasks
<1>4. ASSUME NEW task \in Tasks, NEW role \in Roles, NEW root \in RootKeys
      PROVE  Encode(task, role, root) \in SignedEnvelopes
  BY EncodedGenuine
<1>5. CASE SubmitRecurring
  <2> DEFINE task == Occurrence(1, 1, now, setup.runs)
             e == Encode(task, "client", RootToken("client"))
  <2>1. task \in Tasks /\ task.id = 1 /\ task.n = 1 /\ task.left = setup.runs
    BY <1>1 DEF Occurrence, Tasks, Time
  <2>2. queue' = <<e>> /\ submitted = 0 /\ submitted' = 1 /\ handlers' = handlers
    BY <1>5 DEF SubmitRecurring
  <2> HIDE DEF task
  <2>3. e \in SignedEnvelopes /\ e.task = task
    BY <1>2, <1>4, <2>1, EncodedTask
  <2>4. queue = <<>>
    <3>1. ASSUME NEW k \in DOMAIN queue PROVE FALSE
      <4>1. queue[k] \in Sent
        BY DEF Sent
      <4>2. queue[k].task.id \in 1..0
        BY <2>2, <4>1 DEF IdentityInv
      <4> QED BY <4>2
    <3>2. queue \in Seq(SignedEnvelopes)
      BY DEF TrustInv, TrustTypes
    <3>3. 1 \notin DOMAIN queue
      BY <3>1
    <3> QED BY <3>2, <3>3
  <2> HIDE DEF e
  <2>5. queue' = Append(queue, e)
    BY <2>2, <2>4
  <2>6. Submission(e)
    BY <1>1, <1>3, <2>1, <2>2, <2>3, <2>5 DEF Submission
  <2>7. Follows(e)
    BY <1>5, <2>1, <2>2, <2>3 DEF Follows
  <2> QED BY <2>6, <2>7
<1>6. CASE SubmitRemote
  <2> DEFINE task == Occurrence(submitted + 1, 0, now, 0)
             e == Encode(task, "client", RootToken("client"))
  <2>1. task \in Tasks /\ task.id = submitted + 1 /\ task.n = 0
    BY <1>1 DEF Occurrence, Tasks, Time
  <2>2. queue' = Append(queue, e) /\ submitted < MaxQueued /\ submitted' = submitted + 1
        /\ handlers' = handlers
    BY <1>1, <1>6 DEF SubmitRemote
  <2> HIDE DEF task
  <2>3. e \in SignedEnvelopes /\ e.task = task
    BY <1>2, <1>4, <2>1, EncodedTask
  <2> HIDE DEF e
  <2>4. Submission(e) /\ Follows(e)
    BY <1>3, <1>6, <2>1, <2>2, <2>3 DEF Submission, Follows
  <2> QED BY <2>4
<1>7. ASSUME NEW i \in DOMAIN handlers, Resubmit(i) PROVE \E e : Submission(e) /\ Follows(e)
  <2> DEFINE t == handlers[i].env.task
             task == Occurrence(submitted + 1, t.n + 1, handlers[i].next, t.left - 1)
             e == Encode(task, "worker", proc.root)
  <2>1. {t.n, t.left} \subseteq Int /\ handlers[i].next \in Time
    BY HandlersTyped DEF Handlers
  <2>2. task \in Tasks /\ task.id = submitted + 1 /\ task.n = t.n + 1 /\ task.left = t.left - 1
    BY <1>1, <2>1 DEF Occurrence, Tasks
  <2>3. queue' = Append(queue, e) /\ submitted < MaxQueued /\ submitted' = submitted + 1
    BY <1>7 DEF Resubmit
  <2> HIDE DEF task
  <2>4. "worker" \in Roles /\ proc.root \in RootKeys
    BY DEF Roles, TrustInv, TrustTypes
  <2>5. e \in SignedEnvelopes /\ e.task = task
    BY <1>4, <2>2, <2>4, EncodedTask
  <2> HIDE DEF e
  <2>6. SameTasks
    BY <1>7, HandlerPath DEF MovedTo
  <2>7. Submission(e) /\ Follows(e)
    BY <1>7, <2>2, <2>3, <2>5, <2>6 DEF Submission, Follows
  <2> QED BY <2>7
<1> QED BY <1>5, <1>6, <1>7 DEF Follows

\* Apart from new tasks the queue grows by duplicates, and deliveries shorten it.
LEMMA QueueStays ==
  ASSUME [Next]_vars, ~Deliver, ~Duplicate,
         ~SubmitRecurring, ~SubmitRemote, \A i \in DOMAIN handlers : ~Resubmit(i)
  PROVE  queue' = queue /\ submitted' = submitted
<1>1. CancelSchedule \/ PollFlag \/ PutFlagBack => UNCHANGED <<queue, submitted>>
  BY DEF CancelSchedule, PollFlag, PutFlagBack
<1>2. Serve \/ Beside \/ Tick \/ PairFirst \/ UNCHANGED vars => UNCHANGED <<queue, submitted>>
  BY DEF Serve, Beside, Tick, PairFirst, schedVars, vars
<1>3. Crash => UNCHANGED <<queue, submitted>>
  BY DEF Crash
<1>4. ASSUME NEW i \in DOMAIN handlers, Handle(i) \/ Fault(i)
      PROVE  UNCHANGED <<queue, submitted>>
  <2>1. Acquire(i) \/ Finish(i) => UNCHANGED <<queue, submitted>>
    BY DEF Acquire, Finish
  <2>2. Check(i) \/ Unbuildable(i) \/ Record(i) => UNCHANGED <<queue, submitted>>
    BY DEF Check, Unbuildable, Record
  <2>3. Limits(i) => UNCHANGED <<queue, submitted>>
    BY DEF Limits
  <2>4. Nack(i) \/ Fault(i) => UNCHANGED <<queue, submitted>>
    BY DEF Nack, Fault
  <2> QED BY <1>4, <2>1, <2>2, <2>3, <2>4 DEF Handle
<1> QED BY <1>1, <1>2, <1>3, <1>4 DEF Next

\* A duplicate is of an envelope that was sent, and uses up the budget.
LEMMA DuplicateStep ==
  ASSUME TrustInv, Duplicate
  PROVE  /\ Sent' = Sent /\ SameTasks /\ submitted' = submitted
         /\ budget.duplicates > 0
<1>1. PICK e \in Sent : queue' = Append(queue, e)
  BY DEF Duplicate, Sent
<1>2. SameTasks /\ submitted' = submitted /\ budget.duplicates > 0
  BY DEF Duplicate, SameTasks
<1>3. e \in SignedEnvelopes
  BY SentTyped
<1> QED BY <1>1, <1>2, <1>3, SentJoined

\* What was sent is sent for good, and a step adds one new task at most.
LEMMA SentStep ==
  ASSUME TrustInv, PairInv, IdentityInv, [Next]_vars
  PROVE  \/ Sent' = Sent /\ submitted' = submitted
         \/ \E e : Submission(e) /\ Follows(e) /\ Sent' = Sent \cup {e}
<1>1. CASE \/ SubmitRecurring \/ SubmitRemote \/ \E i \in DOMAIN handlers : Resubmit(i)
  <2>1. PICK e : Submission(e) /\ Follows(e)
    BY <1>1, SubmissionStep
  <2> QED BY <2>1, SentJoined DEF Submission
<1>2. CASE Deliver
  BY <1>2, SentDelivered
<1>3. CASE Duplicate
  BY <1>3, DuplicateStep
<1>4. CASE ~Deliver /\ queue' = queue /\ submitted' = submitted
  <2>1. SameTasks
    BY <1>4, TasksStay
  <2> QED BY <1>4, <2>1 DEF Sent, SameTasks
<1> QED BY <1>1, <1>2, <1>3, <1>4, QueueStays

\* A new envelope takes an identifier no other has; others are sent as they were.
LEMMA IdentityStep == TrustInv /\ PairInv /\ IdentityInv /\ [Next]_vars => IdentityInv'
<1> SUFFICES ASSUME TrustInv, PairInv, IdentityInv, [Next]_vars PROVE IdentityInv'
  OBVIOUS
<1>1. CASE Sent' = Sent /\ submitted' = submitted
  BY <1>1 DEF IdentityInv
<1>2. ASSUME NEW e, Submission(e), Follows(e), Sent' = Sent \cup {e}
      PROVE  IdentityInv'
  <2>1. e.task.n \in Nat
    <3>1. ASSUME NEW i \in DOMAIN handlers PROVE handlers[i].env.task.n \in Nat
      BY DEF IdentityInv, Sent
    <3> QED BY <1>2, <3>1 DEF Follows
  <2>2. submitted \in Nat /\ submitted' = submitted + 1 /\ submitted' \in 0..MaxQueued
        /\ e.task.id = submitted'
    <3>1. submitted \in 0..MaxQueued /\ MaxQueued \in Nat
      BY Settings DEF IdentityInv
    <3>2. submitted' = submitted + 1 /\ submitted < MaxQueued /\ e.task.id = submitted + 1
      BY <1>2 DEF Submission
    <3> QED BY <3>1, <3>2
  <2>3. \A f \in Sent : f.task.id \in 1..submitted' /\ f.task.id # e.task.id /\ f.task.n \in Nat
    BY <2>2 DEF IdentityInv
  <2>4. \A f, g \in Sent \cup {e} : f.task.id = g.task.id => f = g
    BY <2>3 DEF IdentityInv
  <2>5. \A f \in Sent \cup {e} : f.task.id \in 1..submitted' /\ f.task.n \in Nat
    BY <2>1, <2>2, <2>3
  <2> QED BY <1>2, <2>2, <2>4, <2>5 DEF IdentityInv
<1> QED BY <1>1, <1>2, SentStep

\* A budget is only spent, and a crash begins another life of the worker.
LEMMA BudgetStep == TrustInv /\ BudgetInv /\ [Next]_vars => BudgetInv'
<1> SUFFICES ASSUME TrustInv, BudgetInv, [Next]_vars PROVE BudgetInv'
  OBVIOUS
<1> DEFINE Budgets == [plain : Int, duplicates : Int, crashes : Int, faults : Int]
<1>1. /\ setup' = setup /\ {setup.plain, setup.duplicates, setup.crashes} \subseteq Nat
      /\ budget \in Budgets
  BY ClockStep, Settings DEF TrustInv, TrustTypes
<1>2. CASE UNCHANGED budget /\ SameTasks /\ (proc'.up = proc.up \/ proc'.up)
  BY <1>1, <1>2 DEF BudgetInv, SameTasks
<1>3. CASE SubmitRemote \/ Duplicate \/ (\E i \in DOMAIN handlers : Fault(i))
  <2>1. SameTasks /\ proc' = proc
    <3>1. SubmitRemote => SameTasks /\ proc' = proc
      BY DEF SubmitRemote, SameTasks, trustVars
    <3>2. Duplicate => SameTasks /\ proc' = proc
      BY DEF Duplicate, SameTasks, trustVars
    <3>3. ASSUME NEW i \in DOMAIN handlers, Fault(i) PROVE SameTasks /\ proc' = proc
      BY <3>3, HandlerPath DEF Fault, MovedTo, trustVars
    <3> QED BY <1>3, <3>1, <3>2, <3>3
  <2>2. \/ budget.plain > 0 /\ budget' = [budget EXCEPT !.plain = @ - 1]
        \/ budget.duplicates > 0 /\ budget' = [budget EXCEPT !.duplicates = @ - 1]
        \/ budget' = [budget EXCEPT !.faults = @ - 1]
    BY <1>3 DEF SubmitRemote, Duplicate, Fault
  <2>3. /\ budget'.plain \in 0..setup.plain /\ budget'.duplicates \in 0..setup.duplicates
        /\ budget'.crashes = budget.crashes
    <3>1. /\ budget.plain \in 0..setup.plain /\ budget.duplicates \in 0..setup.duplicates
      BY DEF BudgetInv
    <3>2. \/ /\ budget.plain > 0 /\ budget'.plain = budget.plain - 1
             /\ budget'.duplicates = budget.duplicates /\ budget'.crashes = budget.crashes
          \/ /\ budget.duplicates > 0 /\ budget'.duplicates = budget.duplicates - 1
             /\ budget'.plain = budget.plain /\ budget'.crashes = budget.crashes
          \/ /\ budget'.duplicates = budget.duplicates
             /\ budget'.plain = budget.plain /\ budget'.crashes = budget.crashes
      BY <1>1, <2>2, Zenon
    <3> QED BY <1>1, <3>1, <3>2
  <2> QED BY <1>1, <2>1, <2>3 DEF BudgetInv, SameTasks
<1>4. CASE Deliver
  <2>1. budget' = budget /\ proc.up /\ Arrived
    BY <1>4, DeliverArrives DEF Deliver
  <2>2. proc'.up
    <3>1. proc' = proc \/ \E known, nonces :
                             proc' = [proc EXCEPT !.known = known, !.nonces = nonces]
      BY <1>4 DEF Deliver, Verify
    <3>2. proc \in [up : BOOLEAN, root : RootKeys, known : Registries, nonces : {proc.nonces}]
      BY DEF TrustInv, TrustTypes
    <3> QED BY <2>1, <3>1, <3>2
  <2> QED BY <1>1, <2>1, <2>2 DEF BudgetInv, Arrived
<1>5. CASE Crash
  <2>1. /\ SameTasks /\ budget.crashes > 0 /\ budget' = [budget EXCEPT !.crashes = @ - 1]
    BY <1>5, CrashDrops DEF Crash, Dropped
  <2>2. /\ budget'.plain = budget.plain /\ budget'.duplicates = budget.duplicates
        /\ budget'.crashes = budget.crashes - 1
    BY <1>1, <2>1, Zenon
  <2>3. budget.crashes \in 0..setup.crashes /\ budget'.crashes \in 0..setup.crashes
    BY <1>1, <2>1, <2>2 DEF BudgetInv
  <2>4. ASSUME NEW i \in DOMAIN handlers
        PROVE  handlers'[i].era \in budget'.crashes..setup.crashes
               /\ handlers'[i].era # budget'.crashes
    <3>1. handlers[i].era \in budget.crashes..setup.crashes /\ handlers'[i].era = handlers[i].era
      BY <2>1 DEF BudgetInv, SameTasks
    <3> QED BY <1>1, <2>2, <2>3, <3>1
  <2> QED BY <1>1, <2>1, <2>2, <2>3, <2>4 DEF BudgetInv, SameTasks
<1>6. CASE ~Deliver /\ ~Crash /\ ~SubmitRemote /\ ~Duplicate
           /\ \A i \in DOMAIN handlers : ~Fault(i)
  <2>1. SameTasks
    BY <1>6, TasksStay
  <2>2. UNCHANGED budget
    <3>1. SubmitRecurring \/ CancelSchedule \/ PollFlag \/ PutFlagBack => budget' = budget
      BY DEF SubmitRecurring, CancelSchedule, PollFlag, PutFlagBack
    <3>2. Serve \/ Beside \/ Tick \/ PairFirst \/ UNCHANGED vars => budget' = budget
      BY DEF Serve, Beside, Tick, PairFirst, schedVars, vars
    <3>3. ASSUME NEW i \in DOMAIN handlers, Handle(i) PROVE budget' = budget
      <4>1. Acquire(i) \/ Finish(i) \/ Check(i) \/ Unbuildable(i) \/ Record(i) => budget' = budget
        BY DEF Acquire, Finish, Check, Unbuildable, Record
      <4>2. Limits(i) \/ Nack(i) \/ Resubmit(i) => budget' = budget
        BY DEF Limits, Nack, Resubmit
      <4> QED BY <3>3, <4>1, <4>2 DEF Handle
    <3> QED BY <1>6, <3>1, <3>2, <3>3 DEF Next
  <2>3. proc' = proc \/ proc'.up
    <3>1. SubmitRecurring \/ CancelSchedule \/ PollFlag \/ PutFlagBack => proc' = proc
      BY DEF SubmitRecurring, CancelSchedule, PollFlag, PutFlagBack, trustVars
    <3>2. Beside \/ Tick \/ PairFirst \/ UNCHANGED vars => proc' = proc
      BY DEF Beside, ReplaceIdentity, AdminNext, AdminLoad, AdminSave, Tick, PairFirst, vars, trustVars
    <3>3. Serve => proc'.up
      BY DEF Serve, StartWorker
    <3>4. ASSUME NEW i \in DOMAIN handlers, Handle(i) PROVE proc' = proc
      <4>1. Acquire(i) \/ Finish(i) \/ Check(i) \/ Unbuildable(i) \/ Record(i) => proc' = proc
        BY DEF Acquire, Finish, Check, Unbuildable, Record, trustVars
      <4>2. Limits(i) \/ Nack(i) \/ Resubmit(i) => proc' = proc
        BY DEF Limits, Nack, Resubmit, trustVars
      <4> QED BY <3>4, <4>1, <4>2 DEF Handle
    <3> QED BY <1>6, <3>1, <3>2, <3>3, <3>4 DEF Next
  <2> QED BY <1>2, <2>1, <2>2, <2>3
<1> QED BY <1>3, <1>4, <1>5, <1>6

\* Where nothing is duplicated, an envelope moves from the queue to a handler
\* and a new one has an identifier of its own.
LEMMA PlaceStep ==
  TrustInv /\ PairInv /\ BudgetInv /\ IdentityInv /\ PlaceInv /\ [Next]_vars => PlaceInv'
<1> SUFFICES ASSUME TrustInv, PairInv, BudgetInv, IdentityInv, PlaceInv, [Next]_vars,
                    setup.duplicates = 0
             PROVE  PlaceInv'
  BY ClockStep DEF PlaceInv
<1>1. ~Duplicate
  BY DEF Duplicate, BudgetInv
<1>2. CASE Deliver
  <2> DEFINE n == Len(handlers) + 1
  <2>1. /\ queue # <<>> /\ Len(queue') = Len(queue) - 1 /\ queue \in Seq(SignedEnvelopes)
        /\ 1 \in DOMAIN queue /\ Len(queue) \in Nat
        /\ \A k \in DOMAIN queue' : k + 1 \in DOMAIN queue /\ queue'[k] = queue[k + 1] /\ k \in Nat
    <3>1. queue \in Seq(SignedEnvelopes) /\ queue' \in Seq(SignedEnvelopes) /\ queue # <<>>
      BY <1>2, SentDelivered DEF TrustInv, TrustTypes, Deliver
    <3> QED BY <1>2, <3>1, SentDelivered
  <2>2. /\ n \notin DOMAIN handlers /\ DOMAIN handlers' = DOMAIN handlers \cup {n}
        /\ \A i \in DOMAIN handlers : handlers'[i] = handlers[i]
        /\ handlers'[n].env = queue[1]
    BY <1>2, SentDelivered, DeliverArrives DEF Arrived
  <2> HIDE DEF n
  <2>3. ASSUME NEW k \in DOMAIN queue', NEW l \in DOMAIN queue',
               queue'[k].task.id = queue'[l].task.id
        PROVE  k = l
    BY <2>1, <2>3 DEF PlaceInv
  <2>4. ASSUME NEW k \in DOMAIN queue' PROVE queue'[k].task.id # queue[1].task.id
    BY <2>1 DEF PlaceInv
  <2>5. ASSUME NEW i \in DOMAIN handlers', NEW j \in DOMAIN handlers',
               handlers'[i].env.task.id = handlers'[j].env.task.id
        PROVE  i = j
    BY <2>1, <2>2, <2>5 DEF PlaceInv
  <2>6. ASSUME NEW k \in DOMAIN queue', NEW i \in DOMAIN handlers'
        PROVE  queue'[k].task.id # handlers'[i].env.task.id
    BY <2>1, <2>2, <2>4 DEF PlaceInv
  <2> QED BY <2>3, <2>5, <2>6 DEF PlaceInv
<1>3. ASSUME ~Deliver, NEW e, Submission(e) PROVE PlaceInv'
  <2>1. /\ SameTasks /\ \A k \in DOMAIN queue : queue[k].task.id # e.task.id
        /\ \A i \in DOMAIN handlers : handlers[i].env.task.id # e.task.id
    <3>1. e.task.id = submitted + 1 /\ submitted \in Nat /\ SameTasks
      BY <1>3, Settings DEF Submission, IdentityInv
    <3>2. \A f \in Sent : f.task.id # e.task.id
      BY <3>1 DEF IdentityInv
    <3> QED BY <3>1, <3>2 DEF Sent
  <2>2. DOMAIN queue' = DOMAIN queue \cup {Len(queue) + 1}
        /\ queue'[Len(queue) + 1] = e /\ \A k \in DOMAIN queue : queue'[k] = queue[k]
    BY <1>3 DEF Submission, TrustInv, TrustTypes
  <2>3. ASSUME NEW k \in DOMAIN queue', NEW l \in DOMAIN queue',
               queue'[k].task.id = queue'[l].task.id
        PROVE  k = l
    BY <2>1, <2>2, <2>3 DEF PlaceInv
  <2>4. ASSUME NEW i \in DOMAIN handlers', NEW j \in DOMAIN handlers',
               handlers'[i].env.task.id = handlers'[j].env.task.id
        PROVE  i = j
    BY <2>1, <2>4 DEF PlaceInv, SameTasks
  <2>5. ASSUME NEW k \in DOMAIN queue', NEW i \in DOMAIN handlers'
        PROVE  queue'[k].task.id # handlers'[i].env.task.id
    BY <2>1, <2>2 DEF PlaceInv, SameTasks
  <2> QED BY <2>3, <2>4, <2>5 DEF PlaceInv
<1>4. CASE ~Deliver /\ queue' = queue
  <2>1. SameTasks
    BY <1>4, TasksStay
  <2> QED BY <1>4, <2>1 DEF PlaceInv, SameTasks
<1>5. CASE \/ SubmitRecurring \/ SubmitRemote \/ \E i \in DOMAIN handlers : Resubmit(i)
  <2>1. ~Deliver
    <3>1. CASE SubmitRecurring \/ SubmitRemote
      BY <3>1, DeliverArrives DEF SubmitRecurring, SubmitRemote, Arrived
    <3>2. ASSUME NEW i \in DOMAIN handlers, Resubmit(i) PROVE ~Deliver
      BY <3>2, DeliverArrives, HandlerPath DEF Arrived, MovedTo, SameTasks
    <3> QED BY <1>5, <3>1, <3>2
  <2> QED BY <1>3, <1>5, <2>1, SubmissionStep
<1> QED BY <1>1, <1>2, <1>4, <1>5, QueueStays

-----------------------------------------------------------------------------
(* The nonce cache.                                                        *)

\* d entries are evicted, from the front: those too old and those in excess.
Evicts(d) ==
  LET old  == proc.nonces
      kept == Evict(proc.nonces)
  IN  /\ d \in 0..Len(old)
      /\ kept \in Seq(Entries) /\ Len(kept) = Len(old) - d /\ DOMAIN kept = 1..(Len(old) - d)
      /\ \A p \in DOMAIN kept : p + d \in DOMAIN old /\ kept[p] = old[p + d]
      /\ \A p \in DOMAIN old :
           now - old[p].ts <= NonceTtl /\ p > Len(old) - setup.capacity => p > d

\* The cache evicts from its front, as many as are too old or have no room.
LEMMA EvictsSome ==
  ASSUME TrustInv, CacheInv
  PROVE  \E d : Evicts(d)
<1> DEFINE s == proc.nonces
           L == Len(s)
           D == {i \in DOMAIN s : now - s[i].ts > NonceTtl}
                  \cup {i \in DOMAIN s : i <= L - setup.capacity}
           d == Cardinality(D)
<1>1. /\ s \in Seq(Entries) /\ L \in Nat /\ DOMAIN s = 1..L
      /\ \A p \in 1..L : s[p] \in Entries /\ s[p].ts \in Int
      /\ now \in Int /\ NonceTtl \in Nat /\ setup.capacity \in Nat
      /\ \A p, q \in 1..L : p < q => s[p].ts <= s[q].ts
  <2>1. s \in Seq(Entries) /\ \A p, q \in DOMAIN s : p < q => s[p].ts <= s[q].ts
    BY DEF CacheInv, InOrderOnce
  <2>2. \A p \in DOMAIN s : s[p] \in Entries
    BY <2>1
  <2>3. \A n \in Entries : n.ts \in Int
    BY DEF Entries
  <2>4. now \in Int /\ NonceTtl \in Nat /\ setup.capacity \in Nat
    BY Settings
  <2>5. L \in Nat /\ DOMAIN s = 1..L
    BY <2>1
  <2> HIDE DEF s, L
  <2> QED BY <2>1, <2>2, <2>3, <2>4, <2>5
<1> HIDE DEF s, L
<1>2. IsFiniteSet(1..L) /\ Cardinality(1..L) = L
  BY <1>1, FS_Interval
<1>3. D \in SUBSET (1..L)
  BY <1>1
<1>4. d \in 0..L
  <2>1. IsFiniteSet(D) /\ Cardinality(D) <= L
    BY <1>2, <1>3, FS_Subset
  <2>2. Cardinality(D) \in Nat
    BY <2>1, FS_CardinalityType
  <2> QED BY <1>1, <2>1, <2>2
<1>5. ASSUME NEW p \in 1..L, now - s[p].ts <= NonceTtl, p > L - setup.capacity
      PROVE  p > d
  <2>1. ASSUME NEW q \in D PROVE q \in 1..(p - 1)
    <3>1. q \in 1..L /\ (now - s[q].ts > NonceTtl \/ q <= L - setup.capacity)
      BY <1>1
    <3>2. /\ s[p].ts \in Int /\ s[q].ts \in Int /\ p \in Int /\ q \in Int
          /\ now \in Int /\ NonceTtl \in Int /\ (p < q => s[p].ts <= s[q].ts)
          /\ L \in Int /\ setup.capacity \in Int
      BY <1>1, <3>1
    <3>3. CASE p = q
      BY <1>5, <3>1, <3>2, <3>3
    <3>4. CASE p < q
      BY <1>5, <3>1, <3>2, <3>4
    <3>5. q < p
      BY <3>2, <3>3, <3>4
    <3> QED BY <3>1, <3>2, <3>5
  <2>2. p - 1 \in Int
    OBVIOUS
  <2>3. IsFiniteSet(1..(p - 1)) /\ Cardinality(1..(p - 1)) = p - 1
    <3>1. IsFiniteSet(1..(p - 1))
          /\ Cardinality(1..(p - 1)) = IF 1 > p - 1 THEN 0 ELSE (p - 1) - 1 + 1
      BY <2>2, FS_Interval
    <3> QED BY <3>1
  <2>4. D \in SUBSET (1..(p - 1))
    BY <2>1
  <2> HIDE DEF D
  <2>5. Cardinality(D) <= p - 1
    BY <2>3, <2>4, FS_Subset
  <2> QED BY <1>4, <2>5
<1>6. Evict(s) = SubSeq(s, d + 1, L)
  BY DEF Evict, L
<1> HIDE DEF d
<1>7. /\ Evict(s) \in Seq(Entries) /\ Len(Evict(s)) = L - d
      /\ \A i \in 1..(L - d) : Evict(s)[i] = s[i + d]
  <2>1. d + 1 \in Int /\ L \in Int /\ \A i \in (d + 1)..L : s[i] \in Entries
    BY <1>1, <1>4
  <2>2. /\ Evict(s) \in Seq(Entries)
        /\ Len(Evict(s)) = IF d + 1 <= L THEN L - (d + 1) + 1 ELSE 0
        /\ \A i \in 1..(L - (d + 1) + 1) : Evict(s)[i] = s[(d + 1) + i - 1]
    BY <1>6, <2>1, SubSeqProperties
  <2>3. L - (d + 1) + 1 = L - d /\ \A i \in 1..(L - d) : (d + 1) + i - 1 = i + d
    BY <1>1, <1>4
  <2> QED BY <1>1, <1>4, <2>2, <2>3
<1>8. DOMAIN Evict(s) = 1..(L - d)
  BY <1>7
<1>9. \A p \in 1..(L - d) : p + d \in 1..L
  BY <1>1, <1>4
<1> QED BY <1>1, <1>4, <1>5, <1>7, <1>8, <1>9 DEF Evicts, s, L

\* What eviction leaves is in order, each nonce once.
LEMMA EvictInOrder ==
  ASSUME TrustInv, CacheInv
  PROVE  InOrderOnce(Evict(proc.nonces))
<1>1. PICK d : Evicts(d)
  BY EvictsSome
<1> DEFINE old  == proc.nonces
           kept == Evict(proc.nonces)
<1>2. /\ d \in Nat /\ kept \in Seq(Entries) /\ DOMAIN kept \subseteq Nat
      /\ \A p \in DOMAIN kept : p + d \in DOMAIN old /\ kept[p] = old[p + d]
  BY <1>1 DEF Evicts
<1>3. /\ \A p \in DOMAIN old : old[p].ts <= now /\ \E e \in Sent : old[p].key = Nonce(e)
      /\ \A p, q \in DOMAIN old : /\ p < q => old[p].ts <= old[q].ts
                                  /\ old[p].key = old[q].key => p = q
  BY DEF CacheInv, InOrderOnce
<1> HIDE DEF old, kept
<1>4. \A p \in DOMAIN kept : kept[p].ts <= now /\ \E e \in Sent : kept[p].key = Nonce(e)
  BY <1>2, <1>3
<1>5. ASSUME NEW p \in DOMAIN kept, NEW q \in DOMAIN kept
      PROVE  /\ p < q => kept[p].ts <= kept[q].ts
             /\ kept[p].key = kept[q].key => p = q
  <2>1. /\ p + d \in DOMAIN old /\ kept[p] = old[p + d] /\ q + d \in DOMAIN old
        /\ kept[q] = old[q + d] /\ p \in Nat /\ q \in Nat
    BY <1>2
  <2>2. /\ p + d < q + d => old[p + d].ts <= old[q + d].ts
        /\ old[p + d].key = old[q + d].key => p + d = q + d
    BY <1>3, <2>1
  <2>3. (p < q => p + d < q + d) /\ (p + d = q + d => p = q)
    BY <1>2, <2>1
  <2> QED BY <2>1, <2>2, <2>3
<1> QED BY <1>2, <1>4, <1>5 DEF InOrderOnce, kept

\* A nonce that is not in the cache is put behind the others.
LEMMA AddInOrder ==
  ASSUME TrustInv, NEW s, InOrderOnce(s), NEW e \in Sent,
         \A p \in DOMAIN s : s[p].key # Nonce(e)
  PROVE  LET added == Append(s, [key |-> Nonce(e), ts |-> now])
         IN  /\ InOrderOnce(added) /\ Len(added) = Len(s) + 1
             /\ \A p \in DOMAIN s : p \in DOMAIN added /\ added[p] = s[p]
             /\ Len(s) + 1 \in DOMAIN added
             /\ added[Len(s) + 1] = [key |-> Nonce(e), ts |-> now]
<1> DEFINE new   == [key |-> Nonce(e), ts |-> now]
           added == Append(s, new)
           n     == Len(s) + 1
<1>1. new \in Entries /\ new.key = Nonce(e) /\ new.ts = now
  <2>1. e.client \in Roles \cup {None} /\ e.task.id \in Int /\ now \in Int
    BY SentTyped, Settings DEF SignedEnvelopes
  <2> QED BY <2>1 DEF Entries, Nonce
<1>2. s \in Seq(Entries)
  BY DEF InOrderOnce
<1> HIDE DEF new
<1>3. /\ added \in Seq(Entries) /\ Len(added) = n /\ n \in Nat
      /\ DOMAIN added = DOMAIN s \cup {n} /\ n \notin DOMAIN s
      /\ \A p \in DOMAIN s : added[p] = s[p] /\ p < n /\ p \in Nat
      /\ added[n] = new
  BY <1>1, <1>2
<1> HIDE DEF added, n
<1>4. \A p \in DOMAIN added : added[p].ts <= now /\ \E f \in Sent : added[p].key = Nonce(f)
  <2> SUFFICES ASSUME NEW p \in DOMAIN added
               PROVE  added[p].ts <= now /\ \E f \in Sent : added[p].key = Nonce(f)
    OBVIOUS
  <2>1. CASE p = n
    BY <1>1, <1>3, <2>1, Settings
  <2>2. CASE p \in DOMAIN s
    BY <1>3, <2>2 DEF InOrderOnce
  <2> QED BY <1>3, <2>1, <2>2
<1>5. \A p, q \in DOMAIN added : p < q => added[p].ts <= added[q].ts
  <2> SUFFICES ASSUME NEW p \in DOMAIN added, NEW q \in DOMAIN added, p < q
               PROVE  added[p].ts <= added[q].ts
    OBVIOUS
  <2>1. p \in DOMAIN s
    BY <1>3
  <2>2. CASE q = n
    BY <1>1, <1>3, <2>1, <2>2 DEF InOrderOnce
  <2>3. CASE q \in DOMAIN s
    BY <1>3, <2>1, <2>3 DEF InOrderOnce
  <2> QED BY <1>3, <2>2, <2>3
<1>6. \A p, q \in DOMAIN added : added[p].key = added[q].key => p = q
  BY <1>1, <1>3 DEF InOrderOnce
<1>7. InOrderOnce(added)
  BY <1>3, <1>4, <1>5, <1>6 DEF InOrderOnce
<1> QED BY <1>3, <1>7 DEF added, n, new

\* The verdicts that record the nonce come from a fresh envelope that the
\* cache does not know.
LEMMA RecordedFresh ==
  ASSUME TrustInv, NEW e \in SignedEnvelopes, proc.root # None,
         Verdict(e) \notin {"unsigned", "revoked", "stale", "replay"}
  PROVE  /\ now - e.iat <= Skew /\ e.iat - now <= Skew
         /\ \A p \in DOMAIN Evict(proc.nonces) : Evict(proc.nonces)[p].key # Nonce(e)
<1>1. ~(now - e.iat > Skew \/ e.iat - now > Skew) /\ ~Seen(e)
  BY DEF Verdict
<1>2. now \in Int /\ e.iat \in Int /\ Skew \in Int
  BY Settings DEF SignedEnvelopes
<1> QED BY <1>1, <1>2 DEF Seen

\* Only a delivery adds to the cache; a worker starts with an empty one.
LEMMA NoncesStay ==
  ASSUME [Next]_vars, ~Deliver
  PROVE  proc' = proc \/ (Crash /\ proc' = StopProcess)
                      \/ (Serve /\ ~proc.up /\ proc'.nonces = <<>>)
<1>1. SubmitRecurring \/ SubmitRemote \/ Duplicate => proc' = proc
  BY DEF SubmitRecurring, SubmitRemote, Duplicate, trustVars
<1>2. CancelSchedule \/ PollFlag \/ PutFlagBack => proc' = proc
  BY DEF CancelSchedule, PollFlag, PutFlagBack, trustVars
<1>3. Beside \/ Tick \/ PairFirst \/ UNCHANGED vars => proc' = proc
  BY DEF Beside, ReplaceIdentity, AdminNext, AdminLoad, AdminSave, Tick, PairFirst, vars, trustVars
<1>4. Serve => ~proc.up /\ proc'.nonces = <<>>
  BY DEF Serve, StartWorker
<1>5. Crash => proc' = StopProcess
  BY DEF Crash
<1>6. ASSUME NEW i \in DOMAIN handlers, Handle(i) \/ Fault(i) PROVE proc' = proc
  <2>1. Acquire(i) \/ Finish(i) \/ Check(i) \/ Unbuildable(i) \/ Record(i) => proc' = proc
    BY DEF Acquire, Finish, Check, Unbuildable, Record, trustVars
  <2>2. Limits(i) \/ Nack(i) \/ Resubmit(i) \/ Fault(i) => proc' = proc
    BY DEF Limits, Nack, Resubmit, Fault, trustVars
  <2> QED BY <1>6, <2>1, <2>2 DEF Handle
<1> QED BY <1>1, <1>2, <1>3, <1>4, <1>5, <1>6 DEF Next

\* What a delivery does to the cache.
LEMMA NoncesDelivered ==
  ASSUME TrustInv, Deliver
  PROVE  LET e == Head(queue)
             kept == Evict(proc.nonces)
         IN  /\ now' = now /\ budget' = budget /\ proc.up
             /\ proc.root = None => proc'.nonces = proc.nonces
             /\ proc.root # None =>
                  \/ /\ Verdict(e) \in {"unsigned", "revoked", "stale"}
                     /\ proc'.nonces = proc.nonces
                  \/ Verdict(e) = "replay" /\ proc'.nonces = kept
                  \/ /\ Verdict(e) \notin {"unsigned", "revoked", "stale", "replay"}
                     /\ proc'.nonces = Append(kept, [key |-> Nonce(e), ts |-> now])
<1> DEFINE e == Head(queue)
<1>1. Verify(e) /\ now' = now /\ budget' = budget /\ proc.up
  BY DEF Deliver
<1>2. proc \in [up : BOOLEAN, root : RootKeys, known : Registries, nonces : {proc.nonces}]
  BY DEF TrustInv, TrustTypes
<1>3. proc.root = None => proc'.nonces = proc.nonces
  BY <1>1 DEF Verify
<1>4. proc.root # None => proc'.nonces = CheckAndAdd(e)
  BY <1>1, <1>2 DEF Verify
<1>5. \/ Verdict(e) \in {"unsigned", "revoked", "stale"} /\ CheckAndAdd(e) = proc.nonces
      \/ Verdict(e) = "replay" /\ CheckAndAdd(e) = Evict(proc.nonces)
      \/ /\ Verdict(e) \notin {"unsigned", "revoked", "stale", "replay"}
         /\ CheckAndAdd(e) = Append(Evict(proc.nonces), [key |-> Nonce(e), ts |-> now])
  BY DEF CheckAndAdd
<1> QED BY <1>1, <1>3, <1>4, <1>5

\* An envelope that was sent remains among them.
LEMMA SentStays ==
  ASSUME TrustInv, PairInv, IdentityInv, [Next]_vars
  PROVE  Sent \subseteq Sent'
BY SentStep

\* The cache of a worker stays in order through deliveries, crashes and the clock.
LEMMA CacheStep ==
  TrustInv /\ PairInv /\ IdentityInv /\ CacheInv /\ [Next]_vars => CacheInv'
<1> SUFFICES ASSUME TrustInv, PairInv, IdentityInv, CacheInv, [Next]_vars PROVE CacheInv'
  OBVIOUS
<1>1. InOrderOnce(proc'.nonces)
  <2>1. InOrderOnce(<<>>)
    BY DEF InOrderOnce
  <2>2. CASE ~Deliver
    <3>1. Crash => proc'.nonces = <<>>
      <4>1. proc \in [up : BOOLEAN, root : RootKeys, known : Registries, nonces : {proc.nonces}]
        BY DEF TrustInv, TrustTypes
      <4> QED BY <4>1 DEF Crash, StopProcess
    <3> QED BY <2>1, <2>2, <3>1, NoncesStay DEF CacheInv
  <2>3. CASE Deliver
    <3> DEFINE e == Head(queue)
               kept == Evict(proc.nonces)
    <3>1. e \in Sent /\ e \in SignedEnvelopes
      BY <2>3, SentDelivered, SentTyped
    <3>2. InOrderOnce(proc.nonces) /\ InOrderOnce(kept)
      BY EvictInOrder DEF CacheInv
    <3>3. ASSUME proc.root # None, Verdict(e) \notin {"unsigned", "revoked", "stale", "replay"}
          PROVE  InOrderOnce(Append(kept, [key |-> Nonce(e), ts |-> now]))
      <4>1. \A p \in DOMAIN kept : kept[p].key # Nonce(e)
        BY <3>1, <3>3, RecordedFresh
      <4> HIDE DEF e, kept
      <4> QED BY <3>1, <3>2, <4>1, AddInOrder
    <3> QED BY <2>3, <3>2, <3>3, NoncesDelivered
  <2> QED BY <2>2, <2>3
<1>2. now' \in Int /\ now <= now' /\ now \in Int
  BY ClockStep, Settings
<1> DEFINE s == proc'.nonces
<1>3. \A p \in DOMAIN s : s[p].ts \in Int
  <2>1. s \in Seq(Entries)
    BY <1>1 DEF InOrderOnce
  <2>2. \A n \in Entries : n.ts \in Int
    BY DEF Entries
  <2> QED BY <2>1, <2>2
<1>4. \A p \in DOMAIN s : s[p].ts <= now' /\ \E e \in Sent' : s[p].key = Nonce(e)
  <2>1. \A p \in DOMAIN s : s[p].ts <= now /\ \E e \in Sent : s[p].key = Nonce(e)
    BY <1>1 DEF InOrderOnce
  <2> HIDE DEF s
  <2> QED BY <1>2, <1>3, <2>1, SentStays
<1> QED BY <1>1, <1>4 DEF CacheInv, InOrderOnce

\* The cache never holds more nonces than there are tasks.
LEMMA CacheBound ==
  ASSUME TrustInv, IdentityInv, CacheInv
  PROVE  Len(proc.nonces) \in Nat /\ Len(proc.nonces) <= MaxQueued
<1> DEFINE s == proc.nonces
           L == Len(s)
           f == [p \in 1..L |-> s[p].key[2]]
<1>1. /\ s \in Seq(Entries) /\ L \in Nat /\ DOMAIN s = 1..L
      /\ \A p \in 1..L : \E e \in Sent : s[p].key = Nonce(e)
      /\ \A p, q \in 1..L : s[p].key = s[q].key => p = q
  <2>1. s \in Seq(Entries)
    BY DEF CacheInv, InOrderOnce
  <2> QED BY <2>1 DEF CacheInv, InOrderOnce
<1>2. submitted \in Nat /\ submitted <= MaxQueued /\ MaxQueued \in Nat
  BY Settings DEF IdentityInv
<1>3. \A p \in 1..L : s[p].key[2] \in 1..submitted
  BY <1>1 DEF IdentityInv, Nonce
<1>4. \A p, q \in 1..L : s[p].key[2] = s[q].key[2] => p = q
  <2> SUFFICES ASSUME NEW p \in 1..L, NEW q \in 1..L, s[p].key[2] = s[q].key[2]
               PROVE  s[p].key = s[q].key
    BY <1>1
  <2>1. PICK e \in Sent : s[p].key = Nonce(e)
    BY <1>1
  <2>2. PICK g \in Sent : s[q].key = Nonce(g)
    BY <1>1
  <2>3. e.task.id = g.task.id
    BY <2>1, <2>2 DEF Nonce
  <2> QED BY <2>1, <2>2, <2>3 DEF IdentityInv
<1>5. f \in Injection(1..L, 1..submitted)
  <2> HIDE DEF s, L
  <2>1. f \in [1..L -> 1..submitted]
    BY <1>3
  <2>2. \A p, q \in 1..L : f[p] = f[q] => p = q
    BY <1>4
  <2> QED BY <2>1, <2>2 DEF Injection, IsInjective
<1>6. /\ Cardinality(1..L) = L
      /\ IsFiniteSet(1..submitted) /\ Cardinality(1..submitted) = submitted
  <2>1. L \in Int /\ submitted \in Int /\ 1 \in Int
    BY <1>1, <1>2
  <2>2. /\ Cardinality(1..L) = IF 1 > L THEN 0 ELSE L - 1 + 1
        /\ IsFiniteSet(1..submitted)
        /\ Cardinality(1..submitted) = IF 1 > submitted THEN 0 ELSE submitted - 1 + 1
    BY <2>1, FS_Interval
  <2> HIDE DEF L, s
  <2> QED BY <1>1, <1>2, <2>2
<1>7. Cardinality(1..L) <= Cardinality(1..submitted)
  BY <1>5, <1>6, FS_Injection
<1> QED BY <1>1, <1>2, <1>6, <1>7

\* What was recorded after a handler.
LEMMA AfterFinite ==
  ASSUME TrustInv, NEW i \in DOMAIN handlers
  PROVE  IsFiniteSet(After(i)) /\ Cardinality(After(i)) \in Nat
<1>1. IsFiniteSet(DOMAIN handlers)
  <2>1. Len(handlers) \in Int /\ 1 \in Int /\ DOMAIN handlers = 1..Len(handlers)
    BY HandlersTyped
  <2> QED BY <2>1, FS_Interval
<1>2. After(i) \in SUBSET DOMAIN handlers
  BY DEF After, Recorded
<1>3. IsFiniteSet(After(i))
  BY <1>1, <1>2, FS_Subset
<1> QED BY <1>3, FS_CardinalityType

\* A nonce whose envelope is fresh leaves the cache only for want of room.
LEMMA FreshSurvives ==
  ASSUME TrustInv, IdentityInv, CacheInv, NEW i \in DOMAIN handlers,
         now - handlers[i].env.iat <= Skew, KeptIn(proc.nonces, i)
  PROVE  KeptIn(Evict(proc.nonces), i) \/ PushedOut(i)
<1> DEFINE old  == proc.nonces
           kept == Evict(proc.nonces)
           iat  == handlers[i].env.iat
           C    == Cardinality(After(i))
<1>1. PICK d : Evicts(d)
  BY EvictsSome
<1>2. PICK p \in DOMAIN old : /\ old[p].key = Nonce(handlers[i].env)
                              /\ iat - Skew <= old[p].ts
                              /\ Len(old) - p <= C
  BY DEF KeptIn
<1>3. /\ Len(old) \in Nat /\ Len(old) <= MaxQueued /\ p \in 1..Len(old) /\ old[p].ts \in Int
      /\ d \in 0..Len(old) /\ Len(kept) = Len(old) - d /\ DOMAIN kept = 1..(Len(old) - d)
      /\ \A q \in DOMAIN kept : kept[q] = old[q + d]
      /\ now - old[p].ts <= NonceTtl /\ p > Len(old) - setup.capacity => p > d
  <2>1. old \in Seq(Entries)
    BY DEF CacheInv, InOrderOnce
  <2>2. old[p] \in Entries /\ p \in 1..Len(old)
    BY <2>1
  <2>3. old[p].ts \in Int
    BY <2>2 DEF Entries
  <2> QED BY <1>1, <2>2, <2>3, CacheBound DEF Evicts
<1>4. /\ now \in Int /\ iat \in Int /\ Skew \in Nat /\ NonceTtl \in Nat /\ 2 * Skew <= NonceTtl
      /\ C \in Nat /\ setup.capacity \in Nat /\ MaxQueued \in Nat
  BY Settings, HandlersTyped, AfterFinite
<1>5. now - iat <= Skew
  OBVIOUS
<1>6. PushedOut(i) <=> setup.capacity < MaxQueued /\ C >= setup.capacity
  BY DEF PushedOut
<1>7. KeptIn(kept, i) <=> \E q \in DOMAIN kept : /\ kept[q].key = Nonce(handlers[i].env)
                                                /\ iat - Skew <= kept[q].ts
                                                /\ Len(kept) - q <= C
  BY DEF KeptIn
<1> HIDE DEF old, kept, iat, C
<1>8. now - old[p].ts <= NonceTtl
  BY <1>2, <1>3, <1>4, <1>5
<1>9. CASE p > Len(old) - setup.capacity
  <2>1. p - d \in DOMAIN kept /\ (p - d) + d = p /\ Len(kept) - (p - d) = Len(old) - p
    BY <1>3, <1>8, <1>9
  <2>2. kept[p - d] = old[p]
    BY <1>3, <2>1
  <2>3. KeptIn(kept, i)
    BY <1>2, <1>7, <2>1, <2>2
  <2> QED BY <2>3 DEF kept
<1>10. CASE ~(p > Len(old) - setup.capacity)
  BY <1>2, <1>3, <1>4, <1>6, <1>10
<1> QED BY <1>9, <1>10

\* Only a crash takes from the budget of crashes.
LEMMA CrashesStay ==
  ASSUME TrustInv, [Next]_vars, ~Crash
  PROVE  budget'.crashes = budget.crashes
<1>1. budget \in [plain : Int, duplicates : Int, crashes : Int, faults : Int]
  BY DEF TrustInv, TrustTypes
<1>2. \/ budget' = budget
      \/ budget' = [budget EXCEPT !.plain = @ - 1]
      \/ budget' = [budget EXCEPT !.duplicates = @ - 1]
      \/ budget' = [budget EXCEPT !.faults = @ - 1]
  <2>1. SubmitRecurring \/ CancelSchedule \/ PollFlag \/ PutFlagBack => budget' = budget
    BY DEF SubmitRecurring, CancelSchedule, PollFlag, PutFlagBack
  <2>2. Serve \/ Beside \/ Tick \/ PairFirst \/ UNCHANGED vars => budget' = budget
    BY DEF Serve, Beside, Tick, PairFirst, schedVars, vars
  <2>3. SubmitRemote => budget' = [budget EXCEPT !.plain = @ - 1]
    BY DEF SubmitRemote
  <2>4. Duplicate => budget' = [budget EXCEPT !.duplicates = @ - 1]
    BY DEF Duplicate
  <2>5. Deliver => budget' = budget
    BY DEF Deliver
  <2>6. ASSUME NEW i \in DOMAIN handlers, Handle(i) PROVE budget' = budget
    <3>1. Acquire(i) \/ Finish(i) \/ Check(i) \/ Unbuildable(i) \/ Record(i) => budget' = budget
      BY DEF Acquire, Finish, Check, Unbuildable, Record
    <3>2. Limits(i) \/ Nack(i) \/ Resubmit(i) => budget' = budget
      BY DEF Limits, Nack, Resubmit
    <3> QED BY <2>6, <3>1, <3>2 DEF Handle
  <2>7. ASSUME NEW i \in DOMAIN handlers, Fault(i)
        PROVE  budget' = [budget EXCEPT !.faults = @ - 1]
    BY <2>7 DEF Fault
  <2> QED BY <2>1, <2>2, <2>3, <2>4, <2>5, <2>6, <2>7 DEF Next
<1> QED BY <1>1, <1>2, Zenon

\* The sets of handlers stay while nothing is delivered.
LEMMA TasksSame ==
  ASSUME SameTasks
  PROVE  Accepted' = Accepted /\ Recorded' = Recorded
BY DEF SameTasks, Accepted, Recorded

\* One task, one envelope.
LEMMA SameNonce ==
  ASSUME IdentityInv, NEW e \in Sent, NEW f \in Sent,
         Nonce(e) = Nonce(f) \/ e.task.id = f.task.id
  PROVE  e = f
BY DEF IdentityInv, Nonce

\* A delivery that is accepted meets no nonce that is still held.
LEMMA AcceptedUnseen ==
  ASSUME TrustInv, BudgetInv, IdentityInv, CacheInv, FreshKept, Deliver, setup.signing,
         Verdict(Head(queue)) = "accepted",
         NEW i \in Accepted, handlers[i].era = budget.crashes,
         handlers[i].env = Head(queue)
  PROVE  PushedOut(i)
<1> DEFINE e == Head(queue)
<1>1. proc.up /\ proc.root # None
  BY DEF Deliver, TrustInv, CopiesAgree
<1>2. e \in SignedEnvelopes /\ i \in DOMAIN handlers
  BY SentDelivered, SentTyped DEF Accepted
<1>3. /\ now - e.iat <= Skew
      /\ \A p \in DOMAIN Evict(proc.nonces) : Evict(proc.nonces)[p].key # Nonce(e)
  BY <1>1, <1>2, RecordedFresh
<1>4. KeptIn(proc.nonces, i) \/ PushedOut(i)
  BY <1>1, <1>3 DEF FreshKept
<1>5. ~KeptIn(Evict(proc.nonces), i)
  BY <1>3 DEF KeptIn
<1> QED BY <1>2, <1>3, <1>4, <1>5, FreshSurvives

\* Where nothing is sent twice a delivery is of a task not accepted before.
LEMMA TaskOnceStep ==
  /\ TrustInv /\ PairInv /\ BudgetInv /\ IdentityInv /\ PlaceInv /\ CacheInv /\ FreshKept
  /\ TaskOnce /\ [Next]_vars
  => TaskOnce'
<1> SUFFICES ASSUME TrustInv, PairInv, BudgetInv, IdentityInv, PlaceInv, CacheInv, FreshKept,
                    TaskOnce, [Next]_vars, Unforked
             PROVE  \A i, j \in Accepted' :
                      handlers'[i].env.task.id = handlers'[j].env.task.id => i = j
  BY ClockStep DEF TaskOnce, Unforked
<1>1. CASE setup.duplicates = 0
  <2>1. PlaceInv' /\ setup' = setup
    BY PlaceStep, ClockStep
  <2> QED BY <1>1, <2>1 DEF PlaceInv, Accepted
<1>2. CASE ~Deliver
  <2>1. SameTasks
    BY <1>2, TasksStay
  <2> QED BY <2>1, TasksSame DEF TaskOnce, SameTasks, Accepted
<1>3. CASE Deliver /\ setup.signing /\ setup.crashes = 0 /\ setup.capacity >= MaxQueued
  <2> DEFINE n == Len(handlers) + 1
             e == Head(queue)
  <2>1. /\ n \notin DOMAIN handlers /\ DOMAIN handlers' = DOMAIN handlers \cup {n}
        /\ \A i \in DOMAIN handlers : handlers'[i] = handlers[i]
        /\ handlers'[n].env = e /\ handlers'[n].verdict = Verdict(e)
    BY <1>3, DeliverArrives DEF Arrived
  <2>2. ASSUME NEW i \in Accepted, handlers[i].env.task.id = e.task.id, Verdict(e) = "accepted"
        PROVE  FALSE
    <3>1. handlers[i].env \in Sent /\ e \in Sent /\ i \in DOMAIN handlers
      BY <1>3, SentDelivered DEF Sent, Accepted
    <3>2. handlers[i].env = e
      BY <2>2, <3>1, SameNonce
    <3>3. handlers[i].era = budget.crashes
      <4>1. handlers[i].era \in budget.crashes..0 /\ budget.crashes \in 0..0
        BY <1>3, <3>1 DEF BudgetInv
      <4> QED BY <4>1
    <3>4. PushedOut(i)
      BY <1>3, <2>2, <3>2, <3>3, AcceptedUnseen
    <3> QED BY <1>3, <3>4, Settings DEF PushedOut
  <2> HIDE DEF n, e
  <2>3. Accepted' = IF Verdict(e) = "accepted" THEN Accepted \cup {n} ELSE Accepted
    BY <2>1 DEF Accepted
  <2>4. \A i \in Accepted : handlers'[i] = handlers[i]
    BY <2>1 DEF Accepted
  <2> QED BY <2>1, <2>2, <2>3, <2>4 DEF TaskOnce
<1> QED BY <1>1, <1>2, <1>3 DEF Unforked

\* The handlers that a delivery leaves behind it.
LEMMA AfterDelivery ==
  ASSUME TrustInv, Deliver
  PROVE  LET n == Len(handlers) + 1
             v == Verdict(Head(queue))
             new == IF v \notin {"unsigned", "revoked", "stale", "replay"} THEN {n} ELSE {}
         IN  /\ Accepted' = IF v = "accepted" THEN Accepted \cup {n} ELSE Accepted
             /\ Recorded' = Recorded \cup new
             /\ \A i \in DOMAIN handlers : /\ i < n /\ After(i)' = After(i) \cup new
                                           /\ n \notin After(i)
<1> DEFINE n == Len(handlers) + 1
           v == Verdict(Head(queue))
           new == IF v \notin {"unsigned", "revoked", "stale", "replay"} THEN {n} ELSE {}
<1>1. /\ n \notin DOMAIN handlers /\ DOMAIN handlers' = DOMAIN handlers \cup {n}
      /\ \A i \in DOMAIN handlers : i < n /\ handlers'[i] = handlers[i]
      /\ handlers'[n].verdict = v
  BY DeliverArrives DEF Arrived
<1> HIDE DEF n, v
<1>2. Accepted' = IF v = "accepted" THEN Accepted \cup {n} ELSE Accepted
  BY <1>1 DEF Accepted
<1>3. Recorded' = Recorded \cup new
  BY <1>1 DEF Recorded
<1>4. ASSUME NEW i \in DOMAIN handlers
      PROVE  i < n /\ {k \in Recorded' : i < k} = After(i) \cup new /\ n \notin After(i)
  BY <1>1, <1>3 DEF After, Recorded
<1>5. \A i \in DOMAIN handlers : i < n /\ After(i)' = After(i) \cup new /\ n \notin After(i)
  BY <1>4 DEF After
<1> QED BY <1>2, <1>3, <1>5 DEF n, v

\* An envelope accepted a second time was pushed out of the cache in between.
LEMMA AcceptedOnceStep ==
  /\ TrustInv /\ PairInv /\ BudgetInv /\ IdentityInv /\ CacheInv /\ FreshKept
  /\ AcceptedOnce /\ [Next]_vars
  => AcceptedOnce'
<1> SUFFICES ASSUME TrustInv, PairInv, BudgetInv, IdentityInv, CacheInv, FreshKept,
                    AcceptedOnce, [Next]_vars,
                    NEW i \in Accepted', NEW j \in Accepted', i < j, setup.signing,
                    handlers'[i].era = handlers'[j].era,
                    Nonce(handlers'[i].env) = Nonce(handlers'[j].env)
             PROVE  Cardinality({k \in Recorded' : i < k /\ k < j}) >= setup.capacity
  BY ClockStep DEF AcceptedOnce, Nonce
<1>1. CASE ~Deliver
  <2>1. SameTasks
    BY <1>1, TasksStay
  <2>2. i \in Accepted /\ j \in Accepted /\ Recorded' = Recorded
    BY <2>1, TasksSame
  <2>3. handlers[i].era = handlers[j].era /\ Nonce(handlers[i].env) = Nonce(handlers[j].env)
    BY <2>1, <2>2 DEF SameTasks, Accepted
  <2> QED BY <2>2, <2>3 DEF AcceptedOnce
<1>2. CASE Deliver
  <2> DEFINE n == Len(handlers) + 1
             e == Head(queue)
  <2>1. /\ n \notin DOMAIN handlers /\ DOMAIN handlers' = DOMAIN handlers \cup {n}
        /\ \A k \in DOMAIN handlers : k < n /\ handlers'[k] = handlers[k]
        /\ handlers'[n].env = e /\ handlers'[n].verdict = Verdict(e)
        /\ handlers'[n].era = budget.crashes /\ n \in Nat
    BY <1>2, DeliverArrives, HandlersTyped DEF Arrived
  <2>2. Accepted \subseteq DOMAIN handlers /\ Recorded \subseteq DOMAIN handlers
    BY DEF Accepted, Recorded
  <2>3. \/ i \in Accepted /\ j \in Accepted
        \/ i \in Accepted /\ j = n /\ Verdict(e) = "accepted"
    <3>1. Accepted' = IF Verdict(e) = "accepted" THEN Accepted \cup {n} ELSE Accepted
      BY <1>2, AfterDelivery
    <3>2. i # n
      <4>1. j \in DOMAIN handlers \cup {n} /\ (j \in DOMAIN handlers => j \in Nat)
        BY <2>1, HandlersTyped DEF Accepted
      <4> HIDE DEF n
      <4> QED BY <2>1, <4>1
    <3> QED BY <3>1, <3>2
  <2>4. {k \in Recorded' : i < k /\ k < n} = After(i)
    <3>1. Recorded' = Recorded \/ Recorded' = Recorded \cup {n}
      BY <1>2, AfterDelivery
    <3> HIDE DEF n
    <3> QED BY <2>1, <2>2, <3>1 DEF After
  <2>5. CASE i \in Accepted /\ j \in Accepted
    <3>1. {k \in Recorded' : i < k /\ k < j} = {k \in Recorded : i < k /\ k < j}
      <4>1. Recorded' = Recorded \/ Recorded' = Recorded \cup {n}
        BY <1>2, AfterDelivery
      <4>2. j < n /\ j \in Nat
        BY <2>1, <2>2, <2>5, HandlersTyped
      <4> HIDE DEF n
      <4> QED BY <2>1, <4>1, <4>2
    <3>2. handlers'[i] = handlers[i] /\ handlers'[j] = handlers[j]
      BY <2>1, <2>2, <2>5
    <3> QED BY <2>5, <3>1, <3>2 DEF AcceptedOnce
  <2>6. CASE i \in Accepted /\ j = n /\ Verdict(e) = "accepted"
    <3>1. handlers'[i] = handlers[i] /\ handlers[i].env \in Sent /\ e \in Sent
      BY <1>2, <2>1, <2>2, <2>6, SentDelivered DEF Sent
    <3>2. handlers[i].env = e /\ handlers[i].era = budget.crashes
      BY <2>1, <2>6, <3>1, SameNonce
    <3>3. PushedOut(i)
      BY <1>2, <2>6, <3>2, AcceptedUnseen
    <3> QED BY <2>4, <2>6, <3>3 DEF PushedOut
  <2> QED BY <2>3, <2>5, <2>6
<1> QED BY <1>1, <1>2

\* A nonce leaves the cache when its envelope is stale or for want of room.
LEMMA FreshKeptStep ==
  /\ TrustInv /\ PairInv /\ BudgetInv /\ IdentityInv /\ CacheInv /\ FreshKept
  /\ TrustInv' /\ [Next]_vars
  => FreshKept'
<1> SUFFICES ASSUME TrustInv, PairInv, BudgetInv, IdentityInv, CacheInv, FreshKept,
                    TrustInv', [Next]_vars, setup.signing, proc'.up,
                    NEW i \in Accepted', handlers'[i].era = budget'.crashes,
                    now' - handlers'[i].env.iat <= Skew
             PROVE  KeptIn(proc.nonces, i)' \/ PushedOut(i)'
  BY ClockStep DEF FreshKept
<1>1. now' \in Int /\ now <= now' /\ now \in Int /\ Skew \in Int /\ setup' = setup
  BY ClockStep, Settings
<1>2. CASE ~Deliver
  <2>1. SameTasks
    BY <1>2, TasksStay
  <2>2. i \in Accepted /\ i \in DOMAIN handlers /\ Recorded' = Recorded
    BY <2>1, TasksSame DEF Accepted
  <2>3. /\ handlers'[i].env = handlers[i].env /\ handlers'[i].era = handlers[i].era
        /\ handlers[i].env.iat \in Int
    BY <2>1, <2>2, HandlersTyped DEF SameTasks
  <2>4. ~Crash /\ proc' = proc
    <3>1. ~Crash
      <4>1. proc \in [up : BOOLEAN, root : RootKeys, known : Registries, nonces : {proc.nonces}]
        BY DEF TrustInv, TrustTypes
      <4> QED BY <4>1 DEF Crash, StopProcess
    <3>2. ASSUME Serve, ~proc.up PROVE FALSE
      <4>1. budget' = budget
        BY <3>2 DEF Serve, schedVars
      <4> QED BY <2>2, <2>3, <3>2, <4>1 DEF BudgetInv
    <3> QED BY <1>2, <3>1, <3>2, NoncesStay
  <2>5. budget'.crashes = budget.crashes
    BY <2>4, CrashesStay
  <2>6. now - handlers[i].env.iat <= Skew
    BY <1>1, <2>3
  <2>7. KeptIn(proc.nonces, i) \/ PushedOut(i)
    BY <2>2, <2>3, <2>4, <2>5, <2>6 DEF FreshKept
  <2>8. After(i)' = After(i)
    BY <2>2 DEF After
  <2> QED BY <1>1, <2>3, <2>4, <2>7, <2>8 DEF KeptIn, PushedOut, Nonce
<1>3. CASE Deliver
  <2> DEFINE n == Len(handlers) + 1
             e == Head(queue)
             v == Verdict(e)
             kept == Evict(proc.nonces)
             recorded == v \notin {"unsigned", "revoked", "stale", "replay"}
             entry == [key |-> Nonce(e), ts |-> now]
  <2>1. /\ n \notin DOMAIN handlers
        /\ \A k \in DOMAIN handlers : k < n /\ handlers'[k] = handlers[k]
        /\ handlers'[n].env = e
    BY <1>3, DeliverArrives DEF Arrived
  <2>2. /\ Accepted' = IF v = "accepted" THEN Accepted \cup {n} ELSE Accepted
        /\ \A k \in DOMAIN handlers :
             After(k)' = After(k) \cup (IF recorded THEN {n} ELSE {}) /\ n \notin After(k)
    BY <1>3, AfterDelivery
  <2>3. proc.up /\ proc.root # None /\ now' = now /\ budget' = budget
    BY <1>3, NoncesDelivered DEF TrustInv, CopiesAgree
  <2>4. \/ v \in {"unsigned", "revoked", "stale"} /\ proc'.nonces = proc.nonces
        \/ v = "replay" /\ proc'.nonces = kept
        \/ recorded /\ proc'.nonces = Append(kept, entry)
    BY <1>3, <2>3, NoncesDelivered
  <2>5. e \in Sent /\ e \in SignedEnvelopes /\ e.iat \in Int
    BY <1>3, SentDelivered, SentTyped
  <2>6. recorded => e.iat - Skew <= now /\ InOrderOnce(Append(kept, entry))
          /\ Len(Append(kept, entry)) = Len(kept) + 1
          /\ \A p \in DOMAIN kept : p \in DOMAIN Append(kept, entry)
                                    /\ Append(kept, entry)[p] = kept[p]
          /\ Len(kept) + 1 \in DOMAIN Append(kept, entry)
          /\ Append(kept, entry)[Len(kept) + 1] = entry
    <3> SUFFICES ASSUME recorded
        PROVE  e.iat - Skew <= now /\ InOrderOnce(Append(kept, entry))
          /\ Len(Append(kept, entry)) = Len(kept) + 1
          /\ \A p \in DOMAIN kept : p \in DOMAIN Append(kept, entry)
                                    /\ Append(kept, entry)[p] = kept[p]
          /\ Len(kept) + 1 \in DOMAIN Append(kept, entry)
          /\ Append(kept, entry)[Len(kept) + 1] = entry
      OBVIOUS
    <3>1. e.iat - now <= Skew /\ \A p \in DOMAIN kept : kept[p].key # Nonce(e)
      BY <2>3, <2>5, RecordedFresh
    <3>2. InOrderOnce(kept)
      BY EvictInOrder
    <3>3. e.iat - Skew <= now
      BY <1>1, <2>5, <3>1
    <3> HIDE DEF e, kept
    <3> QED BY <2>5, <3>1, <3>2, <3>3, AddInOrder
  <2>7. Len(kept) \in Nat /\ DOMAIN kept \subseteq Int
    <3>1. kept \in Seq(Entries)
      BY EvictInOrder DEF InOrderOnce
    <3> QED BY <3>1
  <2>8. entry.key = Nonce(e) /\ entry.ts = now
    OBVIOUS
  <2>9. CASE i \in Accepted
    <3>1. i \in DOMAIN handlers /\ handlers'[i] = handlers[i]
      BY <2>1, <2>9 DEF Accepted
    <3>2. IsFiniteSet(After(i)) /\ Cardinality(After(i)) \in Nat
      BY <3>1, AfterFinite
    <3>3. Cardinality(After(i)') = IF recorded THEN Cardinality(After(i)) + 1
                                   ELSE Cardinality(After(i))
      <4>1. After(i)' = After(i) \cup (IF recorded THEN {n} ELSE {}) /\ n \notin After(i)
        BY <2>2, <3>1
      <4> HIDE DEF n, recorded
      <4>2. CASE recorded
        BY <3>2, <4>1, <4>2, FS_AddElement
      <4>3. CASE ~recorded
        BY <4>1, <4>3
      <4> QED BY <4>2, <4>3
    <3>4. PushedOut(i) => PushedOut(i)'
      <4>1. setup.capacity \in Nat
        BY Settings
      <4>2. Cardinality(After(i)') >= Cardinality(After(i)) /\ Cardinality(After(i)') \in Nat
        BY <3>2, <3>3
      <4> QED BY <1>1, <3>2, <4>1, <4>2 DEF PushedOut
    <3>5. KeptIn(proc.nonces, i) \/ PushedOut(i)
      BY <1>1, <2>3, <2>9, <3>1 DEF FreshKept
    <3>6. ASSUME KeptIn(proc.nonces, i), v \in {"unsigned", "revoked", "stale"},
                 proc'.nonces = proc.nonces
          PROVE  KeptIn(proc.nonces, i)'
      BY <3>1, <3>3, <3>6 DEF KeptIn, Nonce
    <3>7. KeptIn(proc.nonces, i) => KeptIn(kept, i) \/ PushedOut(i)
      BY <1>1, <2>3, <3>1, FreshSurvives
    <3>8. ASSUME KeptIn(kept, i), v = "replay", proc'.nonces = kept
          PROVE  KeptIn(proc.nonces, i)'
      <4> HIDE DEF kept
      <4> QED BY <3>1, <3>3, <3>8 DEF KeptIn, Nonce
    <3>9. ASSUME KeptIn(kept, i), recorded, proc'.nonces = Append(kept, entry)
          PROVE  KeptIn(proc.nonces, i)'
      <4> DEFINE s == Append(kept, entry)
      <4>1. PICK p \in DOMAIN kept :
               /\ kept[p].key = Nonce(handlers[i].env)
               /\ handlers[i].env.iat - Skew <= kept[p].ts
               /\ Len(kept) - p <= Cardinality(After(i))
        BY <3>9 DEF KeptIn
      <4>2. p \in DOMAIN s /\ s[p] = kept[p] /\ Len(s) = Len(kept) + 1
        BY <2>6, <3>9
      <4> HIDE DEF kept, entry, recorded
      <4>3. Len(s) - p <= Cardinality(After(i)')
        BY <2>7, <3>2, <3>3, <3>9, <4>1, <4>2
      <4> HIDE DEF s
      <4>4. proc'.nonces = s
        BY <3>9 DEF s
      <4> QED BY <3>1, <4>1, <4>2, <4>3, <4>4 DEF KeptIn, Nonce
    <3> HIDE DEF kept, recorded, v, entry
    <3> QED BY <2>4, <3>4, <3>5, <3>6, <3>7, <3>8, <3>9
  <2>10. CASE i = n /\ v = "accepted"
    <3> DEFINE s == Append(kept, entry)
    <3>1. proc'.nonces = s /\ recorded
      BY <2>4, <2>10
    <3>2. Len(s) \in DOMAIN s /\ s[Len(s)].key = Nonce(e) /\ e.iat - Skew <= s[Len(s)].ts
          /\ Len(s) \in Nat
      <4> HIDE DEF kept, entry, recorded, e
      <4> QED BY <2>6, <2>7, <2>8, <3>1
    <3>3. Cardinality(After(i)') \in Nat
      <4>1. \A k \in Recorded' : k \in Int /\ k <= n
        BY <1>3, DeliverArrives, HandlersTyped DEF Arrived, Recorded
      <4>2. n \in Int
        BY HandlersTyped
      <4> HIDE DEF n
      <4>3. After(i)' = {}
        BY <2>10, <4>1, <4>2 DEF After
      <4> QED BY <4>3, FS_EmptySet
    <3> HIDE DEF s, e
    <3>4. Len(s) - Len(s) <= Cardinality(After(i)')
      BY <3>2, <3>3
    <3> QED BY <2>1, <2>10, <3>1, <3>2, <3>4 DEF KeptIn, Nonce
  <2> QED BY <2>2, <2>9, <2>10
<1> QED BY <1>2, <1>3

-----------------------------------------------------------------------------
(* The chain of occurrences.                                               *)

\* Where the limits and the flag send a handler.
LimitsEnd(i) ==
  IF handlers[i].env.task.n = 0 THEN "done"
  ELSE IF Exhausted(handlers[i].env.task) THEN "exhausted"
  ELSE IF ~FlagSeen THEN "submit"
  ELSE IF setup.backend = "rabbitmq" THEN "put back" ELSE "cancelled"

\* What Limits does to the handler, the flag and the count of missed flags.
LEMMA LimitsEffect ==
  ASSUME TrustInv, NEW i \in DOMAIN handlers, Limits(i)
  PROVE  /\ MovedTo(i, LimitsEnd(i), handlers[i].start, handlers[i].cooled)
         /\ flag' = (flag \/ LimitsEnd(i) = "exhausted")
         /\ held' = (held \/ LimitsEnd(i) = "put back")
         /\ cancel' = IF flag /\ LimitsEnd(i) = "submit"
                        THEN [cancel EXCEPT !.missed = @ + 1] ELSE cancel
<1> DEFINE g == [handlers[i] EXCEPT !.pc = LimitsEnd(i), !.next = now + setup.interval]
<1>1. /\ handlers' = [handlers EXCEPT ![i].pc = LimitsEnd(i), ![i].next = now + setup.interval]
      /\ flag' = (flag \/ LimitsEnd(i) = "exhausted")
      /\ held' = (held \/ LimitsEnd(i) = "put back")
      /\ cancel' = IF flag /\ LimitsEnd(i) = "submit"
                     THEN [cancel EXCEPT !.missed = @ + 1] ELSE cancel
  BY DEF Limits, LimitsEnd
<1>2. handlers[i] \in Handlers
  BY HandlersTyped
<1>3. handlers' = [handlers EXCEPT ![i] = g]
  BY <1>1
<1>4. /\ g.env = handlers[i].env /\ g.verdict = handlers[i].verdict /\ g.era = handlers[i].era
      /\ g.pc = LimitsEnd(i) /\ g.start = handlers[i].start /\ g.cooled = handlers[i].cooled
  BY <1>2 DEF Handlers
<1> HIDE DEF g
<1>5. MovedTo(i, LimitsEnd(i), handlers[i].start, handlers[i].cooled)
  BY <1>3, <1>4, Replaced
<1> QED BY <1>1, <1>5

\* How a handler that was there goes on.
LEMMA PointsStep ==
  ASSUME TrustInv, [Next]_vars, NEW i \in DOMAIN handlers
  PROVE  /\ handlers[i].pc = "next" => handlers'[i].pc = "next"
         /\ handlers'[i].pc \in {"sleep", "check"} => handlers[i].pc \in {"sleep", "check"}
         /\ handlers'[i].pc = "submit" =>
              \/ handlers[i].pc = "submit"
              \/ Limits(i) /\ LimitsEnd(i) = "submit"
         /\ handlers'[i].pc = "put back" =>
              \/ handlers[i].pc = "put back"
              \/ Limits(i) /\ LimitsEnd(i) = "put back"
<1>1. CASE Beyond
  BY <1>1, BeyondHandlers
<1>2. CASE Deliver
  BY <1>2, DeliverArrives DEF Arrived
<1>3. CASE Crash
  BY <1>3, CrashDrops DEF Dropped, Live
<1>4. ASSUME NEW j \in DOMAIN handlers, Handle(j) \/ Fault(j)
      PROVE  /\ handlers[i].pc = "next" => handlers'[i].pc = "next"
             /\ handlers'[i].pc \in {"sleep", "check"} => handlers[i].pc \in {"sleep", "check"}
             /\ handlers'[i].pc = "submit" =>
                  \/ handlers[i].pc = "submit"
                  \/ Limits(i) /\ LimitsEnd(i) = "submit"
             /\ handlers'[i].pc = "put back" =>
                  \/ handlers[i].pc = "put back"
                  \/ Limits(i) /\ LimitsEnd(i) = "put back"
  <2>1. CASE Limits(j)
    <3>1. handlers[j].pc = "limits" /\ handlers'[j].pc = LimitsEnd(j)
          /\ (i # j => handlers'[i] = handlers[i])
      BY <2>1, LimitsEffect DEF MovedTo, Limits
    <3>2. LimitsEnd(j) \notin {"sleep", "check"}
      BY DEF LimitsEnd
    <3> QED BY <2>1, <3>1, <3>2
  <2>2. CASE ~Limits(j)
    BY <1>4, <2>2, HandlerPath DEF Handle, MovedTo
  <2> QED BY <2>1, <2>2
<1> QED BY <1>1, <1>2, <1>3, <1>4, StepKinds

\* An occurrence that was carried on stays so.
LEMMA PassedStays ==
  ASSUME TrustInv, [Next]_vars, NEW e, Passed(e)
  PROVE  Passed(e)'
<1>1. PICK i \in Accepted : handlers[i].env = e /\ handlers[i].pc = "next"
  BY DEF Passed
<1>2. i \in DOMAIN handlers
  BY DEF Accepted
<1>3. /\ i \in DOMAIN handlers' /\ handlers'[i].env = e
      /\ handlers'[i].verdict = handlers[i].verdict /\ handlers'[i].pc = "next"
  BY <1>1, <1>2, HandlerNotes, PointsStep
<1> QED BY <1>1, <1>3 DEF Passed, Accepted

\* The handler that submits the next occurrence holds the last one so far.
LEMMA ResubmitsLast ==
  ASSUME TrustInv, StageInv, IdentityInv, TaskOnce, ChainInv, CountInv, Unforked,
         NEW i \in DOMAIN handlers, Resubmit(i), NEW h, h = handlers[i].env
  PROVE  /\ h \in Sent /\ h.task.n > 0 /\ ~Passed(h) /\ Passed(h)'
         /\ \A f \in Sent : f.task.n <= h.task.n
<1>1. handlers[i].pc = "submit" /\ i \in Accepted /\ h \in Sent
  BY DEF Resubmit, StageInv, Accepted, Sent
<1>2. h.task.n > 0
  BY <1>1 DEF CountInv
<1>3. ~Passed(h)
  BY <1>1 DEF Passed, TaskOnce
<1>4. Passed(h)'
  BY <1>1, HandlerPath DEF Passed, MovedTo, SameTasks, Accepted
<1> QED BY <1>1, <1>2, <1>3, <1>4 DEF ChainInv

\* A new number is that of the tip and one more, and the tip is carried on once.
LEMMA ChainStep ==
  /\ TrustInv /\ PairInv /\ StageInv /\ IdentityInv /\ TaskOnce /\ CountInv
  /\ ChainInv /\ [Next]_vars
  => ChainInv'
<1> SUFFICES ASSUME TrustInv, PairInv, StageInv, IdentityInv, TaskOnce, CountInv, ChainInv,
                    [Next]_vars, Unforked
             PROVE  /\ \A e, f \in Sent' : e.task.n = f.task.n /\ e.task.n > 0 => e = f
                    /\ \A e, f \in Sent' : e.task.n > 0 /\ ~Passed(e)' => f.task.n <= e.task.n
  BY ClockStep DEF ChainInv, Unforked
<1>1. /\ \A e, f \in Sent : e.task.n = f.task.n /\ e.task.n > 0 => e = f
      /\ \A e, f \in Sent : e.task.n > 0 /\ ~Passed(e)' => f.task.n <= e.task.n
  BY PassedStays DEF ChainInv
<1>2. \A e \in Sent : e.task.n \in Nat
  BY DEF IdentityInv
<1>3. CASE Sent' = Sent
  BY <1>1, <1>3
<1>4. ASSUME NEW g, Submission(g), Follows(g), Sent' = Sent \cup {g}
      PROVE  /\ \A e, f \in Sent' : e.task.n = f.task.n /\ e.task.n > 0 => e = f
             /\ \A e, f \in Sent' : e.task.n > 0 /\ ~Passed(e)' => f.task.n <= e.task.n
  <2>1. CASE submitted = 0
    <3>1. Sent = {}
      BY <2>1 DEF IdentityInv
    <3>2. \A i \in DOMAIN handlers : handlers[i].env \in Sent
      BY DEF Sent
    <3>3. g.task.n \in Int
      BY <1>4, <3>1, <3>2 DEF Follows
    <3> QED BY <1>4, <3>1, <3>3
  <2>2. CASE g.task.n = 0
    BY <1>1, <1>2, <1>4, <2>2
  <2>3. ASSUME NEW i \in DOMAIN handlers, Resubmit(i), g.task.n = handlers[i].env.task.n + 1
        PROVE  /\ \A e, f \in Sent' : e.task.n = f.task.n /\ e.task.n > 0 => e = f
               /\ \A e, f \in Sent' : e.task.n > 0 /\ ~Passed(e)' => f.task.n <= e.task.n
    <3>0. PICK h : h = handlers[i].env
      OBVIOUS
    <3>1. /\ h \in Sent /\ h.task.n > 0 /\ h.task.n \in Nat /\ Passed(h)'
          /\ \A f \in Sent : f.task.n <= h.task.n
      BY <1>2, <2>3, <3>0, ResubmitsLast
    <3>2. \A f \in Sent : f.task.n < g.task.n
      BY <1>2, <2>3, <3>0, <3>1
    <3>3. ASSUME NEW e \in Sent, e.task.n > 0, ~Passed(e)' PROVE FALSE
      <4>1. h.task.n <= e.task.n /\ e.task.n <= h.task.n
        BY <1>1, <3>1, <3>3
      <4>2. e.task.n = h.task.n
        BY <1>2, <3>1, <4>1
      <4>3. e = h
        BY <1>1, <3>1, <3>3, <4>2
      <4> QED BY <3>1, <3>3, <4>3
    <3>4. g.task.n \in Nat
      BY <2>3, <3>0, <3>1
    <3>5. \A e, f \in Sent' : e.task.n = f.task.n /\ e.task.n > 0 => e = f
      BY <1>1, <1>2, <1>4, <3>2, <3>4
    <3>6. \A e, f \in Sent' : e.task.n > 0 /\ ~Passed(e)' => f.task.n <= e.task.n
      BY <1>2, <1>4, <3>2, <3>3, <3>4
    <3> QED BY <3>5, <3>6
  <2> QED BY <1>4, <2>1, <2>2, <2>3 DEF Follows
<1> QED BY <1>3, <1>4, SentStep

\* What is left of max_runs is counted down with the numbers.
LEMMA CountStep ==
  TrustInv /\ PairInv /\ IdentityInv /\ CountInv /\ [Next]_vars => CountInv'
<1> SUFFICES ASSUME TrustInv, PairInv, IdentityInv, CountInv, [Next]_vars PROVE CountInv'
  OBVIOUS
<1>1. setup' = setup /\ setup.runs \in Nat
  BY ClockStep, Settings
<1>2. \A e \in Sent : e.task.n \in Nat /\ e.task.left \in Int
  BY SentTyped DEF IdentityInv
<1>3. ASSUME NEW e \in Sent', e.task.n > 0, setup.runs > 0
      PROVE  e.task.n <= setup.runs /\ e.task.left = setup.runs + 1 - e.task.n
  <2>1. CASE e \in Sent
    BY <1>3, <2>1 DEF CountInv
  <2>2. CASE e \notin Sent
    <3>1. Follows(e)
      BY <2>2, SentStep
    <3>2. CASE e.task.n = 1 /\ e.task.left = setup.runs
      BY <1>1, <1>3, <3>2
    <3>3. ASSUME NEW i \in DOMAIN handlers, Resubmit(i),
                 e.task.n = handlers[i].env.task.n + 1,
                 e.task.left = handlers[i].env.task.left - 1
          PROVE  e.task.n <= setup.runs /\ e.task.left = setup.runs + 1 - e.task.n
      <4> DEFINE t == handlers[i].env.task
      <4>1. handlers[i].env \in Sent /\ t.n \in Nat /\ t.left \in Int
        BY <1>2 DEF Sent
      <4>2. t.n > 0 /\ t.left > 1
        BY <1>3, <3>3 DEF Resubmit, CountInv
      <4>3. t.left = setup.runs + 1 - t.n
        BY <1>3, <4>1, <4>2 DEF CountInv
      <4> HIDE DEF t
      <4>4. e.task.n = t.n + 1 /\ e.task.left = t.left - 1
        BY <3>3 DEF t
      <4> QED BY <1>1, <4>1, <4>2, <4>3, <4>4
    <3> QED BY <1>3, <3>1, <3>2, <3>3 DEF Follows
  <2> QED BY <2>1, <2>2
<1>4. ASSUME NEW i \in DOMAIN handlers', handlers'[i].pc = "submit"
      PROVE  handlers'[i].env.task.n > 0
             /\ (setup.runs > 0 => handlers'[i].env.task.left > 1)
  <2>1. i \in DOMAIN handlers
    <3>1. CASE Deliver
      BY <1>4, <3>1, DeliverArrives DEF Arrived
    <3> QED BY <3>1, TasksStay DEF SameTasks
  <2>2. handlers'[i].env = handlers[i].env /\ handlers[i].env \in Sent
    BY <2>1, HandlerNotes DEF Sent
  <2>3. CASE handlers[i].pc = "submit"
    BY <2>1, <2>2, <2>3 DEF CountInv
  <2>4. CASE LimitsEnd(i) = "submit"
    <3>1. handlers[i].env.task.n # 0 /\ ~Exhausted(handlers[i].env.task)
      BY <2>4 DEF LimitsEnd
    <3> QED BY <1>2, <2>2, <3>1 DEF Exhausted
  <2> QED BY <1>4, <2>1, <2>3, <2>4, PointsStep
<1> QED BY <1>1, <1>3, <1>4 DEF CountInv

\* Only what was accepted is executed.
LEMMA StartedAccepted ==
  ASSUME StageInv
  PROVE  Started \subseteq Accepted
BY DEF StageInv, Started, Accepted

\* What the invariant says of the numbers makes the occurrences one chain.
LEMMA ChainHolds ==
  ASSUME TrustInv, StageInv, IdentityInv, TaskOnce, ChainInv, CountInv
  PROVE  OneChain
<1> SUFFICES ASSUME Unforked PROVE
      /\ \A i, j \in Started :
           \/ handlers[i].env.task.id = handlers[j].env.task.id
           \/ handlers[i].env.task.n = handlers[j].env.task.n /\ handlers[i].env.task.n > 0
           => i = j
      /\ setup.runs > 0 =>
           Cardinality({i \in Started : handlers[i].env.task.n > 0}) <= setup.runs
  BY DEF OneChain
<1>1. \A i \in Started : i \in Accepted /\ i \in DOMAIN handlers /\ handlers[i].env \in Sent
  BY StartedAccepted DEF Accepted, Sent
<1>2. ASSUME NEW i \in Started, NEW j \in Started,
             \/ handlers[i].env.task.id = handlers[j].env.task.id
             \/ handlers[i].env.task.n = handlers[j].env.task.n /\ handlers[i].env.task.n > 0
      PROVE  i = j
  <2>1. handlers[i].env.task.id = handlers[j].env.task.id
    BY <1>1, <1>2 DEF ChainInv
  <2> QED BY <1>1, <2>1 DEF TaskOnce
<1>3. ASSUME setup.runs > 0
      PROVE  Cardinality({i \in Started : handlers[i].env.task.n > 0}) <= setup.runs
  <2> DEFINE R == {i \in Started : handlers[i].env.task.n > 0}
             f == [i \in R |-> handlers[i].env.task.n]
  <2>1. setup.runs \in Nat
    BY Settings
  <2>2. \A i \in R : handlers[i].env.task.n \in 1..setup.runs
    BY <1>1, <1>3, <2>1 DEF CountInv, IdentityInv
  <2>3. f \in [R -> 1..setup.runs]
    BY <2>2
  <2>4. \A i, j \in R : f[i] = f[j] => i = j
    BY <1>2
  <2>5. f \in Injection(R, 1..setup.runs)
    <3> HIDE DEF f, R
    <3> QED BY <2>3, <2>4 DEF Injection, IsInjective
  <2>6. IsFiniteSet(1..setup.runs) /\ Cardinality(1..setup.runs) = setup.runs
    <3>1. 1 \in Int /\ setup.runs \in Int
      BY <2>1
    <3>2. /\ IsFiniteSet(1..setup.runs)
          /\ Cardinality(1..setup.runs) = IF 1 > setup.runs THEN 0 ELSE setup.runs - 1 + 1
      BY <3>1, FS_Interval
    <3> QED BY <1>3, <2>1, <3>2
  <2>7. Cardinality(R) <= Cardinality(1..setup.runs)
    <3> HIDE DEF R, f
    <3> QED BY <2>5, <2>6, FS_Injection
  <2> QED BY <2>6, <2>7
<1> QED BY <1>2, <1>3

-----------------------------------------------------------------------------
(* The cancellation.                                                       *)

\* Seven actions touch the cancellation or its flag, the others do not.
LEMMA CancelStays ==
  ASSUME [Next]_vars, ~CancelSchedule, ~PollFlag, ~PutFlagBack, ~Crash,
         \A i \in DOMAIN handlers : ~Check(i) /\ ~Limits(i) /\ ~Nack(i)
  PROVE  UNCHANGED <<cancel, flag, held>>
<1>1. SubmitRecurring \/ SubmitRemote \/ Duplicate => UNCHANGED <<cancel, flag, held>>
  BY DEF SubmitRecurring, SubmitRemote, Duplicate
<1>2. Serve \/ Beside \/ Tick \/ PairFirst \/ UNCHANGED vars => UNCHANGED <<cancel, flag, held>>
  BY DEF Serve, Beside, Tick, PairFirst, schedVars, vars
<1>3. Deliver => UNCHANGED <<cancel, flag, held>>
  BY DEF Deliver
<1>4. ASSUME NEW i \in DOMAIN handlers, Acquire(i) \/ Finish(i) \/ Record(i)
      PROVE  UNCHANGED <<cancel, flag, held>>
  BY <1>4 DEF Acquire, Finish, Record
<1>5. ASSUME NEW i \in DOMAIN handlers, Resubmit(i) \/ Unbuildable(i) \/ Fault(i)
      PROVE  UNCHANGED <<cancel, flag, held>>
  BY <1>5 DEF Resubmit, Unbuildable, Fault
<1> QED BY <1>1, <1>2, <1>3, <1>4, <1>5 DEF Next, Handle

\* What a step does to cancel(), to the flag and to who holds it.
CancelEffects ==
  \/ /\ UNCHANGED <<cancel, flag>>
     /\ held' = held \/ held' = FALSE \/ held' = (cancel.pc = "put back")
  \/ /\ cancel.pc = "idle" /\ submitted > 0 /\ flag' = TRUE /\ held' = held
     /\ cancel'.pc = "poll" /\ cancel'.starts = cancel.starts /\ cancel'.missed = cancel.missed
  \/ /\ cancel.pc # "idle" /\ flag' = flag /\ cancel'.pc \in {"put back", "done"}
     /\ held' \in BOOLEAN /\ (held' \/ cancel'.pc = "put back" => setup.backend = "rabbitmq")
     /\ cancel'.starts = cancel.starts /\ cancel'.missed = cancel.missed
  \/ \E i \in DOMAIN handlers :
       /\ Check(i) /\ flag' = flag /\ held' = held /\ cancel.pc # "idle"
       /\ cancel'.pc = cancel.pc /\ cancel'.missed = cancel.missed
       /\ cancel'.starts = cancel.starts + 1 /\ handlers'[i].pc = "run"
  \/ \E i \in DOMAIN handlers :
       /\ Limits(i) /\ flag' = (flag \/ LimitsEnd(i) = "exhausted")
       /\ held' = (held \/ LimitsEnd(i) = "put back")
       /\ cancel'.pc = cancel.pc /\ cancel'.starts = cancel.starts
       /\ cancel'.missed = IF flag /\ LimitsEnd(i) = "submit"
                             THEN cancel.missed + 1 ELSE cancel.missed

CancelTypes == [pc : {"idle", "poll", "put back", "done"}, starts : Nat, missed : Nat]

\* A step does one of the things CancelEffects lists.
LEMMA CancelStep ==
  ASSUME TrustInv, FlagInv, [Next]_vars
  PROVE  CancelEffects /\ cancel' \in CancelTypes
<1>1. cancel \in CancelTypes
  BY DEF FlagInv, CancelTypes
<1>2. cancel.starts \in Nat /\ cancel.missed \in Nat
  BY <1>1, Zenon DEF CancelTypes
<1>3. cancel.starts + 1 \in Nat /\ cancel.missed + 1 \in Nat
  BY <1>2
<1> DEFINE Result == CancelEffects /\ cancel' \in CancelTypes
<1>4. ASSUME UNCHANGED <<cancel, flag>>,
             held' = held \/ held' = FALSE \/ held' = (cancel.pc = "put back")
      PROVE  Result
  BY <1>1, <1>4 DEF CancelEffects
<1>5. CASE CancelSchedule
  <2>1. /\ cancel.pc = "idle" /\ submitted > 0 /\ flag' = TRUE /\ held' = held
        /\ cancel' = [cancel EXCEPT !.pc = "poll"]
    BY <1>5 DEF CancelSchedule
  <2>2. /\ cancel'.pc = "poll" /\ cancel'.starts = cancel.starts
        /\ cancel'.missed = cancel.missed /\ cancel' \in CancelTypes
    BY <1>1, <2>1 DEF CancelTypes
  <2> QED BY <2>1, <2>2 DEF CancelEffects
<1>6. CASE PollFlag
  <2>1. /\ cancel.pc # "idle" /\ flag' = flag /\ held' = (setup.backend = "rabbitmq")
        /\ cancel' = [cancel EXCEPT !.pc = IF held' THEN "put back" ELSE "done"]
    BY <1>6 DEF PollFlag
  <2>2. /\ cancel'.pc = IF held' THEN "put back" ELSE "done"
        /\ cancel'.starts = cancel.starts
        /\ cancel'.missed = cancel.missed /\ cancel' \in CancelTypes
    BY <1>1, <2>1 DEF CancelTypes
  <2>3. held' \in BOOLEAN /\ (held' => setup.backend = "rabbitmq")
    BY <2>1, Zenon
  <2>4. cancel'.pc = "put back" => held'
    BY <2>2
  <2>5. cancel'.pc \in {"put back", "done"}
    BY <2>2
  <2> QED BY <2>1, <2>2, <2>3, <2>4, <2>5, Zenon DEF CancelEffects
<1>7. CASE PutFlagBack
  <2>1. /\ cancel.pc # "idle" /\ flag' = flag /\ held' = FALSE
        /\ cancel' = [cancel EXCEPT !.pc = "done"]
    BY <1>7 DEF PutFlagBack
  <2>2. /\ cancel'.pc = "done" /\ cancel'.starts = cancel.starts
        /\ cancel'.missed = cancel.missed /\ cancel' \in CancelTypes
    BY <1>1, <2>1 DEF CancelTypes
  <2> QED BY <2>1, <2>2 DEF CancelEffects
<1>8. CASE Crash
  <2>1. UNCHANGED <<cancel, flag>> /\ held' = (cancel.pc = "put back")
    BY <1>8 DEF Crash
  <2> QED BY <1>4, <2>1
<1>9. ASSUME NEW i \in DOMAIN handlers, Check(i) PROVE Result
  <2>1. flag' = flag /\ held' = held
    BY <1>9 DEF Check
  <2>2. \/ cancel' = cancel
        \/ /\ cancel.pc # "idle" /\ cancel' = [cancel EXCEPT !.starts = @ + 1]
           /\ handlers' = [handlers EXCEPT ![i].pc = "run", ![i].start = now]
    BY <1>9 DEF Check
  <2>3. CASE cancel' = cancel
    BY <1>4, <2>1, <2>3
  <2>4. CASE /\ cancel.pc # "idle" /\ cancel' = [cancel EXCEPT !.starts = @ + 1]
             /\ handlers' = [handlers EXCEPT ![i].pc = "run", ![i].start = now]
    <3>1. /\ cancel'.pc = cancel.pc /\ cancel'.starts = cancel.starts + 1
          /\ cancel'.missed = cancel.missed /\ cancel' \in CancelTypes
      BY <1>1, <1>3, <2>4, Zenon DEF CancelTypes
    <3>2. handlers'[i].pc = "run"
      BY <2>4, HandlersTyped DEF Handlers
    <3> QED BY <1>9, <2>1, <2>4, <3>1, <3>2 DEF CancelEffects
  <2> QED BY <2>2, <2>3, <2>4
<1>10. ASSUME NEW i \in DOMAIN handlers, Limits(i) PROVE Result
  <2>1. /\ flag' = (flag \/ LimitsEnd(i) = "exhausted")
        /\ held' = (held \/ LimitsEnd(i) = "put back")
        /\ cancel' = IF flag /\ LimitsEnd(i) = "submit"
                       THEN [cancel EXCEPT !.missed = @ + 1] ELSE cancel
    BY <1>10, LimitsEffect
  <2>2. ASSUME cancel' = [cancel EXCEPT !.missed = @ + 1]
        PROVE  /\ cancel'.pc = cancel.pc /\ cancel'.starts = cancel.starts
               /\ cancel'.missed = cancel.missed + 1 /\ cancel' \in CancelTypes
    BY <1>1, <1>3, <2>2, Zenon DEF CancelTypes
  <2>3. /\ cancel'.pc = cancel.pc /\ cancel'.starts = cancel.starts
        /\ cancel'.missed = IF flag /\ LimitsEnd(i) = "submit"
                              THEN cancel.missed + 1 ELSE cancel.missed
        /\ cancel' \in CancelTypes
    BY <1>1, <2>1, <2>2
  <2> QED BY <1>10, <2>1, <2>3 DEF CancelEffects
<1>11. ASSUME NEW i \in DOMAIN handlers, Nack(i) PROVE Result
  <2>1. UNCHANGED <<cancel, flag>> /\ held' = FALSE
    BY <1>11 DEF Nack
  <2> QED BY <1>4, <2>1
<1>12. CASE /\ ~CancelSchedule /\ ~PollFlag /\ ~PutFlagBack /\ ~Crash
            /\ \A i \in DOMAIN handlers : ~Check(i) /\ ~Limits(i) /\ ~Nack(i)
  BY <1>4, <1>12, CancelStays
<1> QED BY <1>5, <1>6, <1>7, <1>8, <1>9, <1>10, <1>11, <1>12

\* The flag stays once it is set, and cancel() is called after a submission.
LEMMA FlagStep ==
  TrustInv /\ PairInv /\ IdentityInv /\ FlagInv /\ [Next]_vars => FlagInv'
<1> SUFFICES ASSUME TrustInv, PairInv, IdentityInv, FlagInv, [Next]_vars PROVE FlagInv'
  OBVIOUS
<1>1. submitted \in Nat /\ submitted' \in Nat /\ submitted <= submitted'
  <2>1. submitted' = submitted \/ submitted' = submitted + 1
    BY SentStep DEF Submission
  <2> QED BY <2>1, Settings DEF IdentityInv
<1>2. CancelEffects /\ cancel' \in CancelTypes
  BY CancelStep
<1>3. flag' \in BOOLEAN /\ held' \in BOOLEAN
  BY <1>2 DEF CancelEffects, FlagInv
<1>4. /\ cancel'.pc = "idle" => cancel.pc = "idle" /\ cancel'.starts = cancel.starts
      /\ cancel'.pc # "idle" => flag' /\ submitted' > 0
  <2>1. flag => flag'
    BY <1>2, Zenon DEF CancelEffects
  <2>2. /\ cancel'.pc = "idle" => cancel.pc = "idle" /\ cancel'.starts = cancel.starts
        /\ cancel'.pc # "idle" => cancel.pc # "idle" \/ (submitted > 0 /\ flag')
    BY <1>2 DEF CancelEffects
  <2>3. cancel.pc # "idle" => flag /\ submitted > 0
    BY DEF FlagInv
  <2>4. submitted > 0 => submitted' > 0
    BY <1>1
  <2> QED BY <2>1, <2>2, <2>3, <2>4, Zenon
<1> QED BY <1>2, <1>3, <1>4 DEF FlagInv, CancelTypes

\* Over the other brokers nobody holds the flag.
LEMMA HeldStep == TrustInv /\ FlagInv /\ HeldInv /\ [Next]_vars => HeldInv'
<1> SUFFICES ASSUME TrustInv, FlagInv, HeldInv, [Next]_vars, setup.backend # "rabbitmq"
             PROVE  /\ ~held' /\ cancel'.pc # "put back" /\ ~(cancel'.missed > 0)
                    /\ \A i \in DOMAIN handlers' : handlers'[i].pc # "put back"
  BY ClockStep DEF HeldInv
<1>1. /\ ~held /\ cancel.pc # "put back" /\ ~(cancel.missed > 0)
      /\ \A i \in DOMAIN handlers : handlers[i].pc # "put back"
  BY DEF HeldInv
<1>2. \A i \in DOMAIN handlers :
        LimitsEnd(i) # "put back" /\ (flag => LimitsEnd(i) # "submit")
  BY <1>1 DEF LimitsEnd, FlagSeen, FlagInv
<1>3. ~held' /\ cancel'.pc # "put back" /\ ~(cancel'.missed > 0)
  <2>1. CancelEffects
    BY CancelStep
  <2>2. held' => held \/ cancel.pc = "put back" \/ setup.backend = "rabbitmq"
                   \/ \E i \in DOMAIN handlers : LimitsEnd(i) = "put back"
    BY <2>1, Zenon DEF CancelEffects
  <2>3. cancel'.pc = "put back" => cancel.pc = "put back" \/ setup.backend = "rabbitmq"
    BY <2>1 DEF CancelEffects
  <2>4. cancel'.missed = cancel.missed
          \/ \E i \in DOMAIN handlers : flag /\ LimitsEnd(i) = "submit"
    BY <2>1 DEF CancelEffects
  <2> QED BY <1>1, <1>2, <2>2, <2>3, <2>4
<1>4. ASSUME NEW i \in DOMAIN handlers' PROVE handlers'[i].pc # "put back"
  <2>1. CASE i \in DOMAIN handlers
    BY <1>1, <1>2, <2>1, PointsStep
  <2>2. CASE i \notin DOMAIN handlers
    <3>1. Deliver
      BY <2>2, TasksStay DEF SameTasks
    <3> QED BY <2>2, <3>1, DeliverArrives DEF Arrived
  <2> QED BY <2>1, <2>2
<1> QED BY <1>3, <1>4

\* No step but a look that misses the flag makes an occurrence pending, once
\* the schedule is there.
LEMMA PendingStep ==
  ASSUME TrustInv, PairInv, StageInv, IdentityInv, BudgetInv, TaskOnce, [Next]_vars,
         Unforked, setup.plain = 0, submitted > 0,
         \A i \in DOMAIN handlers : ~(Limits(i) /\ LimitsEnd(i) = "submit"),
         Pending'
  PROVE  Pending
<1> DEFINE early == {"sleep", "check", "submit"}
<1>1. PICK e \in Sent' : \A i \in Accepted' : handlers'[i].env = e => handlers'[i].pc \in early
  BY DEF Pending
<1>2. CASE e \in Sent
  <2>1. ASSUME NEW i \in Accepted, handlers[i].env = e PROVE handlers[i].pc \in early
    <3>1. i \in DOMAIN handlers
      BY DEF Accepted
    <3>2. i \in Accepted' /\ handlers'[i].env = e
      BY <2>1, <3>1, HandlerNotes DEF Accepted
    <3>3. handlers'[i].pc \in early
      BY <1>1, <3>2
    <3> QED BY <3>1, <3>3, PointsStep
  <2> QED BY <1>2, <2>1 DEF Pending
<1>3. CASE e \notin Sent
  <2>1. Follows(e)
    BY <1>3, SentStep
  <2>2. ~SubmitRemote
    BY DEF SubmitRemote, BudgetInv
  <2>3. PICK i \in DOMAIN handlers : Resubmit(i)
    BY <2>1, <2>2 DEF Follows
  <2>4. handlers[i].pc = "submit" /\ i \in Accepted /\ handlers[i].env \in Sent
    BY <2>3 DEF Resubmit, StageInv, Accepted, Sent
  <2>5. ASSUME NEW j \in Accepted, handlers[j].env = handlers[i].env
        PROVE  handlers[j].pc = "submit"
    BY <2>4, <2>5 DEF TaskOnce
  <2> QED BY <2>4, <2>5 DEF Pending
<1> QED BY <1>2, <1>3

\* The occurrence that starts was the one that was pending.
LEMMA StartUses ==
  ASSUME TrustInv, PairInv, StageInv, IdentityInv, TaskOnce, ChainInv, [Next]_vars, Unforked,
         \A e \in Sent : e.task.n > 0,
         NEW i \in DOMAIN handlers, Check(i), handlers'[i].pc = "run"
  PROVE  Pending /\ ~Pending'
<1>1. PICK h : h = handlers[i].env
  OBVIOUS
<1>2. i \in Accepted /\ h \in Sent /\ handlers[i].pc = "check"
  BY <1>1 DEF Check, StageInv, Accepted, Sent
<1>3. \A j \in Accepted : handlers[j].env = h => j = i
  BY <1>1, <1>2 DEF TaskOnce
<1>4. Pending
  BY <1>2, <1>3 DEF Pending
<1>5. Sent' = Sent /\ SameTasks /\ \A j \in DOMAIN handlers : j # i => handlers'[j] = handlers[j]
  <2>1. SameTasks /\ \A j \in DOMAIN handlers : j # i => handlers'[j] = handlers[j]
    BY HandlerPath DEF MovedTo
  <2>2. queue' = queue
    BY DEF Check
  <2> QED BY <2>1, <2>2 DEF Sent, SameTasks
<1>6. ASSUME NEW e \in Sent,
             \A j \in Accepted' : handlers'[j].env = e => handlers'[j].pc \in {"sleep", "check", "submit"}
      PROVE  FALSE
  <2>1. Accepted' = Accepted /\ \A j \in Accepted : handlers'[j].env = handlers[j].env
    BY <1>5, TasksSame DEF SameTasks, Accepted
  <2>2. e # h
    BY <1>1, <1>2, <1>6, <2>1
  <2>3. ~Passed(h)
    BY <1>2, <1>3 DEF Passed
  <2>4. ~Passed(e)
    <3>1. ASSUME NEW j \in Accepted, handlers[j].env = e, handlers[j].pc = "next" PROVE FALSE
      <4>1. j # i /\ j \in DOMAIN handlers
        BY <1>2, <3>1 DEF Accepted
      <4> QED BY <1>5, <1>6, <2>1, <3>1, <4>1
    <3> QED BY <3>1 DEF Passed
  <2>5. e.task.n <= h.task.n /\ h.task.n <= e.task.n
    BY <1>2, <2>3, <2>4 DEF ChainInv
  <2>6. e.task.n = h.task.n
    BY <1>2, <2>5 DEF IdentityInv
  <2> QED BY <1>2, <2>2, <2>6 DEF ChainInv
<1>7. ~Pending'
  BY <1>5, <1>6 DEF Pending
<1> QED BY <1>4, <1>7

\* An occurrence that starts after cancel() uses up the pending one.
LEMMA StopStep ==
  /\ TrustInv /\ PairInv /\ BudgetInv /\ StageInv /\ IdentityInv /\ TaskOnce /\ ChainInv
  /\ FlagInv /\ StopInv /\ [Next]_vars
  => StopInv'
<1> SUFFICES ASSUME TrustInv, PairInv, BudgetInv, StageInv, IdentityInv, TaskOnce, ChainInv,
                    FlagInv, StopInv, [Next]_vars, Unforked, setup.plain = 0
             PROVE  /\ \A e \in Sent' : e.task.n > 0
                    /\ cancel'.starts <= 1 + cancel'.missed
                    /\ cancel'.pc # "idle" /\ Pending' => cancel'.starts <= cancel'.missed
  BY ClockStep DEF StopInv, Unforked
<1>1. /\ \A e \in Sent : e.task.n > 0
      /\ cancel.starts <= 1 + cancel.missed
      /\ cancel.pc # "idle" /\ Pending => cancel.starts <= cancel.missed
  BY DEF StopInv
<1>2. /\ cancel.starts \in Nat /\ cancel.missed \in Nat
      /\ cancel.pc = "idle" => cancel.starts = 0
      /\ cancel.pc # "idle" => flag /\ submitted > 0
  BY DEF FlagInv
<1>3. ASSUME NEW e \in Sent' PROVE e.task.n > 0
  <2>1. CASE e \in Sent
    BY <1>1, <2>1
  <2>2. CASE e \notin Sent
    <3>1. Follows(e)
      BY <2>2, SentStep
    <3>2. ~SubmitRemote
      BY DEF SubmitRemote, BudgetInv
    <3>3. \A i \in DOMAIN handlers : handlers[i].env.task.n \in Int /\ handlers[i].env.task.n > 0
      BY <1>1, HandlersTyped DEF Sent
    <3> QED BY <3>1, <3>2, <3>3 DEF Follows
  <2> QED BY <2>1, <2>2
<1>4. ASSUME NEW i \in DOMAIN handlers, Limits(i), LimitsEnd(i) = "submit"
      PROVE  /\ cancel'.starts <= 1 + cancel'.missed
             /\ cancel'.pc # "idle" => cancel'.starts <= cancel'.missed
  <2>1. cancel' = IF flag THEN [cancel EXCEPT !.missed = @ + 1] ELSE cancel
    BY <1>4, LimitsEffect
  <2>2. cancel \in CancelTypes
    BY DEF FlagInv, CancelTypes
  <2>3. /\ cancel'.pc = cancel.pc /\ cancel'.starts = cancel.starts
        /\ flag => cancel'.missed = cancel.missed + 1
        /\ ~flag => cancel'.missed = cancel.missed
    BY <2>1, <2>2, Zenon DEF CancelTypes
  <2> QED BY <1>1, <1>2, <2>3
<1>5. ASSUME \A i \in DOMAIN handlers : ~(Limits(i) /\ LimitsEnd(i) = "submit")
      PROVE  /\ cancel'.starts <= 1 + cancel'.missed
             /\ cancel'.pc # "idle" /\ Pending' => cancel'.starts <= cancel'.missed
  <2>1. submitted > 0 /\ Pending' => Pending
    BY <1>5, PendingStep
  <2>2. CASE /\ cancel'.starts = cancel.starts /\ cancel'.missed = cancel.missed
             /\ cancel.pc = "idle" \/ cancel'.pc # "idle"
    BY <1>1, <1>2, <2>1, <2>2
  <2>3. ASSUME NEW i \in DOMAIN handlers, Check(i), handlers'[i].pc = "run",
               cancel'.pc = cancel.pc, cancel.pc # "idle", cancel'.missed = cancel.missed,
               cancel'.starts = cancel.starts + 1
        PROVE  /\ cancel'.starts <= 1 + cancel'.missed
               /\ cancel'.pc # "idle" /\ Pending' => cancel'.starts <= cancel'.missed
    <3>1. Pending /\ ~Pending'
      BY <1>1, <2>3, StartUses
    <3> QED BY <1>1, <1>2, <2>3, <3>1
  <2>4. ASSUME NEW i \in DOMAIN handlers, Limits(i), cancel'.pc = cancel.pc,
               cancel'.starts = cancel.starts,
               cancel'.missed = IF flag /\ LimitsEnd(i) = "submit"
                                  THEN cancel.missed + 1 ELSE cancel.missed
        PROVE  cancel'.missed = cancel.missed
    BY <1>5, <2>4
  <2>5. CancelEffects
    BY CancelStep
  <2>6. \/ /\ cancel'.starts = cancel.starts /\ cancel'.missed = cancel.missed
           /\ cancel.pc = "idle" \/ cancel'.pc # "idle"
        \/ \E i \in DOMAIN handlers :
             /\ Check(i) /\ handlers'[i].pc = "run"
             /\ cancel'.pc = cancel.pc /\ cancel.pc # "idle" /\ cancel'.missed = cancel.missed
             /\ cancel'.starts = cancel.starts + 1
    BY <2>4, <2>5, Zenon DEF CancelEffects
  <2> QED BY <2>2, <2>3, <2>6
<1> QED BY <1>3, <1>4, <1>5

-----------------------------------------------------------------------------
(* The schedule.                                                           *)

\* At first nothing is sent, handled, cached or cancelled.
LEMMA ScheduleInitially == Init => ScheduleInv
<1> SUFFICES ASSUME Init PROVE ScheduleInv
  OBVIOUS
<1> USE DEF Init, EnvelopeInit
<1>1. Sent = {} /\ DOMAIN handlers = {} /\ submitted = 0 /\ Accepted = {}
  BY DEF Sent, Accepted
<1>2. setup \in Scenarios
  OBVIOUS
<1>3. BudgetInv
  BY <1>1, <1>2, ScheduleAssumption DEF BudgetInv
<1>4. StageInv /\ CooldownInv
  BY <1>1 DEF StageInv, CooldownInv
<1>5. IdentityInv /\ PlaceInv
  BY <1>1, ScheduleAssumption DEF IdentityInv, PlaceInv
<1>6. CacheInv
  BY <1>1 DEF CacheInv, InOrderOnce
<1>7. FreshKept /\ AcceptedOnce /\ TaskOnce
  BY <1>1 DEF FreshKept, AcceptedOnce, TaskOnce
<1>8. ChainInv /\ CountInv
  BY <1>1 DEF ChainInv, CountInv
<1>9. FlagInv /\ HeldInv
  <2>1. /\ cancel \in [pc : {"idle", "poll", "put back", "done"}, starts : Nat, missed : Nat]
        /\ cancel.pc = "idle" /\ cancel.starts = 0 /\ ~(cancel.missed > 0)
    OBVIOUS
  <2>2. flag \in BOOLEAN /\ held \in BOOLEAN /\ ~held
    BY Zenon
  <2>3. FlagInv
    BY <2>1, <2>2, Zenon DEF FlagInv
  <2>4. ~(cancel.pc = "put back")
    BY <2>1
  <2> QED BY <1>1, <2>1, <2>2, <2>3, <2>4, Zenon DEF HeldInv
<1>10. StopInv
  BY <1>1 DEF StopInv
<1> QED BY <1>3, <1>4, <1>5, <1>6, <1>7, <1>8, <1>9, <1>10 DEF ScheduleInv

\* Every step keeps the invariant.
LEMMA ScheduleStep ==
  TrustInv /\ PairInv /\ TrustInv' /\ ScheduleInv /\ [Next]_vars => ScheduleInv'
BY BudgetStep, StageStep, CooldownStep, IdentityStep, PlaceStep, CacheStep, FreshKeptStep,
   AcceptedOnceStep, TaskOnceStep, ChainStep, CountStep, FlagStep, HeldStep, StopStep
DEF ScheduleInv

\* What the properties below rest on holds in every state.
THEOREM ScheduleInvariant == Spec => [](TrustInv /\ PairInv /\ ScheduleInv)
<1>1. Init => PairInit
  BY DEF Init
<1> QED BY <1>1, TrustInitially, TrustStep, PairInitially, PairStep, PairingWithin,
           ScheduleInitially, ScheduleStep, PTL DEF Spec

\* One life of a signing worker accepts an envelope once, unless as many
\* others as the cache holds were recorded in between (NonceLRU.check_and_add,
\* verify_task_envelope), whatever the clock of the client and the order in
\* which copies arrive.
THEOREM AcceptsOnce == Spec => []AcceptedOnce
BY ScheduleInvariant, PTL DEF ScheduleInv

\* A schedule that cannot fork is one chain: every number is executed once,
\* and no more of them than max_runs (the end of _execute_task).
THEOREM ChainIsOne == Spec => []OneChain
<1>1. TrustInv /\ PairInv /\ ScheduleInv => OneChain
  BY ChainHolds DEF ScheduleInv
<1> QED BY <1>1, ScheduleInvariant, PTL

\* After ScheduleHandle.cancel() one more occurrence starts at most, and over
\* RabbitMQ one more for each look while a reader holds the flag.
THEOREM CancelStops == Spec => []StopsAfterCancel
<1>1. TrustInv /\ PairInv /\ ScheduleInv => StopsAfterCancel
  BY DEF ScheduleInv, StopInv, HeldInv, StopsAfterCancel
<1> QED BY <1>1, ScheduleInvariant, PTL
=============================================================================
