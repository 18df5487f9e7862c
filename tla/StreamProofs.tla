---------------------------- MODULE StreamProofs ----------------------------
(***************************************************************************)
(* Proofs about Streaming, for any backends, any number of iterations, of  *)
(* values, of faults and of expiries: the values arrive in order, the      *)
(* doorbell loses no wake-up, progress does not go back, and the stream   *)
(* implements StreamPromise.                                               *)
(***************************************************************************)
EXTENDS Streaming, FiniteSetTheorems, TLAPS

\* Points of the worker before the envelope is made, and after.
Generating == {"running", "sending", "ringing"}
Ending == {"flushing", "answering", "answered", "done"}

WorkerStates ==
  [pc : Generating \cup Ending, seq : Nat, stored : Nat,
   out : Envelopes \cup {None}, beats : BOOLEAN, faults : Nat]

ProgressStates ==
  [latest : Nat, inflight : Seq(Nat), task : Nat, shown : Nat, missed : BOOLEAN]

IterStates ==
  [pc : {"poll", "wait", "deliver", "check", "took", "tail", "ended"},
   next : Nat, batch : Seq(Nat \X Nat), raw : Envelopes \cup {None},
   got : Seq(Nat), told : Outcomes \cup {None}]

CancelStates ==
  [pc : {"idle", "confirm", "seed", "ring", "keep", "done"}, raw : Envelopes \cup {None}]

StreamTypeOK ==
  /\ backend \in {"local", "redis", "rabbitmq"}
  /\ cells \in Seq(Nat \cup {None})
  /\ bell \in BOOLEAN /\ flag \in BOOLEAN
  /\ slot \in Seq(Envelopes) /\ envelope \in Envelopes \cup {None}
  /\ worker \in WorkerStates /\ progress \in ProgressStates
  /\ iter \in [Consumers -> IterStates]
  /\ cancel \in CancelStates
  /\ expiries \in Nat

\* The list of Redis starts at the first value.
Whole == backend = "redis" => expiries = 0

\* What the broker holds, position by position: nothing but what was stored,
\* and all of it unless something expired.
StoreInv ==
  /\ Len(cells) <= worker.stored
  /\ Whole => Len(cells) = worker.stored
  /\ \A i \in 1..Len(cells) :
       /\ Whole => cells[i] \in {i - 1, None}
       /\ backend # "rabbitmq" \/ expiries = 0 => cells[i] # None
       /\ \A j \in 1..Len(cells) : i <= j /\ cells[i] # None => cells[j] # None

\* Where the worker stands in its own count of the values.
WorkerInv ==
  /\ worker.pc \in {"running", "sending"} => worker.stored = worker.seq
  /\ worker.pc = "ringing" => worker.stored = worker.seq + 1
  /\ worker.pc \in Generating <=> worker.out = None
  /\ worker.out # None /\ worker.out.status = "ok"
       => worker.out.final = worker.stored

\* An envelope comes from the worker or from the cancelling client.
GenuineFor(e, out, signalled) == e = out \/ (signalled /\ e = Env("cancelled", None))

Genuine(e) == GenuineFor(e, worker.out, flag)

EnvelopeInv ==
  /\ \A i \in 1..Len(slot) : Genuine(slot[i])
  /\ envelope # None => Genuine(envelope)
  /\ cancel.pc # "idle" => flag
  /\ cancel.pc \in {"ring", "keep"} => cancel.raw # None /\ Genuine(cancel.raw)
  /\ \A c \in Consumers :
       /\ iter[c].pc = "took" => iter[c].raw # None /\ Genuine(iter[c].raw)
       /\ iter[c].pc = "tail" => envelope # None

\* A batch goes on where the iteration stands and stays below what is stored.
RunFrom(n, batch) ==
  \A i \in 1..Len(batch) :
    /\ batch[i][1] = n + i - 1 /\ batch[i][1] < worker.stored
    /\ Whole => batch[i][2] = batch[i][1]

IterInv ==
  \A c \in Consumers :
    /\ iter[c].next <= worker.stored
    /\ iter[c].pc = "deliver" => iter[c].batch # <<>>
    /\ iter[c].pc = "deliver" => RunFrom(iter[c].next, iter[c].batch)
    /\ iter[c].pc = "ended" <=> iter[c].told # None

\* Over one channel the reports under way are in their order, none newer than
\* the newest, and the last of them is the one flush() waits for.
InOrderOf(sends, shown, latest) ==
  /\ \A i \in 1..Len(sends) : shown < sends[i] /\ sends[i] <= latest
  /\ \A i, j \in 1..Len(sends) : i < j => sends[i] < sends[j]

ProgressInv ==
  backend # "redis" =>
    /\ InOrderOf(progress.inflight, progress.shown, progress.latest)
    /\ progress.inflight # <<>> => progress.task = progress.inflight[Len(progress.inflight)]
    /\ progress.shown <= progress.latest

StreamInv ==
  /\ StreamTypeOK /\ StoreInv /\ WorkerInv /\ EnvelopeInv /\ IterInv
  /\ ProgressInv /\ InOrder /\ NoLostWakeup /\ FinalProgress

-----------------------------------------------------------------------------
(* What the store does.                                                    *)

\* How many values a read from position n on returns: all there are, or none
\* when the one at n is not there or no more.
Held(n) == IF n < Len(cells) /\ cells[n + 1] # None THEN Len(cells) - n ELSE 0

\* How many numbers lie above a and up to b.
LEMMA CardinalityOfRange ==
  ASSUME NEW a \in Nat, NEW b \in Nat
  PROVE  Cardinality((a + 1)..b) = IF a < b THEN b - a ELSE 0
<1>1. a + 1 \in Int /\ b \in Int
  OBVIOUS
<1>2. Cardinality((a + 1)..b) = IF a + 1 > b THEN 0 ELSE b - (a + 1) + 1
  BY <1>1, FS_Interval
<1> QED BY <1>2

\* The local broker returns what it holds from position n on.
LEMMA LocalYieldsShape ==
  ASSUME StreamTypeOK, StoreInv, backend = "local", NEW n \in Nat
  PROVE  LocalYields(n) = [i \in 1..Held(n) |-> Pair(n + i)]
<1> DEFINE held == {i \in DOMAIN cells : i > n /\ cells[i] # None}
           Nth(k) == CHOOSE i \in held : Cardinality({j \in held : j <= i}) = k
<1>1. Len(cells) \in Nat /\ DOMAIN cells = 1..Len(cells)
  BY DEF StreamTypeOK
<1>2. held = (n + 1)..Len(cells)
  BY <1>1 DEF StoreInv
<1>3. Cardinality(held) = Held(n)
  <2> HIDE DEF held, Nth
  <2>1. Cardinality((n + 1)..Len(cells)) = IF n < Len(cells) THEN Len(cells) - n ELSE 0
    BY <1>1, CardinalityOfRange
  <2>2. n < Len(cells) => cells[n + 1] # None
    BY <1>1 DEF StoreInv
  <2> QED BY <1>2, <2>1, <2>2 DEF Held
<1>4. ASSUME NEW i \in held PROVE Cardinality({j \in held : j <= i}) = i - n
  <2>1. {j \in held : j <= i} = (n + 1)..i
    BY <1>1, <1>2
  <2>2. i \in Nat /\ i >= n + 1
    BY <1>1, <1>2
  <2>3. Cardinality((n + 1)..i) = IF n < i THEN i - n ELSE 0
    BY <2>2, CardinalityOfRange
  <2>4. Cardinality((n + 1)..i) = i - n
    BY <2>2, <2>3
  <2> QED BY <2>1, <2>4, Zenon
<1>5. ASSUME NEW k \in 1..Held(n) PROVE Nth(k) = n + k
  <2>1. n + k \in held
    BY <1>1, <1>2 DEF Held
  <2>2. \A i \in held : Cardinality({j \in held : j <= i}) = k <=> i = n + k
    <3>1. \A i \in held : i \in Int
      BY <1>1, <1>2
    <3>2. k \in Int
      BY <1>1 DEF Held
    <3> HIDE DEF held
    <3> QED BY <1>4, <3>1, <3>2
  <2> QED BY <2>1, <2>2
<1>6. LocalYields(n) = [k \in 1..Cardinality(held) |-> Pair(Nth(k))]
  BY DEF LocalYields
<1> HIDE DEF held, Nth
<1> QED BY <1>3, <1>5, <1>6

\* RabbitMQ reads until the first empty queue: all there are from n on.
LEMMA RabbitYieldsShape ==
  ASSUME StreamTypeOK, StoreInv, NEW n \in Nat
  PROVE  RabbitYields(n) = [i \in 1..Held(n) |-> Pair(n + i)]
<1> DEFINE run == {k \in 0..Len(cells) :
                     \A i \in 1..k : n + i \in DOMAIN cells /\ cells[n + i] # None}
           last == CHOOSE k \in run : \A j \in run : j <= k
<1>1. Len(cells) \in Nat /\ DOMAIN cells = 1..Len(cells)
  BY DEF StreamTypeOK
<1>2. Held(n) \in run
  <2>1. ASSUME NEW i \in 1..Held(n) PROVE n + i \in DOMAIN cells /\ cells[n + i] # None
    <3>1. n + 1 \in 1..Len(cells) /\ cells[n + 1] # None /\ n + i \in 1..Len(cells) /\ n + 1 <= n + i
      BY <1>1 DEF Held
    <3> QED BY <1>1, <3>1 DEF StoreInv
  <2>2. Held(n) \in 0..Len(cells)
    BY <1>1 DEF Held
  <2> QED BY <2>1, <2>2
<1>3. \A k \in run : k \in Nat /\ k <= Held(n)
  <2> SUFFICES ASSUME NEW k \in run PROVE k \in Nat /\ k <= Held(n)
    OBVIOUS
  <2>1. k \in 0..Len(cells)
    OBVIOUS
  <2>2. CASE k = 0
    BY <1>1, <2>2 DEF Held
  <2>3. CASE k > 0
    <3>1. n + k \in 1..Len(cells) /\ n + 1 \in 1..Len(cells) /\ cells[n + 1] # None
      BY <1>1, <2>1, <2>3
    <3> QED BY <1>1, <2>1, <3>1 DEF Held
  <2> QED BY <1>1, <2>1, <2>2, <2>3
<1>4. last = Held(n)
  <2> HIDE DEF run
  <2>1. Held(n) \in Nat
    BY <1>2, <1>3
  <2>2. last \in run /\ \A j \in run : j <= last
    BY <1>2, <1>3
  <2> HIDE DEF last
  <2> QED BY <1>2, <1>3, <2>1, <2>2
<1>5. RabbitYields(n) = [i \in 1..last |-> Pair(n + i)]
  BY DEF RabbitYields
<1> QED BY <1>4, <1>5

\* Whatever the backend, a read returns the cells from the position it asks
\* for, with their positions.
LEMMA YieldsShape ==
  ASSUME StreamTypeOK, StoreInv, NEW n \in Nat
  PROVE  /\ Yields(n) = [i \in 1..Held(n) |-> Pair(n + i)]
         /\ Held(n) \in Nat
         /\ Yields(n) = <<>> <=> Held(n) = 0
<1>0. Len(cells) \in Nat /\ DOMAIN cells = 1..Len(cells) /\ Held(n) \in Nat
  BY DEF StreamTypeOK, Held
<1>1. Yields(n) = [i \in 1..Held(n) |-> Pair(n + i)]
  <2>1. CASE backend = "local"
    BY <2>1, LocalYieldsShape DEF Yields
  <2>2. CASE backend = "redis"
    <3>1. n < Len(cells) => cells[n + 1] # None
      BY <1>0, <2>2 DEF StoreInv
    <3>2. Held(n) = IF n < Len(cells) THEN Len(cells) - n ELSE 0
      BY <3>1 DEF Held
    <3> QED BY <2>2, <3>2 DEF Yields, RedisYields
  <2>3. CASE backend = "rabbitmq"
    BY <2>3, RabbitYieldsShape DEF Yields
  <2> QED BY <2>1, <2>2, <2>3 DEF StreamTypeOK
<1>2. Yields(n) = <<>> <=> Held(n) = 0
  BY <1>0, <1>1
<1> QED BY <1>0, <1>1, <1>2

\* What it returns is a batch that an iteration at that position can take.
LEMMA YieldsRun ==
  ASSUME StreamTypeOK, StoreInv, NEW n \in Nat
  PROVE  /\ Yields(n) \in Seq(Nat \X Nat)
         /\ RunFrom(n, Yields(n))
         /\ n + Len(Yields(n)) <= worker.stored \/ Yields(n) = <<>>
<1>0. Len(cells) \in Nat /\ DOMAIN cells = 1..Len(cells) /\ worker.stored \in Nat
  BY DEF StreamTypeOK, WorkerStates
<1>1. /\ Yields(n) = [i \in 1..Held(n) |-> Pair(n + i)] /\ Held(n) \in Nat
  BY YieldsShape
<1>2. ASSUME NEW i \in 1..Held(n)
      PROVE  /\ n + i \in 1..Len(cells) /\ cells[n + i] # None
             /\ cells[n + i] \in Nat
             /\ Whole => cells[n + i] = n + i - 1
  <2>1. n + 1 \in 1..Len(cells) /\ cells[n + 1] # None /\ n + i \in 1..Len(cells) /\ n + 1 <= n + i
    BY <1>0 DEF Held
  <2>2. cells[n + i] # None
    BY <2>1 DEF StoreInv
  <2>3. cells[n + i] \in Nat \cup {None}
    BY <1>0, <2>1 DEF StreamTypeOK
  <2> QED BY <2>1, <2>2, <2>3 DEF StoreInv
<1>3. \A i \in 1..Held(n) : Pair(n + i) = <<n + i - 1, cells[n + i]>>
  BY <1>1 DEF Pair
<1>4. \A i \in 1..Held(n) : Pair(n + i) \in Nat \X Nat
  BY <1>2, <1>3
<1>5. Yields(n) \in Seq(Nat \X Nat) /\ Len(Yields(n)) = Held(n)
  BY <1>1, <1>4
<1>6. RunFrom(n, Yields(n))
  BY <1>0, <1>1, <1>2, <1>3, <1>5 DEF RunFrom, StoreInv
<1>7. n + Held(n) <= worker.stored \/ Held(n) = 0
  <2>1. Len(cells) <= worker.stored
    BY DEF StoreInv
  <2>2. Held(n) = 0 \/ n + Held(n) = Len(cells)
    BY <1>0 DEF Held
  <2> QED BY <2>1, <2>2, Zenon
<1> QED BY <1>5, <1>6, <1>7, YieldsShape

-----------------------------------------------------------------------------
(* What a step does to the store and to the worker.                        *)

\* The value that is sent is appended, its number being the next.
LEMMA PutShape ==
  ASSUME StreamTypeOK, StoreInv, WorkerInv, worker.pc = "sending"
  PROVE  LET new == Put(worker.seq, worker.seq)
         IN  /\ new \in Seq(Nat \cup {None}) /\ Len(new) = Len(cells) + 1
             /\ \A i \in 1..Len(cells) : new[i] = cells[i]
             /\ new[Len(cells) + 1] = worker.seq
<1> DEFINE n == worker.seq
           padded == [i \in 1..(IF n < Len(cells) THEN Len(cells) ELSE n + 1) |->
                       IF i = n + 1 THEN n ELSE IF i <= Len(cells) THEN cells[i] ELSE None]
<1>1. /\ Len(cells) \in Nat /\ n \in Nat /\ worker.stored = n
      /\ \A i \in 1..Len(cells) : cells[i] \in Nat \cup {None}
  BY DEF StreamTypeOK, WorkerStates, WorkerInv
<1>2. CASE backend = "redis"
  BY <1>1, <1>2 DEF Put, RedisPut, StreamTypeOK
<1>3. CASE backend # "redis"
  <2>1. Len(cells) = n
    BY <1>1, <1>3 DEF StoreInv, Whole
  <2>2. Put(n, n) = padded
    BY <1>3 DEF Put, LocalPut, RabbitPut, StreamTypeOK
  <2>3. padded = [i \in 1..(n + 1) |-> IF i = n + 1 THEN n ELSE cells[i]]
    BY <1>1, <2>1
  <2> HIDE DEF padded
  <2>4. padded \in Seq(Nat \cup {None}) /\ Len(padded) = n + 1
    BY <1>1, <2>1, <2>3
  <2> QED BY <1>1, <2>1, <2>2, <2>3, <2>4
<1> QED BY <1>2, <1>3

\* Removing a report that is in flight leaves the newest last.
LEMMA RemovedAt ==
  ASSUME NEW s \in Seq(Nat), NEW i \in 1..Len(s)
  PROVE  /\ RemoveAt(s, i) \in Seq(Nat)
         /\ i = 1 /\ RemoveAt(s, 1) # <<>>
              => RemoveAt(s, 1)[Len(RemoveAt(s, 1))] = s[Len(s)]
<1>1. RemoveAt(s, i) \in Seq(Nat)
  BY DEF RemoveAt
<1>2. RemoveAt(s, 1) = Tail(s)
  BY DEF RemoveAt
<1>3. s # <<>> /\ Tail(s) \in Seq(Nat) /\ Len(Tail(s)) = Len(s) - 1
  OBVIOUS
<1>4. Tail(s) # <<>> => Tail(s)[Len(Tail(s))] = s[Len(s)]
  BY <1>3
<1> QED BY <1>1, <1>2, <1>4

\* What an envelope is, and that nothing is not one.
LEMMA EnvelopeTypes ==
  /\ \A st \in Outcomes, f \in Nat \cup {None} : Env(st, f) \in Envelopes
  /\ None \notin Envelopes /\ None \notin Outcomes /\ None \notin Nat
  /\ \A e \in Envelopes : e.status \in Outcomes /\ e.final \in Nat \cup {None}
BY NoneAssumption DEF Env, Envelopes

\* The sends of progress and of the envelope.
Closing == ShowProgress \/ Flush \/ Answer \/ RingAnswer

\* They move the worker to its end and count its faults, and change nothing
\* that a client or the store has.
LEMMA ClosingSteps ==
  ASSUME StreamTypeOK, Closing
  PROVE  /\ worker' \in WorkerStates
         /\ worker'.seq = worker.seq /\ worker'.stored = worker.stored
         /\ worker'.out = worker.out /\ worker'.beats = worker.beats
         /\ \/ ShowProgress /\ worker'.pc = worker.pc
            \/ /\ worker.pc \in {"flushing", "answering", "answered"}
               /\ worker'.pc \in {"answering", "answered", "done"}
               /\ worker.pc = "flushing" => Flush
         /\ backend' = backend /\ cells' = cells /\ flag' = flag /\ iter' = iter
         /\ envelope' = envelope /\ cancel' = cancel /\ expiries' = expiries
         /\ bell => bell'
<1> USE DEF WorkerStates, Ending
<1>1. worker \in WorkerStates /\ worker.faults + 1 \in Nat
  BY DEF StreamTypeOK
<1>2. CASE ShowProgress
  <2>1. worker' = worker \/ worker' = [worker EXCEPT !.faults = worker.faults + 1]
    BY <1>2 DEF ShowProgress, Fail
  <2> QED BY <1>1, <1>2, <2>1 DEF ShowProgress
<1>3. CASE Flush
  <2>1. \/ worker' = [worker EXCEPT !.pc = "answering"]
        \/ worker' = [worker EXCEPT !.pc = "answering", !.faults = worker.faults + 1]
    BY <1>1, <1>3 DEF Flush, SendFinal, Fail
  <2> QED BY <1>1, <1>3, <2>1 DEF Flush
<1>4. CASE Answer \/ RingAnswer
  <2>1. worker' \in {[worker EXCEPT !.pc = "answered"], [worker EXCEPT !.pc = "done"]}
    BY <1>4 DEF Answer, RingAnswer, RingsAfter
  <2> QED BY <1>1, <1>4, <2>1 DEF Answer, RingAnswer, PutEnvelope
<1> QED BY <1>2, <1>3, <1>4 DEF Closing

\* The steps of cancel() leave worker, store and iterations alone.
LEMMA CancelSteps ==
  ASSUME CancelStep
  PROVE  /\ backend' = backend /\ cells' = cells /\ worker' = worker
         /\ progress' = progress /\ iter' = iter /\ expiries' = expiries
         /\ (flag => flag') /\ (bell => bell')
<1>1. CASE CancelSignal
  BY <1>1, Zenon DEF CancelSignal
<1>2. CASE CancelSeed
  <2>1. bell' = (bell \/ backend = "redis")
    BY <1>2 DEF CancelSeed, PutEnvelope
  <2>2. bell => bell'
    BY <2>1, Zenon
  <2> QED BY <1>2, <2>2, Zenon DEF CancelSeed
<1>3. CASE CancelConfirm
  BY <1>3, Zenon DEF CancelConfirm
<1>4. CASE CancelRing
  BY <1>4, SMT DEF CancelRing
<1>5. CASE CancelKeep
  BY <1>5, Zenon DEF CancelKeep
<1> QED BY <1>1, <1>2, <1>3, <1>4, <1>5, Zenon DEF CancelStep, CancelEnd

\* Every step keeps the type of the worker.
LEMMA WorkerTypesKept ==
  ASSUME StreamTypeOK, StreamNext
  PROVE  worker' \in WorkerStates
<1>1. worker \in WorkerStates
  BY DEF StreamTypeOK
<1>2. \A st \in {"ok", "error", "cancelled"}, f \in Nat \cup {None} : Env(st, f) \in Envelopes
  BY EnvelopeTypes DEF Outcomes
<1> USE DEF WorkerStates, Generating, Ending
<1>9. worker.seq + 1 \in Nat /\ worker.stored + 1 \in Nat /\ worker.faults + 1 \in Nat
      /\ worker.seq \in Nat \cup {None}
  BY <1>1
<1>3. CASE Yield \/ StoreYield \/ RingYield
  BY <1>1, <1>3, <1>9, Zenon DEF Yield, StoreYield, RingYield
<1>4. CASE Finish
  <2>1. PICK e \in Envelopes, n \in Nat :
          worker' = [worker EXCEPT !.pc = "flushing", !.out = e, !.faults = n]
    <3>1. CASE worker.pc = "running"
      <4>1. PICK e \in Envelopes : worker' = [worker EXCEPT !.pc = "flushing", !.out = e]
        BY <1>2, <1>4, <1>9, <3>1 DEF Finish, End
      <4>2. [worker EXCEPT !.pc = "flushing", !.out = e]
              = [worker EXCEPT !.pc = "flushing", !.out = e, !.faults = worker.faults]
        BY <1>1
      <4> QED BY <1>1, <4>1, <4>2
    <3>2. CASE worker.pc # "running"
      BY <1>2, <1>4, <1>9, <3>2, Zenon DEF Finish, End
    <3> QED BY <3>1, <3>2
  <2> QED BY <1>1, <2>1
<1>5. CASE Interrupt
  <2>1. Env("cancelled", None) \in Envelopes
    BY <1>2
  <2>2. \/ worker' = [worker EXCEPT !.pc = "flushing", !.beats = FALSE, !.out = Env("cancelled", None)]
        \/ worker' = [worker EXCEPT !.beats = FALSE]
    BY <1>5, Zenon DEF Interrupt
  <2> QED BY <1>1, <2>1, <2>2
<1>6. CASE Closing
  BY <1>6, ClosingSteps
<1>7. CASE Report \/ CancelStep \/ Forget
  BY <1>1, <1>7, CancelSteps DEF Report, Forget
<1>8. ASSUME NEW c \in Consumers, Iterate(c) PROVE worker' \in WorkerStates
  BY <1>1, <1>8 DEF Iterate, Poll, Wake, Deliver, Check, Keep, DrainTail
<1> QED BY <1>3, <1>4, <1>5, <1>6, <1>7, <1>8 DEF StreamNext, Work, Closing

\* The end of the send at place i: it is under way no more, and its state is
\* shown or not.
SendEnds(i) ==
  LET n == progress.inflight[i]
      shown == {n, progress.shown}
  IN  /\ i = 1 \/ backend = "redis"
      /\ \E to \in shown :
           progress' = [progress EXCEPT !.inflight = RemoveAt(progress.inflight, i),
                                        !.task = IF n = progress.task THEN 0 ELSE progress.task,
                                        !.shown = to]

LEMMA SendsEnd ==
  ASSUME StreamTypeOK, ShowProgress
  PROVE  \E i \in DOMAIN progress.inflight : SendEnds(i)
<1>1. progress \in ProgressStates
  BY DEF StreamTypeOK
<1>2. PICK i \in DOMAIN progress.inflight :
        LET n == progress.inflight[i]
            rest == [progress EXCEPT !.inflight = RemoveAt(progress.inflight, i),
                                     !.task = IF n = progress.task THEN 0 ELSE progress.task]
        IN  /\ i = 1 \/ backend = "redis"
            /\ progress' = [rest EXCEPT !.shown = n] \/ progress' = rest
  BY DEF ShowProgress
<1> DEFINE n == progress.inflight[i]
           rest == [progress EXCEPT !.inflight = RemoveAt(progress.inflight, i),
                                    !.task = IF n = progress.task THEN 0 ELSE progress.task]
<1>3. \A to : [rest EXCEPT !.shown = to]
                = [progress EXCEPT !.inflight = RemoveAt(progress.inflight, i),
                                   !.task = IF n = progress.task THEN 0 ELSE progress.task,
                                   !.shown = to]
  OBVIOUS
<1>4. rest = [rest EXCEPT !.shown = progress.shown]
  BY <1>1 DEF ProgressStates
<1>5. i = 1 \/ backend = "redis"
  BY <1>2
<1>6. progress' = [rest EXCEPT !.shown = n] \/ progress' = rest
  BY <1>2
<1> HIDE DEF rest
<1>7. SendEnds(i)
  BY <1>3, <1>4, <1>5, <1>6 DEF SendEnds
<1> QED BY <1>7

\* Every step keeps the type of the progress.
LEMMA ProgressTypesKept ==
  ASSUME StreamTypeOK, StreamNext
  PROVE  progress' \in ProgressStates
<1>1. progress \in ProgressStates
  BY DEF StreamTypeOK
<1> USE DEF ProgressStates
<1>2. CASE Report
  <2>1. progress.latest + 1 \in Nat /\ Append(progress.inflight, progress.latest + 1) \in Seq(Nat)
    BY <1>1
  <2> QED BY <1>1, <1>2, <2>1, Zenon DEF Report
<1>3. CASE ShowProgress
  <2>1. PICK i \in DOMAIN progress.inflight : SendEnds(i)
    BY <1>3, SendsEnd
  <2>2. RemoveAt(progress.inflight, i) \in Seq(Nat) /\ progress.inflight[i] \in Nat
    BY <1>1, <2>1, RemovedAt
  <2>3. PICK to \in Nat, task \in Nat :
          progress' = [progress EXCEPT !.inflight = RemoveAt(progress.inflight, i),
                                       !.task = task, !.shown = to]
    BY <1>1, <2>1, <2>2 DEF SendEnds
  <2> QED BY <1>1, <2>2, <2>3
<1>4. CASE Flush
  BY <1>1, <1>4 DEF Flush, SendFinal
<1>5. CASE Yield \/ StoreYield \/ RingYield \/ Finish \/ Interrupt \/ Answer \/ RingAnswer
  BY <1>1, <1>5 DEF Yield, StoreYield, RingYield, Finish, Interrupt, Answer, RingAnswer
<1>6. CASE CancelStep \/ Forget
  BY <1>1, <1>6, CancelSteps DEF Forget
<1>7. ASSUME NEW c \in Consumers, Iterate(c) PROVE progress' \in ProgressStates
  BY <1>1, <1>7 DEF Iterate, Poll, Wake, Deliver, Check, Keep, DrainTail
<1> QED BY <1>2, <1>3, <1>4, <1>5, <1>6, <1>7 DEF StreamNext, Work

\* An iteration after the value at the head of its batch.
AfterDelivery(s) ==
  [s EXCEPT !.pc = IF Tail(s.batch) = <<>> THEN "poll" ELSE "deliver",
            !.batch = Tail(s.batch), !.next = s.next + 1,
            !.got = Append(s.got, s.batch[1][2])]

\* A batch is taken from its head on: the value at the position of the
\* iteration, never one of the past nor a gap.
LEMMA Delivered ==
  ASSUME StreamTypeOK, IterInv, NEW c \in Consumers, Deliver(c)
  PROVE  /\ iter' = [iter EXCEPT ![c] = AfterDelivery(iter[c])]
         /\ AfterDelivery(iter[c]) \in IterStates
         /\ iter[c].batch # <<>> /\ iter[c].next < worker.stored
         /\ Whole => iter[c].batch[1][2] = iter[c].next
<1> DEFINE n == iter[c].next  batch == iter[c].batch
<1>1. iter[c] \in IterStates /\ worker.stored \in Nat /\ iter \in [Consumers -> IterStates]
  BY DEF StreamTypeOK, WorkerStates
<1>2. n \in Nat /\ batch \in Seq(Nat \X Nat) /\ iter[c].got \in Seq(Nat)
  BY <1>1 DEF IterStates
<1>3. iter[c].pc = "deliver"
  BY DEF Deliver
<1>4. batch # <<>> /\ RunFrom(n, batch)
  BY <1>3 DEF IterInv
<1>5. /\ Head(batch) = batch[1] /\ batch[1] \in Nat \X Nat
      /\ Tail(batch) \in Seq(Nat \X Nat) /\ 1 \in 1..Len(batch)
  BY <1>2, <1>4
<1>6. /\ batch[1][1] = n + 1 - 1 /\ batch[1][1] < worker.stored
      /\ Whole => batch[1][2] = batch[1][1]
  BY <1>4, <1>5 DEF RunFrom
<1>7. batch[1][1] = n
  BY <1>2, <1>6
<1>8. iter' = [iter EXCEPT ![c] = AfterDelivery(iter[c])]
  <2>1. ~(Head(batch)[1] < n) /\ ~(Head(batch)[1] > n) /\ Head(batch)[2] = batch[1][2]
    BY <1>2, <1>5, <1>7
  <2>2. iter' = [iter EXCEPT ![c].pc = IF Tail(batch) = <<>> THEN "poll" ELSE "deliver",
                             ![c].batch = Tail(batch), ![c].next = n + 1,
                             ![c].got = Append(@, batch[1][2])]
    BY <2>1, Zenon DEF Deliver
  <2> QED BY <1>1, <2>2 DEF AfterDelivery
<1>9. AfterDelivery(iter[c]) \in IterStates
  <2>1. n + 1 \in Nat /\ Append(iter[c].got, batch[1][2]) \in Seq(Nat)
    BY <1>2, <1>5
  <2>2. ASSUME NEW at \in {"poll", "deliver"}, NEW b \in Seq(Nat \X Nat), NEW m \in Nat,
               NEW g \in Seq(Nat)
        PROVE  [iter[c] EXCEPT !.pc = at, !.batch = b, !.next = m, !.got = g] \in IterStates
    BY <1>1 DEF IterStates
  <2> QED BY <1>5, <2>1, <2>2, Zenon DEF AfterDelivery
<1> QED BY <1>4, <1>6, <1>7, <1>8, <1>9, Zenon

\* A look at the store leaves the iteration with a batch that goes on where
\* it stands, or with none.
LookedAt(c, b, at) ==
  /\ iter' = [iter EXCEPT ![c].pc = at, ![c].batch = b]
  /\ RunFrom(iter[c].next, b)
  /\ at = "deliver" <=> b # <<>>
  /\ at = "wait" => Yields(iter[c].next) = <<>> /\ iter[c].pc = "poll"

\* A look at the store delivers what is there, or waits, or asks for the envelope.
LEMMA Looked ==
  ASSUME StreamTypeOK, StoreInv, NEW c \in Consumers, Poll(c) \/ Wake(c)
  PROVE  \E b \in Seq(Nat \X Nat), at \in {"deliver", "wait", "check"} : LookedAt(c, b, at)
<1>1. iter[c].next \in Nat
  BY DEF StreamTypeOK, IterStates
<1>2. /\ Yields(iter[c].next) \in Seq(Nat \X Nat)
      /\ RunFrom(iter[c].next, Yields(iter[c].next))
  BY <1>1, YieldsRun
<1>3. <<>> \in Seq(Nat \X Nat) /\ RunFrom(iter[c].next, <<>>)
  BY DEF RunFrom
<1> HIDE DEF RunFrom
<1>4. CASE Poll(c)
  BY <1>2, <1>4 DEF Poll, Got, LookedAt
<1>5. CASE Wake(c)
  <2>1. CASE backend = "local"
    BY <1>3, <1>5, <2>1 DEF Wake, Got, LookedAt
  <2>2. CASE backend # "local"
    BY <1>2, <1>5, <2>2 DEF Wake, Got, LookedAt
  <2> QED BY <2>1, <2>2
<1> QED BY <1>4, <1>5

\* Every step keeps the types of the iterations.
LEMMA IterTypesKept ==
  ASSUME StreamTypeOK, StoreInv, EnvelopeInv, IterInv, StreamNext
  PROVE  iter' \in [Consumers -> IterStates]
<1>1. iter \in [Consumers -> IterStates] /\ slot \in Seq(Envelopes)
  BY DEF StreamTypeOK
<1>2. CASE Work \/ CancelStep \/ Forget
  BY <1>1, <1>2, ClosingSteps, CancelSteps DEF Work, Closing, Yield, StoreYield, RingYield,
     Finish, Interrupt, Report, Forget
<1>3. ASSUME NEW c \in Consumers, Iterate(c) PROVE iter' \in [Consumers -> IterStates]
  <2>0. iter[c] \in IterStates
    BY <1>1
  <2>1. PICK s \in IterStates : iter' = [iter EXCEPT ![c] = s]
    <3>1. CASE Poll(c) \/ Wake(c)
      <4>1. PICK b \in Seq(Nat \X Nat), at \in {"deliver", "wait", "check"} : LookedAt(c, b, at)
        BY <3>1, Looked
      <4>2. [iter[c] EXCEPT !.pc = at, !.batch = b] \in IterStates
        BY <2>0 DEF IterStates
      <4> QED BY <1>1, <4>1, <4>2 DEF LookedAt
    <3>2. CASE Deliver(c)
      BY <3>2, Delivered, Zenon
    <3>3. CASE Check(c)
      <4>1. \/ \E at \in {"poll", "tail"} : iter' = [iter EXCEPT ![c].pc = at]
            \/ \E e \in Envelopes :
                 iter' = [iter EXCEPT ![c].pc = "took", ![c].raw = e]
        BY <1>1, <3>3 DEF Check
      <4>2. \A at \in {"poll", "tail"} : [iter[c] EXCEPT !.pc = at] \in IterStates
        BY <2>0 DEF IterStates
      <4>3. \A e \in Envelopes : [iter[c] EXCEPT !.pc = "took", !.raw = e] \in IterStates
        BY <2>0 DEF IterStates
      <4> QED BY <1>1, <4>1, <4>2, <4>3
    <3>4. CASE Keep(c)
      BY <1>1, <2>0, <3>4 DEF Keep, IterStates
    <3>5. CASE DrainTail(c)
      <4>1. envelope \in Envelopes
        BY <3>5 DEF DrainTail, EnvelopeInv, StreamTypeOK
      <4>2. envelope.status \in Outcomes
        BY <4>1, EnvelopeTypes
      <4> QED BY <1>1, <2>0, <3>5, <4>2 DEF DrainTail, IterStates
    <3> QED BY <1>3, <3>1, <3>2, <3>3, <3>4, <3>5 DEF Iterate
  <2> QED BY <1>1, <2>1
<1> QED BY <1>2, <1>3 DEF StreamNext

\* An envelope is put at the end of the queue, by the worker or by the client
\* that cancels, or taken from its front.
LEMMA SlotSteps ==
  ASSUME StreamTypeOK, WorkerInv, EnvelopeInv, StreamNext
  PROVE  \/ slot' = slot
         \/ slot # <<>> /\ slot' = Tail(slot)
         \/ \E e \in Envelopes : slot' = Append(slot, e) /\ GenuineFor(e, worker'.out, flag')
<1>1. CASE Answer
  <2>1. worker.out \in Envelopes
    BY <1>1 DEF Answer, StreamTypeOK, WorkerStates, WorkerInv, Generating
  <2>2. worker'.out = worker.out
    BY <1>1, ClosingSteps DEF Closing
  <2> QED BY <1>1, <2>1, <2>2 DEF Answer, PutEnvelope, GenuineFor
<1>2. CASE CancelSeed
  <2>1. Env("cancelled", None) \in Envelopes
    BY EnvelopeTypes DEF Outcomes
  <2>2. flag'
    BY <1>2 DEF CancelSeed, EnvelopeInv
  <2> QED BY <1>2, <2>1, <2>2 DEF CancelSeed, PutEnvelope, GenuineFor
<1>3. CASE Yield \/ StoreYield \/ RingYield \/ Finish \/ Interrupt \/ Report
           \/ ShowProgress \/ Flush \/ RingAnswer \/ Forget
  BY <1>3 DEF Yield, StoreYield, RingYield, Finish, Interrupt, Report, ShowProgress,
     Flush, RingAnswer, Forget
<1>4. CASE CancelSignal \/ CancelConfirm \/ CancelRing \/ CancelKeep
  BY <1>4 DEF CancelSignal, CancelConfirm, CancelRing, CancelKeep
<1>5. CASE \E c \in Consumers : Iterate(c)
  BY <1>5 DEF Iterate, Poll, Wake, Deliver, Check, Keep, DrainTail
<1> QED BY <1>1, <1>2, <1>3, <1>4, <1>5 DEF StreamNext, Work, CancelStep, CancelEnd

\* Every step keeps the types.
LEMMA TypesKept ==
  ASSUME StreamInv, StreamNext
  PROVE  StreamTypeOK'
<1> USE DEF StreamInv
<1>1. worker' \in WorkerStates /\ progress' \in ProgressStates
      /\ iter' \in [Consumers -> IterStates]
  BY WorkerTypesKept, ProgressTypesKept, IterTypesKept
<1>2. Env("cancelled", None) \in Envelopes
  BY EnvelopeTypes DEF Outcomes
<1>3. slot' \in Seq(Envelopes)
  <2>1. slot' = slot \/ (slot # <<>> /\ slot' = Tail(slot)) \/ \E e \in Envelopes : slot' = Append(slot, e)
    BY SlotSteps
  <2>2. slot \in Seq(Envelopes)
    BY DEF StreamTypeOK
  <2> QED BY <2>1, <2>2
<1>4. envelope' \in Envelopes \cup {None} /\ cancel' \in CancelStates
  <2>1. CASE CancelStep
    <3>1. CASE CancelConfirm
      BY <3>1 DEF CancelConfirm, StreamTypeOK, CancelStates
    <3>2. CASE CancelSeed
      BY <1>2, <3>2 DEF CancelSeed, RingsAfter, StreamTypeOK, CancelStates
    <3>3. CASE CancelSignal \/ CancelRing \/ CancelKeep
      BY <3>3 DEF CancelSignal, CancelRing, CancelKeep, StreamTypeOK, CancelStates
    <3> QED BY <2>1, <3>1, <3>2, <3>3 DEF CancelStep, CancelEnd
  <2>2. CASE \E c \in Consumers : Keep(c)
    BY <2>2 DEF Keep, StreamTypeOK, IterStates
  <2>3. CASE ~CancelStep /\ ~\E c \in Consumers : Keep(c)
    <3>1. envelope' = envelope /\ cancel' = cancel
      <4>1. CASE Closing
        BY <4>1, ClosingSteps
      <4>2. CASE ~Closing
        BY <2>3, <4>2 DEF StreamNext, Work, Closing, Yield, StoreYield, RingYield, Finish,
           Interrupt, Report, Forget, Iterate, Poll, Wake, Deliver, Check, DrainTail
      <4> QED BY <4>1, <4>2
    <3> QED BY <3>1 DEF StreamTypeOK
  <2> QED BY <2>1, <2>2, <2>3
<1>5. cells' \in Seq(Nat \cup {None}) /\ expiries' \in Nat
  <2>1. CASE StoreYield
    BY <2>1, PutShape DEF StoreYield, StreamTypeOK
  <2>2. CASE Forget
    <3>1. \A i \in DOMAIN cells : [cells EXCEPT ![i] = None] \in Seq(Nat \cup {None})
      BY DEF StreamTypeOK
    <3>2. cells' = cells \/ cells' = <<>> \/ \E i \in DOMAIN cells : cells' = [cells EXCEPT ![i] = None]
      BY <2>2 DEF Forget
    <3>3. expiries' = expiries + 1
      BY <2>2 DEF Forget
    <3>4. cells \in Seq(Nat \cup {None}) /\ <<>> \in Seq(Nat \cup {None}) /\ expiries + 1 \in Nat
      BY DEF StreamTypeOK
    <3> QED BY <3>1, <3>2, <3>3, <3>4
  <2>3. CASE Closing \/ CancelStep
    BY <2>3, ClosingSteps, CancelSteps DEF StreamTypeOK
  <2>4. CASE ~StoreYield /\ ~Forget /\ ~Closing /\ ~CancelStep
    BY <2>4 DEF StreamNext, Work, Closing, Yield, RingYield, Finish, Interrupt, Report,
       Iterate, Poll, Wake, Deliver, Check, Keep, DrainTail, StreamTypeOK
  <2> QED BY <2>1, <2>2, <2>3, <2>4
<1>6. backend' = backend /\ bell' \in BOOLEAN /\ flag' \in BOOLEAN
  <2>1. CASE Closing
    <3>1. bell' \in BOOLEAN
      BY <2>1 DEF Closing, ShowProgress, Flush, Answer, RingAnswer, PutEnvelope, StreamTypeOK
    <3> QED BY <2>1, <3>1, ClosingSteps DEF StreamTypeOK
  <2>2. CASE CancelStep
    BY <2>2 DEF CancelStep, CancelEnd, CancelSignal, CancelConfirm, CancelSeed, CancelRing,
       CancelKeep, PutEnvelope, StreamTypeOK
  <2>3. CASE ~Closing /\ ~CancelStep
    BY <2>3 DEF StreamNext, Work, Closing, Yield, StoreYield, RingYield, Finish, Interrupt,
       Report, Forget, Iterate, Poll, Wake, Deliver, Check, Keep, DrainTail, StreamTypeOK
  <2> QED BY <2>1, <2>2, <2>3
<1> QED BY <1>1, <1>3, <1>4, <1>5, <1>6 DEF StreamTypeOK

-----------------------------------------------------------------------------
(* What a step does to the broker and to the worker.                       *)

\* Only send_yield and an expiry change what is stored.
LEMMA StoreSteps ==
  ASSUME StreamTypeOK, StreamNext
  PROVE  \/ StoreYield \/ Forget
         \/ cells' = cells /\ expiries' = expiries /\ worker'.stored = worker.stored
<1>1. CASE Yield \/ RingYield \/ Finish \/ Interrupt
  BY <1>1 DEF Yield, RingYield, Finish, End, Interrupt, StreamTypeOK, WorkerStates
<1>2. CASE Closing \/ Report \/ CancelStep
  BY <1>2, ClosingSteps, CancelSteps DEF Report
<1>3. CASE \E c \in Consumers : Iterate(c)
  BY <1>3 DEF Iterate, Poll, Wake, Deliver, Check, Keep, DrainTail
<1> QED BY <1>1, <1>2, <1>3 DEF StreamNext, Work, Closing

\* What does not come back.
LEMMA Forward ==
  ASSUME StreamTypeOK, WorkerInv, StreamNext
  PROVE  /\ backend' = backend
         /\ worker'.stored >= worker.stored
         /\ flag => flag'
         /\ worker.out # None => worker'.out = worker.out /\ worker'.stored = worker.stored
         /\ Whole' => Whole
<1>1. backend' = backend /\ (flag => flag')
  <2>1. CASE Closing \/ CancelStep
    BY <2>1, ClosingSteps, CancelSteps
  <2>2. CASE ~Closing /\ ~CancelStep
    BY <2>2 DEF StreamNext, Work, Closing, Yield, StoreYield, RingYield, Finish, Interrupt,
       Report, Forget, Iterate, Poll, Wake, Deliver, Check, Keep, DrainTail, StreamTypeOK
  <2> QED BY <2>1, <2>2
<1>2. worker \in WorkerStates /\ worker.stored \in Nat /\ worker.stored + 1 >= worker.stored
  BY DEF StreamTypeOK, WorkerStates
<1>3. CASE Yield \/ RingYield \/ Finish \/ Interrupt \/ StoreYield
  <2>1. worker.pc \in Generating
    BY <1>3 DEF Yield, RingYield, Finish, Interrupt, StoreYield, Generating
  <2>2. worker.out = None
    BY <2>1 DEF WorkerInv
  <2>3. worker'.stored \in {worker.stored, worker.stored + 1}
    BY <1>2, <1>3, Zenon DEF Yield, RingYield, Finish, End, Interrupt, StoreYield, WorkerStates
  <2>4. expiries' = expiries
    BY <1>3 DEF Yield, RingYield, Finish, Interrupt, StoreYield
  <2> QED BY <1>1, <1>2, <2>2, <2>3, <2>4 DEF Whole
<1>4. CASE Closing
  BY <1>1, <1>2, <1>4, ClosingSteps DEF Whole
<1>5. CASE Report \/ CancelStep \/ \E c \in Consumers : Iterate(c)
  <2>1. worker' = worker /\ expiries' = expiries
    BY <1>5, CancelSteps DEF Report, Iterate, Poll, Wake, Deliver, Check, Keep, DrainTail
  <2> QED BY <1>1, <1>2, <2>1 DEF Whole
<1>6. CASE Forget
  BY <1>1, <1>2, <1>6 DEF Forget, Whole, StreamTypeOK
<1> QED BY <1>3, <1>4, <1>5, <1>6 DEF StreamNext, Work, Closing

\* An iteration moves by its own steps.
LEMMA IterSteps ==
  ASSUME StreamTypeOK, StreamNext, NEW d \in Consumers
  PROVE  iter'[d] = iter[d] \/ Iterate(d)
<1>1. iter \in [Consumers -> IterStates]
  BY DEF StreamTypeOK
<1>2. CASE Work \/ CancelStep \/ Forget
  BY <1>2, ClosingSteps, CancelSteps DEF Work, Closing, Yield, StoreYield, RingYield, Finish,
     Interrupt, Report, Forget
<1>3. ASSUME NEW c \in Consumers, Iterate(c), c # d PROVE iter'[d] = iter[d]
  <2>1. CASE Poll(c) \/ Wake(c)
    BY <1>1, <1>3, <2>1 DEF Poll, Wake, Got
  <2>2. CASE Deliver(c)
    BY <1>1, <1>3, <2>2 DEF Deliver
  <2>3. CASE Check(c) \/ Keep(c)
    BY <1>1, <1>3, <2>3 DEF Check, Keep
  <2>4. CASE DrainTail(c)
    BY <1>1, <1>3, <2>4 DEF DrainTail
  <2> QED BY <1>3, <2>1, <2>2, <2>3, <2>4 DEF Iterate
<1> QED BY <1>2, <1>3 DEF StreamNext

\* Every step keeps the store as it was written: only expiry empties it.
LEMMA StoreKept ==
  ASSUME StreamInv, StreamNext
  PROVE  StoreInv'
<1>0. /\ Len(cells) \in Nat /\ worker.stored \in Nat /\ worker.seq \in Nat /\ expiries \in Nat
      /\ backend' = backend
  BY Forward DEF StreamInv, StreamTypeOK, WorkerStates
<1>1. CASE StoreYield
  <2>1. /\ cells' = Put(worker.seq, worker.seq) /\ worker'.stored = worker.stored + 1
        /\ worker.pc = "sending" /\ worker.stored = worker.seq /\ expiries' = expiries
    BY <1>1 DEF StoreYield, StreamInv, StreamTypeOK, WorkerStates, WorkerInv
  <2>2. /\ Len(cells') = Len(cells) + 1
        /\ \A i \in 1..Len(cells) : cells'[i] = cells[i]
        /\ cells'[Len(cells) + 1] = worker.seq
    BY <2>1, PutShape DEF StreamInv
  <2>3. \A i \in 1..Len(cells') : i \in 1..Len(cells) \/ i = Len(cells) + 1
    BY <1>0, <2>2
  <2>4. worker.seq # None /\ (Whole' <=> Whole)
    BY <1>0, <2>1, EnvelopeTypes DEF Whole
  <2>5. StoreInv
    BY DEF StreamInv
  <2>6. Len(cells') <= worker'.stored /\ (Whole' => Len(cells') = worker'.stored)
    BY <1>0, <2>1, <2>2, <2>4, <2>5 DEF StoreInv
  <2>7. ASSUME NEW i \in 1..Len(cells')
        PROVE  /\ Whole' => cells'[i] \in {i - 1, None}
               /\ backend' # "rabbitmq" \/ expiries' = 0 => cells'[i] # None
               /\ \A j \in 1..Len(cells') : i <= j /\ cells'[i] # None => cells'[j] # None
    BY <1>0, <2>1, <2>2, <2>3, <2>4, <2>5 DEF StoreInv
  <2> QED BY <2>6, <2>7 DEF StoreInv
<1>2. CASE Forget
  <2>0. worker' = worker /\ expiries' = expiries + 1 /\ StoreInv /\ cells \in Seq(Nat \cup {None})
    BY <1>2 DEF Forget, StreamInv, StreamTypeOK
  <2>1. CASE backend = "redis" /\ cells' = <<>>
    BY <1>0, <2>0, <2>1 DEF StoreInv, Whole
  <2>2. CASE backend = "rabbitmq" /\ cells' # cells
    <3>1. PICK k \in DOMAIN cells : /\ \A j \in 1..(k - 1) : cells[j] = None
                                    /\ cells' = [cells EXCEPT ![k] = None]
      BY <1>2, <2>2 DEF Forget
    <3>2. /\ Len(cells') = Len(cells) /\ k \in 1..Len(cells)
          /\ \A i \in 1..Len(cells) : cells'[i] = IF i <= k THEN None ELSE cells[i]
      BY <2>0, <3>1
    <3>3. Whole /\ expiries' # 0
      BY <1>0, <2>0, <2>2 DEF Whole
    <3> QED BY <1>0, <2>0, <2>2, <3>2, <3>3 DEF StoreInv
  <2>3. CASE cells' = cells
    <3>1. (Whole' => Whole) /\ expiries' # 0
      BY <1>0, <2>0 DEF Whole
    <3> QED BY <1>0, <2>0, <2>3, <3>1 DEF StoreInv
  <2> QED BY <1>2, <2>1, <2>2, <2>3 DEF Forget
<1>3. CASE cells' = cells /\ expiries' = expiries /\ worker'.stored = worker.stored
  BY <1>0, <1>3 DEF StreamInv, StoreInv, Whole
<1> QED BY <1>1, <1>2, <1>3, StoreSteps DEF StreamInv

-----------------------------------------------------------------------------
(* The parts of the invariant about the worker and about envelopes.        *)

\* Every step keeps the worker in step with its count.
LEMMA WorkerKept ==
  ASSUME StreamInv, StreamNext
  PROVE  WorkerInv'
<1>1. /\ worker \in WorkerStates /\ WorkerInv /\ worker.seq \in Nat /\ worker.stored \in Nat
      /\ worker.seq + 1 \in Nat
  BY DEF StreamInv, StreamTypeOK, WorkerStates
<1>2. \A st \in Outcomes, f \in Nat \cup {None} :
        Env(st, f) # None /\ Env(st, f).status = st /\ Env(st, f).final = f
  BY EnvelopeTypes DEF Env
<1>3. CASE Yield \/ StoreYield \/ RingYield
  <2>1. /\ worker'.out = worker.out /\ worker.pc \in Generating /\ worker'.pc \in Generating
        /\ \/ /\ worker.pc = "running" /\ worker'.pc = "sending"
              /\ worker'.seq = worker.seq /\ worker'.stored = worker.stored
           \/ /\ worker.pc = "sending" /\ worker'.pc = "ringing"
              /\ worker'.seq = worker.seq /\ worker'.stored = worker.stored + 1
           \/ /\ worker.pc = "ringing" /\ worker'.pc = "running"
              /\ worker'.seq = worker.seq + 1 /\ worker'.stored = worker.stored
    BY <1>1, <1>3, Zenon DEF Yield, StoreYield, RingYield, WorkerStates, Generating
  <2>2. worker.out = None
    BY <1>1, <2>1 DEF WorkerInv
  <2> QED BY <1>1, <2>1, <2>2 DEF WorkerInv
<1>4. CASE Finish \/ Interrupt
  <2>1. worker.out = None /\ worker.pc \in Generating
    BY <1>1, <1>4 DEF Finish, Interrupt, WorkerInv, Generating
  <2>2. CASE worker'.pc = "running" /\ worker'.out = None
             /\ worker'.seq = worker.seq /\ worker'.stored = worker.stored
             /\ worker.pc = "running"
    BY <1>1, <2>2 DEF WorkerInv, Generating
  <2>3. CASE /\ worker'.pc = "flushing" /\ worker'.stored = worker.stored
             /\ \/ worker'.out \in {Env("error", None), Env("cancelled", None)}
                \/ worker'.out = Env("ok", worker.seq) /\ worker.pc = "running"
    <3>1. worker'.out # None /\ (worker'.out.status = "ok" => worker'.out.final = worker.stored)
      <4>1. /\ "ok" \in Outcomes /\ "error" \in Outcomes /\ "cancelled" \in Outcomes
            /\ worker.seq \in Nat \cup {None} /\ None \in Nat \cup {None}
        BY <1>1 DEF Outcomes
      <4>2. /\ Env("error", None) # None /\ Env("error", None).status = "error"
            /\ Env("cancelled", None) # None /\ Env("cancelled", None).status = "cancelled"
            /\ Env("ok", worker.seq) # None /\ Env("ok", worker.seq).final = worker.seq
        BY <1>2, <4>1
      <4>3. worker.pc = "running" => worker.stored = worker.seq
        BY <1>1 DEF WorkerInv
      <4> QED BY <2>3, <4>2, <4>3
    <3> QED BY <2>3, <3>1 DEF WorkerInv, Generating
  <2>4. CASE Interrupt
    BY <1>1, <2>1, <2>2, <2>3, <2>4 DEF Interrupt, WorkerStates
  <2>5. CASE Finish /\ worker.pc = "running"
    BY <1>1, <2>1, <2>3, <2>5 DEF Finish, End, WorkerStates
  <2>6. CASE Finish /\ worker.pc # "running"
    <3>1. worker' = [worker EXCEPT !.pc = "flushing", !.out = Env("error", None),
                                   !.faults = @ + 1]
      BY <2>6 DEF Finish
    <3>2. worker'.pc = "flushing" /\ worker'.stored = worker.stored /\ worker'.out = Env("error", None)
      BY <1>1, <3>1, Zenon DEF WorkerStates
    <3> QED BY <2>3, <3>2
  <2> QED BY <1>4, <2>4, <2>5, <2>6
<1>5. CASE Closing
  <2>1. StreamTypeOK
    BY DEF StreamInv
  <2> QED BY <1>1, <1>5, <2>1, ClosingSteps DEF WorkerInv, Generating
<1>6. CASE Report \/ CancelStep \/ Forget \/ \E c \in Consumers : Iterate(c)
  <2>1. worker' = worker
    BY <1>6, CancelSteps DEF Report, Forget, Iterate, Poll, Wake, Deliver, Check, Keep, DrainTail
  <2> QED BY <1>1, <2>1 DEF WorkerInv
<1> QED BY <1>3, <1>4, <1>5, <1>6 DEF StreamNext, Work, Closing

\* What is genuine stays so.
LEMMA GenuineKept ==
  ASSUME StreamInv, StreamNext, NEW e, e # None, Genuine(e)
  PROVE  GenuineFor(e, worker'.out, flag')
BY Forward DEF StreamInv, Genuine, GenuineFor

\* Every step keeps the envelopes those of the worker or of cancel().
LEMMA EnvelopeKept ==
  ASSUME StreamInv, StreamNext
  PROVE  EnvelopeInv'
<1>0. /\ StreamTypeOK /\ WorkerInv /\ EnvelopeInv /\ slot \in Seq(Envelopes)
      /\ None \notin Envelopes
  BY EnvelopeTypes DEF StreamInv, StreamTypeOK
<1>1. \A i \in 1..Len(slot') : GenuineFor(slot'[i], worker'.out, flag')
  <2>1. \A i \in 1..Len(slot) : slot[i] # None /\ Genuine(slot[i])
    BY <1>0 DEF EnvelopeInv
  <2>2. \A i \in 1..Len(slot) : GenuineFor(slot[i], worker'.out, flag')
    BY <2>1, GenuineKept
  <2>3. CASE slot' = slot
    BY <2>2, <2>3
  <2>4. CASE slot # <<>> /\ slot' = Tail(slot)
    <3>1. \A i \in 1..Len(slot') : i + 1 \in 1..Len(slot) /\ slot'[i] = slot[i + 1]
      BY <1>0, <2>4
    <3> QED BY <2>2, <3>1
  <2>5. CASE \E e \in Envelopes : slot' = Append(slot, e) /\ GenuineFor(e, worker'.out, flag')
    <3>1. PICK e \in Envelopes : slot' = Append(slot, e) /\ GenuineFor(e, worker'.out, flag')
      BY <2>5
    <3>2. \A i \in 1..Len(slot') : slot'[i] = e \/ (i \in 1..Len(slot) /\ slot'[i] = slot[i])
      BY <1>0, <3>1
    <3> QED BY <2>2, <3>1, <3>2
  <2> QED BY <1>0, <2>3, <2>4, <2>5, SlotSteps
<1>2. slot # <<>> => Head(slot) # None /\ Genuine(Head(slot))
  BY <1>0 DEF EnvelopeInv
<1>3. /\ envelope' # None => GenuineFor(envelope', worker'.out, flag')
      /\ envelope # None => envelope' # None
  <2>1. CASE CancelKeep
    <3>1. envelope' = cancel.raw /\ cancel.raw # None /\ Genuine(cancel.raw)
      BY <1>0, <2>1 DEF CancelKeep, EnvelopeInv
    <3> QED BY <3>1, GenuineKept
  <2>2. ASSUME NEW c \in Consumers, Keep(c)
        PROVE  (envelope' # None => GenuineFor(envelope', worker'.out, flag')) /\ (envelope # None => envelope' # None)
    <3>1. envelope' = iter[c].raw /\ iter[c].raw # None /\ Genuine(iter[c].raw)
      BY <1>0, <2>2 DEF Keep, EnvelopeInv
    <3> QED BY <3>1, GenuineKept
  <2>3. CASE ~CancelKeep /\ ~\E c \in Consumers : Keep(c)
    <3>1. envelope' = envelope
      <4>1. CASE Closing
        BY <1>0, <4>1, ClosingSteps
      <4>2. CASE ~Closing
        BY <2>3, <4>2 DEF StreamNext, Work, Closing, Yield, StoreYield, RingYield, Finish,
           Interrupt, Report, CancelStep, CancelEnd, CancelSignal, CancelConfirm, CancelSeed,
           CancelRing, Forget, Iterate, Poll, Wake, Deliver, Check, DrainTail
      <4> QED BY <4>1, <4>2
    <3> QED BY <1>0, <3>1, GenuineKept DEF EnvelopeInv
  <2> QED BY <2>1, <2>2, <2>3
<1>4. /\ cancel'.pc # "idle" => flag'
      /\ cancel'.pc \in {"ring", "keep"} =>
           cancel'.raw # None /\ GenuineFor(cancel'.raw, worker'.out, flag')
  <2>1. cancel \in CancelStates
    BY <1>0 DEF StreamTypeOK
  <2>2. CASE CancelSignal
    BY <2>1, <2>2 DEF CancelSignal, CancelStates
  <2>3. CASE CancelConfirm
    <3>1. flag'
      BY <1>0, <2>3 DEF CancelConfirm, EnvelopeInv
    <3>2. CASE slot # <<>> /\ cancel' = [pc |-> "keep", raw |-> Head(slot)]
      BY <1>2, <3>1, <3>2, GenuineKept
    <3>3. CASE cancel' = [cancel EXCEPT !.pc = "seed"]
      BY <2>1, <3>1, <3>3 DEF CancelStates
    <3> QED BY <2>3, <3>2, <3>3 DEF CancelConfirm
  <2>4. CASE CancelSeed
    <3>1. flag' /\ cancel'.raw = Env("cancelled", None)
      BY <1>0, <2>4 DEF CancelSeed, EnvelopeInv
    <3>2. Env("cancelled", None) # None
      BY EnvelopeTypes DEF Outcomes
    <3> QED BY <3>1, <3>2 DEF GenuineFor
  <2>8. CASE CancelRing
    <3>1. flag' /\ cancel'.raw = cancel.raw /\ cancel.raw # None /\ Genuine(cancel.raw)
      BY <1>0, <2>1, <2>8 DEF CancelRing, EnvelopeInv, CancelStates
    <3> QED BY <3>1, GenuineKept
  <2>5. CASE CancelKeep
    BY <1>0, <2>1, <2>5 DEF CancelKeep, EnvelopeInv, CancelStates
  <2>6. CASE cancel' = cancel
    <3>1. flag => flag'
      BY <1>0, Forward
    <3> QED BY <1>0, <2>6, <3>1, GenuineKept DEF EnvelopeInv
  <2>7. CancelStep \/ cancel' = cancel
    <3>1. Closing => cancel' = cancel
      BY <1>0, ClosingSteps
    <3> QED BY <3>1 DEF StreamNext, Work, Closing, Yield, StoreYield, RingYield, Finish,
       Interrupt, Report, Forget, Iterate, Poll, Wake, Deliver, Check, Keep, DrainTail
  <2> QED BY <2>2, <2>3, <2>4, <2>5, <2>6, <2>7, <2>8 DEF CancelStep, CancelEnd
<1>5. ASSUME NEW d \in Consumers
      PROVE  /\ iter'[d].pc = "took" => iter'[d].raw # None /\ GenuineFor(iter'[d].raw, worker'.out, flag')
             /\ iter'[d].pc = "tail" => envelope' # None
  <2>1. iter \in [Consumers -> IterStates] /\ iter[d] \in IterStates
    BY <1>0 DEF StreamTypeOK
  <2>2. CASE iter'[d] = iter[d]
    BY <1>0, <1>3, <2>2, GenuineKept DEF EnvelopeInv
  <2>3. CASE Check(d)
    <3>1. CASE envelope = None /\ slot # <<>>
      <4>1. iter'[d].pc = "took" /\ iter'[d].raw = Head(slot)
        BY <2>1, <2>3, <3>1 DEF Check, IterStates
      <4> QED BY <1>2, <3>1, <4>1, GenuineKept
    <3>2. CASE ~(envelope = None /\ slot # <<>>)
      BY <1>3, <2>1, <2>3, <3>2 DEF Check, IterStates
    <3> QED BY <3>1, <3>2
  <2>4. CASE Keep(d)
    <3>1. envelope' # None
      BY <1>0, <2>4 DEF Keep, EnvelopeInv
    <3>2. iter'[d].pc = "tail"
      BY <2>1, <2>4 DEF Keep, IterStates
    <3> QED BY <3>1, <3>2
  <2>5. CASE Poll(d) \/ Wake(d) \/ Deliver(d) \/ DrainTail(d)
    <3>1. iter'[d].pc \in {"wait", "deliver", "check", "poll", "ended"}
      <4>1. CASE Poll(d) \/ Wake(d)
        <5>1. PICK b \in Seq(Nat \X Nat), at \in {"deliver", "wait", "check"} : LookedAt(d, b, at)
          BY <1>0, <4>1, Looked DEF StreamInv
        <5> QED BY <2>1, <5>1 DEF IterStates, LookedAt
      <4>2. CASE Deliver(d)
        <5>1. iter' = [iter EXCEPT ![d] = AfterDelivery(iter[d])]
          BY <1>0, <4>2, Delivered DEF StreamInv
        <5> QED BY <2>1, <5>1 DEF AfterDelivery, IterStates
      <4>3. CASE DrainTail(d)
        BY <2>1, <4>3 DEF DrainTail, IterStates
      <4> QED BY <2>5, <4>1, <4>2, <4>3
    <3> QED BY <3>1
  <2>6. iter'[d] = iter[d] \/ Iterate(d)
    BY <1>0, IterSteps
  <2> QED BY <2>2, <2>3, <2>4, <2>5, <2>6 DEF Iterate
<1> QED BY <1>1, <1>3, <1>4, <1>5 DEF EnvelopeInv, Genuine

-----------------------------------------------------------------------------
(* The parts about the iterations.                                         *)

\* Every step keeps an iteration where its batch goes on.
LEMMA IterKept ==
  ASSUME StreamInv, StreamNext
  PROVE  IterInv'
<1>0. /\ StreamTypeOK /\ StoreInv /\ WorkerInv /\ EnvelopeInv /\ IterInv
      /\ iter \in [Consumers -> IterStates]
      /\ worker.stored \in Nat /\ worker'.stored \in Nat /\ worker'.stored >= worker.stored
      /\ Whole' => Whole
  BY Forward, TypesKept DEF StreamInv, StreamTypeOK, WorkerStates
<1> SUFFICES ASSUME NEW d \in Consumers
             PROVE  /\ iter'[d].next <= worker'.stored
                    /\ iter'[d].pc = "deliver" => iter'[d].batch # <<>>
                    /\ iter'[d].pc = "deliver" => RunFrom(iter[d].next, iter[d].batch)'
                    /\ iter'[d].pc = "ended" <=> iter'[d].told # None
  BY DEF IterInv
<1>1. /\ iter[d] \in IterStates /\ iter[d].next \in Nat /\ iter[d].batch \in Seq(Nat \X Nat)
      /\ iter[d].next <= worker.stored
      /\ iter[d].pc = "deliver" => iter[d].batch # <<>>
      /\ iter[d].pc = "deliver" => RunFrom(iter[d].next, iter[d].batch)
      /\ iter[d].pc = "ended" <=> iter[d].told # None
  BY <1>0 DEF IterInv, IterStates
\* A run stays one while the worker stores more.
<1>2. ASSUME NEW n \in Nat, NEW b \in Seq(Nat \X Nat), RunFrom(n, b),
             iter'[d].next = n, iter'[d].batch = b
      PROVE  RunFrom(iter[d].next, iter[d].batch)'
  <2>1. \A i \in 1..Len(b) : b[i][1] \in Nat
    OBVIOUS
  <2>2. \A i \in 1..Len(b) : /\ b[i][1] = n + i - 1 /\ b[i][1] < worker'.stored
                             /\ Whole' => b[i][2] = b[i][1]
    BY <1>0, <1>2, <2>1 DEF RunFrom
  <2> QED BY <1>2, <2>2 DEF RunFrom
<1>3. CASE iter'[d] = iter[d]
  <2>1. iter'[d].next <= worker'.stored
    BY <1>0, <1>1, <1>3
  <2> QED BY <1>1, <1>2, <1>3, <2>1
<1>4. CASE Poll(d) \/ Wake(d)
  <2>1. PICK b \in Seq(Nat \X Nat), at \in {"deliver", "wait", "check"} : LookedAt(d, b, at)
    BY <1>0, <1>4, Looked
  <2>2. /\ iter'[d].next = iter[d].next /\ iter'[d].batch = b /\ iter'[d].told = iter[d].told
        /\ iter'[d].pc = at
    BY <1>0, <1>1, <2>1 DEF IterStates, LookedAt
  <2>3. iter[d].pc # "ended" /\ iter'[d].pc # "ended"
    BY <1>4, <2>2 DEF Poll, Wake
  <2>4. iter'[d].next <= worker'.stored
    BY <1>0, <1>1, <2>2
  <2>5. RunFrom(iter[d].next, iter[d].batch)' /\ (at = "deliver" => b # <<>>)
    BY <1>1, <1>2, <2>1, <2>2 DEF LookedAt
  <2> QED BY <1>1, <2>2, <2>3, <2>4, <2>5
<1>5. CASE Deliver(d)
  <2> DEFINE b == iter[d].batch  n == iter[d].next
  <2>1. /\ iter' = [iter EXCEPT ![d] = AfterDelivery(iter[d])]
        /\ b # <<>> /\ n < worker.stored
    BY <1>0, <1>5, Delivered
  <2>2. /\ iter'[d].next = n + 1 /\ iter'[d].batch = Tail(b) /\ iter'[d].told = iter[d].told
        /\ iter'[d].pc = IF Tail(b) = <<>> THEN "poll" ELSE "deliver"
    BY <1>0, <1>1, <2>1 DEF AfterDelivery, IterStates
  <2>3. iter[d].pc = "deliver"
    BY <1>5 DEF Deliver
  <2>4. RunFrom(n + 1, Tail(b))
    <3>1. RunFrom(n, b)
      BY <1>1, <2>3
    <3>2. \A i \in 1..Len(Tail(b)) : /\ i + 1 \in 1..Len(b) /\ Tail(b)[i] = b[i + 1]
                                     /\ n + (i + 1) - 1 = (n + 1) + i - 1
      <4>1. b \in Seq(Nat \X Nat) /\ b # <<>> /\ n \in Nat
        BY <1>1, <2>1
      <4> HIDE DEF b, n
      <4> QED BY <4>1
    <3>3. \A i \in 1..Len(Tail(b)) :
            /\ Tail(b)[i][1] = (n + 1) + i - 1 /\ Tail(b)[i][1] < worker.stored
            /\ Whole => Tail(b)[i][2] = Tail(b)[i][1]
      <4> HIDE DEF b, n
      <4> QED BY <3>1, <3>2 DEF RunFrom
    <3> QED BY <3>3 DEF RunFrom
  <2>5. Tail(b) \in Seq(Nat \X Nat) /\ n + 1 \in Nat
    BY <1>1, <2>1
  <2>6. RunFrom(iter[d].next, iter[d].batch)'
    <3> HIDE DEF b, n
    <3> QED BY <1>2, <2>2, <2>4, <2>5
  <2>7. iter'[d].next <= worker'.stored
    BY <1>0, <1>1, <2>1, <2>2
  <2> QED BY <1>1, <2>2, <2>3, <2>6, <2>7
<1>6. CASE Check(d) \/ Keep(d)
  <2>1. /\ iter'[d].next = iter[d].next /\ iter'[d].told = iter[d].told
        /\ iter'[d].pc \in {"took", "poll", "tail"} /\ iter[d].pc \in {"check", "took"}
    BY <1>0, <1>1, <1>6 DEF Check, Keep, IterStates
  <2>2. iter'[d].next <= worker'.stored
    BY <1>0, <1>1, <2>1
  <2> QED BY <1>1, <2>1, <2>2
<1>7. CASE DrainTail(d)
  <2>1. envelope \in Envelopes
    BY <1>0, <1>7 DEF DrainTail, EnvelopeInv, StreamTypeOK
  <2>2. envelope.status # None
    BY <2>1, EnvelopeTypes
  <2>3. /\ iter'[d].next = iter[d].next /\ iter[d].pc = "tail"
        /\ \/ iter'[d].pc = "ended" /\ iter'[d].told = envelope.status
           \/ iter'[d].pc = "poll" /\ iter'[d].told = iter[d].told
    BY <1>0, <1>1, <1>7 DEF DrainTail, IterStates
  <2>4. iter'[d].next <= worker'.stored
    BY <1>0, <1>1, <2>3
  <2> QED BY <1>1, <2>2, <2>3, <2>4
<1> QED BY <1>0, <1>3, <1>4, <1>5, <1>6, <1>7, IterSteps DEF Iterate

\* Values are handed out in order.
LEMMA InOrderKept ==
  ASSUME StreamInv, StreamNext
  PROVE  InOrder'
<1>0. /\ StreamTypeOK /\ IterInv /\ iter \in [Consumers -> IterStates]
      /\ Whole' => Whole
  BY Forward DEF StreamInv, StreamTypeOK
<1> SUFFICES ASSUME NEW d \in Consumers, Whole'
             PROVE  iter'[d].got = [i \in 1..iter'[d].next |-> i - 1]
  BY DEF InOrder, Whole
<1>1. /\ iter[d] \in IterStates /\ iter[d].next \in Nat
      /\ iter[d].got = [i \in 1..iter[d].next |-> i - 1]
  BY <1>0 DEF IterStates, StreamInv, InOrder, Whole
<1>2. CASE Deliver(d)
  <2> DEFINE n == iter[d].next
  <2>1. /\ iter' = [iter EXCEPT ![d] = AfterDelivery(iter[d])]
        /\ iter[d].batch[1][2] = n
    BY <1>0, <1>2, Delivered
  <2>2. iter'[d].next = n + 1 /\ iter'[d].got = Append(iter[d].got, n)
    BY <1>0, <1>1, <2>1 DEF AfterDelivery, IterStates
  <2>3. Append([i \in 1..n |-> i - 1], n) = [i \in 1..(n + 1) |-> i - 1]
    <3>1. n \in Nat
      BY <1>1
    <3> HIDE DEF n
    <3> QED BY <3>1
  <2> QED BY <1>1, <2>2, <2>3
<1>3. CASE Poll(d) \/ Wake(d)
  <2>0. iter[d] \in IterStates
    BY <1>1
  <2>1. PICK b \in Seq(Nat \X Nat), at \in {"deliver", "wait", "check"} : LookedAt(d, b, at)
    BY <1>0, <1>3, Looked DEF StreamInv
  <2>2. iter'[d].got = iter[d].got /\ iter'[d].next = iter[d].next
    BY <1>0, <2>0, <2>1 DEF IterStates, LookedAt
  <2> QED BY <1>1, <2>2
<1>4. CASE Check(d) \/ Keep(d) \/ DrainTail(d)
  <2>0. iter[d] \in IterStates /\ iter \in [Consumers -> IterStates]
    BY <1>0, <1>1
  <2>1. Check(d) => iter'[d].got = iter[d].got /\ iter'[d].next = iter[d].next
    BY <2>0 DEF Check, IterStates
  <2>3. Keep(d) => iter'[d].got = iter[d].got /\ iter'[d].next = iter[d].next
    BY <2>0 DEF Keep, IterStates
  <2>2. DrainTail(d) => iter'[d].got = iter[d].got /\ iter'[d].next = iter[d].next
    BY <2>0 DEF DrainTail, IterStates
  <2> QED BY <1>1, <1>4, <2>1, <2>2, <2>3
<1>5. CASE iter'[d] = iter[d]
  BY <1>1, <1>5
<1> QED BY <1>0, <1>1, <1>2, <1>3, <1>4, <1>5, IterSteps DEF Iterate

\* A read returns nothing exactly when nothing is held.
LEMMA EmptyYields ==
  StreamTypeOK /\ StoreInv => \A n \in Nat : Yields(n) = <<>> <=> Held(n) = 0
BY YieldsShape

\* A wake-up is not lost.
LEMMA WakeKept ==
  ASSUME StreamInv, StreamNext
  PROVE  NoLostWakeup'
<1>0. /\ StreamTypeOK /\ StoreInv /\ WorkerInv /\ NoLostWakeup
      /\ iter \in [Consumers -> IterStates] /\ backend' = backend
      /\ \A m \in Nat : Yields(m) = <<>> <=> Held(m) = 0
  BY Forward, EmptyYields DEF StreamInv, StreamTypeOK
<1>1. \A m \in Nat : (Yields(m) = <<>> <=> Held(m) = 0)'
  <2>1. (StreamTypeOK /\ StoreInv => \A n \in Nat : Yields(n) = <<>> <=> Held(n) = 0)'
    BY EmptyYields, PTL
  <2> QED BY <2>1, TypesKept, StoreKept
<1> SUFFICES ASSUME NEW d \in Consumers, Consumers = {d}, backend # "local",
                    iter'[d].pc = "wait", (Yields(iter[d].next) # <<>>)'
             PROVE  bell' \/ worker'.pc = "ringing" \/ worker'.stored > worker'.seq
  BY <1>0 DEF NoLostWakeup
<1> DEFINE n == iter[d].next
<1>2. /\ iter[d] \in IterStates /\ n \in Nat
      /\ worker \in WorkerStates /\ worker.seq \in Nat /\ worker.stored \in Nat
  BY <1>0 DEF IterStates, StreamTypeOK, WorkerStates
<1>3. CASE Iterate(d)
  <2>1. Poll(d)
    <3>1. CASE Wake(d)
      <4>1. PICK b \in Seq(Nat \X Nat), at \in {"deliver", "wait", "check"} : LookedAt(d, b, at)
        BY <1>0, <3>1, Looked
      <4>2. at # "wait" /\ iter' = [iter EXCEPT ![d].pc = at, ![d].batch = b]
        BY <3>1, <4>1 DEF Wake, LookedAt
      <4> QED BY <1>0, <1>2, <4>2 DEF IterStates
    <3>2. CASE Deliver(d)
      <4>1. iter' = [iter EXCEPT ![d] = AfterDelivery(iter[d])]
        BY <1>0, <3>2, Delivered DEF StreamInv
      <4> QED BY <1>0, <1>2, <4>1 DEF AfterDelivery, IterStates
    <3>3. CASE Check(d) \/ Keep(d) \/ DrainTail(d)
      BY <1>0, <1>2, <3>3 DEF Check, Keep, DrainTail, IterStates
    <3> QED BY <1>3, <3>1, <3>2, <3>3 DEF Iterate
  <2>4. iter'[d].pc = "wait"
    OBVIOUS
  <2>2. Yields(n) = <<>> /\ iter'[d].next = n
    <3>1. PICK b \in Seq(Nat \X Nat), at \in {"deliver", "wait", "check"} : LookedAt(d, b, at)
      BY <1>0, <2>1, Looked
    <3> QED BY <1>0, <1>2, <2>4, <3>1 DEF IterStates, LookedAt
  <2>3. cells' = cells
    BY <2>1 DEF Poll
  <2> QED BY <1>0, <1>1, <1>2, <2>2, <2>3 DEF Held
<1>4. CASE iter'[d] = iter[d] /\ ~Iterate(d)
  <2>1. iter[d].pc = "wait" /\ iter'[d].next = n /\ Held(n)' # 0
    BY <1>1, <1>2, <1>4
  <2>2. CASE StoreYield
    BY <1>2, <2>2 DEF StoreYield, WorkerStates
  <2>3. CASE ~StoreYield
    <3>1. Held(n) # 0
      <4>1. CASE Forget /\ cells' # cells
        <5>1. cells' = <<>> \/ \E k \in DOMAIN cells : cells' = [cells EXCEPT ![k] = None]
          BY <4>1 DEF Forget
        <5>2. cells \in Seq(Nat \cup {None})
          BY <1>0 DEF StreamTypeOK
        <5> QED BY <1>2, <2>1, <5>1, <5>2 DEF Held
      <4>2. CASE cells' = cells
        BY <2>1, <4>2 DEF Held
      <4> QED BY <1>0, <2>3, <4>1, <4>2, StoreSteps
    <3>2. bell \/ worker.pc = "ringing" \/ worker.stored > worker.seq
      BY <1>0, <1>2, <2>1, <3>1 DEF NoLostWakeup
    <3>3. worker.pc \in {"running", "sending"} => ~(worker.stored > worker.seq)
      BY <1>0, <1>2 DEF WorkerInv
    <3>4. CASE RingYield
      BY <1>0, <3>4 DEF RingYield
    <3>5. CASE ~RingYield
      <4>1. bell => bell'
        <5>1. CASE Closing \/ CancelStep
          BY <1>0, <5>1, ClosingSteps, CancelSteps
        <5>2. CASE ~Closing /\ ~CancelStep
          BY <1>4, <2>3, <3>5, <5>2 DEF StreamNext, Work, Closing, Yield, Finish, Interrupt,
             Report, Forget
        <5> QED BY <5>1, <5>2
      <4>2. worker'.stored = worker.stored /\ worker'.seq = worker.seq
        <5>1. CASE Closing \/ CancelStep
          BY <1>0, <5>1, ClosingSteps, CancelSteps
        <5>2. CASE ~Closing /\ ~CancelStep
          BY <1>2, <1>4, <2>3, <3>5, <5>2, Zenon DEF StreamNext, Work, Closing, Yield, Finish,
             End, Interrupt, Report, Forget, WorkerStates
        <5> QED BY <5>1, <5>2
      <4>3. worker.pc = "ringing" => worker.stored > worker.seq
        BY <1>0, <1>2 DEF WorkerInv
      <4> QED BY <1>2, <3>2, <4>1, <4>2, <4>3
    <3> QED BY <3>4, <3>5
  <2> QED BY <2>2, <2>3
<1> QED BY <1>0, <1>3, <1>4, IterSteps

-----------------------------------------------------------------------------
(* The part about the progress.                                            *)

\* A send leaves the others in their order.
LEMMA OrderWithoutFirst ==
  ASSUME NEW s \in Seq(Nat), s # <<>>, NEW shown \in Nat, NEW latest \in Nat,
         InOrderOf(s, shown, latest), NEW to \in {s[1], shown}
  PROVE  /\ InOrderOf(Tail(s), to, latest)
         /\ to <= latest
         /\ Tail(s) # <<>> => Tail(s)[Len(Tail(s))] = s[Len(s)] /\ s[Len(s)] # s[1]
<1>1. /\ Tail(s) \in Seq(Nat) /\ Len(Tail(s)) = Len(s) - 1 /\ Len(s) \in Nat /\ 1 \in 1..Len(s)
      /\ \A i \in 1..Len(Tail(s)) : /\ i + 1 \in 1..Len(s) /\ Tail(s)[i] = s[i + 1]
                                    /\ Tail(s)[i] \in Nat
  OBVIOUS
<1>2. \A i \in 1..Len(s) : s[i] \in Nat /\ shown < s[i] /\ s[i] <= latest
  BY DEF InOrderOf
<1>3. \A i, j \in 1..Len(s) : i < j => s[i] < s[j]
  BY DEF InOrderOf
<1>4. \A i \in 1..Len(Tail(s)) : s[1] < s[i + 1]
  BY <1>1, <1>3
<1>5. \A i \in 1..Len(Tail(s)) : to < Tail(s)[i] /\ Tail(s)[i] <= latest
  BY <1>1, <1>2, <1>4
<1>6. \A i, j \in 1..Len(Tail(s)) : i < j => Tail(s)[i] < Tail(s)[j]
  BY <1>1, <1>3
<1>7. InOrderOf(Tail(s), to, latest)
  BY <1>5, <1>6 DEF InOrderOf
<1>8. to <= latest
  BY <1>1, <1>2
<1>9. Tail(s) # <<>> => Tail(s)[Len(Tail(s))] = s[Len(s)] /\ s[Len(s)] # s[1]
  <2>1. SUFFICES ASSUME Tail(s) # <<>>
                 PROVE  Tail(s)[Len(Tail(s))] = s[Len(s)] /\ s[Len(s)] # s[1]
    OBVIOUS
  <2>2. Len(Tail(s)) \in 1..Len(Tail(s))
    BY <1>1, <2>1
  <2>3. Tail(s)[Len(Tail(s))] = s[Len(s)] /\ s[1] < s[Len(s)]
    <3> DEFINE k == Len(Tail(s))
    <3>1. Tail(s)[k] = s[k + 1] /\ s[1] < s[k + 1]
      BY <1>1, <1>4, <2>2
    <3>2. k + 1 = Len(s)
      BY <1>1
    <3> QED BY <3>1, <3>2, Zenon
  <2>4. s[1] \in Nat
    BY <1>1
  <2> QED BY <2>3, <2>4
<1> QED BY <1>7, <1>8, <1>9

\* Every step keeps the progress from going back, and flush() has the last word.
LEMMA ProgressKept ==
  ASSUME StreamInv, StreamNext
  PROVE  ProgressInv' /\ FinalProgress'
<1> DEFINE p == progress  q == progress'
<1>0. /\ p \in ProgressStates /\ worker \in WorkerStates /\ StreamTypeOK
      /\ p.inflight \in Seq(Nat) /\ p.latest \in Nat /\ p.shown \in Nat /\ backend' = backend
      /\ ProgressInv /\ FinalProgress
  BY Forward DEF StreamInv, StreamTypeOK, ProgressStates
<1>a. CASE backend = "redis"
  BY <1>0, <1>a DEF ProgressInv, FinalProgress
<1> SUFFICES ASSUME backend # "redis" PROVE ProgressInv' /\ FinalProgress'
  BY <1>a
<1>b. /\ InOrderOf(p.inflight, p.shown, p.latest) /\ p.shown <= p.latest
      /\ p.inflight # <<>> => p.task = p.inflight[Len(p.inflight)]
  BY <1>0 DEF ProgressInv
<1>c. ASSUME InOrderOf(q.inflight, q.shown, q.latest), q.inflight \in Seq(Nat), q.shown \in Nat
      PROVE  \A i \in DOMAIN q.inflight : q.inflight[i] > q.shown
  BY <1>c DEF InOrderOf
<1>1. CASE Report
  <2>1. /\ worker.pc = "running" /\ worker' = worker
        /\ q.latest = p.latest + 1 /\ q.shown = p.shown
        /\ \/ q.inflight = p.inflight /\ q.task = p.task
           \/ q.inflight = Append(p.inflight, p.latest + 1) /\ q.task = p.latest + 1
    BY <1>0, <1>1 DEF Report, ProgressStates
  <2>2. q.inflight \in Seq(Nat) /\ InOrderOf(q.inflight, q.shown, q.latest)
    <3> DEFINE s == p.inflight  n == p.latest + 1
    <3>1. \A i \in 1..Len(s) : s[i] \in Nat /\ p.shown < s[i] /\ s[i] < n
      BY <1>0, <1>b DEF InOrderOf
    <3>2. \A i, j \in 1..Len(s) : i < j => s[i] < s[j]
      BY <1>b DEF InOrderOf
    <3>3. p.shown < n /\ n \in Nat
      BY <1>0, <1>b
    <3>4. CASE q.inflight = s
      BY <1>0, <2>1, <3>1, <3>2, <3>4 DEF InOrderOf
    <3>5. CASE q.inflight = Append(s, n)
      <4>1. /\ s \in Seq(Nat) /\ Append(s, n) \in Seq(Nat) /\ Len(Append(s, n)) = Len(s) + 1
            /\ \A i \in 1..Len(s) : Append(s, n)[i] = s[i]
            /\ Append(s, n)[Len(s) + 1] = n
        BY <1>0, <3>3
      <4>2. \A i \in 1..(Len(s) + 1) : i \in 1..Len(s) \/ i = Len(s) + 1
        BY <4>1
      <4> HIDE DEF s, n
      <4>3. \A i \in 1..Len(q.inflight) : p.shown < q.inflight[i] /\ q.inflight[i] <= n
        BY <3>1, <3>3, <3>5, <4>1, <4>2
      <4>4. \A i, j \in 1..Len(q.inflight) : i < j => q.inflight[i] < q.inflight[j]
        <5> SUFFICES ASSUME NEW i \in 1..Len(q.inflight), NEW j \in 1..Len(q.inflight), i < j
                     PROVE  q.inflight[i] < q.inflight[j]
          OBVIOUS
        <5>1. i \in 1..Len(s)
          BY <3>5, <4>1
        <5>2. j \in 1..Len(s) \/ j = Len(s) + 1
          BY <3>5, <4>1
        <5> QED BY <3>1, <3>2, <3>5, <4>1, <5>1, <5>2
      <4> QED BY <2>1, <3>5, <4>1, <4>3, <4>4 DEF InOrderOf, n
    <3> QED BY <2>1, <3>4, <3>5
  <2>3. q.inflight # <<>> => q.task = q.inflight[Len(q.inflight)]
    <3>1. CASE q.inflight = p.inflight /\ q.task = p.task
      BY <1>b, <3>1
    <3>2. CASE q.inflight = Append(p.inflight, p.latest + 1) /\ q.task = p.latest + 1
      BY <1>0, <3>2
    <3> QED BY <2>1, <3>1, <3>2
  <2>4. q.shown <= q.latest
    BY <1>0, <1>b, <2>1
  <2>5. ProgressInv'
    BY <2>2, <2>3, <2>4 DEF ProgressInv
  <2>6. \A i \in DOMAIN q.inflight : q.inflight[i] > q.shown
    BY <1>0, <1>c, <2>1, <2>2
  <2> QED BY <2>1, <2>5, <2>6 DEF FinalProgress
<1>2. CASE ShowProgress
  <2>1. PICK i \in DOMAIN p.inflight : SendEnds(i)
    BY <1>0, <1>2, SendsEnd
  <2>2. i = 1 /\ p.inflight # <<>> /\ p.inflight[1] \in Nat /\ RemoveAt(p.inflight, 1) = Tail(p.inflight)
    BY <1>0, <2>1 DEF SendEnds, RemoveAt
  <2>3. PICK to \in {p.inflight[1], p.shown} :
          progress' = [progress EXCEPT !.inflight = Tail(p.inflight),
                                       !.task = IF p.inflight[1] = p.task THEN 0 ELSE p.task,
                                       !.shown = to]
    BY <2>1, <2>2 DEF SendEnds
  <2>4. /\ q.inflight = Tail(p.inflight) /\ q.shown = to /\ q.latest = p.latest
        /\ q.task = IF p.inflight[1] = p.task THEN 0 ELSE p.task
    BY <1>0, <2>3 DEF ProgressStates
  <2>5. /\ InOrderOf(q.inflight, q.shown, q.latest) /\ q.shown <= q.latest
        /\ q.inflight # <<>> => q.task = q.inflight[Len(q.inflight)]
    <3>1. /\ InOrderOf(Tail(p.inflight), to, p.latest) /\ to <= p.latest
          /\ Tail(p.inflight) # <<>> =>
               /\ Tail(p.inflight)[Len(Tail(p.inflight))] = p.inflight[Len(p.inflight)]
               /\ p.inflight[Len(p.inflight)] # p.inflight[1]
      BY <1>0, <1>b, <2>2, OrderWithoutFirst
    <3> QED BY <1>b, <2>2, <2>4, <3>1
  <2>6. ProgressInv'
    BY <2>5 DEF ProgressInv
  <2>7. q.inflight \in Seq(Nat) /\ q.shown \in Nat
    BY <1>0, <2>2, <2>4
  <2>8. worker.pc \notin {"answering", "answered", "done"} /\ worker'.pc = worker.pc
    <3>1. worker'.pc = worker.pc
      BY <1>0, <1>2 DEF ShowProgress, Fail, WorkerStates
    <3> QED BY <1>0, <2>2, <3>1 DEF FinalProgress
  <2> QED BY <1>c, <2>5, <2>6, <2>7, <2>8 DEF FinalProgress
<1>3. CASE Flush
  <2>1. /\ q.inflight = p.inflight /\ q.task = p.task /\ q.latest = p.latest
        /\ p.task = 0
        /\ q.shown = p.latest \/ (q.shown = p.shown /\ q.missed)
    BY <1>0, <1>3, Zenon DEF Flush, SendFinal, ProgressStates
  <2>2. p.inflight = <<>>
    <3>1. SUFFICES ASSUME p.inflight # <<>> PROVE FALSE
      OBVIOUS
    <3>2. Len(p.inflight) \in 1..Len(p.inflight)
      BY <1>0, <3>1
    <3> QED BY <1>0, <1>b, <2>1, <3>1, <3>2 DEF InOrderOf
  <2>3. q.inflight = <<>> /\ q.shown <= q.latest
    BY <1>0, <1>b, <2>1, <2>2
  <2>4. Len(q.inflight) = 0 /\ DOMAIN q.inflight = {}
    BY <2>3
  <2>5. InOrderOf(q.inflight, q.shown, q.latest)
    BY <2>4 DEF InOrderOf
  <2> QED BY <2>1, <2>3, <2>4, <2>5 DEF ProgressInv, FinalProgress
<1>4. CASE progress' = progress /\ worker'.pc = worker.pc
  BY <1>0, <1>4 DEF ProgressInv, FinalProgress
<1>5. CASE Yield \/ StoreYield \/ RingYield \/ Finish \/ Interrupt
  <2>1. progress' = progress /\ worker'.pc \in Generating \cup {"flushing"}
    BY <1>0, <1>5, Zenon DEF Yield, StoreYield, RingYield, Finish, End, Interrupt,
       WorkerStates, Generating
  <2> QED BY <1>0, <2>1 DEF ProgressInv, FinalProgress, Generating
<1>6. CASE Answer \/ RingAnswer
  <2>1. progress' = progress /\ worker.pc \in {"answering", "answered"}
    BY <1>0, <1>6 DEF Answer, RingAnswer
  <2> QED BY <1>0, <2>1 DEF ProgressInv, FinalProgress
<1>7. CASE CancelStep \/ Forget \/ \E c \in Consumers : Iterate(c)
  BY <1>4, <1>7, CancelSteps DEF Forget, Iterate, Poll, Wake, Deliver, Check, Keep, DrainTail
<1> QED BY <1>1, <1>2, <1>3, <1>5, <1>6, <1>7 DEF StreamNext, Work

-----------------------------------------------------------------------------
(* The theorems.                                                           *)

\* The invariant holds when the stream is submitted.
LEMMA InvInit ==
  ASSUME StreamInit
  PROVE  StreamInv
<1>1. StreamTypeOK
  <2>1. worker \in WorkerStates /\ progress \in ProgressStates /\ cancel \in CancelStates
    BY DEF StreamInit, WorkerStates, ProgressStates, CancelStates, Generating
  <2>2. iter \in [Consumers -> IterStates]
    <3>1. [pc |-> "poll", next |-> 0, batch |-> <<>>, raw |-> None, got |-> <<>>, told |-> None]
            \in IterStates
      BY DEF IterStates
    <3> QED BY <3>1 DEF StreamInit
  <2>3. cells \in Seq(Nat \cup {None}) /\ slot \in Seq(Envelopes) /\ bell = FALSE /\ flag = FALSE
        /\ expiries = 0 /\ envelope = None
    BY DEF StreamInit
  <2>4. backend \in {"local", "redis", "rabbitmq"}
    BY StreamAssumption DEF StreamInit
  <2> QED BY <2>1, <2>2, <2>3, <2>4 DEF StreamTypeOK
<1>2. StoreInv /\ WorkerInv
  BY EnvelopeTypes DEF StreamInit, StoreInv, WorkerInv, Generating
<1>3. EnvelopeInv /\ IterInv /\ ProgressInv
  <2>1. ProgressInv
    BY DEF StreamInit, ProgressInv, InOrderOf
  <2> QED BY <2>1 DEF StreamInit, EnvelopeInv, IterInv
<1>4. InOrder
  BY DEF StreamInit, InOrder
<1>6. FinalProgress
  <2>1. progress.inflight = <<>> /\ worker.pc = "running"
    BY DEF StreamInit
  <2> QED BY <2>1 DEF FinalProgress
<1>5. NoLostWakeup
  BY DEF StreamInit, NoLostWakeup
<1> QED BY <1>1, <1>2, <1>3, <1>4, <1>5, <1>6 DEF StreamInv

\* The invariant is about the variables of the stream alone.
LEMMA InvStutter ==
  ASSUME StreamInv, UNCHANGED streamVars
  PROVE  StreamInv'
<1> USE DEF streamVars
<1>1. StreamTypeOK' /\ WorkerInv' /\ ProgressInv' /\ FinalProgress'
  BY DEF StreamInv, StreamTypeOK, WorkerInv, ProgressInv, FinalProgress
<1>2. StoreInv'
  BY DEF StreamInv, StoreInv, Whole
<1>5. IterInv'
  BY DEF StreamInv, Whole, IterInv, RunFrom
<1>6. InOrder'
  BY DEF StreamInv, InOrder
<1>3. EnvelopeInv'
  BY DEF StreamInv, EnvelopeInv, Genuine
<1>4. NoLostWakeup'
  <2>1. StreamTypeOK /\ StoreInv /\ NoLostWakeup
    BY DEF StreamInv
  <2>2. (StreamTypeOK /\ StoreInv => \A n \in Nat : Yields(n) = <<>> <=> Held(n) = 0)'
    BY EmptyYields, PTL
  <2>3. \A n \in Nat : (Yields(n) = <<>>)' <=> Yields(n) = <<>>
    BY <1>1, <1>2, <2>1, <2>2, EmptyYields DEF Held
  <2>4. \A c \in Consumers : iter[c].next \in Nat
    BY <2>1 DEF StreamTypeOK, IterStates
  <2> QED BY <2>1, <2>3, <2>4 DEF NoLostWakeup
<1> QED BY <1>1, <1>2, <1>3, <1>4, <1>5, <1>6 DEF StreamInv

\* The invariant holds in every state of the stream: a batch goes on where the
\* iteration stands, envelopes are genuine, the newest report is the last sent.
THEOREM StreamInvariant == StreamSpec => []StreamInv
<1>1. ASSUME StreamInv, [StreamNext]_streamVars
      PROVE  StreamInv'
  <2>1. CASE StreamNext
    BY <1>1, <2>1, TypesKept, StoreKept, WorkerKept, EnvelopeKept, IterKept,
       ProgressKept, InOrderKept, WakeKept DEF StreamInv
  <2>2. CASE UNCHANGED streamVars
    BY <1>1, <2>2, InvStutter
  <2> QED BY <1>1, <2>1, <2>2
<1> QED BY <1>1, InvInit, PTL DEF StreamSpec

\* Streaming!InOrder: an iteration hands out the values of the generator from
\* the first on, each once and in its place.
THEOREM ValuesInOrder == StreamSpec => []InOrder
BY StreamInvariant, PTL DEF StreamInv

\* Streaming!NoLostWakeup: an iteration that waits while the broker holds a
\* value it lacks has a bell to wake it, rung or about to be.
THEOREM WakeupsKept == StreamSpec => []NoLostWakeup
BY StreamInvariant, PTL DEF StreamInv

\* Streaming!FinalProgress: the progress shown does not go back; when the worker
\* answers no send is under way, and it is the last one reported or the send of
\* flush() raised.
THEOREM LastProgressShown == StreamSpec => []FinalProgress
BY StreamInvariant, PTL DEF StreamInv

-----------------------------------------------------------------------------
(* Streaming implements StreamPromise.                                     *)

\* The steps of the worker give values and the end, or nothing to see.
LEMMA WorkerRefines ==
  ASSUME StreamInv, Work
  PROVE  Promise!PromiseNext \/ UNCHANGED Promise!promiseVars
<1>0. /\ worker \in WorkerStates /\ WorkerInv
      /\ \A st \in {"ok", "error", "cancelled"}, f \in Nat \cup {None} :
           Env(st, f) # None /\ Env(st, f).status = st /\ st \in Outcomes
      /\ worker.seq \in Nat \cup {None} /\ None \in Nat \cup {None}
  BY EnvelopeTypes DEF StreamInv, StreamTypeOK, WorkerStates, Env, Outcomes
<1>1. iter' = iter /\ flag' = flag /\ expiries' = expiries
  <2>1. StreamTypeOK
    BY DEF StreamInv
  <2> QED BY <2>1, ClosingSteps DEF Work, Closing, Yield, StoreYield, RingYield, Finish,
       Interrupt, Report
<1>2. CASE worker'.stored = worker.stored /\ worker'.out = worker.out
  BY <1>1, <1>2 DEF Promise!promiseVars
<1>3. CASE StoreYield
  <2>1. worker'.stored = worker.stored + 1 /\ worker'.out = worker.out /\ worker.out = None
    BY <1>0, <1>3, Zenon DEF StoreYield, WorkerStates, WorkerInv, Generating
  <2> QED BY <1>1, <2>1 DEF Promise!PromiseNext, Promise!Emit
<1>4. CASE Finish \/ Interrupt
  <2>1. worker.out = None
    BY <1>0, <1>4 DEF Finish, Interrupt, WorkerInv, Generating
  <2>2. /\ worker'.stored = worker.stored
        /\ \/ worker'.out = worker.out
           \/ \E st \in {"ok", "error", "cancelled"}, f \in Nat \cup {None} :
                worker'.out = Env(st, f)
    BY <1>0, <1>4, Zenon DEF Finish, End, Interrupt, WorkerStates
  <2>3. CASE \E st \in {"ok", "error", "cancelled"}, f \in Nat \cup {None} :
               worker'.out = Env(st, f)
    <3>1. worker'.out # None /\ worker'.out.status \in Outcomes
      BY <1>0, <2>3
    <3> QED BY <1>1, <2>1, <2>2, <3>1 DEF Promise!PromiseNext, Promise!Close
  <2> QED BY <1>2, <2>2, <2>3
<1>5. CASE Yield \/ RingYield
  <2>1. worker'.stored = worker.stored /\ worker'.out = worker.out
    BY <1>0, <1>5, Zenon DEF Yield, RingYield, WorkerStates
  <2> QED BY <1>2, <2>1
<1>6. CASE Report
  BY <1>2, <1>6 DEF Report
<1>7. CASE Closing
  <2>1. worker'.stored = worker.stored /\ worker'.out = worker.out
    BY <1>7, ClosingSteps DEF StreamInv
  <2> QED BY <1>2, <2>1
<1> QED BY <1>3, <1>4, <1>5, <1>6, <1>7 DEF Work, Closing

\* The steps of an iteration receive a value or are told the end, which the
\* promise allows them to be.
LEMMA IterationRefines ==
  ASSUME StreamInv, NEW c \in Consumers, Iterate(c)
  PROVE  Promise!PromiseNext \/ UNCHANGED Promise!promiseVars
<1>0. /\ StreamTypeOK /\ StoreInv /\ WorkerInv /\ EnvelopeInv /\ IterInv
      /\ iter \in [Consumers -> IterStates] /\ iter[c] \in IterStates
      /\ iter[c].next \in Nat /\ worker.stored \in Nat /\ expiries \in Nat
  BY DEF StreamInv, StreamTypeOK, IterStates, WorkerStates
<1>1. worker' = worker /\ flag' = flag /\ expiries' = expiries
  BY DEF Iterate, Poll, Wake, Deliver, Check, Keep, DrainTail
<1>2. ASSUME iter'[c].next = iter[c].next, iter'[c].told = iter[c].told,
             \A d \in Consumers : d # c => iter'[d] = iter[d]
      PROVE  UNCHANGED Promise!promiseVars
  BY <1>1, <1>2 DEF Promise!promiseVars
<1>3. CASE Poll(c) \/ Wake(c)
  <2>1. PICK b \in Seq(Nat \X Nat), at \in {"deliver", "wait", "check"} : LookedAt(c, b, at)
    BY <1>0, <1>3, Looked
  <2> QED BY <1>0, <1>2, <2>1 DEF LookedAt, IterStates
<1>4. CASE Check(c) \/ Keep(c)
  BY <1>0, <1>2, <1>4 DEF Check, Keep, IterStates
<1>5. CASE Deliver(c)
  <2>1. /\ iter' = [iter EXCEPT ![c] = AfterDelivery(iter[c])]
        /\ iter[c].next < worker.stored
    BY <1>0, <1>5, Delivered
  <2>2. iter[c].told = None
    BY <1>0, <1>5 DEF Deliver, IterInv
  <2>3. /\ [d \in Consumers |-> iter'[d].next]
             = [[d \in Consumers |-> iter[d].next] EXCEPT ![c] = @ + 1]
        /\ [d \in Consumers |-> iter'[d].told] = [d \in Consumers |-> iter[d].told]
    BY <1>0, <2>1 DEF AfterDelivery, IterStates
  <2> QED BY <1>1, <2>1, <2>2, <2>3 DEF Promise!PromiseNext, Promise!Receive
<1>6. CASE DrainTail(c)
  <2> DEFINE n == iter[c].next
  <2>1. /\ iter[c].pc = "tail" /\ envelope # None /\ Genuine(envelope) /\ envelope \in Envelopes
        /\ iter[c].told = None
    BY <1>0, <1>6 DEF DrainTail, EnvelopeInv, IterInv, StreamTypeOK
  <2>2. CASE iter' = [iter EXCEPT ![c].pc = "poll"]
    BY <1>0, <1>2, <2>2 DEF IterStates
  <2>3. CASE /\ Yields(n) = <<>> /\ (envelope.final = None \/ n >= envelope.final)
             /\ iter' = [iter EXCEPT ![c].pc = "ended", ![c].told = envelope.status]
    <3>1. /\ [d \in Consumers |-> iter'[d].next] = [d \in Consumers |-> iter[d].next]
          /\ [d \in Consumers |-> iter'[d].told]
               = [[d \in Consumers |-> iter[d].told] EXCEPT ![c] = envelope.status]
      BY <1>0, <2>3 DEF IterStates
    <3>2. CASE envelope = worker.out
      <4>1. n = worker.stored \/ (expiries > 0 /\ worker.out.status # "ok")
        <5>1. n <= worker.stored
          BY <1>0 DEF IterInv
        <5>2. CASE worker.out.status = "ok"
          <6>1. worker.out.final = worker.stored /\ worker.stored # None
            BY <1>0, <2>1, <3>2, <5>2, EnvelopeTypes DEF WorkerInv
          <6> QED BY <1>0, <2>3, <3>2, <5>1, <6>1
        <5>3. CASE expiries = 0
          <6>1. Held(n) = 0
            BY <1>0, <2>3, EmptyYields
          <6>2. Len(cells) = worker.stored /\ Len(cells) \in Nat
            BY <1>0, <5>3 DEF StoreInv, Whole, StreamTypeOK
          <6>3. n < Len(cells) => cells[n + 1] # None
            BY <1>0, <5>3, <6>2 DEF StoreInv
          <6> QED BY <1>0, <5>1, <6>1, <6>2, <6>3 DEF Held
        <5> QED BY <1>0, <5>2, <5>3
      <4>2. worker.out # None
        BY <2>1, <3>2
      <4>3. worker.out.status # None
        BY <2>1, <3>2, EnvelopeTypes
      <4> QED BY <1>1, <2>1, <3>1, <3>2, <4>1, <4>2, <4>3 DEF Promise!PromiseNext, Promise!Tell
    <3>3. CASE flag /\ envelope = Env("cancelled", None)
      <4>1. envelope.status = "cancelled"
        BY <3>3 DEF Env
      <4> QED BY <1>1, <2>1, <3>1, <3>3, <4>1 DEF Promise!PromiseNext, Promise!Tell
    <3> QED BY <2>1, <3>2, <3>3 DEF Genuine, GenuineFor
  <2> QED BY <1>6, <2>2, <2>3 DEF DrainTail
<1> QED BY <1>3, <1>4, <1>5, <1>6 DEF Iterate

\* Streaming!StreamKept: every step of worker, broker and client is a step of
\* the promised stream or leaves it alone.
THEOREM StreamImplementsPromise == StreamSpec => StreamKept
<1>1. ASSUME StreamInit PROVE Promise!PromiseInit
  BY <1>1 DEF StreamInit, Promise!PromiseInit
<1>2. ASSUME StreamInv, [StreamNext]_streamVars
      PROVE  Promise!PromiseNext \/ UNCHANGED Promise!promiseVars
  <2>1. CASE Work
    BY <1>2, <2>1, WorkerRefines
  <2>2. CASE \E c \in Consumers : Iterate(c)
    BY <1>2, <2>2, IterationRefines
  <2>3. CASE CancelSignal
    <3>1. flag' = TRUE /\ worker' = worker /\ iter' = iter /\ expiries' = expiries
      BY <2>3 DEF CancelSignal
    <3> QED BY <3>1 DEF Promise!PromiseNext, Promise!Ask
  <2>4. CASE CancelEnd
    <3>1. worker' = worker /\ iter' = iter /\ expiries' = expiries
      BY <2>4, CancelSteps DEF CancelStep
    <3>2. flag' = flag
      BY <2>4 DEF CancelEnd, CancelConfirm, CancelSeed, CancelRing, CancelKeep
    <3> QED BY <3>1, <3>2 DEF Promise!promiseVars
  <2>5. CASE Forget
    <3>1. expiries' > 0 /\ worker' = worker /\ iter' = iter /\ flag' = flag
      BY <1>2, <2>5 DEF Forget, StreamInv, StreamTypeOK
    <3> QED BY <3>1 DEF Promise!PromiseNext, Promise!Expire
  <2>6. CASE UNCHANGED streamVars
    BY <2>6 DEF streamVars, Promise!promiseVars
  <2> QED BY <1>2, <2>1, <2>2, <2>3, <2>4, <2>5, <2>6 DEF StreamNext, CancelStep
<1> QED BY <1>1, <1>2, StreamInvariant, PTL DEF StreamSpec, StreamKept, Promise!PromiseSpec
=============================================================================
