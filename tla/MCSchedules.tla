----------------------------- MODULE MCSchedules -----------------------------
(* The scenarios of the run: each turns on what it is about.                *)
EXTENDS Schedules

Token == <<0, 0>>

\* A shared token, one slot, nothing goes wrong.
Plain ==
  [tokens |-> [client |-> Token, worker |-> Token], signing |-> TRUE, pairing |-> FALSE,
   offset |-> 0, capacity |-> 10, backend |-> "local", slots |-> 1, throttle |-> 0,
   interval |-> 1, runs |-> 0, failing |-> FALSE, cancels |-> FALSE,
   plain |-> 0, duplicates |-> 0, crashes |-> 0, faults |-> 0, reset |-> FALSE, admin |-> FALSE,
   unbuildable |-> FALSE]

NoToken == [client |-> None, worker |-> None]

MCScenarios ==
  \* Limits, faults and a failing function.
  { [Plain EXCEPT !.runs = r, !.interval = d, !.faults = 1, !.failing = TRUE] :
      r \in {0, 2}, d \in {1, 2} }
  \* Code that the worker can rebuild at one time and not at another.
  \cup { [Plain EXCEPT !.unbuildable = TRUE, !.throttle = d, !.failing = TRUE, !.runs = 2] :
      d \in {0, 1} }
  \* Cancellation, over each kind of store.
  \cup { [Plain EXCEPT !.cancels = TRUE, !.backend = b, !.signing = FALSE] :
      b \in {"local", "redis", "rabbitmq"} }
  \* The throttle, shorter and longer than the interval, with a task of the same function between.
  \cup { [Plain EXCEPT !.throttle = d, !.backend = b, !.signing = FALSE, !.plain = 1,
                       !.failing = TRUE, !.interval = 2, !.runs = 2] :
      d \in {1, 3}, b \in {"local", "redis"} }
  \* Duplicates of signed envelopes, clocks that differ, a small cache.
  \cup { [Plain EXCEPT !.duplicates = 1, !.offset = o, !.capacity = c, !.plain = 1,
                       !.runs = 1] :
      o \in {-1, 1}, c \in {1, 10} }
  \* A crash, and a duplicate that comes after it; and a chain that forks.
  \cup { [Plain EXCEPT !.duplicates = 1, !.crashes = 1, !.signing = s, !.runs = 2, !.slots = 2] :
      s \in BOOLEAN }
  \* The registry: a new identity, a restart, the administrator.
  \cup { [Plain EXCEPT !.reset = TRUE, !.crashes = 1, !.plain = 1, !.admin = a, !.runs = 1] :
      a \in BOOLEAN }
  \* Pairing; a client that has a token beside its key, one that has none.
  \cup { [Plain EXCEPT !.pairing = TRUE, !.tokens = t, !.runs = 1] :
      t \in {NoToken, [NoToken EXCEPT !.client = Token]} }
=============================================================================
