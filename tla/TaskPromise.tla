---------------------------- MODULE TaskPromise ----------------------------
(***************************************************************************)
(* What submitting a task promises, whatever the broker and the worker do  *)
(* in between: a job is answered at most once, by a single verdict that    *)
(* never changes, or it is given up (the worker skipped it, died or was    *)
(* stopped) and never answered; and the client's handle shows either that  *)
(* verdict or a cancellation this client asked for, and nothing else.      *)
(***************************************************************************)
CONSTANTS Tasks, Status, None

VARIABLES
  job,        \* "new", "open", "answered" or "abandoned"
  verdict,    \* the status the worker reported, None before
  requested,  \* tasks whose cancellation was requested
  seen        \* the status the client's handle shows, None before

promiseVars == <<job, verdict, requested, seen>>

PromiseInit ==
  /\ job = [t \in Tasks |-> "new"]
  /\ verdict = [t \in Tasks |-> None]
  /\ requested = {}
  /\ seen = [t \in Tasks |-> None]

Open(t) ==
  /\ job[t] = "new"
  /\ job' = [job EXCEPT ![t] = "open"]
  /\ UNCHANGED <<verdict, requested, seen>>

Answer(t, s) ==
  /\ job[t] = "open"
  /\ job' = [job EXCEPT ![t] = "answered"]
  /\ verdict' = [verdict EXCEPT ![t] = s]
  /\ UNCHANGED <<requested, seen>>

\* Several jobs are given up at once when a worker dies.
Abandon(S) ==
  /\ \A t \in S : job[t] = "open"
  /\ job' = [t \in Tasks |-> IF t \in S THEN "abandoned" ELSE job[t]]
  /\ UNCHANGED <<verdict, requested, seen>>

RequestCancel(t) ==
  /\ job[t] # "new"
  /\ requested' = requested \cup {t}
  /\ UNCHANGED <<job, verdict, seen>>

See(t, s) ==
  /\ \/ job[t] = "answered" /\ s = verdict[t]
     \/ t \in requested /\ s = "cancelled"
  /\ seen' = [seen EXCEPT ![t] = s]
  /\ UNCHANGED <<job, verdict, requested>>

PromiseNext ==
  \/ \E t \in Tasks : Open(t) \/ RequestCancel(t)
  \/ \E t \in Tasks, s \in Status : Answer(t, s) \/ See(t, s)
  \/ \E S \in SUBSET Tasks : Abandon(S)

PromiseSpec == PromiseInit /\ [][PromiseNext]_promiseVars

=============================================================================
