---------------------------- MODULE ClientHandle ----------------------------
(***************************************************************************)
(* The client's side of a task (offwork/worker/result.py): the Result      *)
(* handle that submit() returns and the coroutines that may work on one    *)
(* handle at the same time -- result(), check(), cancel() in its three     *)
(* timeout modes, and the stream of progress updates.  Each of them polls  *)
(* the result slot, which a read empties, and caches what it got in the    *)
(* handle.  One result() and one cancel() call per task.                   *)
(***************************************************************************)
EXTENDS Broker

CONSTANTS
  Impatient,    \* tasks whose result() call has a timeout
  Cancellable,  \* tasks the client may cancel
  CancelModes,  \* timeouts given to cancel(): see Modes
  Watched,      \* tasks whose progress is streamed
  Checked       \* tasks the client polls with check()

\* 0 (signal and return), a number of seconds, False (wait indefinitely).
Modes == {"forget", "bounded", "forever"}

ASSUME ClientAssumption ==
  /\ Impatient \subseteq Tasks /\ Cancellable \subseteq Tasks
  /\ Watched \subseteq Tasks /\ Checked \subseteq Tasks
  /\ CancelModes \subseteq Modes

VARIABLES
  handle,      \* _envelope: the status cached in the handle
  waiter,      \* the result() call
  observed,    \* tasks whose waiter has seen a heartbeat
  canceller,   \* the cancel() call
  confirmed,   \* what cancel() returned
  watcher,     \* the progress stream, or what its read of the slot has got
  checking     \* tasks with a check() under way

clientVars == <<handle, waiter, observed, canceller, confirmed, watcher,
                checking>>

ClientTypeOK ==
  /\ handle \in [Tasks -> Status \cup {None}]
  /\ waiter \in [Tasks -> {"unsubmitted", "idle", "waiting", "returned",
                           "timedout", "stalled"}]
  /\ observed \subseteq Tasks
  /\ canceller \in [Tasks -> Modes \cup {"idle", "expired", "returned"}]
  /\ confirmed \in [Tasks -> {"none", "true", "false"}]
  /\ watcher \in [Tasks -> {"idle", "watching", "ended", None} \cup Status]
  /\ checking \subseteq Tasks

ClientInit ==
  /\ handle = [t \in Tasks |-> None]
  /\ waiter = [t \in Tasks |-> "unsubmitted"]
  /\ observed = {}
  /\ canceller = [t \in Tasks |-> "idle"]
  /\ confirmed = [t \in Tasks |-> "none"]
  /\ watcher = [t \in Tasks |-> "idle"]
  /\ checking = {}

brokerRest == <<queue, fresh, cancelled, cooling, stream, wire>>

Submitted(t) == waiter[t] # "unsubmitted"

\* Reading the slot: the envelope goes from the broker into the handle.
Fetch(t) ==
  /\ TakeResult(t)
  /\ handle' = [handle EXCEPT ![t] = results[t]]

-----------------------------------------------------------------------------

\* submit_remote: the task is enqueued and the handle is returned.
Submit(t) ==
  /\ ~Submitted(t)
  /\ queue' = Append(queue, t)
  /\ waiter' = [waiter EXCEPT ![t] = "idle"]
  /\ UNCHANGED <<results, fresh, cancelled, cooling, stream, wire, handle,
                 observed, canceller, confirmed, watcher, checking>>

\* result(): a cached envelope is returned at once.
CallResult(t) ==
  /\ waiter[t] = "idle"
  /\ waiter' = [waiter EXCEPT ![t] =
                  IF handle[t] # None THEN "returned" ELSE "waiting"]
  /\ UNCHANGED <<brokerVars, handle, observed, canceller, confirmed, watcher,
                 checking>>

ReceiveResult(t) ==
  /\ waiter[t] = "waiting"
  /\ Fetch(t)
  /\ waiter' = [waiter EXCEPT ![t] = "returned"]
  /\ UNCHANGED <<brokerRest, observed, canceller, confirmed, watcher,
                 checking>>

\* A wrong reading of the heartbeat for the mutation tests: the value is not
\* remembered.
ObserveNothing(t) ==
  /\ waiter[t] = "waiting" /\ results[t] = None
  /\ t \in fresh
  /\ fresh' = fresh \ {t}
  /\ UNCHANGED <<queue, results, cancelled, cooling, stream, wire, clientVars>>

\* A slice of get_result has elapsed: the loop reads the heartbeat.
ObserveHeartbeat(t) ==
  /\ waiter[t] = "waiting" /\ results[t] = None
  /\ t \in fresh
  /\ fresh' = fresh \ {t}
  /\ observed' = observed \cup {t}
  /\ UNCHANGED <<queue, results, cancelled, cooling, stream, wire, handle,
                 waiter, canceller, confirmed, watcher, checking>>

\* A wrong stall detection for the mutation tests: no heartbeat need have
\* been observed before.
StallBeforeFirstHeartbeat(t) ==
  /\ waiter[t] = "waiting" /\ results[t] = None
  /\ t \notin fresh
  /\ waiter' = [waiter EXCEPT ![t] = "stalled"]
  /\ UNCHANGED <<brokerVars, handle, observed, canceller, confirmed, watcher,
                 checking>>

\* TaskStalled: the last heartbeat seen is older than stall_timeout.
Stall(t) ==
  /\ waiter[t] = "waiting" /\ results[t] = None
  /\ t \in observed /\ t \notin fresh
  /\ waiter' = [waiter EXCEPT ![t] = "stalled"]
  /\ UNCHANGED <<brokerVars, handle, observed, canceller, confirmed, watcher,
                 checking>>

WaitTimesOut(t) ==
  /\ t \in Impatient
  /\ waiter[t] = "waiting"
  /\ waiter' = [waiter EXCEPT ![t] = "timedout"]
  /\ UNCHANGED <<brokerVars, handle, observed, canceller, confirmed, watcher,
                 checking>>

\* check(): on a handle without an envelope, one poll that updates it.  The
\* handle may change while the request is under way.
CallCheck(t) ==
  /\ t \in Checked
  /\ Submitted(t) /\ handle[t] = None /\ t \notin checking
  /\ checking' = checking \cup {t}
  /\ UNCHANGED <<brokerVars, handle, waiter, observed, canceller, confirmed,
                 watcher>>

CheckPoll(t) ==
  /\ t \in checking
  /\ checking' = checking \ {t}
  /\ Fetch(t) \/ (results[t] = None /\ UNCHANGED <<results, handle>>)
  /\ UNCHANGED <<brokerRest, waiter, observed, canceller, confirmed, watcher>>

-----------------------------------------------------------------------------
(* cancel(): _do_cancel runs as a task of its own.                         *)

\* A wrong cancel() for the mutation tests: fire-and-forget omits the flag.
CallCancelUnflagged(t, mode) ==
  /\ t \in Cancellable /\ mode \in CancelModes
  /\ Submitted(t) /\ canceller[t] = "idle"
  /\ cancelled' = IF mode = "forget" THEN cancelled ELSE cancelled \cup {t}
  /\ canceller' = [canceller EXCEPT ![t] = mode]
  /\ UNCHANGED <<queue, results, fresh, cooling, stream, wire, handle, waiter,
                 observed, confirmed, watcher, checking>>

\* cancel_task sets the flag at the broker.
CallCancel(t, mode) ==
  /\ t \in Cancellable /\ mode \in CancelModes
  /\ Submitted(t) /\ canceller[t] = "idle"
  /\ cancelled' = cancelled \cup {t}
  /\ canceller' = [canceller EXCEPT ![t] = mode]
  /\ UNCHANGED <<queue, results, fresh, cooling, stream, wire, handle, waiter,
                 observed, confirmed, watcher, checking>>

Return(t, answer) ==
  /\ canceller' = [canceller EXCEPT ![t] = "returned"]
  /\ confirmed' = [confirmed EXCEPT ![t] = answer]

\* Any envelope that arrives counts as the worker's confirmation.
ReceiveConfirmation(t) ==
  /\ canceller[t] \in {"bounded", "forever"}
  /\ Fetch(t)
  /\ Return(t, "true")
  /\ UNCHANGED <<brokerRest, waiter, observed, watcher, checking>>

CancelTimesOut(t) ==
  /\ canceller[t] = "bounded"
  /\ canceller' = [canceller EXCEPT ![t] = "expired"]
  /\ UNCHANGED <<brokerVars, handle, waiter, observed, confirmed, watcher,
                 checking>>

\* The client puts a cancelled envelope in the slot itself and caches it.
SeedCancelled(t) ==
  /\ canceller[t] \in {"forget", "expired"}
  /\ PutResult(t, "cancelled")
  /\ handle' = [handle EXCEPT ![t] = "cancelled"]
  /\ Return(t, IF canceller[t] = "forget" THEN "true" ELSE "false")
  /\ UNCHANGED <<brokerRest, waiter, observed, watcher, checking>>

-----------------------------------------------------------------------------
(* `async for p in future.progress()`.                                     *)

Watch(t) ==
  /\ t \in Watched
  /\ Submitted(t) /\ watcher[t] = "idle"
  /\ watcher' = [watcher EXCEPT ![t] = "watching"]
  /\ UNCHANGED <<brokerVars, handle, waiter, observed, canceller, confirmed,
                 checking>>

\* Each round polls the slot beside the progress, in one gather.
WatchRead(t) ==
  /\ watcher[t] = "watching"
  /\ watcher' = [watcher EXCEPT ![t] = results[t]]
  /\ results' = [results EXCEPT ![t] = None]
  /\ UNCHANGED <<brokerRest, handle, waiter, observed, canceller, confirmed,
                 checking>>

\* Both requests are answered: the handle gets what was read.  The stream ends
\* once the handle is set, by whichever coroutine.
WatchRound(t) ==
  /\ watcher[t] \in Status \cup {None}
  /\ IF watcher[t] = None THEN UNCHANGED handle
     ELSE handle' = [handle EXCEPT ![t] = watcher[t]]
  /\ watcher' = [watcher EXCEPT ![t] =
                   IF handle'[t] # None THEN "ended" ELSE "watching"]
  /\ UNCHANGED <<brokerVars, waiter, observed, canceller, confirmed, checking>>

WatchPoll(t) == WatchRead(t) \/ WatchRound(t)

=============================================================================
