------------------------------- MODULE Broker -------------------------------
(***************************************************************************)
(* The broker behind a local:// backend (class _Broker of                  *)
(* offwork/worker/backends/local.py): the task queue, one result slot per  *)
(* task, heartbeats, cancellation flags, the throttle of one function, and *)
(* the streaming coroutine that serves each worker's listen() connection.  *)
(*                                                                         *)
(* Every request of the RPC connection is dispatched without an await, so  *)
(* each one is a single step; the modules that EXTEND this one use the     *)
(* operators below inside the steps of a client or of a worker.  The       *)
(* stream of tasks is a coroutine of its own and has actions of its own.   *)
(***************************************************************************)
EXTENDS Naturals, Sequences, FiniteSets, SequencesExt

CONSTANTS
  Tasks,      \* task ids
  Workers     \* worker processes, each with one listen() connection

None == "none"

ASSUME BrokerAssumption ==
  IsFiniteSet(Tasks) /\ IsFiniteSet(Workers) /\ None \notin Workers

VARIABLES
  queue,      \* _tasks: the FIFO of submitted tasks
  results,    \* _results: the result slot of each task, of capacity one
  fresh,      \* tasks whose heartbeat changed since the client last read it
  cancelled,  \* _cancelled: tasks a client asked to cancel
  cooling,    \* the throttled function is in its cooldown (_throttles)
  stream,     \* the broker's end of each worker's listen() connection
  wire        \* tasks sent on that connection that the worker has not read

brokerVars == <<queue, results, fresh, cancelled, cooling, stream, wire>>

Status == {"ok", "error", "cancelled", "throttled"}

\* "open": served; "closed": the worker's end is gone and the broker's
\* coroutine, blocked in _tasks.get(), does not know; "reset": a first write
\* has gone to the dead peer; "ended": the coroutine has returned.
StreamState == {"open", "closed", "reset", "ended"}

BrokerTypeOK ==
  /\ queue \in Seq(Tasks)
  /\ results \in [Tasks -> Status \cup {None}]
  /\ fresh \subseteq Tasks
  /\ cancelled \subseteq Tasks
  /\ cooling \in BOOLEAN
  /\ stream \in [Workers -> StreamState]
  /\ wire \in [Workers -> Seq(Tasks)]

BrokerInit ==
  /\ queue = <<>>
  /\ results = [t \in Tasks |-> None]
  /\ fresh = {}
  /\ cancelled = {}
  /\ cooling = FALSE
  /\ stream = [w \in Workers |-> "open"]
  /\ wire = [w \in Workers |-> <<>>]

-----------------------------------------------------------------------------
(* RPC requests, each one a conjunct of a client's or a worker's step.     *)

\* result_put: a full slot keeps what it holds.
PutResult(t, s) ==
  results' = [results EXCEPT ![t] = IF @ = None THEN s ELSE @]

\* result_try: reading a slot empties it.
TakeResult(t) ==
  /\ results[t] # None
  /\ results' = [results EXCEPT ![t] = None]

InFlight(w, t) == Contains(wire[w], t)

\* The listening connection of w is lost: what was written to it is gone.
CloseStream(w) ==
  /\ stream' = [stream EXCEPT ![w] = IF @ = "open" THEN "closed" ELSE @]
  /\ wire' = [wire EXCEPT ![w] = <<>>]

-----------------------------------------------------------------------------
(* _stream_tasks: the coroutine that serves one listen() connection.       *)

\* A wrong delivery for the mutation tests: the task stays in the queue until
\* a later step removes it.
DeliverHeadOnly(w) ==
  /\ stream[w] = "open"
  /\ queue # <<>>
  /\ wire' = [wire EXCEPT ![w] = Append(@, Head(queue))]
  /\ UNCHANGED <<queue, results, fresh, cancelled, cooling, stream>>

\* The next task is written to a live connection.
Deliver(w) ==
  /\ stream[w] = "open"
  /\ queue # <<>>
  /\ queue' = Tail(queue)
  /\ wire' = [wire EXCEPT ![w] = Append(@, Head(queue))]
  /\ UNCHANGED <<results, fresh, cancelled, cooling, stream>>

\* A wrong loss for the mutation tests: every write to the dead peer is taken
\* for a delivery.
DeliverAllToDeadPeer(w) ==
  /\ stream[w] = "closed"
  /\ queue # <<>>
  /\ queue' = Tail(queue)
  /\ UNCHANGED <<results, fresh, cancelled, cooling, stream, wire>>

\* The peer is gone but the first write to it raises nothing: the operating
\* system takes the bytes and answers with a reset later.
DeliverToDeadPeer(w) ==
  /\ stream[w] = "closed"
  /\ queue # <<>>
  /\ queue' = Tail(queue)
  /\ stream' = [stream EXCEPT ![w] = "reset"]
  /\ UNCHANGED <<results, fresh, cancelled, cooling, wire>>

\* The write raises: the task goes to the back of the queue, the coroutine
\* returns.
PutTaskBack(w) ==
  /\ stream[w] \in {"closed", "reset"}
  /\ queue # <<>>
  /\ queue' = Append(Tail(queue), Head(queue))
  /\ stream' = [stream EXCEPT ![w] = "ended"]
  /\ UNCHANGED <<results, fresh, cancelled, cooling, wire>>

\* The cooldown of throttle_check runs out.
CoolDown ==
  /\ cooling
  /\ cooling' = FALSE
  /\ UNCHANGED <<queue, results, fresh, cancelled, stream, wire>>

=============================================================================
