----------------------------- MODULE SerialLink -----------------------------
(***************************************************************************)
(* One connection shared by the coroutines of a process, with a lock       *)
(* around each request and its answer: DockerSandbox._send_request and     *)
(* _send_stream_request of offwork/worker/sandbox/docker.py, and           *)
(* LocalBackend._request of offwork/worker/backends/local.py.  The two     *)
(* frame their messages in the same way and differ in what they do when a  *)
(* request fails or its coroutine is cancelled.                            *)
(*                                                                         *)
(* A frame is read in two parts, its length and its body.  Left out: what  *)
(* the messages say, and of the progress and yield frames that precede the *)
(* terminal answer of the guest all but the failure of a callback, which   *)
(* ends a stream.  The sandbox is started before the first request and     *)
(* stopped after the last, as serve() does: start() and stop() do not take *)
(* the lock.                                                               *)
(***************************************************************************)
EXTENDS Naturals, Sequences, FiniteSets

CONSTANTS
  Callers,    \* requests, each made by a coroutine of its own
  Streams,    \* those made by _send_stream_request
  Sandbox,    \* TRUE: docker.py, FALSE: local.py
  Doomed,     \* requests whose coroutine may be cancelled (or timed out)
  MaxFaults   \* bound: connections that break or cannot be made

None == 0

ASSUME LinkAssumption ==
  /\ IsFiniteSet(Callers) /\ None \notin Callers
  /\ Streams \subseteq Callers /\ Doomed \subseteq Callers
  /\ Sandbox \in BOOLEAN /\ MaxFaults \in Nat

VARIABLES
  lock,      \* the request that holds _lock, None when it is free
  conn,      \* the connection of _reader and _writer, None when unset
  opened,    \* connections made so far, numbered from 1
  up,        \* requests the peer has yet to read, on each connection
  serving,   \* the request the peer executes, on each connection
  down,      \* answers the host has yet to read, on each connection
  broken,    \* connections that have failed
  torn,      \* a frame of conn was read in part by a request that has ended
  pc,        \* where a request is
  resent,    \* requests that are in their second attempt
  got,       \* the request whose answer a request was given
  runs,      \* how often the peer executed a request
  faults     \* faults so far

peerVars == <<up, serving, down, broken>>
hostVars == <<lock, conn, opened, torn, pc, resent, got>>
linkVars == <<peerVars, hostVars, runs, faults>>

\* Every connection is followed by another only after a fault or a
\* cancelled request.
Conns == 1..(MaxFaults + Cardinality(Doomed) + 1)

\* The points at which a request holds the lock.
Inside == {"connect", "send", "header", "body"}
Ended == {"returned", "raised", "cancelled"}

LinkTypeOK ==
  /\ lock \in Callers \cup {None}
  /\ conn \in Conns \cup {None} /\ opened \in Conns \cup {None}
  /\ up \in [Conns -> Seq(Callers)] /\ down \in [Conns -> Seq(Callers)]
  /\ serving \in [Conns -> Callers \cup {None}]
  /\ broken \subseteq Conns
  /\ torn \in BOOLEAN
  /\ pc \in [Callers -> {"idle", "lock"} \cup Inside \cup Ended]
  /\ resent \subseteq Callers
  /\ got \in [Callers -> Callers \cup {None}]
  /\ runs \in [Callers -> Nat]
  /\ faults \in 0..MaxFaults

\* start() has connected the sandbox; the local backend connects when it must.
LinkInit ==
  /\ lock = None
  /\ conn = IF Sandbox THEN 1 ELSE None
  /\ opened = conn
  /\ up = [c \in Conns |-> <<>>] /\ down = [c \in Conns |-> <<>>]
  /\ serving = [c \in Conns |-> None]
  /\ broken = {} /\ torn = FALSE
  /\ pc = [r \in Callers |-> "idle"]
  /\ resent = {}
  /\ got = [r \in Callers |-> None]
  /\ runs = [r \in Callers |-> 0]
  /\ faults = 0

Goto(r, l) == pc' = [pc EXCEPT ![r] = l]

Fault == faults < MaxFaults /\ faults' = faults + 1

-----------------------------------------------------------------------------
(* Sending again, and a request.                                           *)

\* A wrong rule for the mutation tests: streams are sent again, too.
SendsStreamsAgain(r) == Sandbox /\ r \notin resent

\* Only _send_request of the sandbox sends again, once.
SendsAgain(r) == Sandbox /\ r \notin Streams /\ r \notin resent

\* writer.write: a connection that is broken, unnoticed, takes it as well.
Write(r, c) ==
  /\ up' = IF c \in broken THEN up ELSE [up EXCEPT ![c] = Append(@, r)]
  /\ Goto(r, "send")

Call(r) ==
  /\ pc[r] = "idle"
  /\ Goto(r, "lock")
  /\ UNCHANGED <<peerVars, lock, conn, opened, torn, resent, got, runs,
                 faults>>

GetLock(r) ==
  /\ pc[r] = "lock" /\ lock = None
  /\ lock' = r
  /\ IF conn = None THEN Goto(r, "connect") /\ UNCHANGED up
     ELSE Write(r, conn)
  /\ UNCHANGED <<serving, down, broken, conn, opened, torn, resent, got, runs,
                 faults>>

Connected(r) ==
  /\ pc[r] = "connect"
  /\ opened' = opened + 1
  /\ conn' = opened'
  /\ Write(r, opened')
  /\ UNCHANGED <<serving, down, broken, lock, torn, resent, got, runs, faults>>

ConnectFails(r) ==
  /\ pc[r] = "connect"
  /\ Fault
  /\ lock' = None
  /\ Goto(r, "raised")
  /\ UNCHANGED <<peerVars, conn, opened, torn, resent, got, runs>>

\* writer.drain returns.
Drained(r) ==
  /\ pc[r] = "send"
  /\ Goto(r, "header")
  /\ UNCHANGED <<peerVars, lock, conn, opened, torn, resent, got, runs,
                 faults>>

ReadHeader(r) ==
  /\ pc[r] = "header"
  /\ down[conn] # <<>> /\ ~torn
  /\ Goto(r, "body")
  /\ UNCHANGED <<peerVars, lock, conn, opened, torn, resent, got, runs,
                 faults>>

\* The answer is the first one on the connection, whatever it answers.
ReadBody(r) ==
  /\ pc[r] = "body" /\ down[conn] # <<>>
  /\ got' = [got EXCEPT ![r] = Head(down[conn])]
  /\ down' = [down EXCEPT ![conn] = Tail(@)]
  /\ lock' = None
  /\ Goto(r, "returned")
  /\ UNCHANGED <<up, serving, broken, conn, opened, torn, resent, runs, faults>>

\* A wrong failure for the mutation tests: the lock is not given back.
FailsKeepsLock(r) ==
  /\ pc[r] \in {"send", "header", "body"} /\ conn \in broken
  /\ conn' = None /\ torn' = FALSE
  /\ IF SendsAgain(r)
     THEN resent' = resent \cup {r} /\ Goto(r, "connect")
     ELSE Goto(r, "raised") /\ UNCHANGED resent
  /\ UNCHANGED <<peerVars, lock, opened, got, runs, faults>>

\* IncompleteReadError, ConnectionError or OSError from the connection.
Fails(r) ==
  /\ pc[r] \in {"send", "header", "body"} /\ conn \in broken
  /\ conn' = None /\ torn' = FALSE
  /\ IF SendsAgain(r)
     THEN /\ resent' = resent \cup {r}
          /\ Goto(r, "connect") /\ UNCHANGED lock
     ELSE /\ lock' = None
          /\ Goto(r, "raised") /\ UNCHANGED resent
  /\ UNCHANGED <<peerVars, opened, got, runs, faults>>

\* The callback for a value (on_yield) raises between two frames of a stream
\* that the guest goes on executing: the connection is dropped.
YieldFails(r) ==
  /\ Sandbox /\ r \in Streams
  /\ pc[r] = "header" /\ runs[r] > 0
  /\ Fault
  /\ conn' = None /\ torn' = FALSE
  /\ lock' = None
  /\ Goto(r, "raised")
  /\ UNCHANGED <<peerVars, opened, resent, got, runs>>

\* A wrong cancellation for the mutation tests: the sandbox keeps its
\* connection, as the local backend does.
CancelledKeepsConnection(r) ==
  /\ r \in Doomed /\ pc[r] \in {"lock"} \cup Inside
  /\ Goto(r, "cancelled")
  /\ lock' = IF lock = r THEN None ELSE lock
  /\ torn' = (torn \/ pc[r] = "body")
  /\ UNCHANGED <<peerVars, conn, opened, resent, got, runs, faults>>

\* CancelledError at any await; wait_for ends the sandbox's requests so, too.
Cancelled(r) ==
  /\ r \in Doomed /\ pc[r] \in {"lock"} \cup Inside
  /\ Goto(r, "cancelled")
  /\ lock' = IF lock = r THEN None ELSE lock
  /\ IF Sandbox /\ pc[r] \in Inside
     THEN conn' = None /\ torn' = FALSE
     ELSE torn' = (torn \/ pc[r] = "body") /\ UNCHANGED conn
  /\ UNCHANGED <<peerVars, opened, resent, got, runs, faults>>

-----------------------------------------------------------------------------
(* The peer: _Broker._rpc_loop or the guest agent's _handle_client, one    *)
(* coroutine for each connection.                                          *)

ServeBegins(c) ==
  /\ serving[c] = None /\ up[c] # <<>>
  /\ serving' = [serving EXCEPT ![c] = Head(up[c])]
  /\ up' = [up EXCEPT ![c] = Tail(@)]
  /\ runs' = [runs EXCEPT ![Head(up[c])] = @ + 1]
  /\ UNCHANGED <<down, broken, hostVars, faults>>

\* The answer is lost if the host has given up the connection.
ServeEnds(c) ==
  /\ serving[c] # None
  /\ serving' = [serving EXCEPT ![c] = None]
  /\ down' = IF c = conn /\ c \notin broken
             THEN [down EXCEPT ![c] = Append(@, serving[c])] ELSE down
  /\ UNCHANGED <<up, broken, hostVars, runs, faults>>

\* The answers on their way are lost; a request may still be executed.
Break(c) ==
  /\ c = conn /\ c \notin broken
  /\ Fault
  /\ broken' = broken \cup {c}
  /\ down' = [down EXCEPT ![c] = <<>>]
  /\ UNCHANGED <<up, serving, hostVars, runs>>

-----------------------------------------------------------------------------

RequestStep(r) ==
  \/ GetLock(r) \/ Connected(r) \/ Drained(r) \/ ReadHeader(r) \/ ReadBody(r)
  \/ Fails(r)

LinkNext ==
  \/ \E r \in Callers :
       \/ Call(r) \/ RequestStep(r) \/ ConnectFails(r) \/ YieldFails(r)
       \/ Cancelled(r)
  \/ \E c \in Conns : ServeBegins(c) \/ ServeEnds(c) \/ Break(c)

LinkSpec == LinkInit /\ [][LinkNext]_linkVars

\* The event loops run, a broken connection is noticed, requests are served.
LinkFairSpec ==
  /\ LinkSpec
  /\ \A r \in Callers : WF_linkVars(RequestStep(r))
  /\ \A c \in Conns : WF_linkVars(ServeBegins(c)) /\ WF_linkVars(ServeEnds(c))

-----------------------------------------------------------------------------
(* Properties.                                                             *)

\* A request that returns was given the answer to itself: "reset the
\* connection so the next request doesn't read that leftover data"
\* (docker.py:377).
OwnAnswer == \A r \in Callers : pc[r] = "returned" => got[r] = r

\* Between two requests the connection carries nothing.
QuietBetweenRequests ==
  lock = None /\ conn # None /\ conn \notin broken =>
    /\ up[conn] = <<>> /\ serving[conn] = None /\ down[conn] = <<>>
    /\ ~torn

\* A stream is executed at most once, whatever breaks: a partially consumed
\* one cannot be replayed.
StreamsRunOnce == \A r \in Streams : runs[r] <= 1

\* Requests as RequestPromise sees them: the sandbox sends a plain one twice.
Sendings(r) == IF Sandbox /\ r \notin Streams THEN 2 ELSE 1

Status(r) ==
  IF pc[r] = "idle" THEN "new"
  ELSE IF pc[r] = "returned" THEN "returned"
  ELSE IF pc[r] \in Ended THEN "failed" ELSE "asked"

Promise == INSTANCE RequestPromise WITH
  Requests <- Callers,
  Tries    <- [r \in Callers |-> Sendings(r)],
  status   <- [r \in Callers |-> Status(r)],
  ran      <- [r \in Callers |-> 1..runs[r]],
  answer   <- got

\* Where no request leaves its connection behind, the connection keeps the
\* promise of RequestPromise: a request is answered by an execution of its own
\* and executed no more often than it may be sent, a stream once.
LinkKept == Promise!PromiseSpec

\* Every request ends, and gives the lock back.
EveryRequestEnds == \A r \in Callers : pc[r] # "idle" ~> pc[r] \in Ended

=============================================================================
