----------------------------- MODULE WsBackend -----------------------------
(***************************************************************************)
(* Class WebSocketBackend of offwork/worker/backends/ws.py: concurrent     *)
(* requests over one socket, correlated by a fresh id for each attempt,    *)
(* the reader task that resolves their futures, the dropping of a          *)
(* connection, the three attempts of _request and close().  The hosted     *)
(* broker at the other end is not in the repository: it executes what      *)
(* arrives, in any order, and answers on the same connection.              *)
(*                                                                         *)
(* A step ends where the code awaits.  Left out: what the operations mean, *)
(* the length of timeouts and backoffs, answers that report an error (they *)
(* end a request as the others do).                                        *)
(***************************************************************************)
EXTENDS Naturals, FiniteSets

CONSTANTS
  Requests,   \* calls of _request, by any coroutine of the process
  Timed,      \* those that pass a timeout (claim_task and other long polls)
  Doomed,     \* those whose coroutine may be cancelled
  MayClose,   \* the process may call close()
  MaxFaults   \* bound: connections that break or cannot be made

None == 0

ASSUME WsAssumption ==
  /\ IsFiniteSet(Requests) /\ None \notin Requests
  /\ Timed \subseteq Requests /\ Doomed \subseteq Requests
  /\ MayClose \in BOOLEAN /\ MaxFaults \in Nat

VARIABLES
  ws,         \* _ws: the current connection, None when there is none
  opened,     \* connections made so far: they are numbered from 1
  link,       \* the transport: "up" or "broken", for each connection
  reader,     \* the reader task of each connection
  lock,       \* the request that holds _lock, None when it is free
  closing,    \* "open", "closing" (close() under way) or "closed"
  pc,         \* where a call of _request is
  attempt,    \* its attempt, 1 to 3
  sentOn,     \* the connection its attempt uses
  future,     \* the future of its attempt
  pending,    \* _pending: ids (a request and an attempt) awaiting an answer
  up,         \* requests on their way to the broker, on each connection
  down,       \* answers on their way to the reader
  executed,   \* ids the broker has executed
  faults      \* faults so far

connVars == <<ws, opened, link, reader, lock, closing, faults>>
callVars == <<pc, attempt, sentOn, future, pending>>
brokerVars == <<up, down, executed>>
wsVars == <<connVars, callVars, brokerVars>>

Attempts == 3

\* Every connection but the last was ended by a fault or by close().
MaxConns == MaxFaults + 2
Conns == 1..MaxConns
Ids == Requests \X (1..Attempts)

\* "lock": for the lock; "send": to write the frame; "drain": for the transport
\* to take it; "wait": for the answer; "backoff": between attempts.
Points == {"idle", "lock", "connect", "send", "drain", "wait", "backoff",
           "returned", "raised", "cancelled"}
Ended == {"returned", "raised", "cancelled"}

WsTypeOK ==
  /\ ws \in Conns \cup {None} /\ opened \in 0..MaxConns
  /\ link \in [Conns -> {"up", "broken"}]
  /\ reader \in [Conns -> {"none", "reading", "cancelled", "ended"}]
  /\ lock \in Requests \cup {None}
  /\ closing \in {"open", "closing", "closed"}
  /\ pc \in [Requests -> Points]
  /\ attempt \in [Requests -> 0..Attempts]
  /\ sentOn \in [Requests -> Conns \cup {None}]
  /\ future \in [Requests -> {"none", "pending", "answered", "failed"}]
  /\ pending \subseteq Ids
  /\ up \in [Conns -> SUBSET Ids] /\ down \in [Conns -> SUBSET Ids]
  /\ executed \subseteq Ids
  /\ faults \in 0..MaxFaults

WsInit ==
  /\ ws = None /\ opened = 0
  /\ link = [c \in Conns |-> "up"]
  /\ reader = [c \in Conns |-> "none"]
  /\ lock = None /\ closing = "open"
  /\ pc = [r \in Requests |-> "idle"]
  /\ attempt = [r \in Requests |-> 0]
  /\ sentOn = [r \in Requests |-> None]
  /\ future = [r \in Requests |-> "none"]
  /\ pending = {}
  /\ up = [c \in Conns |-> {}] /\ down = [c \in Conns |-> {}]
  /\ executed = {}
  /\ faults = 0

Id(r) == <<r, attempt[r]>>
Goto(r, l) == pc' = [pc EXCEPT ![r] = l]

Fault == faults < MaxFaults /\ faults' = faults + 1

-----------------------------------------------------------------------------
(* _ensure_connected, up to the await of ws.send in _request.              *)

\* The attempt gets a future and an entry in _pending, and starts to send.
Register(r, n, c) ==
  /\ attempt' = [attempt EXCEPT ![r] = n]
  /\ sentOn' = [sentOn EXCEPT ![r] = c]
  /\ future' = [future EXCEPT ![r] = "pending"]
  /\ pending' = pending \cup {<<r, n>>}
  /\ Goto(r, "send")

\* The loop body of _request for its attempt n, up to its first await.
Begin(r, n) ==
  \/ /\ closing # "open"
     /\ Goto(r, "raised")
     /\ UNCHANGED <<attempt, sentOn, future, pending, lock>>
  \/ /\ closing = "open" /\ ws # None
     /\ Register(r, n, ws)
     /\ UNCHANGED lock
  \/ /\ closing = "open" /\ ws = None
     /\ attempt' = [attempt EXCEPT ![r] = n]
     /\ \/ lock = None /\ lock' = r /\ Goto(r, "connect")
        \/ lock # None /\ UNCHANGED lock /\ Goto(r, "lock")
     /\ UNCHANGED <<sentOn, future, pending>>

Call(r) ==
  /\ pc[r] = "idle"
  /\ Begin(r, 1)
  /\ UNCHANGED <<ws, opened, link, reader, closing, faults, brokerVars>>

\* A wrong acquisition for the mutation tests: _ws is not looked at again.
ConnectWithoutSecondLook(r) ==
  /\ pc[r] = "lock" /\ lock = None
  /\ lock' = r /\ Goto(r, "connect")
  /\ UNCHANGED <<ws, opened, link, reader, closing, faults, attempt, sentOn,
                 future, pending, brokerVars>>

\* The lock is free: a connection made meanwhile is used, else one is made.
\* Whether the backend was closed meanwhile is not looked at.
GetLock(r) ==
  /\ pc[r] = "lock" /\ lock = None
  /\ \/ /\ ws # None
        /\ Register(r, attempt[r], ws)
        /\ UNCHANGED lock
     \/ /\ ws = None
        /\ lock' = r /\ Goto(r, "connect")
        /\ UNCHANGED <<attempt, sentOn, future, pending>>
  /\ UNCHANGED <<ws, opened, link, reader, closing, faults, brokerVars>>

\* The reader task a close() has cancelled ends in the next round of the event
\* loop, before the handshake of a connection can.
Connected(r) ==
  /\ pc[r] = "connect"
  /\ \A c \in Conns : reader[c] # "cancelled"
  /\ opened' = opened + 1
  /\ ws' = opened'
  /\ reader' = [reader EXCEPT ![opened'] = "reading"]
  /\ lock' = None
  /\ Register(r, attempt[r], opened')
  /\ UNCHANGED <<link, closing, faults, brokerVars>>

\* ConnectionError, OSError and TimeoutError (an OSError in the Python
\* versions offwork supports) lead to the next attempt, or end the call.
Retry(r) == Goto(r, IF closing = "open" THEN "backoff" ELSE "raised")

\* A broker that refuses the key, or no handshake at all (AuthenticationError,
\* InvalidHandshake), ends the call at once.
ConnectFails(r) ==
  /\ pc[r] = "connect"
  /\ Fault
  /\ lock' = None
  /\ Retry(r) \/ Goto(r, "raised")
  /\ UNCHANGED <<ws, opened, link, reader, closing, attempt, sentOn, future,
                 pending, brokerVars>>

-----------------------------------------------------------------------------
(* The rest of _request.                                                   *)

callRest == <<connVars, brokerVars, attempt, sentOn, future>>

\* The frame is written.  A link that is broken, unnoticed, loses the request;
\* over one that is up it may be answered before ws.send returns.
Transmit(r) ==
  /\ pc[r] = "send"
  /\ LET c == sentOn[r] IN
       up' = IF link[c] = "up" THEN [up EXCEPT ![c] = @ \cup {Id(r)}] ELSE up
  /\ Goto(r, "drain")
  /\ UNCHANGED <<connVars, attempt, sentOn, future, pending, down, executed>>

\* ws.send returns.
Sent(r) ==
  /\ pc[r] = "drain"
  /\ Goto(r, "wait")
  /\ UNCHANGED <<callRest, pending>>

\* ws.send raises ConnectionClosed, which is not a ConnectionError: the call
\* ends, its entry in _pending stays.
SendRaises(r) ==
  /\ pc[r] \in {"send", "drain"}
  /\ link[sentOn[r]] = "broken" \/ reader[sentOn[r]] = "ended"
  /\ Goto(r, "raised")
  /\ UNCHANGED <<callRest, pending>>

Receive(r) ==
  /\ pc[r] = "wait" /\ future[r] = "answered"
  /\ Goto(r, "returned")
  /\ UNCHANGED <<callRest, pending>>

Dropped(r) ==
  /\ pc[r] = "wait" /\ future[r] = "failed"
  /\ Retry(r)
  /\ UNCHANGED <<callRest, pending>>

\* A wrong timeout for the mutation tests: the entry stays in _pending.
TimesOutKeepsEntry(r) ==
  /\ r \in Timed
  /\ pc[r] = "wait" /\ future[r] = "pending"
  /\ Retry(r)
  /\ UNCHANGED <<callRest, pending>>

TimesOut(r) ==
  /\ r \in Timed
  /\ pc[r] = "wait" /\ future[r] = "pending"
  /\ pending' = pending \ {Id(r)}
  /\ Retry(r)
  /\ UNCHANGED callRest

\* A wrong loop for the mutation tests: range(4).
NextAttemptOffByOne(r) ==
  /\ pc[r] = "backoff"
  /\ IF attempt[r] <= Attempts
     THEN Begin(r, attempt[r] + 1)
     ELSE /\ Goto(r, "raised")
          /\ UNCHANGED <<attempt, sentOn, future, pending, lock>>
  /\ UNCHANGED <<ws, opened, link, reader, closing, faults, brokerVars>>

\* The backoff is over.  It is also slept after the last attempt.
NextAttempt(r) ==
  /\ pc[r] = "backoff"
  /\ IF attempt[r] < Attempts
     THEN Begin(r, attempt[r] + 1)
     ELSE /\ Goto(r, "raised")
          /\ UNCHANGED <<attempt, sentOn, future, pending, lock>>
  /\ UNCHANGED <<ws, opened, link, reader, closing, faults, brokerVars>>

\* CancelledError at any await: the future, if the call awaited it, is done;
\* its entry stays in _pending.
Cancelled(r) ==
  /\ r \in Doomed
  /\ pc[r] \in {"lock", "connect", "send", "drain", "wait", "backoff"}
  /\ Goto(r, "cancelled")
  /\ lock' = IF lock = r THEN None ELSE lock
  /\ future' = [future EXCEPT ![r] = IF pc[r] = "wait" THEN "none" ELSE @]
  /\ UNCHANGED <<ws, opened, link, reader, closing, faults, attempt, sentOn,
                 pending, brokerVars>>

-----------------------------------------------------------------------------
(* _read_loop and _drop_connection.                                        *)

\* A wrong correlation for the mutation tests: by the call, not the attempt.
ReadAnswerOfCall(c) ==
  /\ reader[c] = "reading"
  /\ \E id \in down[c] :
       /\ down' = [down EXCEPT ![c] = @ \ {id}]
       /\ pending' = {p \in pending : p[1] # id[1]}
       /\ future' = IF pending' # pending
                    THEN [future EXCEPT ![id[1]] = "answered"] ELSE future
  /\ UNCHANGED <<connVars, pc, attempt, sentOn, up, executed>>

\* An answer resolves the future registered under its id, if there is one.
ReadAnswer(c) ==
  /\ reader[c] = "reading"
  /\ \E id \in down[c] :
       /\ down' = [down EXCEPT ![c] = @ \ {id}]
       /\ pending' = pending \ {id}
       /\ future' = IF id \in pending /\ future[id[1]] = "pending"
                    THEN [future EXCEPT ![id[1]] = "answered"] ELSE future
  /\ UNCHANGED <<connVars, pc, attempt, sentOn, up, executed>>

\* The pending futures get an exception and the table is emptied.
FailPending ==
  /\ future' = [r \in Requests |->
                  IF future[r] = "pending" /\ Id(r) \in pending
                  THEN "failed" ELSE future[r]]
  /\ pending' = {}

\* A wrong drop for the mutation tests: the table is emptied, nobody is told.
DropSilently(c) ==
  /\ \/ reader[c] = "reading" /\ link[c] = "broken"
     \/ reader[c] = "cancelled"
  /\ reader' = [reader EXCEPT ![c] = "ended"]
  /\ ws' = IF ws = c THEN None ELSE ws
  /\ pending' = {}
  /\ UNCHANGED <<opened, link, lock, closing, faults, pc, attempt, sentOn,
                 future, brokerVars>>

\* The reader task ends: its connection broke, or close() cancelled it.  It
\* fails every pending request, of whatever connection.
Drop(c) ==
  /\ \/ reader[c] = "reading" /\ link[c] = "broken"
     \/ reader[c] = "cancelled"
  /\ reader' = [reader EXCEPT ![c] = "ended"]
  /\ ws' = IF ws = c THEN None ELSE ws
  /\ FailPending
  /\ UNCHANGED <<opened, link, lock, closing, faults, pc, attempt, sentOn,
                 brokerVars>>

-----------------------------------------------------------------------------
(* close().                                                                *)

\* _ws is forgotten, the reader task cancelled and awaited.
Close ==
  /\ MayClose /\ closing = "open"
  /\ closing' = "closing"
  /\ ws' = None
  /\ reader' = [c \in Conns |->
                  IF reader[c] = "reading" THEN "cancelled" ELSE reader[c]]
  /\ UNCHANGED <<opened, link, lock, faults, callVars, brokerVars>>

CloseReturns ==
  /\ closing = "closing"
  /\ \A c \in Conns : reader[c] # "cancelled"
  /\ closing' = "closed"
  /\ FailPending
  /\ UNCHANGED <<ws, opened, link, reader, lock, faults, pc, attempt, sentOn,
                 brokerVars>>

-----------------------------------------------------------------------------
(* The broker and the network (outside the repository).                    *)

\* A request that has reached the broker is executed even if the connection
\* has broken since; its answer is then lost.
Execute(c) ==
  /\ \E id \in up[c] :
       /\ up' = [up EXCEPT ![c] = @ \ {id}]
       /\ executed' = executed \cup {id}
       /\ down' = IF link[c] = "up" THEN [down EXCEPT ![c] = @ \cup {id}]
                  ELSE down
  /\ UNCHANGED <<connVars, callVars>>

\* The answers that were on their way are lost.
Break(c) ==
  /\ reader[c] = "reading" /\ link[c] = "up"
  /\ Fault
  /\ link' = [link EXCEPT ![c] = "broken"]
  /\ down' = [down EXCEPT ![c] = {}]
  /\ UNCHANGED <<ws, opened, reader, lock, closing, callVars, up, executed>>

-----------------------------------------------------------------------------

CallStep(r) ==
  \/ GetLock(r) \/ Connected(r) \/ Transmit(r) \/ Sent(r) \/ SendRaises(r)
  \/ Receive(r) \/ Dropped(r) \/ NextAttempt(r)

WsNext ==
  \/ \E r \in Requests :
       Call(r) \/ CallStep(r) \/ ConnectFails(r) \/ TimesOut(r) \/ Cancelled(r)
  \/ \E c \in Conns : ReadAnswer(c) \/ Drop(c) \/ Execute(c) \/ Break(c)
  \/ Close \/ CloseReturns

WsSpec == WsInit /\ [][WsNext]_wsVars

\* The event loop runs, a connection attempt ends, a broken link is noticed
\* (by the pings), the broker answers over a link that stays up.
WsFairness ==
  /\ \A r \in Requests : WF_wsVars(CallStep(r))
  /\ \A c \in Conns :
       /\ WF_wsVars(ReadAnswer(c)) /\ WF_wsVars(Drop(c))
       /\ WF_wsVars(link[c] = "up" /\ Execute(c))

WsFairSpec == WsSpec /\ WsFairness

-----------------------------------------------------------------------------
(* Properties.                                                             *)

\* A call that returns has the answer to its own last attempt: an answer that
\* comes after the attempt was given up resolves nothing.
LastAttemptAnswered == \A r \in Requests : pc[r] = "returned" => Id(r) \in executed

\* Whatever waits in _pending was sent on a connection whose reader will
\* answer it or fail it; entries of attempts given up are not kept, but for
\* a call that ended because its sending raised or it was cancelled.
PendingIsWatched ==
  \A id \in pending :
    /\ id = Id(id[1])
    /\ pc[id[1]] \in {"send", "drain", "wait", "raised", "cancelled"}
    /\ reader[sentOn[id[1]]] \in {"reading", "cancelled"}

\* "Many concurrent calls will share one in-flight connect attempt": at most
\* one connection is in use or being made, close() or not.
OneConnection ==
  Cardinality({c \in Conns : reader[c] = "reading"})
    + Cardinality({r \in Requests : pc[r] = "connect"}) <= 1

\* _drop_connection fails every pending request, but none that was sent on
\* another connection than the one that dropped.
DropFailsOwn ==
  [][\A r \in Requests :
       future[r] = "pending" /\ future'[r] = "failed" =>
         closing' = "closed" \/ reader'[sentOn[r]] = "ended"]_wsVars

\* Calls as RequestPromise sees them: the answer is found by the id of the
\* attempt (LastAttemptAnswered), and ran names the attempts executed.
Status(r) ==
  IF pc[r] = "idle" THEN "new"
  ELSE IF pc[r] = "returned" THEN "returned"
  ELSE IF pc[r] \in Ended THEN "failed" ELSE "asked"

Ran(r) == {id[2] : id \in {x \in executed : x[1] = r}}

Promise == INSTANCE RequestPromise WITH
  Tries    <- [r \in Requests |-> 3],
  status   <- [r \in Requests |-> Status(r)],
  ran      <- [r \in Requests |-> Ran(r)],
  answer   <- [r \in Requests |-> IF Status(r) = "returned" THEN r ELSE None]

\* Whatever breaks, times out or is closed, a call keeps the promise of
\* RequestPromise: it ends once, returns only if the broker has executed it, and
\* is executed three times at most, also after it has ended.
CallsKept == Promise!PromiseSpec

\* Every call of _request comes to an end, whatever breaks and whenever the
\* backend is closed.
EveryCallEnds ==
  \A r \in Requests : pc[r] # "idle" ~> pc[r] \in Ended
=============================================================================
