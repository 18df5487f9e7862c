------------------------------ MODULE WsProofs ------------------------------
(***************************************************************************)
(* Proofs about WsBackend, for any finite set of requests and any number   *)
(* of faults: typing, one connection at a time, and answers that reach     *)
(* the attempt they answer.                                                *)
(***************************************************************************)
EXTENDS WsBackend, FiniteSetTheorems, TLAPS

Watching == {"reading", "cancelled"}

\* _ws is the connection that is read, one at most has a reader task, and the
\* lock is held by whoever makes the next one, only while there is none.
ConnInv ==
  /\ \A c \in Conns : reader[c] = "reading" <=> ws = c
  /\ \A c, d \in Conns :
       reader[c] \in Watching /\ reader[d] \in Watching => c = d
  /\ \A r \in Requests : pc[r] = "connect" <=> lock = r
  /\ lock # None => ws = None
  /\ \A c \in Conns : c > opened => reader[c] = "none" /\ link[c] = "up"

\* Why connections do not run out: one is made only after the one before it
\* was ended by a fault or by close().
CountInv ==
  opened <= faults
            + (IF closing = "open" THEN 0 ELSE 1)
            + (IF ws # None /\ link[ws] = "up" THEN 1 ELSE 0)

\* Points of a call that has entered the loop and not left it.
Looping == {"lock", "connect", "send", "drain", "wait", "backoff"}

CallInv ==
  /\ \A r \in Requests : pc[r] \in Looping => attempt[r] \in 1..Attempts
  /\ \A r \in Requests : pc[r] = "send" => sentOn[r] \in Conns
  /\ \A r \in Requests :
       pc[r] \in {"idle", "lock", "connect", "backoff"} =>
         future[r] # "answered"

\* Where an entry of _pending can come from.
PendingInv ==
  /\ PendingIsWatched
  /\ \A id \in pending : sentOn[id[1]] \in Conns
  /\ \A r \in Requests :
       future[r] \in {"answered", "failed"} => Id(r) \notin pending

\* What has been answered was executed.
AnswerInv ==
  /\ \A c \in Conns : down[c] \subseteq executed
  /\ \A r \in Requests : future[r] = "answered" => Id(r) \in executed
  /\ LastAttemptAnswered

WsInv ==
  WsTypeOK /\ ConnInv /\ CountInv /\ CallInv /\ PendingInv /\ AnswerInv

-----------------------------------------------------------------------------
(* Each part of the invariant is kept by every step.                       *)

\* When a connection is about to be made there is a number left for it.
LEMMA RoomForConnection ==
  ASSUME WsInv, NEW r \in Requests, pc[r] = "connect"
  PROVE  opened + 1 \in Conns /\ reader[opened + 1] = "none"
         /\ link[opened + 1] = "up" /\ ws = None
<1>1. ws = None
  BY WsAssumption DEF WsInv, ConnInv
<1>2. opened \in Nat /\ faults \in 0..MaxFaults /\ MaxFaults \in Nat
  BY WsAssumption DEF WsInv, WsTypeOK, MaxConns
<1>3. opened + 1 \in Conns
  BY <1>1, <1>2 DEF WsInv, CountInv, Conns, MaxConns
<1> QED BY <1>1, <1>2, <1>3 DEF WsInv, ConnInv, Conns, MaxConns

\* The id of a call in its loop is an id.
LEMMA IdOfLooping ==
  ASSUME WsInv, NEW r \in Requests, pc[r] \in Looping
  PROVE  Id(r) \in Ids /\ attempt[r] \in 1..Attempts
BY DEF WsInv, CallInv, Ids, Id

\* Every step keeps the types.
LEMMA WsTypes ==
  ASSUME WsInv, WsNext
  PROVE  WsTypeOK'
<1> USE DEF WsInv, WsTypeOK, Points, Attempts, Ids, Looping, Goto, connVars,
            callVars, brokerVars
<1>1. ASSUME NEW r \in Requests, Call(r) PROVE WsTypeOK'
  BY <1>1 DEF Call, Begin, Register
<1>2. ASSUME NEW r \in Requests, GetLock(r) PROVE WsTypeOK'
  <2>1. attempt[r] \in 1..Attempts BY <1>2, IdOfLooping DEF GetLock, Looping
  <2> QED BY <1>2, <2>1 DEF GetLock, Register
<1>3. ASSUME NEW r \in Requests, Connected(r) PROVE WsTypeOK'
  <2>1. attempt[r] \in 1..Attempts BY <1>3, IdOfLooping DEF Connected, Looping
  <2>2. /\ opened' \in Conns /\ opened' = opened + 1 /\ opened' \in 0..MaxConns
    BY <1>3, RoomForConnection DEF Connected, Conns
  <2> QED BY <1>3, <2>1, <2>2 DEF Connected, Register
<1>4. ASSUME NEW r \in Requests, Transmit(r) PROVE WsTypeOK'
  <2>1. Id(r) \in Ids BY <1>4, IdOfLooping DEF Transmit, Looping
  <2>2. up' \in [Conns -> SUBSET Ids] BY <1>4, <2>1 DEF Transmit
  <2> QED BY <1>4, <2>2 DEF Transmit
<1>5. ASSUME NEW r \in Requests, Sent(r) \/ SendRaises(r) PROVE WsTypeOK'
  BY <1>5 DEF Sent, SendRaises, callRest
<1>6. ASSUME NEW r \in Requests, Receive(r) PROVE WsTypeOK'
  BY <1>6 DEF Receive, callRest
<1>7. ASSUME NEW r \in Requests, Dropped(r) PROVE WsTypeOK'
  BY <1>7 DEF Dropped, Retry, callRest
<1>8. ASSUME NEW r \in Requests, NextAttempt(r) PROVE WsTypeOK'
  BY <1>8 DEF NextAttempt, Begin, Register
<1>9. ASSUME NEW r \in Requests, ConnectFails(r) PROVE WsTypeOK'
  <2>1. faults' \in 0..MaxFaults BY <1>9, WsAssumption DEF ConnectFails, Fault
  <2> QED BY <1>9, <2>1 DEF ConnectFails, Retry
<1>10. ASSUME NEW r \in Requests, TimesOut(r) PROVE WsTypeOK'
  BY <1>10 DEF TimesOut, Retry, callRest
<1>11. ASSUME NEW r \in Requests, Cancelled(r) PROVE WsTypeOK'
  BY <1>11 DEF Cancelled
<1>12. ASSUME NEW c \in Conns, ReadAnswer(c) PROVE WsTypeOK'
  BY <1>12 DEF ReadAnswer
<1>13. ASSUME NEW c \in Conns, Drop(c) PROVE WsTypeOK'
  BY <1>13 DEF Drop, FailPending
<1>14. ASSUME NEW c \in Conns, Execute(c) PROVE WsTypeOK'
  BY <1>14 DEF Execute
<1>15. ASSUME NEW c \in Conns, Break(c) PROVE WsTypeOK'
  <2>1. faults' \in 0..MaxFaults BY <1>15, WsAssumption DEF Break, Fault
  <2> QED BY <1>15, <2>1 DEF Break
<1>16. ASSUME Close PROVE WsTypeOK'
  BY <1>16 DEF Close
<1>17. ASSUME CloseReturns PROVE WsTypeOK'
  BY <1>17 DEF CloseReturns, FailPending
<1> QED
  BY <1>1, <1>2, <1>3, <1>4, <1>5, <1>6, <1>7, <1>8, <1>9,
     <1>10, <1>11, <1>12, <1>13, <1>14, <1>15, <1>16, <1>17
  DEF WsNext, CallStep

\* Every step keeps one connection at a time.
LEMMA WsConns ==
  ASSUME WsInv, WsNext
  PROVE  ConnInv'
<1> USE DEF WsInv, WsTypeOK, ConnInv, Watching, Goto, connVars, callVars,
            brokerVars
<1>1. ASSUME NEW r \in Requests, Call(r) PROVE ConnInv'
  BY <1>1, WsAssumption DEF Call, Begin, Register
<1>2. ASSUME NEW r \in Requests, GetLock(r) PROVE ConnInv'
  BY <1>2, WsAssumption DEF GetLock, Register
<1>3. ASSUME NEW r \in Requests, Connected(r) PROVE ConnInv'
  <2>1. /\ opened' \in Conns /\ opened' = opened + 1 /\ reader[opened'] = "none"
        /\ link[opened'] = "up" /\ ws = None
    BY <1>3, RoomForConnection DEF Connected
  <2>2. \A c \in Conns : reader[c] \notin Watching
    <3>1. \A c \in Conns : reader[c] # "reading" BY <2>1 DEF Conns, None, None
    <3> QED BY <1>3, <3>1 DEF Connected
  <2>3. /\ reader' = [reader EXCEPT ![opened'] = "reading"] /\ ws' = opened'
        /\ lock' = None /\ lock = r /\ link' = link
        /\ pc' = [pc EXCEPT ![r] = "send"]
    BY <1>3 DEF Connected, Register
  <2>4. \A c, d \in Conns :
          /\ reader'[c] = "reading" <=> ws' = c
          /\ reader'[c] \in Watching /\ reader'[d] \in Watching => c = d
          /\ c > opened' => reader'[c] = "none" /\ link'[c] = "up"
    BY <2>1, <2>2, <2>3 DEF Conns, MaxConns
  <2>5. \A q \in Requests : pc'[q] = "connect" <=> lock' = q
    BY <2>3, WsAssumption
  <2> QED BY <2>3, <2>4, <2>5
<1>4. ASSUME NEW r \in Requests, Transmit(r) PROVE ConnInv'
  BY <1>4 DEF Transmit
<1>5. ASSUME NEW r \in Requests, Sent(r) \/ SendRaises(r) PROVE ConnInv'
  BY <1>5 DEF Sent, SendRaises, callRest
<1>6. ASSUME NEW r \in Requests, Receive(r) PROVE ConnInv'
  BY <1>6 DEF Receive, callRest
<1>7. ASSUME NEW r \in Requests, Dropped(r) PROVE ConnInv'
  BY <1>7 DEF Dropped, Retry, callRest
<1>8. ASSUME NEW r \in Requests, NextAttempt(r) PROVE ConnInv'
  BY <1>8, WsAssumption DEF NextAttempt, Begin, Register
<1>9. ASSUME NEW r \in Requests, ConnectFails(r) PROVE ConnInv'
  BY <1>9, WsAssumption DEF ConnectFails, Retry, Fault
<1>10. ASSUME NEW r \in Requests, TimesOut(r) PROVE ConnInv'
  BY <1>10 DEF TimesOut, Retry, callRest
<1>11. ASSUME NEW r \in Requests, Cancelled(r) PROVE ConnInv'
  BY <1>11, WsAssumption DEF Cancelled
<1>12. ASSUME NEW c \in Conns, ReadAnswer(c) PROVE ConnInv'
  BY <1>12 DEF ReadAnswer
<1>13. ASSUME NEW c \in Conns, Drop(c) PROVE ConnInv'
  BY <1>13 DEF Drop, FailPending, Conns, None
<1>14. ASSUME NEW c \in Conns, Execute(c) PROVE ConnInv'
  BY <1>14 DEF Execute
<1>15. ASSUME NEW c \in Conns, Break(c) PROVE ConnInv'
  BY <1>15 DEF Break, Fault
<1>16. ASSUME Close PROVE ConnInv'
  <2>1. /\ ws' = None /\ opened' = opened /\ link' = link /\ pc' = pc /\ lock' = lock
        /\ \A c \in Conns : reader'[c] = IF reader[c] = "reading" THEN "cancelled"
                                         ELSE reader[c]
    BY <1>16 DEF Close
  <2>2. \A c \in Conns : reader'[c] # "reading" /\ ws' # c BY <2>1 DEF Conns, None
  <2>3. \A c \in Conns : reader'[c] \in Watching <=> reader[c] \in Watching
    BY <2>1
  <2> QED BY <2>1, <2>2, <2>3
<1>17. ASSUME CloseReturns PROVE ConnInv'
  BY <1>17 DEF CloseReturns, FailPending
<1> QED
  BY <1>1, <1>2, <1>3, <1>4, <1>5, <1>6, <1>7, <1>8, <1>9,
     <1>10, <1>11, <1>12, <1>13, <1>14, <1>15, <1>16, <1>17
  DEF WsNext, CallStep

\* Every step keeps the count of the connections.
LEMMA WsCount ==
  ASSUME WsInv, WsNext
  PROVE  CountInv'
<1> USE DEF WsInv, WsTypeOK, ConnInv, CountInv, Goto, connVars, callVars,
            brokerVars
<1>1. ASSUME NEW r \in Requests, Call(r) PROVE CountInv'
  BY <1>1 DEF Call, Begin, Register
<1>2. ASSUME NEW r \in Requests, GetLock(r) PROVE CountInv'
  BY <1>2 DEF GetLock, Register
<1>3. ASSUME NEW r \in Requests, Connected(r) PROVE CountInv'
  <2>1. /\ opened' \in Conns /\ opened' = opened + 1 /\ reader[opened'] = "none"
        /\ link[opened'] = "up" /\ ws = None
    BY <1>3, RoomForConnection DEF Connected
  <2> QED BY <1>3, <2>1, WsAssumption DEF Connected, Register, Conns, MaxConns
<1>4. ASSUME NEW r \in Requests, Transmit(r) PROVE CountInv'
  BY <1>4 DEF Transmit
<1>5. ASSUME NEW r \in Requests, Sent(r) \/ SendRaises(r) PROVE CountInv'
  BY <1>5 DEF Sent, SendRaises, callRest
<1>6. ASSUME NEW r \in Requests, Receive(r) PROVE CountInv'
  BY <1>6 DEF Receive, callRest
<1>7. ASSUME NEW r \in Requests, Dropped(r) PROVE CountInv'
  BY <1>7 DEF Dropped, Retry, callRest
<1>8. ASSUME NEW r \in Requests, NextAttempt(r) PROVE CountInv'
  BY <1>8 DEF NextAttempt, Begin, Register
<1>9. ASSUME NEW r \in Requests, ConnectFails(r) PROVE CountInv'
  BY <1>9 DEF ConnectFails, Retry, Fault
<1>10. ASSUME NEW r \in Requests, TimesOut(r) PROVE CountInv'
  BY <1>10 DEF TimesOut, Retry, callRest
<1>11. ASSUME NEW r \in Requests, Cancelled(r) PROVE CountInv'
  BY <1>11 DEF Cancelled
<1>12. ASSUME NEW c \in Conns, ReadAnswer(c) PROVE CountInv'
  BY <1>12 DEF ReadAnswer
<1>13. ASSUME NEW c \in Conns, Drop(c) PROVE CountInv'
  BY <1>13 DEF Drop, FailPending
<1>14. ASSUME NEW c \in Conns, Execute(c) PROVE CountInv'
  BY <1>14 DEF Execute
<1>15. ASSUME NEW c \in Conns, Break(c) PROVE CountInv'
  BY <1>15 DEF Break, Fault
<1>16. ASSUME Close PROVE CountInv'
  BY <1>16 DEF Close
<1>17. ASSUME CloseReturns PROVE CountInv'
  BY <1>17 DEF CloseReturns, FailPending
<1> QED
  BY <1>1, <1>2, <1>3, <1>4, <1>5, <1>6, <1>7, <1>8, <1>9,
     <1>10, <1>11, <1>12, <1>13, <1>14, <1>15, <1>16, <1>17
  DEF WsNext, CallStep

\* Every step keeps what the calls rely on.
LEMMA WsCalls ==
  ASSUME WsInv, WsNext
  PROVE  CallInv'
<1> USE DEF WsInv, WsTypeOK, CallInv, Looping, Attempts, Goto, connVars,
            callVars, brokerVars
<1>1. ASSUME NEW r \in Requests, Call(r) PROVE CallInv'
  BY <1>1 DEF Call, Begin, Register
<1>2. ASSUME NEW r \in Requests, GetLock(r) PROVE CallInv'
  BY <1>2 DEF GetLock, Register
<1>3. ASSUME NEW r \in Requests, Connected(r) PROVE CallInv'
  <2>1. opened' \in Conns BY <1>3, RoomForConnection DEF Connected
  <2> QED BY <1>3, <2>1 DEF Connected, Register
<1>4. ASSUME NEW r \in Requests, Transmit(r) PROVE CallInv'
  BY <1>4 DEF Transmit
<1>5. ASSUME NEW r \in Requests, Sent(r) \/ SendRaises(r) PROVE CallInv'
  BY <1>5 DEF Sent, SendRaises, callRest
<1>6. ASSUME NEW r \in Requests, Receive(r) PROVE CallInv'
  BY <1>6 DEF Receive, callRest
<1>7. ASSUME NEW r \in Requests, Dropped(r) PROVE CallInv'
  BY <1>7 DEF Dropped, Retry, callRest
<1>8. ASSUME NEW r \in Requests, NextAttempt(r) PROVE CallInv'
  BY <1>8 DEF NextAttempt, Begin, Register
<1>9. ASSUME NEW r \in Requests, ConnectFails(r) PROVE CallInv'
  BY <1>9 DEF ConnectFails, Retry, Fault
<1>10. ASSUME NEW r \in Requests, TimesOut(r) PROVE CallInv'
  BY <1>10 DEF TimesOut, Retry, callRest
<1>11. ASSUME NEW r \in Requests, Cancelled(r) PROVE CallInv'
  BY <1>11 DEF Cancelled
<1>12. ASSUME NEW c \in Conns, ReadAnswer(c) PROVE CallInv'
  <2>1. PendingIsWatched BY DEF PendingInv
  <2> QED BY <1>12, <2>1 DEF ReadAnswer, PendingIsWatched, Id, Ids
<1>13. ASSUME NEW c \in Conns, Drop(c) PROVE CallInv'
  BY <1>13 DEF Drop, FailPending
<1>14. ASSUME NEW c \in Conns, Execute(c) PROVE CallInv'
  BY <1>14 DEF Execute
<1>15. ASSUME NEW c \in Conns, Break(c) PROVE CallInv'
  BY <1>15 DEF Break, Fault
<1>16. ASSUME Close PROVE CallInv'
  BY <1>16 DEF Close
<1>17. ASSUME CloseReturns PROVE CallInv'
  BY <1>17 DEF CloseReturns, FailPending
<1> QED
  BY <1>1, <1>2, <1>3, <1>4, <1>5, <1>6, <1>7, <1>8, <1>9,
     <1>10, <1>11, <1>12, <1>13, <1>14, <1>15, <1>16, <1>17
  DEF WsNext, CallStep

\* Registering an attempt of a call that has none registered keeps them.
LEMMA RegisterPending ==
  ASSUME WsInv, NEW r \in Requests, NEW n \in 1..Attempts, NEW c \in Conns,
         pc[r] \in {"idle", "lock", "connect", "backoff"},
         Register(r, n, c), reader'[c] = "reading",
         \A d \in Conns : reader[d] \in Watching => reader'[d] = reader[d]
  PROVE  PendingInv'
<1> USE DEF WsInv, WsTypeOK, PendingInv, PendingIsWatched, Id, Ids, Watching
<1>1. /\ attempt' = [attempt EXCEPT ![r] = n] /\ sentOn' = [sentOn EXCEPT ![r] = c]
      /\ future' = [future EXCEPT ![r] = "pending"]
      /\ pending' = pending \cup {<<r, n>>} /\ pc' = [pc EXCEPT ![r] = "send"]
  BY DEF Register, Goto
<1>2. \A id \in pending : id[1] \in Requests /\ id[1] # r /\ id = <<id[1], id[2]>>
  OBVIOUS
<1>3. PendingIsWatched' BY <1>1, <1>2
<1>4. \A id \in pending' : sentOn'[id[1]] \in Conns BY <1>1, <1>2
<1>5. \A q \in Requests :
        future'[q] \in {"answered", "failed"} => <<q, attempt'[q]>> \notin pending'
  BY <1>1, <1>2
<1> QED BY <1>3, <1>4, <1>5

\* The other calls stay where they are.
Others(r) ==
  \A q \in Requests \ {r} : pc'[q] = pc[q] /\ attempt'[q] = attempt[q]

\* So does giving such a call another attempt, or another point outside it.
LEMMA MovePending ==
  ASSUME WsInv, NEW r \in Requests, Others(r),
         pc[r] \in {"idle", "lock", "connect", "backoff"},
         UNCHANGED <<sentOn, future, pending, reader>>
  PROVE  PendingInv'
<1> USE DEF WsInv, WsTypeOK, PendingInv, PendingIsWatched, Id, Ids, Others
<1>1. \A id \in pending : id[1] \in Requests /\ id[1] # r OBVIOUS
<1>2. PendingIsWatched' BY <1>1
<1>3. \A q \in Requests : future'[q] \in {"answered", "failed"} => Id(q)' \notin pending'
  BY <1>1
<1> QED BY <1>1, <1>2, <1>3

\* The loop body, entered with the attempt n, keeps them.
LEMMA BeginPending ==
  ASSUME WsInv, NEW r \in Requests, NEW n \in 1..Attempts,
         pc[r] \in {"idle", "backoff"}, Begin(r, n),
         UNCHANGED <<ws, reader>>
  PROVE  PendingInv'
<1>1. CASE closing # "open"
  <2>1. UNCHANGED <<attempt, sentOn, future, pending, reader>> /\ Others(r)
    BY <1>1 DEF Begin, Goto, WsInv, WsTypeOK, Others
  <2> QED BY <2>1, MovePending
<1>2. CASE closing = "open" /\ ws # None
  <2>1. ws \in Conns /\ reader[ws] = "reading"
    BY <1>2 DEF WsInv, WsTypeOK, ConnInv
  <2> QED BY <1>2, <2>1, RegisterPending DEF Begin
<1>3. CASE closing = "open" /\ ws = None
  <2>1. UNCHANGED <<sentOn, future, pending, reader>> /\ Others(r)
    BY <1>3 DEF Begin, Goto, WsInv, WsTypeOK, Others
  <2> QED BY <2>1, MovePending
<1> QED BY <1>1, <1>2, <1>3

\* Every step keeps the entries of _pending to those with a reader.
LEMMA WsPending ==
  ASSUME WsInv, WsNext
  PROVE  PendingInv'
<1> USE DEF WsInv, WsTypeOK, CallInv, PendingInv, PendingIsWatched, Id, Ids,
            Goto, connVars, callVars, brokerVars
<1>1. ASSUME NEW r \in Requests, Call(r) PROVE PendingInv'
  BY <1>1, BeginPending DEF Call, Attempts
<1>2. ASSUME NEW r \in Requests, GetLock(r) PROVE PendingInv'
  <2>1. attempt[r] \in 1..Attempts BY <1>2, IdOfLooping DEF GetLock, Looping
  <2>2. CASE ws # None
    <3>1. ws \in Conns /\ reader[ws] = "reading" BY <2>2 DEF ConnInv
    <3> QED BY <1>2, <2>1, <2>2, <3>1, RegisterPending DEF GetLock
  <2>3. CASE ws = None
    <3>1. UNCHANGED <<sentOn, future, pending, reader>> /\ Others(r)
      BY <1>2, <2>3 DEF GetLock, Others
    <3> QED BY <1>2, <3>1, MovePending DEF GetLock
  <2> QED BY <2>2, <2>3
<1>3. ASSUME NEW r \in Requests, Connected(r) PROVE PendingInv'
  <2>1. opened' \in Conns /\ opened' = opened + 1 /\ reader[opened'] = "none"
    BY <1>3, RoomForConnection DEF Connected
  <2> QED BY <1>3, <2>1 DEF Connected, Register
<1>4. ASSUME NEW r \in Requests, Transmit(r) PROVE PendingInv'
  BY <1>4 DEF Transmit
<1>5. ASSUME NEW r \in Requests, Sent(r) \/ SendRaises(r) PROVE PendingInv'
  BY <1>5 DEF Sent, SendRaises, callRest
<1>6. ASSUME NEW r \in Requests, Receive(r) PROVE PendingInv'
  BY <1>6 DEF Receive, callRest
<1>7. ASSUME NEW r \in Requests, Dropped(r) PROVE PendingInv'
  BY <1>7 DEF Dropped, Retry, callRest
<1>8. ASSUME NEW r \in Requests, NextAttempt(r) PROVE PendingInv'
  <2>1. CASE attempt[r] < Attempts
    <3>1. attempt[r] + 1 \in 1..Attempts
      BY <2>1, <1>8 DEF NextAttempt, Looping, Attempts
    <3> QED BY <1>8, <2>1, <3>1, BeginPending DEF NextAttempt
  <2>2. CASE ~(attempt[r] < Attempts)
    <3>1. UNCHANGED <<sentOn, future, pending, reader>> /\ Others(r)
      BY <1>8, <2>2 DEF NextAttempt, Others
    <3> QED BY <1>8, <3>1, MovePending DEF NextAttempt
  <2> QED BY <2>1, <2>2
<1>9. ASSUME NEW r \in Requests, ConnectFails(r) PROVE PendingInv'
  BY <1>9 DEF ConnectFails, Retry, Fault
<1>10. ASSUME NEW r \in Requests, TimesOut(r) PROVE PendingInv'
  BY <1>10 DEF TimesOut, Retry, callRest
<1>11. ASSUME NEW r \in Requests, Cancelled(r) PROVE PendingInv'
  BY <1>11 DEF Cancelled
<1>12. ASSUME NEW c \in Conns, ReadAnswer(c) PROVE PendingInv'
  BY <1>12 DEF ReadAnswer
<1>13. ASSUME NEW c \in Conns, Drop(c) PROVE PendingInv'
  BY <1>13 DEF Drop, FailPending
<1>14. ASSUME NEW c \in Conns, Execute(c) PROVE PendingInv'
  BY <1>14 DEF Execute
<1>15. ASSUME NEW c \in Conns, Break(c) PROVE PendingInv'
  BY <1>15 DEF Break, Fault
<1>16. ASSUME Close PROVE PendingInv'
  BY <1>16 DEF Close
<1>17. ASSUME CloseReturns PROVE PendingInv'
  BY <1>17 DEF CloseReturns, FailPending
<1> QED
  BY <1>1, <1>2, <1>3, <1>4, <1>5, <1>6, <1>7, <1>8, <1>9,
     <1>10, <1>11, <1>12, <1>13, <1>14, <1>15, <1>16, <1>17
  DEF WsNext, CallStep

\* Every step keeps answers to what was executed.
LEMMA WsAnswers ==
  ASSUME WsInv, WsNext
  PROVE  AnswerInv'
<1> USE DEF WsInv, WsTypeOK, AnswerInv, LastAttemptAnswered, Id, Goto,
            connVars, callVars, brokerVars
<1>1. ASSUME NEW r \in Requests, Call(r) PROVE AnswerInv'
  BY <1>1 DEF Call, Begin, Register, CallInv
<1>2. ASSUME NEW r \in Requests, GetLock(r) PROVE AnswerInv'
  BY <1>2 DEF GetLock, Register, CallInv
<1>3. ASSUME NEW r \in Requests, Connected(r) PROVE AnswerInv'
  BY <1>3 DEF Connected, Register
<1>4. ASSUME NEW r \in Requests, Transmit(r) PROVE AnswerInv'
  BY <1>4 DEF Transmit
<1>5. ASSUME NEW r \in Requests, Sent(r) \/ SendRaises(r) PROVE AnswerInv'
  BY <1>5 DEF Sent, SendRaises, callRest
<1>6. ASSUME NEW r \in Requests, Receive(r) PROVE AnswerInv'
  BY <1>6 DEF Receive, callRest
<1>7. ASSUME NEW r \in Requests, Dropped(r) PROVE AnswerInv'
  BY <1>7 DEF Dropped, Retry, callRest
<1>8. ASSUME NEW r \in Requests, NextAttempt(r) PROVE AnswerInv'
  BY <1>8 DEF NextAttempt, Begin, Register, CallInv
<1>9. ASSUME NEW r \in Requests, ConnectFails(r) PROVE AnswerInv'
  BY <1>9 DEF ConnectFails, Retry, Fault
<1>10. ASSUME NEW r \in Requests, TimesOut(r) PROVE AnswerInv'
  BY <1>10 DEF TimesOut, Retry, callRest
<1>11. ASSUME NEW r \in Requests, Cancelled(r) PROVE AnswerInv'
  BY <1>11 DEF Cancelled
<1>12. ASSUME NEW c \in Conns, ReadAnswer(c) PROVE AnswerInv'
  BY <1>12 DEF ReadAnswer, PendingInv, PendingIsWatched, Ids
<1>13. ASSUME NEW c \in Conns, Drop(c) PROVE AnswerInv'
  BY <1>13 DEF Drop, FailPending
<1>14. ASSUME NEW c \in Conns, Execute(c) PROVE AnswerInv'
  BY <1>14 DEF Execute
<1>15. ASSUME NEW c \in Conns, Break(c) PROVE AnswerInv'
  BY <1>15 DEF Break, Fault
<1>16. ASSUME Close PROVE AnswerInv'
  BY <1>16 DEF Close
<1>17. ASSUME CloseReturns PROVE AnswerInv'
  BY <1>17 DEF CloseReturns, FailPending
<1> QED
  BY <1>1, <1>2, <1>3, <1>4, <1>5, <1>6, <1>7, <1>8, <1>9,
     <1>10, <1>11, <1>12, <1>13, <1>14, <1>15, <1>16, <1>17
  DEF WsNext, CallStep

-----------------------------------------------------------------------------
(* The theorems.                                                           *)

\* The initial state satisfies the invariant.
LEMMA WsInitInv == WsInit => WsInv
<1> SUFFICES ASSUME WsInit PROVE WsInv OBVIOUS
<1> USE WsAssumption DEF WsInit, Conns, MaxConns, None
<1>1. WsTypeOK BY DEF WsTypeOK, Points, Ids, Attempts
<1>2. ConnInv BY DEF ConnInv, Watching
<1>3. CountInv BY DEF CountInv
<1>4. CallInv /\ PendingInv /\ AnswerInv
  BY DEF CallInv, Looping, PendingInv, PendingIsWatched, AnswerInv,
         LastAttemptAnswered
<1> QED BY <1>1, <1>2, <1>3, <1>4 DEF WsInv

\* So does every state a step leads to.
LEMMA WsInvInductive == WsInv /\ [WsNext]_wsVars => WsInv'
<1> SUFFICES ASSUME WsInv, [WsNext]_wsVars PROVE WsInv' OBVIOUS
<1>1. CASE WsNext
  BY <1>1, WsTypes, WsConns, WsCount, WsCalls, WsPending, WsAnswers DEF WsInv
<1>2. CASE UNCHANGED wsVars
  <2> USE <1>2 DEF WsInv, wsVars, connVars, callVars, brokerVars
  <2>1. WsTypeOK' BY DEF WsTypeOK
  <2>2. ConnInv' BY DEF ConnInv
  <2>3. CountInv' BY DEF CountInv
  <2>4. CallInv' BY DEF CallInv
  <2>5. PendingInv' BY DEF PendingInv, PendingIsWatched, Id
  <2>6. AnswerInv' BY DEF AnswerInv, LastAttemptAnswered, Id
  <2> QED BY <2>1, <2>2, <2>3, <2>4, <2>5, <2>6
<1> QED BY <1>1, <1>2

\* The invariant holds in every state.
LEMMA WsInvariant == WsSpec => []WsInv
BY WsInitInv, WsInvInductive, PTL DEF WsSpec

\* The state of WebSocketBackend is well typed: in particular an id is that
\* of one of three attempts, and connections are opened only after a fault or
\* a close().
THEOREM WsTypeCorrect == WsSpec => []WsTypeOK
<1>1. WsInv => WsTypeOK BY DEF WsInv
<1> QED BY <1>1, WsInvariant, PTL

\* A call of _request returns the answer to its own last attempt, whatever
\* breaks, times out, is cancelled or closed.
THEOREM AnswersReachTheirAttempt == WsSpec => []LastAttemptAnswered
<1>1. WsInv => LastAttemptAnswered BY DEF WsInv, AnswerInv
<1> QED BY <1>1, WsInvariant, PTL

\* Every entry of _pending has a reader that resolves it or fails it.
THEOREM PendingAlwaysWatched == WsSpec => []PendingIsWatched
<1>1. WsInv => PendingIsWatched BY DEF WsInv, PendingInv
<1> QED BY <1>1, WsInvariant, PTL

\* The second look at _ws under the lock is enough for one connection.
THEOREM OneConnectionAtATime == WsSpec => []OneConnection
<1>1. WsInv => OneConnection
  <2> SUFFICES ASSUME WsInv PROVE OneConnection OBVIOUS
  <2> DEFINE Read == {c \in Conns : reader[c] = "reading"}
             Made == {r \in Requests : pc[r] = "connect"}
  <2> USE DEF WsInv, ConnInv
  <2>1. CASE lock = None
    <3>1. Made = {} BY <2>1, WsAssumption
    <3>2. Read = {} \/ Read = {ws} OBVIOUS
    <3>3. Cardinality(Made) = 0 BY <3>1, FS_EmptySet
    <3>4. Cardinality(Read) \in {0, 1} BY <3>2, FS_EmptySet, FS_Singleton
    <3> QED BY <3>3, <3>4 DEF OneConnection
  <2>2. CASE lock # None
    <3>1. Read = {} BY <2>2 DEF Conns, None
    <3>2. Made = {} \/ Made = {lock} OBVIOUS
    <3>3. Cardinality(Read) = 0 BY <3>1, FS_EmptySet
    <3>4. Cardinality(Made) \in {0, 1} BY <3>2, FS_EmptySet, FS_Singleton
    <3> QED BY <3>3, <3>4 DEF OneConnection
  <2> QED BY <2>1, <2>2
<1> QED BY <1>1, WsInvariant, PTL

\* _drop_connection fails no request of another connection, although it does
\* not ask which one a request was sent on.
THEOREM DropsFailTheirOwn == WsSpec => DropFailsOwn
<1> DEFINE Own == \A r \in Requests :
             future[r] = "pending" /\ future'[r] = "failed" =>
               closing' = "closed" \/ reader'[sentOn[r]] = "ended"
<1>1. WsInv /\ [WsNext]_wsVars => [Own]_wsVars
  <2> SUFFICES ASSUME WsInv, WsNext, NEW r \in Requests,
                      future[r] = "pending", future'[r] = "failed"
               PROVE  closing' = "closed" \/ reader'[sentOn[r]] = "ended"
    OBVIOUS
  <2> USE DEF WsInv, WsTypeOK
  <2>1. (\E c \in Conns : Drop(c)) \/ CloseReturns
    <3> USE DEF connVars, callVars, callRest, Register
    <3>1. ASSUME NEW q \in Requests,
                 \/ Call(q) \/ GetLock(q) \/ Connected(q) \/ NextAttempt(q)
                 \/ ConnectFails(q)
          PROVE  FALSE
      BY <3>1 DEF Call, GetLock, Connected, NextAttempt, ConnectFails, Begin
    <3>2. ASSUME NEW q \in Requests,
                 \/ Transmit(q) \/ Sent(q) \/ SendRaises(q) \/ Receive(q) \/ Dropped(q)
                 \/ TimesOut(q) \/ Cancelled(q)
          PROVE  FALSE
      BY <3>2 DEF Transmit, Sent, SendRaises, Receive, Dropped, TimesOut, Cancelled
    <3>3. ASSUME NEW c \in Conns, ReadAnswer(c) \/ Execute(c) \/ Break(c)
          PROVE  FALSE
      BY <3>3 DEF ReadAnswer, Execute, Break
    <3>4. ~Close BY DEF Close
    <3> QED BY <3>1, <3>2, <3>3, <3>4 DEF WsNext, CallStep
  <2>2. ASSUME NEW c \in Conns, Drop(c) PROVE reader'[sentOn[r]] = "ended"
    <3>1. Id(r) \in pending BY <2>2 DEF Drop, FailPending
    <3>2. sentOn[r] \in Conns /\ reader[sentOn[r]] \in Watching
      BY <3>1 DEF PendingInv, PendingIsWatched, Watching, Id
    <3>3. sentOn[r] = c BY <2>2, <3>2 DEF Drop, ConnInv, Watching
    <3> QED BY <2>2, <3>3 DEF Drop
  <2> QED BY <2>1, <2>2 DEF CloseReturns
<1> QED BY <1>1, WsInvariant, PTL DEF WsSpec, DropFailsOwn

-----------------------------------------------------------------------------
(* The refinement of RequestPromise.                                       *)

\* What is on its way to the broker was sent by a call that was made.
UpInv == \A c \in Conns : \A id \in up[c] : pc[id[1]] # "idle"

\* Of a step that executes nothing: the call r went on in a way that the
\* promise allows, and no other call did.
LEMMA CallMaps ==
  ASSUME NEW r \in Requests, executed' = executed,
         \A q \in Requests \ {r} : pc'[q] = pc[q],
         \/ Status(r)' = Status(r)
         \/ Status(r) = "new" /\ Status(r)' = "asked"
         \/ Status(r) \in {"new", "asked"} /\ Status(r)' = "failed"
         \/ Status(r) = "asked" /\ Status(r)' = "returned" /\ Ran(r) # {}
  PROVE  [Promise!PromiseNext]_(Promise!promiseVars)
<1>1. \A q \in Requests : Ran(q)' = Ran(q)
  BY DEF Ran
<1>2. \A q \in Requests \ {r} : Status(q)' = Status(q)
  BY DEF Status
<1>3. CASE Status(r)' = Status(r)
  BY <1>1, <1>2, <1>3 DEF Promise!promiseVars
<1>4. CASE Status(r) = "new" /\ Status(r)' = "asked"
  <2>1. \A q \in Requests : (Status(q) = "returned") <=> (Status(q)' = "returned")
    BY <1>2, <1>4
  <2>2. Promise!Ask(r)
    BY <1>1, <1>2, <1>4, <2>1 DEF Promise!Ask
  <2> QED BY <2>2 DEF Promise!PromiseNext
<1>5. CASE Status(r) \in {"new", "asked"} /\ Status(r)' = "failed"
  <2>1. Promise!Fail(r)
    BY <1>1, <1>2, <1>5 DEF Promise!Fail
  <2> QED BY <2>1 DEF Promise!PromiseNext
<1>6. CASE Status(r) = "asked" /\ Status(r)' = "returned" /\ Ran(r) # {}
  <2>1. Promise!Return(r)
    BY <1>1, <1>2, <1>6 DEF Promise!Return
  <2> QED BY <2>1 DEF Promise!PromiseNext
<1> QED BY <1>3, <1>4, <1>5, <1>6

\* No step leads back to where a call was not made, and what is sent is sent
\* by a call that was.
LEMMA WsUp ==
  ASSUME WsInv, UpInv, WsNext
  PROVE  UpInv'
<1> USE DEF WsInv, WsTypeOK, UpInv, Id, Ids, Goto, connVars, callVars, brokerVars, callRest
<1>1. ASSUME NEW r \in Requests,
             \/ Call(r) \/ GetLock(r) \/ Connected(r) \/ Sent(r) \/ SendRaises(r) \/ Receive(r) \/ Dropped(r)
             \/ NextAttempt(r) \/ ConnectFails(r) \/ TimesOut(r) \/ Cancelled(r)
      PROVE  UpInv'
  <2>1. up' = up
    BY <1>1 DEF Call, GetLock, Connected, Sent, SendRaises, Receive, Dropped, NextAttempt, ConnectFails,
                TimesOut, Cancelled
  <2>2. \A q \in Requests : pc'[q] = "idle" => pc[q] = "idle"
    BY <1>1 DEF Call, GetLock, Connected, Sent, SendRaises, Receive, Dropped, NextAttempt, ConnectFails,
                TimesOut, Cancelled, Begin, Register, Retry
  <2>3. \A c \in Conns : \A id \in up[c] : id[1] \in Requests
    OBVIOUS
  <2> QED BY <2>1, <2>2, <2>3
<1>2. ASSUME NEW r \in Requests, Transmit(r) PROVE UpInv'
  BY <1>2 DEF Transmit
<1>3. ASSUME NEW c \in Conns, ReadAnswer(c) \/ Drop(c) \/ Execute(c) \/ Break(c) PROVE UpInv'
  BY <1>3 DEF ReadAnswer, Drop, FailPending, Execute, Break
<1>4. ASSUME Close \/ CloseReturns PROVE UpInv'
  BY <1>4 DEF Close, CloseReturns, FailPending
<1> QED BY <1>1, <1>2, <1>3, <1>4 DEF WsNext, CallStep

\* Every step is one of the promise or leaves it alone.
LEMMA WsMaps ==
  ASSUME WsInv, UpInv, [WsNext]_wsVars
  PROVE  [Promise!PromiseNext]_(Promise!promiseVars)
<1> USE DEF WsInv, WsTypeOK, Id, Goto, connVars, callVars, brokerVars, callRest
<1>1. ASSUME NEW r \in Requests,
             \/ Call(r) \/ GetLock(r) \/ Connected(r) \/ Transmit(r) \/ Sent(r) \/ SendRaises(r) \/ Dropped(r)
             \/ NextAttempt(r) \/ ConnectFails(r) \/ TimesOut(r) \/ Cancelled(r)
      PROVE  [Promise!PromiseNext]_(Promise!promiseVars)
  <2>1. executed' = executed
    BY <1>1 DEF Call, GetLock, Connected, Transmit, Sent, SendRaises, Dropped, NextAttempt, ConnectFails,
                TimesOut, Cancelled
  <2>2. /\ \A q \in Requests \ {r} : pc'[q] = pc[q]
        /\ pc[r] \notin Ended /\ pc'[r] \notin {"idle", "returned"}
        /\ pc[r] = "idle" => Call(r)
    BY <1>1 DEF Call, GetLock, Connected, Transmit, Sent, SendRaises, Dropped, NextAttempt, ConnectFails,
                TimesOut, Cancelled, Begin, Register, Retry, Ended, Points
  <2>3. Status(r) \in {"new", "asked"} /\ Status(r)' \in {"asked", "failed"}
    BY <2>2 DEF Status, Ended
  <2> QED BY <2>1, <2>2, <2>3, CallMaps
<1>2. ASSUME NEW r \in Requests, Receive(r)
      PROVE  [Promise!PromiseNext]_(Promise!promiseVars)
  <2>1. executed' = executed /\ \A q \in Requests \ {r} : pc'[q] = pc[q]
    BY <1>2 DEF Receive
  <2>2. Status(r) = "asked" /\ Status(r)' = "returned"
    BY <1>2 DEF Receive, Status, Ended
  <2>3. Ran(r) # {}
    <3>1. <<r, attempt[r]>> \in executed
      BY <1>2 DEF Receive, AnswerInv
    <3>2. <<r, attempt[r]>> \in {x \in executed : x[1] = r}
      BY <3>1
    <3> QED BY <3>2 DEF Ran
  <2> QED BY <2>1, <2>2, <2>3, CallMaps
<1>3. ASSUME NEW c \in Conns, Execute(c)
      PROVE  [Promise!PromiseNext]_(Promise!promiseVars)
  <2>1. PICK id \in up[c] : executed' = executed \cup {id} /\ pc' = pc
    BY <1>3 DEF Execute
  <2>2. PICK r \in Requests, n \in 1..3 : id = <<r, n>>
    BY <2>1 DEF Ids, Attempts
  <2>3. pc[r] # "idle"
    BY <2>1, <2>2 DEF UpInv
  <2>4. \A q \in Requests : Ran(q)' = IF q = r THEN Ran(q) \cup {n} ELSE Ran(q)
    <3> SUFFICES ASSUME NEW q \in Requests PROVE Ran(q)' = IF q = r THEN Ran(q) \cup {n} ELSE Ran(q)
      OBVIOUS
    <3> DEFINE before == {y \in executed : y[1] = q}
               after == {y \in executed' : y[1] = q}
    <3>1. after = IF q = r THEN before \cup {<<r, n>>} ELSE before
      BY <2>1, <2>2
    <3>2. Ran(q) = {y[2] : y \in before} /\ Ran(q)' = {y[2] : y \in after}
      BY DEF Ran
    <3> DEFINE new == <<r, n>>
    <3>3. new[2] = n
      OBVIOUS
    <3> HIDE DEF before, after, new
    <3>4. {y[2] : y \in before \cup {new}} = {y[2] : y \in before} \cup {n}
      BY <3>3
    <3>5. after = IF q = r THEN before \cup {new} ELSE before
      BY <3>1 DEF new
    <3> QED BY <3>2, <3>4, <3>5
  <2>5. Promise!Run(r)
    <3>1. Status(r) # "new" /\ \A q \in Requests : Status(q)' = Status(q)
      BY <2>1, <2>3 DEF Status
    <3> QED BY <2>4, <3>1 DEF Promise!Run
  <2> QED BY <2>5 DEF Promise!PromiseNext
<1>4. ASSUME \/ \E c \in Conns : ReadAnswer(c) \/ Drop(c) \/ Break(c)
             \/ Close \/ CloseReturns \/ UNCHANGED wsVars
      PROVE  UNCHANGED Promise!promiseVars
  <2>1. executed' = executed /\ pc' = pc
    BY <1>4 DEF ReadAnswer, Drop, Break, Close, CloseReturns, wsVars
  <2>2. \A q \in Requests : Ran(q)' = Ran(q) /\ Status(q)' = Status(q)
    BY <2>1 DEF Ran, Status
  <2> QED BY <2>2 DEF Promise!promiseVars
<1> QED BY <1>1, <1>2, <1>3, <1>4 DEF WsNext, CallStep

\* WebSocketBackend keeps the promise of RequestPromise with three sendings: a
\* call ends once, returns only what the broker executed for it, and may be
\* executed as often as it is sent, also after it has failed.
THEOREM WsImplementsPromise == WsSpec => CallsKept
<1>1. WsInit => UpInv /\ Promise!PromiseInit
  <2> SUFFICES ASSUME WsInit PROVE UpInv /\ Promise!PromiseInit
    OBVIOUS
  <2>1. \A r \in Requests : Ran(r) = {} /\ Status(r) = "new"
    BY DEF WsInit, Ran, Status
  <2> QED BY <2>1 DEF WsInit, UpInv, Promise!PromiseInit
<1>2. WsInv /\ UpInv /\ [WsNext]_wsVars => UpInv'
  BY WsUp DEF wsVars, callVars, brokerVars, UpInv
<1>3. WsInv /\ UpInv /\ [WsNext]_wsVars => [Promise!PromiseNext]_(Promise!promiseVars)
  BY WsMaps
<1> QED BY <1>1, <1>2, <1>3, WsInvariant, PTL DEF WsSpec, CallsKept, Promise!PromiseSpec

=============================================================================
