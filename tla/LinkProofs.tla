----------------------------- MODULE LinkProofs -----------------------------
(***************************************************************************)
(* Proofs about SerialLink: with a connection that is given up whenever a  *)
(* request does not end well, or with requests that are never cancelled,   *)
(* every request reads its own answer.                                     *)
(***************************************************************************)
EXTENDS SerialLink, FiniteSetTheorems, TLAPS

\* The lock is held by the one request that is inside, which has a connection
\* or is making one; connections that were never made are fresh.
LockInv ==
  /\ \A r \in Callers : pc[r] \in Inside <=> lock = r
  /\ \A r \in Callers : pc[r] = "connect" => conn = None
  /\ \A r \in Callers : pc[r] \in {"send", "header", "body"} => conn # None
  /\ conn <= opened
  /\ \A c \in Conns : c > opened =>
       up[c] = <<>> /\ serving[c] = None /\ down[c] = <<>> /\ c \notin broken

Gone == {r \in Doomed : pc[r] = "cancelled"}

\* Why connections do not run out: a connection is followed by another one only
\* after a fault or a cancelled request.
CountInv ==
  opened <= faults + Cardinality(Gone)
            + (IF conn # None /\ conn \notin broken THEN 1 ELSE 0)

\* The connection carries the request of r, is served it, or carries its
\* answer: one of these.
Carries(c, r) ==
  \/ up[c] = <<r>> /\ serving[c] = None /\ down[c] = <<>>
  \/ up[c] = <<>> /\ serving[c] = r /\ down[c] = <<>>
  \/ up[c] = <<>> /\ serving[c] = None /\ down[c] = <<r>>

TrafficInv ==
  /\ ~torn
  /\ \A c \in Conns : up[c] = <<>> \/ \E q \in Callers : up[c] = <<q>>
  /\ \A c \in broken : down[c] = <<>>
  /\ QuietBetweenRequests
  /\ \A r \in Callers :
       pc[r] \in {"send", "header", "body"} /\ conn \notin broken =>
         Carries(conn, r)
  /\ OwnAnswer

\* The connections that carry the request of r to a peer that has not read it,
\* and how often it has been written, or could have been.
Unread(r) == {c \in Conns : up[c] = <<r>>}

Written(r) ==
  (IF r \in resent THEN 1 ELSE 0) + (IF pc[r] \in {"idle", "lock", "connect"} THEN 0 ELSE 1)

\* Executed and still to be executed, a request is there as often as it was
\* written; only what may be sent again is.
SendingInv ==
  /\ \A r \in resent : Sandbox /\ r \notin Streams /\ pc[r] \notin {"idle", "lock"}
  /\ \A r \in Callers : runs[r] + Cardinality(Unread(r)) <= Written(r)

\* What is answered was executed.
ServedInv ==
  \A c \in Conns :
    /\ serving[c] # None => runs[serving[c]] > 0
    /\ \A i \in DOMAIN down[c] : runs[down[c][i]] > 0

\* The sandbox's way with a request that is cancelled, or none that is.
Clean == Sandbox \/ Doomed = {}

LinkInv == LinkTypeOK /\ LockInv /\ CountInv

SafeInv == LinkInv /\ TrafficInv /\ SendingInv /\ ServedInv

-----------------------------------------------------------------------------
(* Helpers.                                                                *)

\* The queues the proofs meet hold one element.
LEMMA OneElement ==
  ASSUME NEW q
  PROVE  /\ Append(<<>>, q) = <<q>> /\ Head(<<q>>) = q /\ Tail(<<q>>) = <<>>
         /\ <<q>> # <<>> /\ \A p : <<p>> = <<q>> => p = q
OBVIOUS

\* The cancelled requests are counted by a natural number.
LEMMA GoneFinite ==
  /\ IsFiniteSet(Gone) /\ Cardinality(Gone) \in Nat
  /\ IsFiniteSet(Doomed) /\ Cardinality(Doomed) \in Nat
  /\ Cardinality(Gone) <= Cardinality(Doomed)
<1>1. IsFiniteSet(Doomed) BY LinkAssumption, FS_Subset
<1>2. Gone \subseteq Doomed BY DEF Gone
<1> QED BY <1>1, <1>2, FS_Subset, FS_CardinalityType

\* The numbers of connections are positive.
LEMMA ConnsPositive ==
  /\ None \notin Conns /\ MaxFaults \in Nat
  /\ \A c \in Conns : c \in Nat
BY LinkAssumption DEF Conns, None

\* When a connection is about to be made there is a number left for it.
LEMMA RoomForConnection ==
  ASSUME LinkInv, NEW r \in Callers, pc[r] = "connect"
  PROVE  /\ opened + 1 \in Conns /\ conn = None
         /\ up[opened + 1] = <<>> /\ serving[opened + 1] = None
         /\ down[opened + 1] = <<>> /\ opened + 1 \notin broken
<1>1. conn = None BY DEF LinkInv, LockInv
<1>2. opened \in Nat /\ faults \in 0..MaxFaults /\ MaxFaults \in Nat
  BY LinkAssumption DEF LinkInv, LinkTypeOK, Conns, None
<1>3. opened + 1 \in Conns
  BY <1>1, <1>2, GoneFinite DEF LinkInv, CountInv, Conns
<1> QED BY <1>1, <1>2, <1>3 DEF LinkInv, LockInv, Conns

\* A connection is made, and it is a new one.
Opens ==
  /\ opened' = opened + 1 /\ opened' \in Conns /\ opened \in Nat /\ conn = None
  /\ up[opened'] = <<>> /\ serving[opened'] = None /\ down[opened'] = <<>>
  /\ opened' \notin broken

\* A handshake opens one connection, which carries nothing.
LEMMA ConnectedOutcome ==
  ASSUME LinkInv, NEW r \in Callers, Connected(r) PROVE Opens
BY RoomForConnection, LinkAssumption, ConnsPositive
DEF Connected, LinkInv, LinkTypeOK, None, Opens

\* What a request does when it gets the lock.
LEMMA GetLockOutcome ==
  ASSUME LinkInv, NEW r \in Callers, GetLock(r)
  PROVE  /\ lock = None /\ lock' = r /\ pc[r] = "lock"
         /\ UNCHANGED <<serving, down, broken, conn, opened, torn, resent, got, runs,
                        faults>>
         /\ \/ /\ conn = None /\ up' = up
               /\ pc' = [pc EXCEPT ![r] = "connect"]
            \/ /\ conn \in Conns /\ conn \in broken /\ up' = up
               /\ pc' = [pc EXCEPT ![r] = "send"]
            \/ /\ conn \in Conns \ broken
               /\ up' = [up EXCEPT ![conn] = Append(@, r)]
               /\ pc' = [pc EXCEPT ![r] = "send"]
<1> USE DEF GetLock, Goto
<1>1. CASE conn = None BY <1>1
<1>2. CASE conn # None BY <1>2 DEF Write, LinkInv, LinkTypeOK
<1> QED BY <1>1, <1>2

\* What a failure leads to.
LEMMA FailsOutcome ==
  ASSUME LinkInv, NEW r \in Callers, Fails(r)
  PROVE  /\ lock = r /\ conn \in Conns /\ conn \in broken
         /\ conn' = None /\ torn' = FALSE /\ pc[r] \in Inside \ {"connect"}
         /\ UNCHANGED <<peerVars, opened, got, runs, faults>>
         /\ \/ /\ lock' = lock /\ SendsAgain(r) /\ resent' = resent \cup {r}
               /\ pc' = [pc EXCEPT ![r] = "connect"]
            \/ /\ lock' = None /\ resent' = resent
               /\ pc' = [pc EXCEPT ![r] = "raised"]
<1> USE DEF Fails, Goto
<1>1. /\ lock = r /\ conn \in Conns /\ pc[r] \in Inside \ {"connect"}
  BY DEF LinkInv, LockInv, LinkTypeOK, Inside
<1>2. CASE SendsAgain(r) BY <1>1, <1>2 DEF SendsAgain
<1>3. CASE ~SendsAgain(r) BY <1>1, <1>3
<1> QED BY <1>2, <1>3

-----------------------------------------------------------------------------
(* Each part of the invariant is kept by every step.                       *)

\* Every step keeps the types.
LEMMA LinkTypes ==
  ASSUME LinkInv, LinkNext
  PROVE  LinkTypeOK'
<1> USE DEF Opens, LinkInv, LinkTypeOK, Inside, Ended, None, Goto, peerVars, hostVars
<1>1. ASSUME NEW r \in Callers, Call(r) PROVE LinkTypeOK'
  BY <1>1 DEF Call
<1>2. ASSUME NEW r \in Callers, GetLock(r) PROVE LinkTypeOK'
  <2>1. CASE conn = None BY <1>2, <2>1 DEF GetLock
  <2>2. CASE conn # None
    <3>1. conn \in Conns /\ Append(up[conn], r) \in Seq(Callers) BY <2>2
    <3>2. up' \in [Conns -> Seq(Callers)] BY <1>2, <2>2, <3>1 DEF GetLock, Write
    <3> QED BY <1>2, <2>2, <3>2 DEF GetLock, Write
  <2> QED BY <2>1, <2>2
<1>3. ASSUME NEW r \in Callers, Connected(r) PROVE LinkTypeOK'
  <2>1. Opens BY <1>3, ConnectedOutcome
  <2> QED BY <1>3, <2>1 DEF Connected, Write
<1>4. ASSUME NEW r \in Callers, Drained(r) PROVE LinkTypeOK'
  BY <1>4 DEF Drained
<1>5. ASSUME NEW r \in Callers, ReadHeader(r) PROVE LinkTypeOK'
  BY <1>5 DEF ReadHeader
<1>6. ASSUME NEW r \in Callers, ReadBody(r) PROVE LinkTypeOK'
  <2>1. conn \in Conns BY <1>6 DEF ReadBody, LockInv
  <2>2. Head(down[conn]) \in Callers /\ Tail(down[conn]) \in Seq(Callers)
    BY <1>6, <2>1 DEF ReadBody
  <2> QED BY <1>6, <2>1, <2>2 DEF ReadBody
<1>7. ASSUME NEW r \in Callers, Fails(r) PROVE LinkTypeOK'
  BY <1>7 DEF Fails, SendsAgain
<1>8. ASSUME NEW r \in Callers, ConnectFails(r) PROVE LinkTypeOK'
  <2>1. faults' \in 0..MaxFaults BY <1>8, LinkAssumption DEF ConnectFails, Fault
  <2> QED BY <1>8, <2>1 DEF ConnectFails
<1>9. ASSUME NEW r \in Callers, Cancelled(r) PROVE LinkTypeOK'
  BY <1>9 DEF Cancelled
<1>10. ASSUME NEW c \in Conns, ServeBegins(c) PROVE LinkTypeOK'
  BY <1>10 DEF ServeBegins
<1>11. ASSUME NEW c \in Conns, ServeEnds(c) PROVE LinkTypeOK'
  BY <1>11 DEF ServeEnds
<1>12. ASSUME NEW c \in Conns, Break(c) PROVE LinkTypeOK'
  <2>1. faults' \in 0..MaxFaults BY <1>12, LinkAssumption DEF Break, Fault
  <2> QED BY <1>12, <2>1 DEF Break
<1>13. ASSUME NEW r \in Callers, YieldFails(r) PROVE LinkTypeOK'
  <2>1. faults' \in 0..MaxFaults BY <1>13, LinkAssumption DEF YieldFails, Fault
  <2> QED BY <1>13, <2>1 DEF YieldFails
<1> QED
  BY <1>1, <1>2, <1>3, <1>4, <1>5, <1>6, <1>7, <1>8, <1>9, <1>10, <1>11, <1>12,
     <1>13
  DEF LinkNext, RequestStep

\* Every step keeps the lock's discipline.
LEMMA LinkLocks ==
  ASSUME LinkInv, LinkNext
  PROVE  LockInv'
<1> USE DEF Opens, LinkInv, LinkTypeOK, LockInv, Inside, Ended, None, Goto,
            peerVars, hostVars
<1>1. ASSUME NEW r \in Callers, Call(r) PROVE LockInv'
  BY <1>1, LinkAssumption, ConnsPositive DEF Call
<1>2. ASSUME NEW r \in Callers, GetLock(r) PROVE LockInv'
  BY <1>2, LinkAssumption, ConnsPositive DEF GetLock, Write
<1>3. ASSUME NEW r \in Callers, Connected(r) PROVE LockInv'
  <2>1. Opens BY <1>3, ConnectedOutcome
  <2> QED BY <1>3, <2>1, ConnsPositive DEF Connected, Write
<1>4. ASSUME NEW r \in Callers, Drained(r) PROVE LockInv'
  BY <1>4, LinkAssumption, ConnsPositive DEF Drained
<1>5. ASSUME NEW r \in Callers, ReadHeader(r) PROVE LockInv'
  BY <1>5, LinkAssumption, ConnsPositive DEF ReadHeader
<1>6. ASSUME NEW r \in Callers, ReadBody(r) PROVE LockInv'
  BY <1>6, LinkAssumption, ConnsPositive DEF ReadBody
<1>7. ASSUME NEW r \in Callers, Fails(r) PROVE LockInv'
  <2>1. /\ lock = r /\ r # None /\ pc[r] \in Inside \ {"connect"} /\ conn' = None
        /\ UNCHANGED <<up, serving, down, broken, opened>>
    BY <1>7, FailsOutcome, LinkAssumption
  <2>2. CASE lock' = lock /\ pc' = [pc EXCEPT ![r] = "connect"]
    BY <2>1, <2>2, ConnsPositive
  <2>3. CASE lock' = None /\ pc' = [pc EXCEPT ![r] = "raised"]
    BY <2>1, <2>3, ConnsPositive, LinkAssumption
  <2> QED BY <1>7, <2>2, <2>3, FailsOutcome
<1>8. ASSUME NEW r \in Callers, ConnectFails(r) PROVE LockInv'
  BY <1>8, LinkAssumption, ConnsPositive DEF ConnectFails, Fault
<1>9. ASSUME NEW r \in Callers, Cancelled(r) PROVE LockInv'
  BY <1>9, LinkAssumption, ConnsPositive DEF Cancelled
<1>10. ASSUME NEW c \in Conns, ServeBegins(c) PROVE LockInv'
  BY <1>10, LinkAssumption, ConnsPositive DEF ServeBegins
<1>11. ASSUME NEW c \in Conns, ServeEnds(c) PROVE LockInv'
  BY <1>11, LinkAssumption, ConnsPositive DEF ServeEnds
<1>12. ASSUME NEW c \in Conns, Break(c) PROVE LockInv'
  BY <1>12, LinkAssumption, ConnsPositive DEF Break, Fault
<1>13. ASSUME NEW r \in Callers, YieldFails(r) PROVE LockInv'
  BY <1>13, LinkAssumption, ConnsPositive DEF YieldFails, Fault
<1> QED
  BY <1>1, <1>2, <1>3, <1>4, <1>5, <1>6, <1>7, <1>8, <1>9, <1>10, <1>11, <1>12,
     <1>13
  DEF LinkNext, RequestStep

\* Every step keeps the count of the connections.
LEMMA LinkCount ==
  ASSUME LinkInv, LinkNext
  PROVE  CountInv'
<1> USE DEF Opens, LinkInv, LinkTypeOK, LockInv, CountInv, Inside, None, Goto,
            peerVars, hostVars
<1>1. ASSUME NEW r \in Callers, Call(r) PROVE CountInv'
  <2>1. Gone' = Gone BY <1>1 DEF Call, Gone
  <2> QED BY <1>1, <2>1, GoneFinite, ConnsPositive DEF Call
<1>2. ASSUME NEW r \in Callers, GetLock(r) PROVE CountInv'
  <2>1. \A q \in Callers : pc'[q] = "cancelled" <=> pc[q] = "cancelled"
    BY <1>2 DEF GetLock, Write
  <2>2. Gone' = Gone BY <2>1, LinkAssumption DEF Gone
  <2> QED BY <1>2, <2>2, GetLockOutcome, GoneFinite, ConnsPositive
<1>3. ASSUME NEW r \in Callers, Connected(r) PROVE CountInv'
  <2>1. Opens BY <1>3, ConnectedOutcome
  <2>2. Gone' = Gone BY <1>3 DEF Connected, Write, Gone
  <2> QED BY <1>3, <2>1, <2>2, GoneFinite, ConnsPositive DEF Connected, Write
<1>4. ASSUME NEW r \in Callers, Drained(r) PROVE CountInv'
  <2>1. Gone' = Gone BY <1>4 DEF Drained, Gone
  <2> QED BY <1>4, <2>1, GoneFinite, ConnsPositive DEF Drained
<1>5. ASSUME NEW r \in Callers, ReadHeader(r) PROVE CountInv'
  <2>1. Gone' = Gone BY <1>5 DEF ReadHeader, Gone
  <2> QED BY <1>5, <2>1, GoneFinite, ConnsPositive DEF ReadHeader
<1>6. ASSUME NEW r \in Callers, ReadBody(r) PROVE CountInv'
  <2>1. Gone' = Gone BY <1>6 DEF ReadBody, Gone
  <2> QED BY <1>6, <2>1, GoneFinite, ConnsPositive DEF ReadBody
<1>7. ASSUME NEW r \in Callers, Fails(r) PROVE CountInv'
  <2>1. \A q \in Callers : pc'[q] = "cancelled" <=> pc[q] = "cancelled"
    BY <1>7 DEF Fails
  <2>2. Gone' = Gone BY <2>1, LinkAssumption DEF Gone
  <2> QED BY <1>7, <2>2, FailsOutcome, GoneFinite, ConnsPositive
<1>8. ASSUME NEW r \in Callers, ConnectFails(r) PROVE CountInv'
  <2>1. Gone' = Gone BY <1>8 DEF ConnectFails, Fault, Gone
  <2> QED BY <1>8, <2>1, GoneFinite, ConnsPositive DEF ConnectFails, Fault
<1>9. ASSUME NEW r \in Callers, Cancelled(r) PROVE CountInv'
  <2>1. Gone' = Gone \cup {r} /\ r \notin Gone
    BY <1>9, LinkAssumption DEF Cancelled, Gone
  <2>2. Cardinality(Gone') = Cardinality(Gone) + 1
    BY <2>1, GoneFinite, FS_AddElement
  <2> QED BY <1>9, <2>2, GoneFinite, ConnsPositive DEF Cancelled
<1>10. ASSUME NEW c \in Conns, ServeBegins(c) PROVE CountInv'
  <2>1. Gone' = Gone BY <1>10 DEF ServeBegins, Gone
  <2> QED BY <1>10, <2>1, GoneFinite, ConnsPositive DEF ServeBegins
<1>11. ASSUME NEW c \in Conns, ServeEnds(c) PROVE CountInv'
  <2>1. Gone' = Gone BY <1>11 DEF ServeEnds, Gone
  <2> QED BY <1>11, <2>1, GoneFinite, ConnsPositive DEF ServeEnds
<1>12. ASSUME NEW c \in Conns, Break(c) PROVE CountInv'
  <2>1. Gone' = Gone BY <1>12 DEF Break, Fault, Gone
  <2> QED BY <1>12, <2>1, GoneFinite, ConnsPositive DEF Break, Fault
<1>13. ASSUME NEW r \in Callers, YieldFails(r) PROVE CountInv'
  <2>1. Gone' = Gone BY <1>13 DEF YieldFails, Fault, Gone
  <2> QED BY <1>13, <2>1, GoneFinite, ConnsPositive DEF YieldFails, Fault
<1> QED
  BY <1>1, <1>2, <1>3, <1>4, <1>5, <1>6, <1>7, <1>8, <1>9, <1>10, <1>11, <1>12,
     <1>13
  DEF LinkNext, RequestStep

\* Every step keeps what the connection carries.
LEMMA LinkTraffic ==
  ASSUME Clean, LinkInv, TrafficInv, LinkNext
  PROVE  TrafficInv'
<1> USE DEF Opens, Clean, LinkInv, LinkTypeOK, LockInv, TrafficInv,
            QuietBetweenRequests, Carries, OwnAnswer, Inside, None, Goto, peerVars, hostVars
<1>1. ASSUME NEW r \in Callers, Call(r) PROVE TrafficInv'
  BY <1>1, LinkAssumption, ConnsPositive, OneElement DEF Call
<1>2. ASSUME NEW r \in Callers, GetLock(r) PROVE TrafficInv'
  <2>1. CASE conn = None
    <3>1. /\ pc' = [pc EXCEPT ![r] = "connect"] /\ lock = None /\ lock' = r
          /\ UNCHANGED <<up, serving, down, broken, conn, torn, got>>
      BY <1>2, <2>1, GetLockOutcome, ConnsPositive
    <3>2. QuietBetweenRequests' /\ OwnAnswer' BY <2>1, <3>1
    <3> QED BY <2>1, <3>1, <3>2, LinkAssumption
  <2>2. CASE conn \in Conns /\ conn \in broken
    <3>1. /\ pc' = [pc EXCEPT ![r] = "send"] /\ lock = None /\ lock' = r
          /\ UNCHANGED <<up, serving, down, broken, conn, torn, got>>
      BY <1>2, <2>2, GetLockOutcome, ConnsPositive
    <3>2. QuietBetweenRequests' /\ OwnAnswer' BY <2>2, <3>1
    <3> QED BY <2>2, <3>1, <3>2
  <2>3. CASE conn \in Conns \ broken
    <3>1. up[conn] = <<>> /\ serving[conn] = None /\ down[conn] = <<>>
      BY <1>2, <2>3, GetLockOutcome, ConnsPositive
    <3>2. up' = [up EXCEPT ![conn] = <<r>>] /\ lock' = r /\ r # None
      BY <1>2, <2>3, <3>1, GetLockOutcome, OneElement, LinkAssumption,
         ConnsPositive
    <3>3. /\ pc' = [pc EXCEPT ![r] = "send"] /\ lock = None
          /\ UNCHANGED <<serving, down, broken, conn, torn, got>>
      BY <1>2, <2>3, GetLockOutcome, ConnsPositive
    <3>4. Carries(conn, r)' BY <2>3, <3>1, <3>2, <3>3
    <3>5. \A q \in Callers : pc'[q] \in {"send", "header", "body"} => q = r
      BY <3>3, LinkAssumption
    <3>6. \A c \in Conns : up'[c] = <<>> \/ \E q \in Callers : up'[c] = <<q>>
      BY <2>3, <3>2
    <3>7. OwnAnswer' BY <3>3
    <3> QED BY <3>2, <3>3, <3>4, <3>5, <3>6, <3>7
  <2> QED BY <1>2, <2>1, <2>2, <2>3
<1>3. ASSUME NEW r \in Callers, Connected(r) PROVE TrafficInv'
  <2>1. Opens BY <1>3, ConnectedOutcome
  <2>2. /\ up' = [up EXCEPT ![opened'] = <<r>>] /\ conn' = opened'
        /\ pc' = [pc EXCEPT ![r] = "send"] /\ lock = r /\ r # None
        /\ UNCHANGED <<serving, down, broken, lock, torn, got>>
    BY <1>3, <2>1, OneElement, LinkAssumption DEF Connected, Write
  <2>3. Carries(conn, r)' BY <2>1, <2>2
  <2>4. \A q \in Callers : pc'[q] \in {"send", "header", "body"} => q = r
    BY <2>2
  <2>5. \A c \in Conns : up'[c] = <<>> \/ \E q \in Callers : up'[c] = <<q>>
    BY <2>1, <2>2
  <2>6. OwnAnswer' BY <2>2
  <2> QED BY <2>2, <2>3, <2>4, <2>5, <2>6
<1>4. ASSUME NEW r \in Callers, Drained(r) PROVE TrafficInv'
  BY <1>4, LinkAssumption, ConnsPositive, OneElement DEF Drained
<1>5. ASSUME NEW r \in Callers, ReadHeader(r) PROVE TrafficInv'
  BY <1>5, LinkAssumption, ConnsPositive, OneElement DEF ReadHeader
<1>6. ASSUME NEW r \in Callers, ReadBody(r) PROVE TrafficInv'
  BY <1>6, LinkAssumption, ConnsPositive, OneElement DEF ReadBody
<1>7. ASSUME NEW r \in Callers, Fails(r) PROVE TrafficInv'
  <2>1. /\ lock = r /\ r # None /\ pc[r] \in Inside \ {"connect"} /\ conn' = None
        /\ torn' = FALSE /\ UNCHANGED <<up, serving, down, broken, got>>
    BY <1>7, FailsOutcome, LinkAssumption
  <2>2. \A q \in Callers :
          /\ pc'[q] \notin {"send", "header", "body"}
          /\ pc'[q] = "returned" => pc[q] = "returned"
    BY <1>7, <2>1, FailsOutcome
  <2> QED BY <2>1, <2>2
<1>8. ASSUME NEW r \in Callers, ConnectFails(r) PROVE TrafficInv'
  BY <1>8, LinkAssumption, ConnsPositive, OneElement DEF ConnectFails, Fault
<1>9. ASSUME NEW r \in Callers, Cancelled(r) PROVE TrafficInv'
  BY <1>9, LinkAssumption, ConnsPositive, OneElement DEF Cancelled
<1>10. ASSUME NEW c \in Conns, ServeBegins(c) PROVE TrafficInv'
  <2>1. PICK q \in Callers : up[c] = <<q>> BY <1>10 DEF ServeBegins
  <2>2. /\ up' = [up EXCEPT ![c] = <<>>] /\ serving' = [serving EXCEPT ![c] = q]
        /\ UNCHANGED <<down, broken, lock, conn, torn, pc, got>>
    BY <1>10, <2>1, OneElement DEF ServeBegins
  <2>3. ASSUME c = conn, conn \notin broken
        PROVE  /\ lock = q /\ down[c] = <<>>
               /\ pc[q] \in {"send", "header", "body"}
    <3>1. lock # None BY <2>1, <2>3, OneElement, ConnsPositive
    <3>2. pc[lock] \in {"send", "header", "body"} /\ lock \in Callers
      BY <2>3, <3>1, ConnsPositive
    <3> QED BY <2>1, <2>3, <3>2, OneElement
  <2>4. QuietBetweenRequests'
    BY <2>2, <2>3, LinkAssumption, ConnsPositive
  <2>5. \A r \in Callers :
          pc'[r] \in {"send", "header", "body"} /\ conn' \notin broken' =>
            Carries(conn, r)'
    BY <2>2, <2>3, ConnsPositive
  <2> QED BY <2>2, <2>4, <2>5
<1>11. ASSUME NEW c \in Conns, ServeEnds(c) PROVE TrafficInv'
  <2>1. CASE c = conn /\ c \notin broken
    <3>1. lock # None BY <1>11, <2>1, ConnsPositive DEF ServeEnds
    <3>2. PICK q \in Callers : lock = q /\ pc[q] \in {"send", "header", "body"}
      BY <2>1, <3>1, ConnsPositive
    <3>3. up[c] = <<>> /\ serving[c] = q /\ down[c] = <<>>
      BY <1>11, <2>1, <3>2 DEF ServeEnds
    <3>4. /\ down' = [down EXCEPT ![c] = <<q>>]
          /\ serving' = [serving EXCEPT ![c] = None]
          /\ UNCHANGED <<up, broken, lock, conn, torn, pc, got>>
      BY <1>11, <2>1, <3>3, OneElement DEF ServeEnds
    <3>5. Carries(conn, q)' BY <2>1, <3>3, <3>4
    <3>6. \A d \in broken' : down'[d] = <<>> BY <2>1, <3>4
    <3>7. OwnAnswer' BY <3>4
    <3> QED BY <3>1, <3>2, <3>4, <3>5, <3>6, <3>7
  <2>2. CASE ~(c = conn /\ c \notin broken)
    <3>1. /\ serving' = [serving EXCEPT ![c] = None]
          /\ UNCHANGED <<up, down, broken, lock, conn, torn, pc, got>>
      BY <1>11, <2>2 DEF ServeEnds
    <3> QED BY <2>2, <3>1, ConnsPositive
  <2> QED BY <2>1, <2>2
<1>12. ASSUME NEW c \in Conns, Break(c) PROVE TrafficInv'
  BY <1>12, LinkAssumption, ConnsPositive, OneElement DEF Break, Fault
<1>13. ASSUME NEW r \in Callers, YieldFails(r) PROVE TrafficInv'
  BY <1>13, LinkAssumption, ConnsPositive, OneElement DEF YieldFails, Fault
<1> QED
  BY <1>1, <1>2, <1>3, <1>4, <1>5, <1>6, <1>7, <1>8, <1>9, <1>10, <1>11, <1>12,
     <1>13
  DEF LinkNext, RequestStep

\* The connections that have r to be read are finitely many.
LEMMA UnreadFinite ==
  ASSUME NEW r
  PROVE  IsFiniteSet(Unread(r)) /\ Cardinality(Unread(r)) \in Nat
<1>1. IsFiniteSet(Doomed)
  BY LinkAssumption, FS_Subset
<1>2. MaxFaults + Cardinality(Doomed) + 1 \in Int
  BY <1>1, LinkAssumption, FS_CardinalityType
<1>3. IsFiniteSet(Conns)
  BY <1>2, FS_Interval DEF Conns
<1> QED BY <1>3, FS_Subset, FS_CardinalityType DEF Unread

\* Of a step that writes nothing and lets the peer read nothing.
LEMMA SendingFrame ==
  ASSUME LinkTypeOK, SendingInv, up' = up, runs' = runs,
         \A r \in resent' : Sandbox /\ r \notin Streams /\ pc'[r] \notin {"idle", "lock"},
         \A r \in Callers : Written(r)' >= Written(r)
  PROVE  SendingInv'
<1>1. \A r \in Callers : Unread(r)' = Unread(r)
  BY DEF Unread
<1>2. \A r \in Callers : runs[r] \in Nat /\ Cardinality(Unread(r)) \in Nat /\ Written(r) \in Nat /\ Written(r)' \in Nat
  BY UnreadFinite DEF Written, LinkTypeOK
<1> QED BY <1>1, <1>2 DEF SendingInv

\* The request of r is written on k.
LEMMA WrittenOnce ==
  ASSUME LinkTypeOK, SendingInv, NEW r \in Callers, NEW k \in Conns, pc[r] \in {"lock", "connect"},
         pc' = [pc EXCEPT ![r] = "send"], runs' = runs, resent' = resent,
         up' = [up EXCEPT ![k] = <<r>>], up[k] = <<>>
  PROVE  SendingInv'
<1>1. /\ \A s \in Callers \ {r} : Unread(s)' \subseteq Unread(s)
      /\ Unread(r)' = Unread(r) \cup {k}
  <2>1. \A c \in Conns : up'[c] = IF c = k THEN <<r>> ELSE up[c]
    BY DEF LinkTypeOK
  <2>2. \A s \in Callers \ {r} : <<s>> # <<r>>
    BY OneElement
  <2> QED BY <2>1, <2>2 DEF Unread
<1>2. Cardinality(Unread(r)') <= Cardinality(Unread(r)) + 1
  <2>1. IsFiniteSet(Unread(r)) /\ Cardinality(Unread(r)) \in Nat
    BY UnreadFinite
  <2> HIDE DEF Unread
  <2>2. \/ Cardinality(Unread(r) \cup {k}) = Cardinality(Unread(r))
        \/ Cardinality(Unread(r) \cup {k}) = Cardinality(Unread(r)) + 1
    BY <2>1, FS_AddElement
  <2>3. Cardinality(Unread(r)') = Cardinality(Unread(r) \cup {k})
    BY <1>1
  <2> QED BY <2>1, <2>2, <2>3
<1>3. \A s \in Callers \ {r} : Cardinality(Unread(s)') <= Cardinality(Unread(s))
  BY <1>1, UnreadFinite, FS_Subset
<1>4. Written(r)' = Written(r) + 1 /\ \A s \in Callers \ {r} : Written(s)' = Written(s)
  BY DEF Written, LinkTypeOK
<1>5. \A s \in Callers : /\ runs'[s] = runs[s] /\ runs[s] \in Nat /\ Written(s) \in Nat
                         /\ Cardinality(Unread(s)) \in Nat /\ Cardinality(Unread(s)') \in Nat
  <2>1. \A s \in Callers : IsFiniteSet(Unread(s)')
    BY <1>1, UnreadFinite, FS_AddElement, FS_Subset
  <2> QED BY <2>1, UnreadFinite, FS_CardinalityType DEF Written, LinkTypeOK
<1>6. \A s \in Callers : runs'[s] + Cardinality(Unread(s)') <= Written(s)'
  <2>1. CASE TRUE
    <3> TAKE s \in Callers
    <3>1. runs[s] + Cardinality(Unread(s)) <= Written(s)
      BY DEF SendingInv
    <3>2. CASE s = r BY <1>2, <1>4, <1>5, <3>1, <3>2
    <3>3. CASE s # r BY <1>3, <1>4, <1>5, <3>1, <3>3
    <3> QED BY <3>2, <3>3
  <2> QED BY <2>1
<1>7. \A s \in resent' : Sandbox /\ s \notin Streams /\ pc'[s] \notin {"idle", "lock"}
  BY DEF SendingInv, LinkTypeOK
<1> QED BY <1>6, <1>7 DEF SendingInv

\* Every step keeps the count of the sendings.
LEMMA LinkSendings ==
  ASSUME LinkInv, TrafficInv, SendingInv, LinkNext
  PROVE  SendingInv'
<1> USE DEF LinkInv, LinkTypeOK, Goto, peerVars, hostVars
<1>0. LinkTypeOK
  OBVIOUS
<1>1. ASSUME NEW r \in Callers,
             \/ Call(r) \/ Drained(r) \/ ReadHeader(r) \/ ReadBody(r)
             \/ ConnectFails(r) \/ YieldFails(r) \/ Cancelled(r)
      PROVE  SendingInv'
  <2>1. up' = up /\ runs' = runs /\ resent' = resent
    BY <1>1 DEF Call, Drained, ReadHeader, ReadBody, ConnectFails, YieldFails, Cancelled
  <2>2. /\ \A s \in Callers : pc[s] \notin {"idle", "lock", "connect"} => pc'[s] \notin {"idle", "lock", "connect"}
        /\ \A s \in Callers : pc[s] \notin {"idle", "lock"} => pc'[s] \notin {"idle", "lock"}
    BY <1>1 DEF Call, Drained, ReadHeader, ReadBody, ConnectFails, YieldFails, Cancelled, Inside
  <2>3. \A s \in Callers : Written(s)' >= Written(s)
    BY <2>1, <2>2 DEF Written
  <2>4. \A s \in resent' : Sandbox /\ s \notin Streams /\ pc'[s] \notin {"idle", "lock"}
    BY <2>1, <2>2 DEF SendingInv
  <2> QED BY <1>0, <2>1, <2>3, <2>4, SendingFrame
<1>2. ASSUME NEW r \in Callers, GetLock(r) PROVE SendingInv'
  <2>1. /\ runs' = runs /\ resent' = resent /\ pc[r] = "lock"
        /\ \A s \in Callers : pc'[s] = IF s = r THEN pc'[r] ELSE pc[s]
        /\ pc'[r] \in {"connect", "send"}
    BY <1>2, GetLockOutcome
  <2>2. CASE up' = up
    <3>1. \A s \in Callers : Written(s)' >= Written(s)
      BY <2>1 DEF Written
    <3>2. \A s \in resent' : Sandbox /\ s \notin Streams /\ pc'[s] \notin {"idle", "lock"}
      BY <2>1 DEF SendingInv
    <3> QED BY <1>0, <2>1, <2>2, <3>1, <3>2, SendingFrame
  <2>3. CASE up' # up
    <3>1. conn \in Conns \ broken /\ up' = [up EXCEPT ![conn] = Append(@, r)]
      BY <1>2, <2>3, GetLockOutcome
    <3>2. up[conn] = <<>>
      BY <1>2, <3>1, GetLockOutcome, ConnsPositive DEF TrafficInv, QuietBetweenRequests
    <3>3. up' = [up EXCEPT ![conn] = <<r>>] BY <3>1, <3>2, OneElement
    <3>4. pc' = [pc EXCEPT ![r] = "send"]
      BY <1>2, <2>3, GetLockOutcome
    <3> QED BY <1>0, <2>1, <3>1, <3>2, <3>3, <3>4, WrittenOnce
  <2> QED BY <2>2, <2>3
<1>3. ASSUME NEW r \in Callers, Connected(r) PROVE SendingInv'
  <2>1. opened' \in Conns /\ up[opened'] = <<>> BY <1>3, ConnectedOutcome DEF Opens
  <2>2. /\ up' = [up EXCEPT ![opened'] = <<r>>] /\ runs' = runs /\ resent' = resent
        /\ pc' = [pc EXCEPT ![r] = "send"] /\ pc[r] = "connect"
    BY <1>3, <2>1, ConnectedOutcome, OneElement DEF Connected, Write, Opens
  <2> QED BY <1>0, <2>1, <2>2, WrittenOnce
<1>4. ASSUME NEW r \in Callers, Fails(r) PROVE SendingInv'
  <2>1. /\ up' = up /\ runs' = runs /\ pc[r] \in {"send", "header", "body"}
        /\ \A s \in Callers : s # r => pc'[s] = pc[s]
        /\ \/ resent' = resent \cup {r} /\ SendsAgain(r) /\ pc'[r] = "connect"
           \/ resent' = resent /\ pc'[r] = "raised"
    BY <1>4, FailsOutcome DEF Inside
  <2>2. \A s \in Callers : Written(s)' >= Written(s)
    BY <2>1 DEF Written, SendsAgain
  <2>3. \A s \in resent' : Sandbox /\ s \notin Streams /\ pc'[s] \notin {"idle", "lock"}
    BY <2>1 DEF SendingInv, SendsAgain
  <2> QED BY <1>0, <2>1, <2>2, <2>3, SendingFrame
<1>5. ASSUME NEW c \in Conns, ServeBegins(c) PROVE SendingInv'
  <2>1. PICK q \in Callers : up[c] = <<q>> BY <1>5 DEF ServeBegins, TrafficInv
  <2>2. /\ up' = [up EXCEPT ![c] = <<>>] /\ runs' = [runs EXCEPT ![q] = @ + 1]
        /\ pc' = pc /\ resent' = resent
    BY <1>5, <2>1, OneElement DEF ServeBegins, TrafficInv
  <2>3. /\ \A s \in Callers \ {q} : Unread(s)' = Unread(s)
        /\ Unread(q)' = Unread(q) \ {c} /\ c \in Unread(q)
    BY <2>1, <2>2, OneElement DEF Unread
  <2>4. Cardinality(Unread(q)') = Cardinality(Unread(q)) - 1
    BY <2>3, UnreadFinite, FS_RemoveElement
  <2>5. \A s \in Callers : Written(s)' = Written(s)
    BY <2>2 DEF Written
  <2>6. \A s \in Callers : runs'[s] + Cardinality(Unread(s)') <= Written(s)'
    <3> TAKE s \in Callers
    <3>1. runs[s] + Cardinality(Unread(s)) <= Written(s)
      BY DEF SendingInv
    <3>2. runs[s] \in Nat /\ Cardinality(Unread(s)) \in Nat /\ Written(s) \in Nat
      BY UnreadFinite DEF Written
    <3>3. CASE s = q
      <4>1. runs'[s] = runs[s] + 1
        BY <2>2, <3>3
      <4> QED BY <2>4, <2>5, <3>1, <3>2, <3>3, <4>1
    <3>4. CASE s # q
      <4>1. runs'[s] = runs[s]
        BY <2>2, <3>4
      <4> QED BY <2>3, <2>5, <3>1, <3>2, <3>4, <4>1
    <3> QED BY <3>3, <3>4
  <2> QED BY <2>2, <2>6 DEF SendingInv
<1>6. ASSUME NEW c \in Conns, ServeEnds(c) \/ Break(c) PROVE SendingInv'
  <2>1. up' = up /\ runs' = runs /\ pc' = pc /\ resent' = resent
    BY <1>6 DEF ServeEnds, Break
  <2>2. \A s \in Callers : Written(s)' >= Written(s)
    BY <2>1 DEF Written
  <2> QED BY <1>0, <2>1, <2>2, SendingFrame DEF SendingInv
<1> QED BY <1>1, <1>2, <1>3, <1>4, <1>5, <1>6 DEF LinkNext, RequestStep

\* Every step keeps that what is answered was executed.
LEMMA LinkServed ==
  ASSUME LinkInv, TrafficInv, ServedInv, LinkNext
  PROVE  ServedInv'
<1> USE DEF LinkInv, LinkTypeOK, peerVars, hostVars
<1>1. ASSUME NEW r \in Callers,
             \/ Call(r) \/ GetLock(r) \/ Connected(r) \/ Drained(r) \/ ReadHeader(r) \/ Fails(r)
             \/ ConnectFails(r) \/ YieldFails(r) \/ Cancelled(r)
      PROVE  ServedInv'
  <2>1. serving' = serving /\ down' = down /\ runs' = runs
    BY <1>1 DEF Call, GetLock, Connected, Drained, ReadHeader, Fails, ConnectFails, YieldFails, Cancelled
  <2> QED BY <2>1 DEF ServedInv
<1>2. ASSUME NEW r \in Callers, ReadBody(r) PROVE ServedInv'
  <2>1. /\ serving' = serving /\ runs' = runs /\ down' = [down EXCEPT ![conn] = Tail(@)]
        /\ down[conn] # <<>>
    BY <1>2 DEF ReadBody
  <2>2. \A c \in Conns : \A i \in DOMAIN down'[c] : \E j \in DOMAIN down[c] : down'[c][i] = down[c][j]
    <3> TAKE c \in Conns
    <3>1. down[c] \in Seq(Callers)
      OBVIOUS
    <3>2. CASE c = conn
      <4>1. down'[c] = Tail(down[c])
        BY <2>1, <3>2
      <4>2. \A i \in DOMAIN Tail(down[c]) : i + 1 \in DOMAIN down[c] /\ Tail(down[c])[i] = down[c][i + 1]
        BY <2>1, <3>1, <3>2
      <4> QED BY <4>1, <4>2
    <3>3. CASE c # conn
      BY <2>1, <3>3
    <3> QED BY <3>2, <3>3
  <2> QED BY <2>1, <2>2 DEF ServedInv
<1>3. ASSUME NEW c \in Conns, ServeBegins(c) PROVE ServedInv'
  <2>1. PICK q \in Callers : up[c] = <<q>> BY <1>3 DEF ServeBegins, TrafficInv
  <2>2. /\ serving' = [serving EXCEPT ![c] = q] /\ down' = down
        /\ runs' = [runs EXCEPT ![q] = @ + 1]
    BY <1>3, <2>1, OneElement DEF ServeBegins
  <2>3. \A s \in Callers : runs'[s] >= runs[s] /\ runs[s] \in Nat /\ runs'[s] \in Nat
    BY <2>2
  <2>4. runs'[q] > 0
    BY <2>2
  <2>5. \A d \in Conns : serving'[d] # None => runs'[serving'[d]] > 0
    BY <2>2, <2>3, <2>4 DEF ServedInv
  <2>6. \A d \in Conns : \A i \in DOMAIN down'[d] : runs'[down'[d][i]] > 0
    <3> SUFFICES ASSUME NEW d \in Conns, NEW i \in DOMAIN down[d] PROVE runs'[down[d][i]] > 0
      BY <2>2
    <3>1. down[d][i] \in Callers /\ runs[down[d][i]] > 0
      BY DEF ServedInv
    <3> QED BY <2>3, <3>1
  <2> QED BY <2>5, <2>6 DEF ServedInv
<1>4. ASSUME NEW c \in Conns, ServeEnds(c) PROVE ServedInv'
  <2>1. /\ serving[c] # None /\ serving' = [serving EXCEPT ![c] = None] /\ runs' = runs
        /\ down' = down \/ down' = [down EXCEPT ![c] = Append(@, serving[c])]
    BY <1>4 DEF ServeEnds
  <2>2. \A d \in Conns : serving'[d] # None => runs'[serving'[d]] > 0
    BY <2>1 DEF ServedInv
  <2>3. \A d \in Conns : \A i \in DOMAIN down'[d] : runs'[down'[d][i]] > 0
    <3> SUFFICES ASSUME NEW d \in Conns, NEW i \in DOMAIN down'[d] PROVE runs[down'[d][i]] > 0
      BY <2>1
    <3>1. down[d] \in Seq(Callers) /\ serving[c] \in Callers
      BY <2>1
    <3>2. CASE down'[d] = down[d]
      BY <3>2 DEF ServedInv
    <3>3. CASE d = c /\ down'[d] = Append(down[d], serving[c])
      <4>1. IF i = Len(down[d]) + 1 THEN down'[d][i] = serving[c]
            ELSE i \in DOMAIN down[d] /\ down'[d][i] = down[d][i]
        BY <3>1, <3>3
      <4> QED BY <2>1, <4>1 DEF ServedInv
    <3> QED BY <2>1, <3>2, <3>3
  <2> QED BY <2>2, <2>3 DEF ServedInv
<1>5. ASSUME NEW c \in Conns, Break(c) PROVE ServedInv'
  <2>1. serving' = serving /\ runs' = runs /\ down' = [down EXCEPT ![c] = <<>>]
    BY <1>5 DEF Break
  <2> QED BY <2>1 DEF ServedInv
<1> QED BY <1>1, <1>2, <1>3, <1>4, <1>5 DEF LinkNext, RequestStep

-----------------------------------------------------------------------------
(* The theorems.                                                           *)

\* The initial state satisfies the invariant.
LEMMA LinkInitInv == LinkInit => SafeInv
<1> SUFFICES ASSUME LinkInit PROVE SafeInv OBVIOUS
<1> USE LinkAssumption DEF LinkInit, None
<1>0. opened = conn /\ conn \in {0, 1} /\ 1 \in Conns
  BY GoneFinite DEF Conns
<1>1. LinkTypeOK
  <2>1. <<>> \in Seq(Callers) OBVIOUS
  <2>2. up \in [Conns -> Seq(Callers)] /\ down \in [Conns -> Seq(Callers)]
    BY <2>1
  <2>3. faults \in 0..MaxFaults OBVIOUS
  <2> QED BY <1>0, <2>2, <2>3 DEF LinkTypeOK
<1>2. LockInv BY <1>0, ConnsPositive DEF LockInv, Inside
<1>3. CountInv BY <1>0, GoneFinite DEF CountInv
<1>4. TrafficInv BY <1>0 DEF TrafficInv, QuietBetweenRequests, OwnAnswer
<1>5. SendingInv
  <2>1. \A r \in Callers : Unread(r) = {}
    BY OneElement DEF Unread
  <2>2. \A r \in Callers : Cardinality(Unread(r)) = 0
    BY <2>1, FS_EmptySet
  <2>3. \A r \in Callers : runs[r] = 0 /\ Written(r) = 0
    BY DEF Written
  <2> QED BY <2>1, <2>2, <2>3 DEF SendingInv
<1>6. ServedInv
  BY DEF ServedInv
<1> QED BY <1>1, <1>2, <1>3, <1>4, <1>5, <1>6 DEF SafeInv, LinkInv

\* The types, the lock and the count, whatever is cancelled.
LEMMA LinkInvInductive == LinkInv /\ [LinkNext]_linkVars => LinkInv'
<1> SUFFICES ASSUME LinkInv, [LinkNext]_linkVars PROVE LinkInv' OBVIOUS
<1>1. CASE LinkNext
  BY <1>1, LinkTypes, LinkLocks, LinkCount DEF LinkInv
<1>2. CASE UNCHANGED linkVars
  BY <1>2 DEF LinkInv, linkVars, peerVars, hostVars, LinkTypeOK, LockInv,
              CountInv, Gone
<1> QED BY <1>1, <1>2

\* The traffic, where what is cancelled leaves no connection behind.
LEMMA SafeInvInductive ==
  ASSUME Clean PROVE SafeInv /\ [LinkNext]_linkVars => SafeInv'
<1> SUFFICES ASSUME SafeInv, [LinkNext]_linkVars PROVE SafeInv' OBVIOUS
<1>1. CASE LinkNext
  BY <1>1, LinkInvInductive, LinkTraffic, LinkSendings, LinkServed DEF SafeInv
<1>2. CASE UNCHANGED linkVars
  <2> USE <1>2 DEF SafeInv, linkVars, peerVars, hostVars
  <2>1. LinkInv' BY LinkInvInductive
  <2>2. TrafficInv'
    BY DEF TrafficInv, QuietBetweenRequests, Carries, OwnAnswer
  <2>3. SendingInv' BY DEF SendingInv, Unread, Written
  <2>4. ServedInv' BY DEF ServedInv
  <2> QED BY <2>1, <2>2, <2>3, <2>4
<1> QED BY <1>1, <1>2

\* The invariant holds in every state of a link that is clean.
LEMMA SafeInvariant == ASSUME Clean PROVE LinkSpec => []SafeInv
<1>1. Clean OBVIOUS
<1>2. SafeInv /\ [LinkNext]_linkVars => SafeInv' BY <1>1, SafeInvInductive
<1> QED BY <1>2, LinkInitInv, PTL DEF LinkSpec

\* A request is executed no more often than it may be sent.
LEMMA SendingsBounded == SafeInv => \A r \in Callers : runs[r] \in 0..Sendings(r)
<1> SUFFICES ASSUME SafeInv, NEW r \in Callers PROVE runs[r] \in 0..Sendings(r)
  OBVIOUS
<1>1. runs[r] \in Nat /\ Cardinality(Unread(r)) \in Nat
  BY UnreadFinite DEF SafeInv, LinkInv, LinkTypeOK
<1>2. runs[r] + Cardinality(Unread(r)) <= Written(r)
  BY DEF SafeInv, SendingInv
<1>3. Written(r) \in 0..Sendings(r)
  BY DEF SafeInv, SendingInv, Written, Sendings
<1> QED BY <1>1, <1>2, <1>3 DEF Sendings

\* The state of a connection of either kind is well typed: connections are
\* made only after a fault or a cancelled request.
THEOREM LinkTypeCorrect == LinkSpec => []LinkTypeOK
<1>1. LinkInit => LinkInv BY LinkInitInv DEF SafeInv
<1>2. LinkInv => LinkTypeOK BY DEF LinkInv
<1> QED BY <1>1, <1>2, LinkInvInductive, PTL DEF LinkSpec

\* The sandbox's requests, and those of a local backend none of whose requests
\* is cancelled, read their own answers, whatever breaks.
THEOREM RequestsReadTheirAnswer ==
  ASSUME Sandbox \/ Doomed = {} PROVE LinkSpec => []OwnAnswer
<1>1. Clean BY DEF Clean
<1>2. SafeInv => OwnAnswer BY DEF SafeInv, TrafficInv
<1> QED BY <1>1, <1>2, SafeInvariant, PTL

\* Under the same assumption the lock is given back only with a connection
\* that carries nothing, or none.
THEOREM QuietWhenUnlocked ==
  ASSUME Sandbox \/ Doomed = {} PROVE LinkSpec => []QuietBetweenRequests
<1>1. Clean BY DEF Clean
<1>2. SafeInv => QuietBetweenRequests BY DEF SafeInv, TrafficInv
<1> QED BY <1>1, <1>2, SafeInvariant, PTL

\* A stream is executed at most once.
THEOREM StreamsAreNotRepeated ==
  ASSUME Sandbox \/ Doomed = {} PROVE LinkSpec => []StreamsRunOnce
<1>1. Clean BY DEF Clean
<1>2. SafeInv => StreamsRunOnce
  <2> SUFFICES ASSUME SafeInv, NEW r \in Streams PROVE runs[r] <= 1
    BY DEF StreamsRunOnce
  <2>1. r \in Callers
    BY LinkAssumption
  <2> QED BY <2>1, SendingsBounded DEF Sendings
<1> QED BY <1>1, <1>2, SafeInvariant, PTL

-----------------------------------------------------------------------------
(* The refinement of RequestPromise.                                       *)

\* Of a step after which every request but r is as it was.
LEMMA RequestMaps ==
  ASSUME NEW r \in Callers, runs' = runs, got \in [Callers -> Callers \cup {None}],
         \A q \in Callers \ {r} : pc'[q] = pc[q],
         \/ got' = got /\ \/ Status(r)' = Status(r)
                          \/ Status(r) = "new" /\ Status(r)' = "asked"
                          \/ Status(r) \in {"new", "asked"} /\ Status(r)' = "failed"
         \/ /\ Status(r) = "asked" /\ Status(r)' = "returned"
            /\ got' = [got EXCEPT ![r] = r] /\ runs[r] \in Nat \ {0}
  PROVE  [Promise!PromiseNext]_(Promise!promiseVars)
<1>1. \A q \in Callers \ {r} : Status(q)' = Status(q)
  BY DEF Status
<1>2. CASE got' = got /\ Status(r)' = Status(r)
  BY <1>1, <1>2 DEF Promise!promiseVars
<1>3. CASE got' = got /\ Status(r) = "new" /\ Status(r)' = "asked"
  <2>1. Status(r) = "new" /\ UNCHANGED <<runs, got>>
    BY <1>3
  <2>2. \A q \in Callers : Status(q)' = IF q = r THEN "asked" ELSE Status(q)
    BY <1>1, <1>3
  <2>3. Promise!Ask(r)
    BY <2>1, <2>2 DEF Promise!Ask
  <2> QED BY <2>3 DEF Promise!PromiseNext
<1>4. CASE got' = got /\ Status(r) \in {"new", "asked"} /\ Status(r)' = "failed"
  <2>1. Promise!Fail(r)
    BY <1>1, <1>4 DEF Promise!Fail
  <2> QED BY <2>1 DEF Promise!PromiseNext
<1>5. CASE /\ Status(r) = "asked" /\ Status(r)' = "returned"
           /\ got' = [got EXCEPT ![r] = r] /\ runs[r] \in Nat \ {0}
  <2>1. 1 \in 1..runs[r]
    BY <1>5
  <2>2. Promise!Return(r)
    BY <1>1, <1>5, <2>1 DEF Promise!Return
  <2> QED BY <2>2 DEF Promise!PromiseNext
<1> QED BY <1>2, <1>3, <1>4, <1>5

\* Every step is one of the promise or leaves it alone.
LEMMA LinkMaps ==
  ASSUME SafeInv, SafeInv', [LinkNext]_linkVars
  PROVE  [Promise!PromiseNext]_(Promise!promiseVars)
<1> USE DEF Goto, peerVars, hostVars
<1>1. /\ pc \in [Callers -> {"idle", "lock"} \cup Inside \cup Ended]
      /\ got \in [Callers -> Callers \cup {None}] /\ runs \in [Callers -> Nat]
  BY DEF SafeInv, LinkInv, LinkTypeOK
<1>2. ASSUME NEW r \in Callers,
             \/ Call(r) \/ GetLock(r) \/ Connected(r) \/ Drained(r) \/ ReadHeader(r) \/ Fails(r)
             \/ ConnectFails(r) \/ YieldFails(r) \/ Cancelled(r)
      PROVE  [Promise!PromiseNext]_(Promise!promiseVars)
  <2>1. runs' = runs /\ got' = got
    BY <1>2 DEF Call, GetLock, Connected, Drained, ReadHeader, Fails, ConnectFails, YieldFails, Cancelled
  <2>2. /\ \A q \in Callers \ {r} : pc'[q] = pc[q]
        /\ pc[r] \notin Ended /\ pc'[r] \notin {"idle", "returned"}
        /\ pc[r] = "idle" => pc'[r] = "lock"
    BY <1>1, <1>2 DEF Call, GetLock, Connected, Drained, ReadHeader, Fails, ConnectFails, YieldFails, Cancelled,
                      Write, Inside, Ended
  <2>3. \/ Status(r)' = Status(r)
        \/ Status(r) = "new" /\ Status(r)' = "asked"
        \/ Status(r) \in {"new", "asked"} /\ Status(r)' = "failed"
    BY <2>2 DEF Status, Ended
  <2> QED BY <1>1, <2>1, <2>2, <2>3, RequestMaps
<1>3. ASSUME NEW r \in Callers, ReadBody(r)
      PROVE  [Promise!PromiseNext]_(Promise!promiseVars)
  <2>1. /\ runs' = runs /\ \A q \in Callers \ {r} : pc'[q] = pc[q]
        /\ pc[r] = "body" /\ pc'[r] = "returned" /\ down[conn] # <<>>
        /\ got' = [got EXCEPT ![r] = Head(down[conn])]
    BY <1>1, <1>3 DEF ReadBody
  <2>2. conn \in Conns
    BY <2>1 DEF SafeInv, LinkInv, LinkTypeOK, LockInv
  <2>3. down[conn] = <<r>>
    <3>1. conn \notin broken
      BY <2>1, <2>2 DEF SafeInv, TrafficInv
    <3> QED BY <2>1, <3>1 DEF SafeInv, TrafficInv, Carries
  <2>4. got' = [got EXCEPT ![r] = r]
    BY <2>1, <2>3, OneElement
  <2>5. runs[r] \in Nat \ {0}
    <3>1. 1 \in DOMAIN down[conn] /\ down[conn][1] = r
      BY <2>3
    <3>2. runs[r] > 0
      BY <2>2, <3>1 DEF SafeInv, ServedInv
    <3> QED BY <1>1, <3>2
  <2>6. Status(r) = "asked" /\ Status(r)' = "returned"
    BY <2>1 DEF Status, Ended
  <2> QED BY <1>1, <2>1, <2>4, <2>5, <2>6, RequestMaps
<1>4. ASSUME NEW c \in Conns, ServeBegins(c)
      PROVE  [Promise!PromiseNext]_(Promise!promiseVars)
  <2>1. PICK q \in Callers : up[c] = <<q>> BY <1>4 DEF ServeBegins, SafeInv, TrafficInv
  <2>2. runs' = [runs EXCEPT ![q] = @ + 1] /\ pc' = pc /\ got' = got
    BY <1>4, <2>1, OneElement DEF ServeBegins
  <2>3. pc[q] # "idle"
    <3>1. c \in Unread(q)
      BY <2>1 DEF Unread
    <3>2. Unread(q) # {} /\ Cardinality(Unread(q)) # 0
      BY <3>1, UnreadFinite, FS_EmptySet
    <3>3. runs[q] + Cardinality(Unread(q)) <= Written(q) /\ runs[q] \in Nat /\ Cardinality(Unread(q)) \in Nat
      BY <1>1, UnreadFinite DEF SafeInv, SendingInv
    <3>4. Written(q) # 0 /\ (q \in resent => pc[q] # "idle")
      BY <3>2, <3>3 DEF SafeInv, SendingInv, Written
    <3> QED BY <3>4 DEF Written
  <2>4. runs'[q] = runs[q] + 1 /\ runs'[q] \in 1..Sendings(q)
    <3>1. (SafeInv => \A r \in Callers : runs[r] \in 0..Sendings(r))'
      BY SendingsBounded, PTL
    <3>2. runs'[q] \in 0..Sendings(q)
      BY <3>1 DEF Sendings
    <3> QED BY <1>1, <2>2, <3>2 DEF Sendings
  <2>5. \A r \in Callers : 1..runs'[r] = IF r = q THEN 1..runs[r] \cup {runs'[q]} ELSE 1..runs[r]
    <3>1. \A n \in Nat : 1..(n + 1) = 1..n \cup {n + 1}
      OBVIOUS
    <3>2. runs[q] \in Nat /\ 1..runs'[q] = 1..runs[q] \cup {runs'[q]}
      BY <1>1, <2>4, <3>1
    <3>3. \A r \in Callers \ {q} : runs'[r] = runs[r]
      BY <1>1, <2>2
    <3> QED BY <3>2, <3>3
  <2>6. Promise!Run(q)
    <3>1. Status(q) # "new" /\ \A r \in Callers : Status(r)' = Status(r)
      BY <2>2, <2>3 DEF Status
    <3>2. [r \in Callers |-> Status(r)]' = [r \in Callers |-> Status(r)]
      BY <3>1
    <3>3. [r \in Callers |-> 1..runs[r]]'
            = [[r \in Callers |-> 1..runs[r]] EXCEPT ![q] = 1..runs[q] \cup {runs'[q]}]
      BY <2>5
    <3> QED BY <2>2, <2>4, <3>1, <3>2, <3>3 DEF Promise!Run
  <2> QED BY <2>6 DEF Promise!PromiseNext
<1>5. ASSUME (\E c \in Conns : ServeEnds(c) \/ Break(c)) \/ UNCHANGED linkVars
      PROVE  UNCHANGED Promise!promiseVars
  <2>1. runs' = runs /\ pc' = pc /\ got' = got
    BY <1>5 DEF ServeEnds, Break, linkVars
  <2> QED BY <2>1 DEF Promise!promiseVars, Status
<1> QED BY <1>2, <1>3, <1>4, <1>5 DEF LinkNext, RequestStep

\* Where no cancelled request leaves its connection behind, the connection keeps
\* the promise of RequestPromise: what a request returns is the answer to an
\* execution of its own, and the sandbox executes a plain one twice at most,
\* everything else is executed once at most.
THEOREM LinkImplementsPromise ==
  ASSUME Sandbox \/ Doomed = {} PROVE LinkSpec => LinkKept
<1>1. Clean BY DEF Clean
<1>2. LinkInit => Promise!PromiseInit
  BY DEF LinkInit, Promise!PromiseInit, Status
<1>3. SafeInv /\ SafeInv' /\ [LinkNext]_linkVars => [Promise!PromiseNext]_(Promise!promiseVars)
  BY LinkMaps
<1> QED BY <1>1, <1>2, <1>3, SafeInvariant, PTL DEF LinkSpec, LinkKept, Promise!PromiseSpec

=============================================================================
