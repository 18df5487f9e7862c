----------------------------- MODULE TrustProofs -----------------------------
(***************************************************************************)
(* Proofs about whom a worker trusts, for any scenarios, any number of     *)
(* pairing sessions and any bounds: the first pairing, and the key pinned  *)
(* for a client over restarts and the commands of the administrator.       *)
(***************************************************************************)
EXTENDS Schedules, TLAPS

-----------------------------------------------------------------------------
(* The pairing.                                                            *)

Challenges == Nat \cup {None}

SharedKeys == {None} \cup (Nat \X Challenges)

PairTypes ==
  /\ session \in Nat
  /\ channel \in [challenge : Challenges, response : {channel.response},
                  confirm : {channel.confirm}]
  /\ initiator \in [pc : {"idle", "publish", "listen", "confirm", "save", "paired", "failed"},
                    pin : Nat, challenge : Challenges]
  /\ responder \in [pc : {"idle", "look", "answer", "confirm", "paired", "failed"},
                    pin : Nat, challenge : Challenges, runs : Nat]
  /\ keys \in [worker : SharedKeys, client : SharedKeys]

\* The responder has sent its response, of which its state is the witness.
Responded == responder.pc \in {"confirm", "paired", "failed"}

\* The first session of the worker and the first run of the client.
FirstPairing == session <= 1 /\ responder.runs <= 1

\* A client that has not started has left nothing behind.
FreshInv ==
  responder.runs = 0 =>
    /\ responder.pc = "idle" /\ initiator.pc # "confirm"
    /\ channel.response = None /\ channel.confirm = None /\ keys.client = None

\* What is in the slots comes from this pairing, and the worker has confirmed
\* the secret that the client will derive, or is about to.
SlotInv ==
  FirstPairing =>
    /\ channel.response # None =>
         Responded /\ channel.response = Response(responder.pin, responder.challenge)
    /\ initiator.pc = "confirm" =>
         Responded /\ SharedSecret(initiator) = SharedSecret(responder)
    /\ channel.confirm # None => Responded /\ SharedSecret(responder) \in confirmed

PairInv == PairTypes /\ FreshInv /\ SlotInv /\ PairedMeansConfirmed

\* The slots are empty and no key is saved when nothing has happened.
LEMMA PairInitially == PairInit => PairInv
BY DEF PairInit, PairInv, PairTypes, Challenges, SharedKeys, FreshInv, SlotInv, PairedMeansConfirmed, Responded

\* Each step of either coroutine, and each expiry, keeps the invariant.
LEMMA PairStep == PairInv /\ [PairNext]_pairVars => PairInv'
<1> SUFFICES ASSUME PairInv, [PairNext]_pairVars PROVE PairInv'
  OBVIOUS
<1> USE DEF PairInv, PairTypes, Challenges, SharedKeys, FreshInv, SlotInv, PairedMeansConfirmed, Responded,
            FirstPairing, SharedSecret, Response, AtRest
<1>1. CASE StartInitiator   BY <1>1 DEF StartInitiator
<1>2. CASE PublishChallenge BY <1>2 DEF PublishChallenge
<1>3. CASE ReadResponse     BY <1>3 DEF ReadResponse
<1>4. CASE SendConfirm      BY <1>4 DEF SendConfirm
<1>5. CASE SaveWorkerKey    BY <1>5 DEF SaveWorkerKey
<1>6. CASE StartResponder   BY <1>6 DEF StartResponder
<1>7. CASE ReadChallenge    BY <1>7 DEF ReadChallenge
<1>8. CASE SendResponse     BY <1>8 DEF SendResponse
<1>9. CASE ReadConfirm      BY <1>9 DEF ReadConfirm
<1>10. CASE GiveUp          BY <1>10 DEF GiveUp
<1>11. CASE ExpireSlot
  <2>1. PICK f \in DOMAIN channel : channel' = [channel EXCEPT ![f] = None]
    BY <1>11 DEF ExpireSlot
  <2> QED BY <1>11, <2>1 DEF ExpireSlot
<1>12. CASE UNCHANGED pairVars BY <1>12 DEF pairVars
<1> QED BY <1>1, <1>2, <1>3, <1>4, <1>5, <1>6, <1>7, <1>8, <1>9, <1>10, <1>11, <1>12
        DEF PairNext, Initiate, Respond

\* The schedule's worker and client pair by the steps of the pairing and
\* leave what it keeps alone from then on.
LEMMA PairingWithin == [Next]_vars => [PairNext]_pairVars
<1> SUFFICES ASSUME [Next]_vars PROVE [PairNext]_pairVars
  OBVIOUS
<1>1. CASE UNCHANGED vars BY <1>1 DEF vars
<1>2. CASE PairFirst BY <1>2 DEF PairFirst
<1>3. ASSUME NEW i \in DOMAIN handlers, Handle(i) \/ Fault(i) PROVE UNCHANGED pairVars
  BY <1>3 DEF Handle, Acquire, Check, Unbuildable, Finish, Record, Limits, Nack, Resubmit, Fault
<1>4. CASE \/ SubmitRecurring \/ SubmitRemote \/ CancelSchedule \/ PollFlag \/ PutFlagBack
           \/ Deliver \/ Serve \/ Crash \/ Duplicate \/ Beside \/ Tick
  BY <1>4 DEF SubmitRecurring, SubmitRemote, CancelSchedule, PollFlag, PutFlagBack,
              Deliver, Serve, Crash, Duplicate, Beside, Tick
<1> QED BY <1>1, <1>2, <1>3, <1>4 DEF Next

\* The system of the run implements the pairing: whatever the worker and its
\* clients do later, the keys they paired with are those of the pairing.
THEOREM KeepsPairing == Spec => PairSpec
<1>1. Init => PairInit
  BY DEF Init
<1> QED BY <1>1, PairingWithin, PTL DEF Spec, PairSpec

\* In a first pairing the key a client saves is one the worker confirmed
\* (respond_to_pairing, initiate_pairing), for any order of the steps.
THEOREM PairedKeysConfirmed == Spec => []PairedMeansConfirmed
<1>1. PairInv => PairedMeansConfirmed
  BY DEF PairInv
<1> QED BY <1>1, PairInitially, PairStep, KeepsPairing, PTL DEF PairSpec

-----------------------------------------------------------------------------
(* The pinned key.                                                         *)

Time == Int \cup {None}

Tasks == [id : Int, n : Int, at : Time, left : Int]

\* The keys an envelope can be signed with: a token, or that of a pairing.
RootKeys == SharedKeys \cup UNION {{s.tokens[r] : r \in Roles} : s \in Scenarios}

SignedEnvelopes == [task : Tasks, key : RootKeys, client : Roles \cup {None},
                    pubkey : 0..2 \cup {None}, iat : Int]

Verdicts == {"accepted", "unsigned", "revoked", "stale", "replay", "signature", "identity"}

Handlers == [env : SignedEnvelopes, verdict : Verdicts, era : Int, next : Time,
             pc : Live \cup Ends, start : Time, cooled : Time]

Registries == [Roles -> {None} \cup ClientEntry]

TrustTypes ==
  /\ setup \in Scenarios /\ now \in Int /\ seed \in 1..2 /\ submitted \in Int
  /\ proc \in [up : BOOLEAN, root : RootKeys, known : Registries, nonces : {proc.nonces}]
  /\ file \in Registries
  /\ admin \in [pc : {"idle", "loaded", "done"}, known : Registries, revoked : BOOLEAN]
  /\ queue \in Seq(SignedEnvelopes) /\ handlers \in Seq(Handlers)
  /\ budget \in [plain : Int, duplicates : Int, crashes : Int, faults : Int]

\* What is signed has the public key of who signed it; the worker has one.
Genuine(e) ==
  e.key # None => /\ e.client \in Roles /\ e.pubkey \in 0..2
                  /\ e.client = "worker" => e.pubkey = 0

EnvelopesGenuine ==
  /\ \A i \in DOMAIN queue : Genuine(queue[i])
  /\ \A i \in DOMAIN handlers : Genuine(handlers[i].env)

\* a pins the client with the key that b has, or neither has one.
SamePin(a, b) ==
  /\ a["client"] = None <=> b["client"] = None
  /\ a["client"] # None => a["client"].pubkey = b["client"].pubkey

\* A signing worker and the file agree on the key of the client, whatever
\* became of the entry's revocation; a copy that an administrator has read
\* is older, but the key it holds is the one of the file.
CopiesAgree ==
  setup.signing =>
    /\ proc.up => proc.root # None /\ SamePin(proc.known, file)
    /\ admin.pc = "loaded" /\ admin.known["client"] # None => SamePin(admin.known, file)

\* What was accepted is signed, and a client's with the key in the file.
AcceptedPinned ==
  setup.signing =>
    \A i \in Accepted :
      LET e == handlers[i].env
      IN /\ e.key # None
         /\ e.client = "client" => file["client"] # None /\ file["client"].pubkey = e.pubkey

TrustInv == TrustTypes /\ EnvelopesGenuine /\ CopiesAgree /\ AcceptedPinned

-----------------------------------------------------------------------------

\* Nothing is accepted, sent or pinned at the start.
LEMMA TrustInitially == Init => TrustInv
<1> SUFFICES ASSUME Init PROVE TrustInv
  OBVIOUS
<1> USE DEF Init, PairInit, EnvelopeInit, Nobody
<1>1. TrustTypes
  BY ScheduleAssumption DEF TrustTypes, RootKeys, SharedKeys, Registries
<1>2. EnvelopesGenuine /\ CopiesAgree /\ AcceptedPinned
  BY DEF EnvelopesGenuine, CopiesAgree, AcceptedPinned, Accepted
<1> QED BY <1>1, <1>2 DEF TrustInv

\* A role signs with a key of the keys there are.
LEMMA TokenTyped ==
  ASSUME TrustInv, PairInv, NEW role \in Roles
  PROVE  RootToken(role) \in RootKeys
BY DEF TrustInv, TrustTypes, PairInv, PairTypes, RootToken, RootKeys, Roles

\* _encode_task signs with the key of the role it is called for.
LEMMA EncodedGenuine ==
  ASSUME TrustInv, NEW task \in Tasks, NEW role \in Roles, NEW root \in RootKeys
  PROVE  Encode(task, role, root) \in SignedEnvelopes /\ Genuine(Encode(task, role, root))
<1>1. Clock(role) \in Int
  BY ScheduleAssumption DEF Clock, TrustInv, TrustTypes
<1>2. PublicKey(role) \in 0..2 /\ (role = "worker" => PublicKey(role) = 0)
  BY DEF PublicKey, TrustInv, TrustTypes
<1> QED BY <1>1, <1>2 DEF Encode, SignedEnvelopes, Genuine, RootKeys, SharedKeys

\* A submission joins the queue.
LEMMA QueueGrows ==
  ASSUME TrustInv, NEW e \in SignedEnvelopes, Genuine(e), queue' = Append(queue, e)
  PROVE  queue' \in Seq(SignedEnvelopes) /\ \A i \in DOMAIN queue' : Genuine(queue'[i])
BY DEF TrustInv, TrustTypes, EnvelopesGenuine

\* Handlers that move on keep what they were delivered.
SameDeliveries ==
  /\ handlers' \in Seq(Handlers) /\ DOMAIN handlers' = DOMAIN handlers
  /\ \A i \in DOMAIN handlers : /\ handlers'[i].env = handlers[i].env
                                /\ handlers'[i].verdict = handlers[i].verdict

\* A handler that moves on keeps its delivery.
LEMMA HandlerMoves ==
  ASSUME TrustInv, NEW i \in DOMAIN handlers, NEW h \in Handlers,
         h.env = handlers[i].env, h.verdict = handlers[i].verdict,
         handlers' = [handlers EXCEPT ![i] = h]
  PROVE  SameDeliveries
BY DEF TrustInv, TrustTypes, SameDeliveries

\* What neither delivers nor changes a registry keeps the pinned keys.
LEMMA TrustUndisturbed ==
  ASSUME TrustInv, SameDeliveries, UNCHANGED <<setup, proc, file, admin>>
  PROVE  CopiesAgree' /\ AcceptedPinned' /\ \A i \in DOMAIN handlers' : Genuine(handlers'[i].env)
<1>1. CopiesAgree'
  BY DEF TrustInv, CopiesAgree, SamePin
<1>2. AcceptedPinned'
  BY DEF TrustInv, AcceptedPinned, SameDeliveries, Accepted
<1>3. \A i \in DOMAIN handlers' : Genuine(handlers'[i].env)
  BY DEF TrustInv, EnvelopesGenuine, SameDeliveries, Genuine
<1> QED BY <1>1, <1>2, <1>3

-----------------------------------------------------------------------------
(* Every step keeps the invariant.                                         *)

\* A step that leaves the trust, the queue and the deliveries alone.
LEMMA Idle ==
  ASSUME TrustInv, SameDeliveries, UNCHANGED <<trustVars, queue>>,
         submitted' \in Int,
         budget' \in [plain : Int, duplicates : Int, crashes : Int, faults : Int]
  PROVE  TrustInv'
<1>1. TrustTypes'
  BY DEF TrustInv, TrustTypes, SameDeliveries, trustVars
<1>2. CopiesAgree' /\ AcceptedPinned' /\ EnvelopesGenuine'
  BY TrustUndisturbed DEF TrustInv, EnvelopesGenuine, trustVars
<1> QED BY <1>1, <1>2 DEF TrustInv

\* A step that adds a submission to the queue.
LEMMA Queued ==
  ASSUME TrustInv, SameDeliveries, UNCHANGED trustVars, submitted' \in Int,
         budget' \in [plain : Int, duplicates : Int, crashes : Int, faults : Int],
         NEW e \in SignedEnvelopes, Genuine(e), queue' = Append(queue, e)
  PROVE  TrustInv'
<1>1. queue' \in Seq(SignedEnvelopes) /\ \A i \in DOMAIN queue' : Genuine(queue'[i])
  BY QueueGrows
<1>2. TrustTypes'
  BY <1>1 DEF TrustInv, TrustTypes, SameDeliveries, trustVars
<1>3. CopiesAgree' /\ AcceptedPinned' /\ EnvelopesGenuine'
  BY <1>1, TrustUndisturbed DEF EnvelopesGenuine, trustVars
<1> QED BY <1>2, <1>3 DEF TrustInv

\* The coroutine of one handler, up to the submission of the next occurrence.
LEMMA HandlerStep ==
  ASSUME TrustInv, NEW i \in DOMAIN handlers, Handle(i) \/ Fault(i)
  PROVE  TrustInv'
<1> DEFINE h == handlers[i]
<1>1. h \in Handlers /\ now \in Int /\ now + setup.interval \in Int
  BY ScheduleAssumption DEF TrustInv, TrustTypes
<1>2. submitted \in Int /\ budget \in [plain : Int, duplicates : Int, crashes : Int, faults : Int]
  BY DEF TrustInv, TrustTypes
<1>3. ASSUME NEW pc \in Live \cup Ends, Goto(i, pc) PROVE SameDeliveries
  <2>1. [h EXCEPT !.pc = pc] \in Handlers
    BY <1>1 DEF Handlers
  <2> QED BY <2>1, <1>1, <1>3, HandlerMoves DEF Goto, Handlers
<1>4. CASE Acquire(i) \/ Unbuildable(i) \/ Finish(i) \/ Nack(i)
  BY <1>2, <1>3, <1>4, Idle DEF Acquire, Unbuildable, Finish, Nack, Live, Ends
<1>5. CASE Check(i)
  <2>1. [h EXCEPT !.pc = "run", !.start = now] \in Handlers
    BY <1>1 DEF Handlers, Time, Live
  <2>2. SameDeliveries
    BY <1>1, <1>3, <1>5, <2>1, HandlerMoves DEF Check, Ends, Handlers
  <2> QED BY <1>2, <1>5, <2>2, Idle DEF Check
<1>6. CASE Record(i)
  <2>1. [h EXCEPT !.pc = "limits", !.cooled = now] \in Handlers
    BY <1>1 DEF Handlers, Time, Live
  <2>2. SameDeliveries
    BY <1>1, <1>6, <2>1, HandlerMoves DEF Record, Handlers
  <2> QED BY <1>2, <1>6, <2>2, Idle DEF Record
<1>7. CASE Limits(i)
  <2>1. PICK end \in Live \cup Ends :
          handlers' = [handlers EXCEPT ![i].pc = end, ![i].next = now + setup.interval]
    BY <1>7 DEF Limits, Live, Ends
  <2>2. [h EXCEPT !.pc = end, !.next = now + setup.interval] \in Handlers
    BY <1>1 DEF Handlers, Time
  <2>3. SameDeliveries
    BY <1>1, <2>1, <2>2, HandlerMoves DEF Handlers
  <2> QED BY <1>2, <1>7, <2>3, Idle DEF Limits
<1>8. CASE Resubmit(i)
  <2>1. SameDeliveries
    BY <1>3, <1>8 DEF Resubmit, Ends
  <2>2. Occurrence(submitted + 1, h.env.task.n + 1, h.next, h.env.task.left - 1) \in Tasks
    BY <1>1, <1>2 DEF Occurrence, Tasks, Handlers, SignedEnvelopes
  <2>3. proc.root \in RootKeys /\ "worker" \in Roles
    BY DEF TrustInv, TrustTypes, Roles
  <2> QED BY <1>2, <1>8, <2>1, <2>2, <2>3, EncodedGenuine, Queued DEF Resubmit
<1>9. CASE Fault(i)
  <2>1. SameDeliveries
    BY <1>3, <1>9 DEF Fault, Ends
  <2>2. budget' \in [plain : Int, duplicates : Int, crashes : Int, faults : Int]
    BY <1>2, <1>9 DEF Fault
  <2> QED BY <1>2, <1>9, <2>1, <2>2, Idle DEF Fault
<1> QED BY <1>4, <1>5, <1>6, <1>7, <1>8, <1>9 DEF Handle

\* The client submits, cancels and polls; an envelope comes twice; time passes.
LEMMA ClientStep ==
  ASSUME TrustInv, PairInv,
         \/ SubmitRecurring \/ SubmitRemote \/ CancelSchedule \/ PollFlag \/ PutFlagBack
         \/ Duplicate \/ Tick \/ PairFirst \/ UNCHANGED vars
  PROVE  TrustInv'
<1>1. /\ submitted \in Int /\ now \in Int
      /\ budget \in [plain : Int, duplicates : Int, crashes : Int, faults : Int]
      /\ setup.runs \in Int
  BY ScheduleAssumption DEF TrustInv, TrustTypes
<1>2. UNCHANGED handlers => SameDeliveries
  BY DEF TrustInv, TrustTypes, SameDeliveries
<1>3. "client" \in Roles /\ RootToken("client") \in RootKeys
  BY TokenTyped DEF Roles
<1>4. CASE SubmitRecurring
  <2>1. Occurrence(1, 1, now, setup.runs) \in Tasks
    BY <1>1 DEF Occurrence, Tasks, Time
  <2> DEFINE e == Encode(Occurrence(1, 1, now, setup.runs), "client", RootToken("client"))
  <2>2. e \in SignedEnvelopes /\ Genuine(e)
    BY <1>3, <2>1, EncodedGenuine
  <2>3. queue' \in Seq(SignedEnvelopes) /\ \A i \in DOMAIN queue' : Genuine(queue'[i])
    <3> HIDE DEF e
    <3>1. queue' = <<e>>
      BY <1>4 DEF SubmitRecurring, e
    <3> QED BY <2>2, <3>1
  <2>4. TrustTypes'
    BY <1>4, <2>3 DEF SubmitRecurring, TrustInv, TrustTypes, trustVars
  <2>5. CopiesAgree' /\ AcceptedPinned' /\ EnvelopesGenuine'
    BY <1>2, <1>4, <2>3, TrustUndisturbed DEF SubmitRecurring, EnvelopesGenuine, trustVars
  <2> QED BY <2>4, <2>5 DEF TrustInv
<1>5. CASE SubmitRemote
  <2>1. Occurrence(submitted + 1, 0, now, 0) \in Tasks
    BY <1>1 DEF Occurrence, Tasks, Time
  <2>2. budget' \in [plain : Int, duplicates : Int, crashes : Int, faults : Int]
    BY <1>1, <1>5 DEF SubmitRemote
  <2> QED BY <1>1, <1>2, <1>3, <1>5, <2>1, <2>2, EncodedGenuine, Queued DEF SubmitRemote
<1>6. CASE CancelSchedule \/ PollFlag \/ PutFlagBack
  BY <1>1, <1>2, <1>6, Idle DEF CancelSchedule, PollFlag, PutFlagBack
<1>7. CASE Duplicate
  <2>1. PICK e \in {queue[i] : i \in DOMAIN queue} \cup {handlers[i].env : i \in DOMAIN handlers} :
          queue' = Append(queue, e)
    BY <1>7 DEF Duplicate
  <2>2. e \in SignedEnvelopes /\ Genuine(e)
    <3>1. ASSUME NEW i \in DOMAIN queue PROVE queue[i] \in SignedEnvelopes /\ Genuine(queue[i])
      BY DEF TrustInv, TrustTypes, EnvelopesGenuine
    <3>2. ASSUME NEW i \in DOMAIN handlers
          PROVE  handlers[i].env \in SignedEnvelopes /\ Genuine(handlers[i].env)
      <4>1. handlers[i] \in Handlers
        BY DEF TrustInv, TrustTypes
      <4>2. handlers[i].env \in SignedEnvelopes
        BY <4>1 DEF Handlers
      <4> QED BY <4>2 DEF TrustInv, EnvelopesGenuine
    <3> QED BY <2>1, <3>1, <3>2, Zenon
  <2>3. budget' \in [plain : Int, duplicates : Int, crashes : Int, faults : Int]
    BY <1>1, <1>7 DEF Duplicate
  <2> QED BY <1>1, <1>2, <1>7, <2>1, <2>2, <2>3, Queued DEF Duplicate
<1>8. CASE Tick
  <2>1. UNCHANGED <<setup, seed, proc, file, admin, queue, handlers, submitted, budget>> /\ now' \in Int
    BY <1>1, <1>8 DEF Tick, schedVars
  <2>2. TrustTypes'
    BY <2>1 DEF TrustInv, TrustTypes
  <2>3. CopiesAgree' /\ AcceptedPinned' /\ EnvelopesGenuine'
    BY <1>2, <2>1, TrustUndisturbed DEF TrustInv, EnvelopesGenuine
  <2> QED BY <2>2, <2>3 DEF TrustInv
<1>9. CASE PairFirst \/ UNCHANGED vars
  BY <1>1, <1>2, <1>9, Idle DEF PairFirst, vars, trustVars, schedVars
<1> QED BY <1>4, <1>5, <1>6, <1>7, <1>8, <1>9

\* An envelope is taken from the queue and verified.  A client that is new to
\* the worker is new to the file, and is pinned in both at once.
LEMMA DeliverStep ==
  ASSUME TrustInv, Deliver
  PROVE  TrustInv'
<1> DEFINE e == Head(queue)
           n == Len(handlers) + 1
           h == [env |-> e, verdict |-> Verdict(e), era |-> budget.crashes, next |-> None,
                 pc |-> IF Verdict(e) = "accepted" THEN "sleep" ELSE "refused",
                 start |-> None, cooled |-> None]
<1>1. /\ e \in SignedEnvelopes /\ Genuine(e)
      /\ queue' \in Seq(SignedEnvelopes) /\ \A i \in DOMAIN queue' : Genuine(queue'[i])
  <2>1. queue \in Seq(SignedEnvelopes) /\ queue # <<>> /\ queue' = Tail(queue)
    BY DEF Deliver, TrustInv, TrustTypes
  <2>2. e = queue[1] /\ 1 \in DOMAIN queue
    BY <2>1
  <2>3. \A i \in DOMAIN Tail(queue) : i + 1 \in DOMAIN queue /\ Tail(queue)[i] = queue[i + 1]
    BY <2>1
  <2> QED BY <2>1, <2>2, <2>3 DEF TrustInv, EnvelopesGenuine
<1>2. Verdict(e) \in Verdicts
  BY DEF Verdict, Verdicts
<1>3. h \in Handlers
  BY <1>1, <1>2 DEF TrustInv, TrustTypes, Handlers, Time, Live, Ends
<1>4. /\ handlers' \in Seq(Handlers) /\ DOMAIN handlers' = DOMAIN handlers \cup {n}
      /\ \A i \in DOMAIN handlers : handlers'[i] = handlers[i]
      /\ handlers'[n] = h
  <2> HIDE DEF h
  <2>1. handlers \in Seq(Handlers) /\ handlers' = Append(handlers, h)
    BY DEF Deliver, TrustInv, TrustTypes, h
  <2> QED BY <1>3, <2>1
<1>5. EnvelopesGenuine'
  BY <1>1, <1>4 DEF TrustInv, EnvelopesGenuine
<1>6. /\ Verify(e) /\ proc.up
      /\ UNCHANGED <<setup, now, seed, admin, submitted, budget>>
  BY DEF Deliver
<1>7. /\ Register(e) \in Registries \/ Verdict(e) # "accepted" \/ proc.root = None
      /\ file' \in Registries
      /\ proc' \in [up : BOOLEAN, root : RootKeys, known : Registries, nonces : {proc'.nonces}]
      /\ proc'.up = proc.up /\ proc'.root = proc.root
  <2>1. proc \in [up : BOOLEAN, root : RootKeys, known : Registries, nonces : {proc.nonces}]
        /\ file \in Registries
    BY DEF TrustInv, TrustTypes
  <2>2. CASE proc.root = None
    BY <1>6, <2>1, <2>2 DEF Verify
  <2>3. CASE proc.root # None
    <3>1. Verdict(e) = "accepted" => e.key # None
      BY <2>3 DEF Verdict
    <3>2. Verdict(e) = "accepted" => e.client \in Roles /\ e.pubkey \in 0..2
      BY <1>1, <3>1 DEF Genuine
    <3>3. Verdict(e) = "accepted" => Register(e) \in Registries
      BY <2>1, <3>2 DEF Register, Registries, ClientEntry
    <3> QED BY <1>6, <2>1, <2>3, <3>3 DEF Verify
  <2> QED BY <2>2, <2>3
<1>8. TrustTypes'
  BY <1>1, <1>4, <1>6, <1>7 DEF TrustInv, TrustTypes
<1>9. ASSUME setup.signing
      PROVE  /\ SamePin(proc'.known, file')
             /\ file["client"] # None => SamePin(file, file')
             /\ Verdict(e) = "accepted" =>
                  /\ e.key # None
                  /\ e.client = "client" =>
                       file'["client"] # None /\ file'["client"].pubkey = e.pubkey
  <2>1. proc.root # None /\ SamePin(proc.known, file)
    BY <1>6, <1>9 DEF TrustInv, CopiesAgree
  <2>2. proc.known \in Registries /\ file \in Registries
        /\ proc \in [up : BOOLEAN, root : RootKeys, known : Registries, nonces : {proc.nonces}]
    BY DEF TrustInv, TrustTypes
  <2>3. CASE Verdict(e) # "accepted"
    BY <1>6, <2>1, <2>2, <2>3 DEF Verify, SamePin
  <2>4. CASE Verdict(e) = "accepted"
    <3>1. e.key # None /\ e.client \in Roles /\ e.pubkey \in 0..2
      BY <1>1, <2>1, <2>4 DEF Verdict, Genuine
    <3>2. proc.known[e.client] # None => proc.known[e.client].pubkey = e.pubkey
      BY <2>1, <2>4 DEF Verdict
    <3>3. proc'.known = Register(e) /\ file' = Register(e)
      BY <1>6, <2>1, <2>2, <2>4 DEF Verify
    <3>4. /\ Register(e)["client"] # None \/ e.client # "client"
          /\ proc.known["client"] # None => Register(e)["client"] = proc.known["client"]
          /\ e.client = "client" => Register(e)["client"].pubkey = e.pubkey
      <4> DEFINE pin == [pubkey |-> e.pubkey, revoked |-> FALSE]
      <4>1. pin \in ClientEntry /\ pin # None /\ pin.pubkey = e.pubkey
        <5> HIDE DEF e
        <5>1. pin \in ClientEntry
          BY <3>1 DEF ClientEntry
        <5>2. None \notin ClientEntry
          BY EnvelopeAssumption
        <5> QED BY <5>1, <5>2
      <4>2. proc.known[e.client] = None => Register(e) = [proc.known EXCEPT ![e.client] = pin]
        BY DEF Register
      <4>3. proc.known[e.client] # None => Register(e) = proc.known
        BY DEF Register
      <4>4. proc.known \in [Roles -> {None} \cup ClientEntry]
        BY <2>2 DEF Registries
      <4> HIDE DEF e, pin
      <4> QED BY <3>1, <3>2, <4>1, <4>2, <4>3, <4>4 DEF Roles
    <3>5. file["client"] # None =>
            Register(e)["client"] # None /\ Register(e)["client"].pubkey = file["client"].pubkey
      BY <2>1, <3>4 DEF SamePin
    <3> HIDE DEF e
    <3> QED BY <3>1, <3>3, <3>4, <3>5 DEF SamePin
  <2> QED BY <2>3, <2>4
<1>10. CopiesAgree'
  BY <1>6, <1>7, <1>9 DEF TrustInv, CopiesAgree, SamePin
<1>11. AcceptedPinned'
  <2> SUFFICES ASSUME setup.signing, NEW i \in Accepted'
      PROVE  /\ handlers'[i].env.key # None
             /\ handlers'[i].env.client = "client" =>
                  file'["client"] # None /\ file'["client"].pubkey = handlers'[i].env.pubkey
    BY <1>6 DEF AcceptedPinned
  <2>1. CASE i \in DOMAIN handlers
    <3>1. i \in Accepted /\ handlers'[i].env = handlers[i].env
      BY <1>4, <2>1 DEF Accepted
    <3> QED BY <1>9, <3>1 DEF TrustInv, AcceptedPinned, SamePin
  <2>2. CASE i = n
    BY <1>4, <1>9, <2>2 DEF Accepted
  <2> QED BY <1>4, <2>1, <2>2 DEF Accepted
<1> QED BY <1>5, <1>8, <1>10, <1>11 DEF TrustInv

\* The worker starts with the file, dies with what it kept; an identity is
\* replaced; the administrator reads the file and writes it back.
LEMMA ProcessStep ==
  ASSUME TrustInv, PairInv, Serve \/ Crash \/ Beside
  PROVE  TrustInv'
<1>1. /\ proc \in [up : BOOLEAN, root : RootKeys, known : Registries, nonces : {proc.nonces}]
      /\ file \in Registries
      /\ admin \in [pc : {"idle", "loaded", "done"}, known : Registries, revoked : BOOLEAN]
      /\ Nobody \in Registries /\ None \in RootKeys
  BY DEF TrustInv, TrustTypes, Nobody, Registries, RootKeys, SharedKeys
<1>2. UNCHANGED handlers => SameDeliveries
  BY DEF TrustInv, TrustTypes, SameDeliveries
<1>3. CASE Serve
  <2>1. UNCHANGED <<setup, now, seed, file, admin, queue, handlers, submitted, budget>>
        /\ proc'.known \in Registries
    BY <1>1, <1>3 DEF Serve, StartWorker, schedVars
  <2>2. RootToken("worker") \in RootKeys
    BY TokenTyped DEF Roles
  <2>3. TrustTypes'
    BY <1>1, <1>3, <2>1, <2>2 DEF Serve, StartWorker, TrustInv, TrustTypes
  <2>4. CopiesAgree'
    BY <1>3, <2>1 DEF Serve, StartWorker, TrustInv, CopiesAgree, SamePin
  <2>5. EnvelopesGenuine' /\ AcceptedPinned'
    BY <2>1 DEF TrustInv, EnvelopesGenuine, AcceptedPinned, Accepted
  <2> QED BY <2>3, <2>4, <2>5 DEF TrustInv
<1>4. CASE Crash
  <2>1. UNCHANGED <<setup, now, seed, file, admin, queue, submitted>> /\ proc' = StopProcess
    BY <1>4 DEF Crash
  <2>2. SameDeliveries
    <3>1. \A i \in DOMAIN handlers : handlers[i] \in Handlers
      BY DEF TrustInv, TrustTypes
    <3>2. \A i \in DOMAIN handlers : [handlers[i] EXCEPT !.pc = "lost"] \in Handlers
      BY <3>1 DEF Handlers, Ends
    <3>3. DOMAIN handlers = 1..Len(handlers) /\ Len(handlers) \in Nat
      BY DEF TrustInv, TrustTypes
    <3>4. DOMAIN handlers' = DOMAIN handlers /\ \A i \in DOMAIN handlers :
             /\ handlers'[i] \in Handlers
             /\ handlers'[i].env = handlers[i].env /\ handlers'[i].verdict = handlers[i].verdict
      BY <1>4, <3>1, <3>2 DEF Crash, Handlers
    <3>5. handlers' = [i \in 1..Len(handlers) |-> handlers'[i]]
      BY <1>4, <3>3 DEF Crash
    <3>6. handlers' \in [1..Len(handlers) -> Handlers]
      BY <3>3, <3>4, <3>5
    <3>7. handlers' \in Seq(Handlers)
      BY <3>3, <3>6
    <3> QED BY <3>4, <3>7 DEF SameDeliveries
  <2>3. budget' \in [plain : Int, duplicates : Int, crashes : Int, faults : Int]
    <3>1. budget' = [budget EXCEPT !.crashes = @ - 1]
      BY <1>4 DEF Crash
    <3> QED BY <3>1 DEF TrustInv, TrustTypes
  <2>4. proc' \in [up : BOOLEAN, root : RootKeys, known : Registries, nonces : {proc'.nonces}]
        /\ ~proc'.up
    BY <1>1, <2>1 DEF StopProcess
  <2>5. TrustTypes'
    BY <2>1, <2>2, <2>3, <2>4 DEF TrustInv, TrustTypes, SameDeliveries
  <2>6. CopiesAgree'
    BY <2>1, <2>4 DEF TrustInv, CopiesAgree
  <2>7. AcceptedPinned' /\ EnvelopesGenuine'
    BY <2>1, <2>2 DEF TrustInv, AcceptedPinned, EnvelopesGenuine, SameDeliveries, Accepted, Genuine
  <2> QED BY <2>5, <2>6, <2>7 DEF TrustInv
<1>5. CASE Beside
  <2>1. UNCHANGED <<setup, now, proc, queue, handlers, submitted, budget>>
    BY <1>5 DEF Beside, ReplaceIdentity, AdminNext, AdminLoad, AdminSave, schedVars
  <2>2. CASE ReplaceIdentity
    BY <1>2, <2>1, <2>2, TrustUndisturbed
    DEF ReplaceIdentity, TrustInv, TrustTypes, EnvelopesGenuine
  <2>3. CASE AdminLoad
    <3>1. admin'.pc = "loaded" /\ admin'.known = file /\ UNCHANGED <<seed, file>>
      BY <2>3 DEF AdminLoad
    <3>2. TrustTypes'
      BY <1>1, <2>1, <2>3 DEF AdminLoad, TrustInv, TrustTypes
    <3>3. CopiesAgree' /\ AcceptedPinned' /\ EnvelopesGenuine'
      BY <2>1, <3>1
      DEF TrustInv, CopiesAgree, SamePin, AcceptedPinned, EnvelopesGenuine, Accepted
    <3> QED BY <3>2, <3>3 DEF TrustInv
  <2>4. CASE AdminSave
    <3> DEFINE entry == admin.known["client"]
    <3>1. admin.pc = "loaded" /\ admin'.pc = "done" /\ UNCHANGED seed
      BY <2>4 DEF AdminSave
    <3>2. file' = file \/ (entry # None /\ file' = [admin.known EXCEPT !["client"] =
                                                    [entry EXCEPT !.revoked = admin.revoked]])
      BY <2>4 DEF AdminSave
    <3>3. file' \in Registries /\ (setup.signing => SamePin(file', file))
      <4>1. CASE file' = file
        BY <1>1, <4>1 DEF SamePin
      <4>2. CASE entry # None /\ file' = [admin.known EXCEPT !["client"] =
                                             [entry EXCEPT !.revoked = admin.revoked]]
        <5>1. entry \in ClientEntry /\ "client" \in Roles
          BY <1>1, <4>2 DEF Registries, Roles
        <5>2. /\ [entry EXCEPT !.revoked = admin.revoked] \in ClientEntry
              /\ [entry EXCEPT !.revoked = admin.revoked].pubkey = entry.pubkey
          BY <1>1, <5>1 DEF ClientEntry
        <5>3. file' \in Registries /\ file'["client"] = [entry EXCEPT !.revoked = admin.revoked]
          BY <1>1, <4>2, <5>1, <5>2 DEF Registries
        <5> QED BY <3>1, <4>2, <5>2, <5>3, EnvelopeAssumption DEF TrustInv, CopiesAgree, SamePin
      <4> QED BY <3>2, <4>1, <4>2
    <3>4. TrustTypes'
      BY <1>1, <2>1, <2>4, <3>1, <3>3 DEF AdminSave, TrustInv, TrustTypes
    <3>5. CopiesAgree' /\ AcceptedPinned' /\ EnvelopesGenuine'
      BY <2>1, <3>1, <3>3
      DEF TrustInv, CopiesAgree, SamePin, AcceptedPinned, EnvelopesGenuine, Accepted
    <3> QED BY <3>4, <3>5 DEF TrustInv
  <2> QED BY <1>5, <2>2, <2>3, <2>4 DEF Beside, AdminNext
<1> QED BY <1>3, <1>4, <1>5

\* Every step keeps the invariant.
LEMMA TrustStep == TrustInv /\ PairInv /\ [Next]_vars => TrustInv'
BY HandlerStep, ClientStep, DeliverStep, ProcessStep DEF Next

\* All that a signing worker accepts of one client_id was signed with one
\* key (KnownClients.register_or_verify), over any restarts of the worker,
\* any replacement of the client's identity, and whatever the commands
\* `offwork clients approve' and `revoke' write in between.
THEOREM KeyPinned == Spec => []OnePin
<1>1. TrustInv => OnePin
  <2> SUFFICES ASSUME TrustInv, setup.signing, NEW i \in Accepted, NEW j \in Accepted,
                      handlers[i].env.client = handlers[j].env.client
               PROVE  handlers[i].env.pubkey = handlers[j].env.pubkey
    BY DEF OnePin
  <2>1. ASSUME NEW k \in Accepted
        PROVE  /\ handlers[k].env.client \in Roles
               /\ handlers[k].env.client = "worker" => handlers[k].env.pubkey = 0
               /\ handlers[k].env.client = "client" =>
                    file["client"].pubkey = handlers[k].env.pubkey
    BY DEF TrustInv, AcceptedPinned, EnvelopesGenuine, Genuine, Accepted
  <2>2. handlers[i].env.client \in {"worker", "client"}
    BY <2>1 DEF Roles
  <2>3. CASE handlers[i].env.client = "worker"
    <3>1. handlers[i].env.pubkey = 0 /\ handlers[j].env.pubkey = 0
      BY <2>1, <2>3
    <3> QED BY <3>1
  <2>4. CASE handlers[i].env.client = "client"
    <3>1. /\ file["client"].pubkey = handlers[i].env.pubkey
          /\ file["client"].pubkey = handlers[j].env.pubkey
      BY <2>1, <2>4
    <3> QED BY <3>1
  <2> QED BY <2>2, <2>3, <2>4
<1>2. Init => PairInit
  BY DEF Init
<1> QED BY <1>1, <1>2, TrustInitially, TrustStep, PairInitially, PairStep, PairingWithin, PTL DEF Spec
=============================================================================
