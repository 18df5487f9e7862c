------------------------------ MODULE Envelopes ------------------------------
(* Signed task envelopes: who signs them with what, and the checks of a     *)
(* worker started with --require-signing, with the state they keep: the     *)
(* nonces seen, the known clients in memory and their file, which the       *)
(* `offwork clients' commands of another process rewrite.                   *)
EXTENDS Pairing, Integers, Sequences, FiniteSets

CONSTANTS Scenarios,     \* the settings a behaviour may run under
          Skew,          \* clock_skew
          NonceTtl       \* the ttl of NonceLRU

\* A row of the registry; the public keys are the worker's and the client's two.
ClientEntry == [pubkey : 0..2, revoked : BOOLEAN]

\* 300 and 600 seconds; nothing stops a larger --clock-skew.
ASSUME EnvelopeAssumption ==
  /\ {Skew, NonceTtl} \subseteq Nat /\ 2 * Skew <= NonceTtl
  /\ None \notin ClientEntry

VARIABLES setup,       \* the scenario: see MCSchedules
          now,         \* the worker's time.time()
          seed,        \* the client's identity.key
          proc,        \* the worker process: root_token, KnownClients, NonceLRU
          file,        \* ~/.offwork/known_clients.json of the worker
          admin        \* a process running `offwork clients'

trustVars == <<setup, now, seed, proc, file, admin>>

Roles == {"client", "worker"}

Nobody == [r \in Roles |-> None]

EnvelopeInit ==
  /\ setup \in Scenarios
  /\ now = 0
  /\ seed = 1
  /\ proc = [up |-> FALSE, root |-> None, known |-> Nobody, nonces |-> <<>>]
  /\ file = Nobody
  /\ admin = [pc |-> "idle", known |-> Nobody, revoked |-> FALSE]

----------------------------------------------------------------------------
(* Signing. *)

\* resolve_root_token: the token, or else the key of the pairing.
RootToken(role) ==
  IF setup.tokens[role] # None THEN setup.tokens[role] ELSE keys[role]

PublicKey(role) == IF role = "client" THEN seed ELSE 0

\* time.time() where the envelope is built.
Clock(role) == IF role = "client" THEN now + setup.offset ELSE now

\* _encode_task: the identifier of the task stands for its nonce as well,
\* both are drawn once for each envelope.
Encode(task, role, root) ==
  IF root = None
    THEN [task |-> task, key |-> None, client |-> None, pubkey |-> None, iat |-> 0]
    ELSE [task |-> task, key |-> root, client |-> role,
          pubkey |-> PublicKey(role), iat |-> Clock(role)]

----------------------------------------------------------------------------
(* verify_task_envelope. *)

Nonce(e) == <<e.client, e.task.id>>

\* A variant: an entry is dropped at the ttl, not after it.
EvictEarly(nonces) ==
  LET old    == {i \in DOMAIN nonces : now - nonces[i].ts >= NonceTtl}
      excess == {i \in DOMAIN nonces : i <= Len(nonces) - setup.capacity}
  IN  SubSeq(nonces, Cardinality(old \cup excess) + 1, Len(nonces))

\* The entries are in the order of their times: the ones that are too old,
\* and the ones in excess, are the first.
Evict(nonces) ==
  LET old    == {i \in DOMAIN nonces : now - nonces[i].ts > NonceTtl}
      excess == {i \in DOMAIN nonces : i <= Len(nonces) - setup.capacity}
  IN  SubSeq(nonces, Cardinality(old \cup excess) + 1, Len(nonces))

Seen(e) ==
  LET kept == Evict(proc.nonces) IN \E i \in DOMAIN kept : kept[i].key = Nonce(e)

IsRevoked(client) == proc.known[client] # None /\ proc.known[client].revoked

\* The steps in the order of the code: the nonce is recorded before the
\* signatures are verified.
Verdict(e) ==
  CASE proc.root = None -> "accepted"
    [] proc.root # None /\ e.key = None -> "unsigned"
    [] OTHER ->
         IF IsRevoked(e.client) THEN "revoked"
         ELSE IF now - e.iat > Skew \/ e.iat - now > Skew THEN "stale"
         ELSE IF Seen(e) THEN "replay"
         ELSE IF e.key # proc.root THEN "signature"
         ELSE IF proc.known[e.client] # None /\ proc.known[e.client].pubkey # e.pubkey
           THEN "identity"
         ELSE "accepted"

\* check_and_add: the cache after the verdict.
CheckAndAdd(e) ==
  CASE Verdict(e) \in {"unsigned", "revoked", "stale"} -> proc.nonces
    [] Verdict(e) = "replay" -> Evict(proc.nonces)
    [] OTHER -> Append(Evict(proc.nonces), [key |-> Nonce(e), ts |-> now])

\* register_or_verify: a client is pinned the first time it is accepted.
Register(e) ==
  IF proc.known[e.client] = None
    THEN [proc.known EXCEPT ![e.client] = [pubkey |-> e.pubkey, revoked |-> FALSE]]
    ELSE proc.known

\* A variant: a new client is not written to the file.
VerifyInMemory(e) ==
  /\ proc' = IF proc.root = None THEN proc
             ELSE [proc EXCEPT !.known = IF Verdict(e) = "accepted" THEN Register(e) ELSE @,
                               !.nonces = CheckAndAdd(e)]
  /\ file' = file

\* The effects of the verification; the registry is written whole.
Verify(e) ==
  IF proc.root = None THEN UNCHANGED <<proc, file>>
  ELSE LET known == IF Verdict(e) = "accepted" THEN Register(e) ELSE proc.known
       IN  /\ proc' = [proc EXCEPT !.known = known, !.nonces = CheckAndAdd(e)]
           /\ file' = IF Verdict(e) = "accepted" THEN known ELSE file

----------------------------------------------------------------------------
(* The worker process, and what happens beside it. *)

\* serve: without key material the worker exits.
StartWorker ==
  /\ ~proc.up /\ initiator.pc \in AtRest
  /\ setup.signing => RootToken("worker") # None
  /\ proc' = [up |-> TRUE, nonces |-> <<>>,
              root |-> IF setup.signing THEN RootToken("worker") ELSE None,
              known |-> IF setup.signing THEN file ELSE Nobody]
  /\ UNCHANGED <<setup, now, seed, file, admin>>

StopProcess == [proc EXCEPT !.up = FALSE, !.root = None, !.known = Nobody, !.nonces = <<>>]

\* An identity file that is not valid is replaced; client_id stays.
ReplaceIdentity ==
  /\ setup.reset /\ seed = 1
  /\ seed' = 2
  /\ UNCHANGED <<setup, now, proc, file, admin>>

\* `offwork clients revoke' and `approve' load the file, ...
AdminLoad ==
  /\ setup.admin /\ admin.pc = "idle"
  /\ \E revoked \in BOOLEAN :
       admin' = [pc |-> "loaded", known |-> file, revoked |-> revoked]
  /\ UNCHANGED <<setup, now, seed, proc, file>>

\* ... and write it whole when the flag of the client changes.  One step: the
\* temporary file, which both processes give the same name, is written and put
\* in place.  That two writers meet in it (one of them fails or, at worst, a
\* file is left that the next start takes for empty) is left out.
AdminSave ==
  /\ admin.pc = "loaded"
  /\ LET entry == admin.known["client"] IN
       file' = IF entry = None \/ entry.revoked = admin.revoked THEN file
               ELSE [admin.known EXCEPT !["client"] =
                       [entry EXCEPT !.revoked = admin.revoked]]
  /\ admin' = [pc |-> "done", known |-> Nobody, revoked |-> FALSE]
  /\ UNCHANGED <<setup, now, seed, proc>>

AdminNext == AdminLoad \/ AdminSave
=============================================================================
