------------------------------- MODULE Pairing -------------------------------
(* `offwork pair': the worker (initiator) and the client (responder) agree  *)
(* on a shared key over three slots of the backend, which keep their values *)
(* until they expire.  A session of the worker draws a fresh PIN and a      *)
(* fresh challenge, both named by the number of the session; 0 is a PIN     *)
(* typed wrongly.  An HMAC is the pair of its key and its message.          *)
EXTENDS Naturals

CONSTANTS MaxSessions,   \* sessions of the initiator, runs of the responder
          None

ASSUME PairingAssumption == MaxSessions \in Nat

VARIABLES channel,     \* the slots offwork:pairing, :response and :confirm
          session,     \* sessions started by the worker
          initiator,   \* the coroutine of initiate_pairing
          responder,   \* the coroutine of respond_to_pairing
          confirmed,   \* history: the secrets initiate_pairing returned
          keys         \* worker.key and client.key

pairVars == <<channel, session, initiator, responder, confirmed, keys>>

PairInit ==
  /\ channel = [challenge |-> None, response |-> None, confirm |-> None]
  /\ session = 0
  /\ initiator = [pc |-> "idle", pin |-> 0, challenge |-> None]
  /\ responder = [pc |-> "idle", pin |-> 0, challenge |-> None, runs |-> 0]
  /\ confirmed = {}
  /\ keys = [worker |-> None, client |-> None]

AtRest == {"idle", "paired", "failed"}

Response(pin, challenge) == <<pin, challenge>>

\* derive_shared_secret: both sides hash the PIN and the challenge.
SharedSecret(p) == <<p.pin, p.challenge>>

----------------------------------------------------------------------------
StartInitiator ==
  /\ initiator.pc \in AtRest /\ session < MaxSessions
  /\ session' = session + 1
  /\ initiator' = [pc |-> "publish", pin |-> session', challenge |-> session']
  /\ UNCHANGED <<channel, responder, keys, confirmed>>

PublishChallenge ==
  /\ initiator.pc = "publish"
  /\ channel' = [channel EXCEPT !.challenge = initiator.challenge]
  /\ initiator' = [initiator EXCEPT !.pc = "listen"]
  /\ UNCHANGED <<session, responder, keys, confirmed>>

\* A variant: the response is not compared.
ReadAnyResponse ==
  /\ initiator.pc = "listen" /\ channel.response # None
  /\ initiator' = [initiator EXCEPT !.pc = "confirm"]
  /\ UNCHANGED <<channel, session, responder, keys, confirmed>>

\* A response is in the slot: a wrong one ends the session at once.
ReadResponse ==
  /\ initiator.pc = "listen" /\ channel.response # None
  /\ initiator' = [initiator EXCEPT !.pc =
       IF channel.response = Response(initiator.pin, initiator.challenge)
         THEN "confirm" ELSE "failed"]
  /\ UNCHANGED <<channel, session, responder, keys, confirmed>>

\* The confirmation is sent, then _pair_async or _pair_then_serve saves the key.
SendConfirm ==
  /\ initiator.pc = "confirm"
  /\ channel' = [channel EXCEPT !.confirm = "confirmed"]
  /\ initiator' = [initiator EXCEPT !.pc = "save"]
  /\ confirmed' = confirmed \cup {SharedSecret(initiator)}
  /\ UNCHANGED <<session, responder, keys>>

SaveWorkerKey ==
  /\ initiator.pc = "save"
  /\ keys' = [keys EXCEPT !.worker = SharedSecret(initiator)]
  /\ initiator' = [initiator EXCEPT !.pc = "paired"]
  /\ UNCHANGED <<channel, session, responder, confirmed>>

\* The user types the PIN the worker shows, rightly or not.
StartResponder ==
  /\ responder.pc \in AtRest /\ session > 0 /\ responder.runs < MaxSessions
  /\ \E pin \in {0, session} :
       responder' = [pc |-> "look", pin |-> pin, challenge |-> None,
                     runs |-> responder.runs + 1]
  /\ UNCHANGED <<channel, session, initiator, keys, confirmed>>

ReadChallenge ==
  /\ responder.pc = "look" /\ channel.challenge # None
  /\ responder' = [responder EXCEPT !.pc = "answer", !.challenge = channel.challenge]
  /\ UNCHANGED <<channel, session, initiator, keys, confirmed>>

SendResponse ==
  /\ responder.pc = "answer"
  /\ channel' = [channel EXCEPT !.response = Response(responder.pin, responder.challenge)]
  /\ responder' = [responder EXCEPT !.pc = "confirm"]
  /\ UNCHANGED <<session, initiator, keys, confirmed>>

\* A confirmation is in the slot: the key is derived and saved.
ReadConfirm ==
  /\ responder.pc = "confirm" /\ channel.confirm # None
  /\ keys' = [keys EXCEPT !.client = SharedSecret(responder)]
  /\ responder' = [responder EXCEPT !.pc = "paired"]
  /\ UNCHANGED <<channel, session, initiator, confirmed>>

\* A deadline passes: PairingError, no key is saved.
GiveUp ==
  /\ \/ /\ initiator.pc = "listen" /\ responder' = responder
        /\ initiator' = [initiator EXCEPT !.pc = "failed"]
     \/ /\ responder.pc \in {"look", "confirm"} /\ initiator' = initiator
        /\ responder' = [responder EXCEPT !.pc = "failed"]
  /\ UNCHANGED <<channel, session, keys, confirmed>>

\* PROGRESS_TTL: what was put in a slot is there for five minutes.
ExpireSlot ==
  /\ \E f \in DOMAIN channel :
       channel[f] # None /\ channel' = [channel EXCEPT ![f] = None]
  /\ UNCHANGED <<session, initiator, responder, keys, confirmed>>

Initiate == \/ StartInitiator \/ PublishChallenge \/ ReadResponse
            \/ SendConfirm \/ SaveWorkerKey
Respond == StartResponder \/ ReadChallenge \/ SendResponse \/ ReadConfirm

PairNext == Initiate \/ Respond \/ GiveUp \/ ExpireSlot

PairSpec == PairInit /\ [][PairNext]_pairVars

----------------------------------------------------------------------------
\* respond_to_pairing raises PairingError `on timeout or if the initiator
\* rejects the response': in the first pairing, while the slots hold nothing
\* of another, the key a client saves is one the worker confirmed, so that both
\* derive the same, whatever PIN was typed, whoever gives up, whatever expires.
PairedMeansConfirmed ==
  session <= 1 /\ responder.runs <= 1 /\ keys.client # None
    => keys.client \in confirmed
=============================================================================
