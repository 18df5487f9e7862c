---------------------------- MODULE RequestPromise ----------------------------
(***************************************************************************)
(* What a connection for requests and answers promises to the coroutines   *)
(* that share it, and what it does not: a request ends once, with the      *)
(* answer to itself or with an exception; what is answered was executed;   *)
(* it is executed no more often than it is sent.  That it failed says      *)
(* nothing: it may have been executed, or still be executed later.         *)
(***************************************************************************)
EXTENDS Naturals

CONSTANTS Requests, Tries, None   \* Tries[r]: how often r may be sent

VARIABLES
  status,     \* "new", "asked", "returned" or "failed"
  ran,        \* the sendings of a request that the peer has executed
  answer      \* the request whose answer a request was given, or None

promiseVars == <<status, ran, answer>>

PromiseInit ==
  /\ status = [r \in Requests |-> "new"]
  /\ ran = [r \in Requests |-> {}]
  /\ answer = [r \in Requests |-> None]

Ask(r) ==
  /\ status[r] = "new"
  /\ status' = [status EXCEPT ![r] = "asked"]
  /\ UNCHANGED <<ran, answer>>

\* At any time after the request was made, also after it has ended.
Run(r) ==
  /\ status[r] # "new"
  /\ \E n \in 1..Tries[r] : ran' = [ran EXCEPT ![r] = @ \cup {n}]
  /\ UNCHANGED <<status, answer>>

Return(r) ==
  /\ status[r] = "asked" /\ ran[r] # {}
  /\ status' = [status EXCEPT ![r] = "returned"]
  /\ answer' = [answer EXCEPT ![r] = r]
  /\ UNCHANGED ran

\* An exception or a cancellation; over a closed connection at once.
Fail(r) ==
  /\ status[r] \in {"new", "asked"}
  /\ status' = [status EXCEPT ![r] = "failed"]
  /\ UNCHANGED <<ran, answer>>

PromiseNext == \E r \in Requests : Ask(r) \/ Run(r) \/ Return(r) \/ Fail(r)

PromiseSpec == PromiseInit /\ [][PromiseNext]_promiseVars

=============================================================================
