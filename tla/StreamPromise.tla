---------------------------- MODULE StreamPromise ----------------------------
(* What a stream promises to the client that iterates it: the values of the *)
(* generator, each once and in order, then the way the generator ended, and *)
(* not before the last of them.  A client that asked for the cancellation   *)
(* may be told so at any time; once the broker has let something of the     *)
(* stream expire only a normal end still vouches for every value.           *)
EXTENDS Naturals

CONSTANTS Consumers, Outcomes, None

VARIABLES emitted,    \* how many values the broker was given
          closed,     \* how the generator ended, or None
          asked,      \* cancel() was called
          expired,    \* the broker has forgotten something
          received,   \* received[c]: how many values consumer c was given
          told        \* told[c]: how its iteration ended, or None

promiseVars == <<emitted, closed, asked, expired, received, told>>

PromiseInit ==
  /\ emitted = 0 /\ closed = None /\ asked = FALSE /\ expired = FALSE
  /\ received = [c \in Consumers |-> 0]
  /\ told = [c \in Consumers |-> None]

Emit == /\ closed = None /\ emitted' = emitted + 1
        /\ UNCHANGED <<closed, asked, expired, received, told>>

Close == /\ closed = None /\ closed' \in Outcomes
         /\ UNCHANGED <<emitted, asked, expired, received, told>>

Ask == /\ asked' = TRUE
       /\ UNCHANGED <<emitted, closed, expired, received, told>>

Expire == /\ expired' = TRUE
          /\ UNCHANGED <<emitted, closed, asked, received, told>>

Receive(c) ==
  /\ told[c] = None /\ received[c] < emitted
  /\ received' = [received EXCEPT ![c] = @ + 1]
  /\ UNCHANGED <<emitted, closed, asked, expired, told>>

Tell(c) ==
  /\ told[c] = None
  /\ \/ /\ closed # None /\ told' = [told EXCEPT ![c] = closed]
        /\ received[c] = emitted \/ (expired /\ closed # "ok")
     \/ asked /\ told' = [told EXCEPT ![c] = "cancelled"]
  /\ UNCHANGED <<emitted, closed, asked, expired, received>>

PromiseNext == Emit \/ Close \/ Ask \/ Expire
                 \/ \E c \in Consumers : Receive(c) \/ Tell(c)

PromiseSpec == PromiseInit /\ [][PromiseNext]_promiseVars
=============================================================================
