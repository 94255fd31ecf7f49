---- MODULE OrderRegistry ----
(***************************************************************************)
(* What placing an order promises to clients, whatever happens inside: a   *)
(* register per client order id that is written once.  A client asks for a *)
(* key and is answered with what the register of that key holds, or with a *)
(* failure that says nothing about the register.                           *)
(***************************************************************************)
CONSTANTS Clients, Keys, Orders, NoKey, NoOrder

VARIABLES registry,  \* the order of each key, if any
          key,       \* the key each client asked for, if any
          answer     \* what each client was answered

vars == <<registry, key, answer>>

Unanswered == [outcome |-> "none", order |-> NoOrder]
Failed == [outcome |-> "failed", order |-> NoOrder]
Answered(o) == [outcome |-> "ok", order |-> o]

Init ==
  /\ registry = [k \in Keys |-> NoOrder]
  /\ key = [c \in Clients |-> NoKey]
  /\ answer = [c \in Clients |-> Unanswered]

Ask(c, k) ==
  /\ key[c] = NoKey
  /\ answer[c] = Unanswered
  /\ key' = [key EXCEPT ![c] = k]
  /\ UNCHANGED <<registry, answer>>

\* The first order of the key is written; its client may never hear of it.
Write(c) ==
  /\ key[c] # NoKey
  /\ answer[c] = Unanswered
  /\ registry[key[c]] = NoOrder
  /\ registry'[key[c]] \in Orders
  /\ registry'[key[c]].client_order_id = key[c]
  /\ registry' = [registry EXCEPT ![key[c]] = registry'[key[c]]]
  /\ answer' \in {answer, [answer EXCEPT ![c] = Failed]}
  /\ UNCHANGED key

Answer(c) ==
  /\ key[c] # NoKey
  /\ answer[c] = Unanswered
  /\ registry[key[c]] # NoOrder
  /\ answer' = [answer EXCEPT ![c] = Answered(registry[key[c]])]
  /\ UNCHANGED <<registry, key>>

\* Some clients fail together.
Fail(failing) ==
  /\ \A c \in failing : key[c] # NoKey /\ answer[c] = Unanswered
  /\ answer' = [c \in Clients |-> IF c \in failing THEN Failed ELSE answer[c]]
  /\ UNCHANGED <<registry, key>>

Next ==
  \/ \E c \in Clients :
       \/ \E k \in Keys : Ask(c, k)
       \/ Write(c)
       \/ Answer(c)
  \/ \E failing \in SUBSET Clients : Fail(failing)

Spec == Init /\ [][Next]_vars

====
