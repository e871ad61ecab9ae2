-------------------------- MODULE PaymentContract --------------------------
(***************************************************************************)
(* InMemoryPaymentRepository (app/repository.py): creation of a payment    *)
(* under an optional idempotency key, whole under one lock.  Its docstring *)
(* says it "preserves the same atomic contract as durable stores", so this *)
(* module is the contract that PaymentRepository implements.               *)
(*                                                                         *)
(* A caller calls, the repository acts once, the caller gets the outcome:  *)
(* a payment as it stands at that moment, or a conflict.                   *)
(***************************************************************************)
CONSTANTS
  Callers, Keys, Ids,
  CallKeys,   \* what callers pass as key: some of Keys, and NoKey
  Bodies,     \* CreatePaymentRequest values; the fingerprint tells them apart
  NoKey,      \* no Idempotency-Key, or an empty one
  None

VARIABLES
  payments,   \* _payments: the payment under each identifier
  claims,     \* _idempotency: fingerprint and payment id of each key
  phase,      \* "idle", "called", "done"
  args,       \* the arguments of the call
  outcome     \* what the call returns or raises

vars == <<payments, claims, phase, args, outcome>>

Statuses == {"pending", "moved"}

Returned(id, payment) == [result |-> "payment", id |-> id, payment |-> payment]
Conflict == [result |-> "conflict"]

Init ==
  /\ payments = [id \in Ids |-> None]
  /\ claims = [k \in Keys |-> None]
  /\ phase = [c \in Callers |-> "idle"]
  /\ args = [c \in Callers |-> None]
  /\ outcome = [c \in Callers |-> None]

Call(c, k, b) ==
  /\ phase[c] = "idle"
  /\ phase' = [phase EXCEPT ![c] = "called"]
  /\ args' = [args EXCEPT ![c] = [key |-> k, body |-> b]]
  /\ UNCHANGED <<payments, claims, outcome>>

Finish(c, result) ==
  /\ phase[c] = "called"
  /\ phase' = [phase EXCEPT ![c] = "done"]
  /\ outcome' = [outcome EXCEPT ![c] = result]
  /\ UNCHANGED args

\* The key is new, or there is none: a pending payment, and its claim.
Create(c, id) ==
  LET payment == [body |-> args[c].body, status |-> "pending"]
      claim == [fingerprint |-> args[c].body, payment |-> id]
  IN  /\ phase[c] = "called"
      /\ payments[id] = None
      /\ \/ args[c].key = NoKey /\ UNCHANGED claims
         \/ /\ args[c].key # NoKey
            /\ claims[args[c].key] = None
            /\ claims' = [claims EXCEPT ![args[c].key] = claim]
      /\ payments' = [payments EXCEPT ![id] = payment]
      /\ Finish(c, Returned(id, payment))

\* The key was used: the payment it made, or a conflict if the request differs.
Replay(c) ==
  /\ phase[c] = "called"
  /\ args[c].key # NoKey
  /\ LET existing == claims[args[c].key]
     IN  /\ existing # None
         /\ Finish(c, IF existing.fingerprint = args[c].body
                      THEN Returned(existing.payment, payments[existing.payment])
                      ELSE Conflict)
  /\ UNCHANGED <<payments, claims>>

\* The caller has its answer, or is gone and will never have it.
Return(c) ==
  /\ phase[c] # "idle"
  /\ phase' = [phase EXCEPT ![c] = "idle"]
  /\ args' = [args EXCEPT ![c] = None]
  /\ outcome' = [outcome EXCEPT ![c] = None]
  /\ UNCHANGED <<payments, claims>>

\* The rest of the program moves a payment on (see PaymentOperations).
Move(id) ==
  /\ payments[id] # None
  /\ payments' = [payments EXCEPT ![id].status = "moved"]
  /\ UNCHANGED <<claims, phase, args, outcome>>

Next ==
  \/ \E c \in Callers :
       \/ \E k \in CallKeys, b \in Bodies : Call(c, k, b)
       \/ \E id \in Ids : Create(c, id)
       \/ Replay(c) \/ Return(c)
  \/ \E id \in Ids : Move(id)

Spec == Init /\ [][Next]_vars
=============================================================================
