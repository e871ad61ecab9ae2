-------------------------- MODULE PaymentLifecycle --------------------------
(***************************************************************************)
(* What the payment operations promise, without sessions, locks or         *)
(* transactions: a payment moves along the transitions of _TRANSITIONS     *)
(* (app/payment_operations.py), every move posts its journal exactly once, *)
(* and an idempotency key is spent on at most one operation.               *)
(* PaymentOperations implements this module.                               *)
(***************************************************************************)
CONSTANTS Payments, Keys, Fingerprints, None

VARIABLES status,   \* status of each payment, None before it is created
          moved,    \* the operations whose journal each payment has
          spent     \* the fingerprint each idempotency key was spent on

vars == <<status, moved, spent>>

Operations == {"capture", "refund", "reversal"}

\* PaymentStatus, less FAILED and CANCELLED, which no code assigns.
Statuses == {"pending", "authorized", "captured", "refunded", "reversed"}

\* The status an operation requires, and the one it leads to.
From == [capture |-> "authorized", refund |-> "captured", reversal |-> "authorized"]
To == [capture |-> "captured", refund |-> "refunded", reversal |-> "reversed"]

Init ==
  /\ status = [p \in Payments |-> None]
  /\ moved = [p \in Payments |-> {}]
  /\ spent = [k \in Keys |-> None]

Create(p) ==
  /\ status[p] = None
  /\ status' = [status EXCEPT ![p] = "pending"]
  /\ UNCHANGED <<moved, spent>>

Authorize(p) ==
  /\ status[p] = "pending"
  /\ status' = [status EXCEPT ![p] = "authorized"]
  /\ UNCHANGED <<moved, spent>>

Apply(k, f) ==
  /\ spent[k] = None
  /\ status[f.payment] = From[f.operation]
  /\ f.operation \notin moved[f.payment]
  /\ status' = [status EXCEPT ![f.payment] = To[f.operation]]
  /\ moved' = [moved EXCEPT ![f.payment] = @ \union {f.operation}]
  /\ spent' = [spent EXCEPT ![k] = f]

Next ==
  \/ \E p \in Payments : Create(p) \/ Authorize(p)
  \/ \E k \in Keys, f \in Fingerprints : Apply(k, f)

Spec == Init /\ [][Next]_vars
=============================================================================
