-------------------------- MODULE MCReconciliation --------------------------
(* Instances of Reconciliation for TLC.                                    *)
EXTENDS Reconciliation

CONSTANTS p1, k1, k2, merchant, clearing

Req(k, op) ==
  [key |-> k, payment |-> p1, operation |-> op, source |-> clearing, destination |-> merchant]

\* One payment captured and then refunded, or reversed.
MCRequests == {Req(k1, "capture"), Req(k2, "refund"), Req(k2, "reversal")}
MCAmount == [p \in Payments |-> 1]
MCPaymentCurrency == [p \in Payments |-> "USD"]
MCAccountCurrency == [a \in Accounts |-> "USD"]
MCHashText == [k \in Keys |-> IF k = k1 THEN 1 ELSE 2]
=============================================================================
