------------------------ MODULE MCPaymentOperations ------------------------
(* Instances of PaymentOperations for TLC.                                 *)
EXTENDS PaymentOperations

CONSTANTS p1, p2, k1, k2, k3, merchant, clearing, foreign

Req(k, p, op, from, to) ==
  [key |-> k, payment |-> p, operation |-> op, source |-> from, destination |-> to]

\* Two payments, two keys whose hashes collide and one apart.  p1 can be
\* captured under either key, refunded and reversed; k1 can be reused for p2;
\* one capture names an account of another currency.
MCRequests ==
  {Req(k1, p1, "capture", clearing, merchant),
   Req(k2, p1, "capture", clearing, merchant),
   Req(k3, p1, "refund", merchant, clearing),
   Req(k3, p1, "reversal", merchant, clearing),
   Req(k1, p2, "capture", clearing, merchant),
   Req(k2, p1, "capture", clearing, foreign)}

MCAmount == [p \in Payments |-> 1]
MCPaymentCurrency == [p \in Payments |-> "USD"]
MCAccountCurrency == [a \in Accounts |-> IF a = foreign THEN "EUR" ELSE "USD"]
MCHashText == [k \in Keys |-> IF k = k3 THEN 2 ELSE 1]
=============================================================================
