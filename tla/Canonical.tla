------------------------------ MODULE Canonical ------------------------------
(***************************************************************************)
(* The canonical authorization request (app/canonical.py), its mappings    *)
(* from and to ISO 8583 messages (app/iso8583_adapter.py) and ISO 20022    *)
(* authorizations (app/iso20022.py), and the route it takes                *)
(* (NetworkRouter of app/network_routing.py).                              *)
(*                                                                         *)
(* Texts are sequences of bytes as in Iso8583.  An amount is the sequence  *)
(* of its digits without leading zeros, empty for zero.  icc_data is       *)
(* None where the code has None.                                           *)
(***************************************************************************)
EXTENDS Iso8583

CONSTANTS
  CurrencyOf,  \* NUMERIC_TO_ALPHA_CURRENCY
  Routes,      \* the router's IssuerRoutes: prefix and currencies
  None

ASSUME MappingAssumption ==
  /\ DOMAIN CurrencyOf \subseteq [1..3 -> Digits]
  /\ \A m, n \in DOMAIN CurrencyOf : CurrencyOf[m] = CurrencyOf[n] => m = n
  /\ Len(Routes) \in Nat \ {0} /\ DOMAIN Routes = 1..Len(Routes)
  /\ \A i \in DOMAIN Routes :
       /\ Routes[i].prefix # <<>> /\ Routes[i].prefix \in Seq(Digits)
       /\ Routes[i].currencies # {}
  /\ Rejected \notin DOMAIN Routes
  /\ \A n \in 0..999 : None \notin [1..n -> Byte]  \* the limit of an LLLVAR

-----------------------------------------------------------------------------
(* app/canonical.py *)

ValidPan(pan) == Len(pan) \in 12..19 /\ AllIn(pan, Digits)

ValidCorrelation(stan, rrn) ==
  Len(stan) = 6 /\ AllIn(stan, Digits) /\ Len(rrn) = 12 /\ AllIn(rrn, Printable)

AuthorizationRequest ==
  [amount_minor : {digits \in Seq(Digits) : digits # <<>> => digits[1] # 48},
   currency : STRING, merchant_id : Seq(Byte), terminal_id : Seq(Byte), pan : Seq(Byte),
   icc_data : {None} \union Seq(Byte), stan : Seq(Byte), rrn : Seq(Byte)]

\* What the constructors of AuthorizationRequest and its parts accept.
ValidRequest(r) ==
  /\ ValidPan(r.pan) /\ r.icc_data # <<>>
  /\ ValidCorrelation(r.stan, r.rrn)
  /\ r.amount_minor # <<>>
  /\ r.merchant_id # <<>> /\ r.terminal_id # <<>>

-----------------------------------------------------------------------------
(* app/iso8583_adapter.py *)

Purchase == [i \in 1..6 |-> 48]  \* DE3 000000
AuthorizationMti == <<48, 50, 48, 48>>

BugStripsEveryZero(digits) == SelectSeq(digits, LAMBDA d : d # 48)
Significant(digits) ==
  LET leading == {i \in 0..Len(digits) : \A j \in 1..i : digits[j] = 48}
  IN  SubSeq(digits, Max(leading) + 1, Len(digits))

ZeroPadded(digits, width) == [i \in 1..width - Len(digits) |-> 48] \o digits

RequiredText == {2, 3, 4, 11, 37, 41, 42, 49}

\* authorization_from_iso8583: the request, or Rejected
FromIso8583(message) ==
  LET de == message.fields
      request ==
        [amount_minor |-> Significant(de[4]), currency |-> CurrencyOf[de[49]],
         merchant_id |-> de[42], terminal_id |-> de[41], pan |-> de[2],
         icc_data |-> IF 55 \in DOMAIN de THEN de[55] ELSE None,
         stan |-> de[11], rrn |-> de[37]]
  IN  IF /\ message.mti = AuthorizationMti
         /\ RequiredText \subseteq DOMAIN de
         /\ de[3] = Purchase /\ de[49] \in DOMAIN CurrencyOf
         /\ ValidRequest(request)
      THEN request ELSE Rejected

\* authorization_to_iso8583: the message, or Rejected
ToIso8583(r) ==
  LET numeric == CHOOSE n \in DOMAIN CurrencyOf : CurrencyOf[n] = r.currency
      icc == IF r.icc_data = None THEN {} ELSE {55}
  IN  IF /\ \E n \in DOMAIN CurrencyOf : CurrencyOf[n] = r.currency
         /\ Len(r.amount_minor) <= 12
         /\ Len(r.terminal_id) = 8 /\ Len(r.merchant_id) = 15
      THEN [mti |-> AuthorizationMti,
            fields |-> [n \in RequiredText \union icc |->
                          CASE n = 2 -> r.pan          [] n = 3 -> Purchase
                            [] n = 4 -> ZeroPadded(r.amount_minor, 12)
                            [] n = 11 -> r.stan        [] n = 37 -> r.rrn
                            [] n = 41 -> r.terminal_id [] n = 42 -> r.merchant_id
                            [] n = 49 -> numeric       [] n = 55 -> r.icc_data]]
      ELSE Rejected

-----------------------------------------------------------------------------
(* app/iso20022.py *)

Blank(text) == AllIn(text, {32})

\* authorization_to_iso20022: the projection and its losses, or Rejected
BugIccLossSilent(r) == {"stan_is_network_specific"}
Losses(r) ==
  {"stan_is_network_specific"}
    \union (IF r.icc_data = None THEN {} ELSE {"icc_data_not_projected"})

ToIso20022(r, message_id) ==
  IF Blank(message_id) \/ Blank(r.rrn) \/ Blank(r.merchant_id) \/ Blank(r.terminal_id)
  THEN Rejected
  ELSE [authorization |->
          [message_id |-> message_id,
           transaction_id |-> r.rrn, amount_minor |-> r.amount_minor, currency |-> r.currency,
           merchant_id |-> r.merchant_id, terminal_id |-> r.terminal_id, pan |-> r.pan],
        losses |-> Losses(r)]

\* authorization_from_iso20022
FromIso20022(a, stan) ==
  LET request ==
        [amount_minor |-> a.amount_minor, currency |-> a.currency, merchant_id |-> a.merchant_id,
         terminal_id |-> a.terminal_id, pan |-> a.pan, icc_data |-> None,
         stan |-> stan, rrn |-> a.transaction_id]
  IN  IF ValidRequest(request) THEN request ELSE Rejected

-----------------------------------------------------------------------------
(* NetworkRouter.route *)

BugCurrencyIgnored(r) == {i \in DOMAIN Routes : IsPrefix(Routes[i].prefix, r.pan)}
Eligible(r) ==
  {i \in DOMAIN Routes :
     IsPrefix(Routes[i].prefix, r.pan) /\ r.currency \in Routes[i].currencies}

MostSpecific(routes) ==
  {i \in routes : \A j \in routes : Len(Routes[j].prefix) <= Len(Routes[i].prefix)}

\* The index of the route, or Rejected: no route, or an ambiguous one
Route(r) ==
  LET best == MostSpecific(Eligible(r))
  IN  IF Cardinality(best) = 1 THEN CHOOSE i \in best : TRUE ELSE Rejected
=============================================================================
