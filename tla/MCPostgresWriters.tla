------------------------- MODULE MCPostgresWriters -------------------------
(* Instances for TLC of the two writers of the database that share no      *)
(* table with the other modules: Ledger and JavaAuthorization.  Each runs  *)
(* on its own, with the other at its initial state: their state spaces add *)
(* up and do not multiply, and no interleaving is lost, as neither reads   *)
(* what the other writes.                                                  *)
EXTENDS Ledger

CONSTANTS j1, j2, cash, revenue

Debit(a, n) == [account |-> a, side |-> "debit", amount |-> n]
Credit(a, n) == [account |-> a, side |-> "credit", amount |-> n]
Req(j, ps, checked) ==
  [journal |-> j, currency |-> "USD", postings |-> ps, checked |-> checked]

\* revenue may be opened in either currency; cash is in USD.
MCOffers == {<<cash, "USD">>, <<revenue, "USD">>, <<revenue, "EUR">>}

\* Balanced in two and in three postings, unbalanced, one-sided, empty, and of
\* zero amounts; with the checks of post and without.
Lists ==
  {<<Debit(cash, 2), Credit(revenue, 2)>>,
   <<Debit(cash, 2), Credit(revenue, 1), Credit(revenue, 1)>>,
   <<Debit(cash, 2), Credit(revenue, 1)>>,
   <<Debit(cash, 1)>>,
   <<>>,
   <<Debit(cash, 0), Credit(revenue, 0)>>}

MCRequests ==
  {Req(j1, ps, checked) : ps \in Lists, checked \in BOOLEAN}
    \union {Req(j2, <<Debit(revenue, 1), Credit(cash, 1)>>, TRUE)}

-----------------------------------------------------------------------------
(* The Java service *)

CONSTANTS Keys, Callers, Payments, Ids, Amounts, Limit

VARIABLES
  javaDecisions, javaEvents, javaHolder, javaDraft, javaPc, javaArgs, javaAnswer, javaGiven

javaVars ==
  <<javaDecisions, javaEvents, javaHolder, javaDraft, javaPc, javaArgs, javaAnswer, javaGiven>>

Java == INSTANCE JavaAuthorization WITH
  decisions <- javaDecisions, events <- javaEvents, holder <- javaHolder,
  draft <- javaDraft, pc <- javaPc, args <- javaArgs, answer <- javaAnswer,
  given <- javaGiven

ASSUME JavaNoneAssumption == Java!NoneApart

WritersInit == Init /\ Java!Init

WritersNext ==
  \/ Next /\ Java!Init /\ UNCHANGED javaVars
  \/ Java!Next /\ Init /\ UNCHANGED vars

WritersSpec == WritersInit /\ [][WritersNext]_<<vars, javaVars>>

\* The properties of JavaAuthorization, of its instance
DecisionsAnnounced == Java!DecisionsAnnounced
RepeatsReturnOriginal == Java!RepeatsReturnOriginal
=============================================================================
