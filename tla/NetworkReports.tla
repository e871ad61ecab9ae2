--------------------------- MODULE NetworkReports ---------------------------
(***************************************************************************)
(* What the calls of NetworkFlow leave behind for operators: the counters  *)
(* of NetworkTelemetry (app/network_observability.py) and the rows of      *)
(* network_observations (app/network_history.py).  Both are written after  *)
(* the call has had its effect on coordinator and registry; the insert of  *)
(* the row may fail, and the call then raises though its effect stays.     *)
(*                                                                         *)
(* Reports are counted by outcome and disposition, those that conclude an  *)
(* attempt or plan its reversal; the others may repeat without end.        *)
(***************************************************************************)
EXTENDS NetworkFlow, FiniteSets

CONSTANT MaxLost  \* bound on inserts that fail

VARIABLES
  measured,  \* atlaspay_network_outcomes_total
  planned,   \* atlaspay_network_reversal_plans_total
  rows,      \* network_observations
  lost       \* history: rows whose insert failed

reportVars == <<measured, planned, rows, lost>>

Conclusive ==
  {<<"response", "accepted">>, <<"response", "late">>, <<"timeout", "timed_out">>}
AsyncConclusive == {<<"async_response", "accepted">>, <<"async_response", "late">>}
Row == [kind : Conclusive, reversal : BOOLEAN]

ReportsInit ==
  /\ Init
  /\ measured = [k \in Conclusive \union AsyncConclusive |-> 0]
  /\ planned = 0
  /\ rows = [r \in Row |-> 0] /\ lost = rows

Plus(counters, key) ==
  IF key \in DOMAIN counters THEN [counters EXCEPT ![key] = @ + 1] ELSE counters

-----------------------------------------------------------------------------
(* Telemetry *)

\* The carrier is filled in after _exchange has returned: an exchange that
\* raised is a failure without disposition and without reversal.
BugKeepsOutcome(r) == <<r.call, IF r.call = "timeout" THEN "timed_out" ELSE r.returned>>
Observed(r) == IF r.returned = "raised" THEN <<"failure", "none">> ELSE <<r.call, r.returned>>

\* Only a classified timeout carries a ReversalLink.
HasReversal(r) == r.call = "timeout" /\ r.returned = "timed_out"

ObserveExchange(r) ==
  /\ measured' = Plus(measured, Observed(r))
  /\ planned' = IF HasReversal(r) THEN planned + 1 ELSE planned

RecordLateResponse(r) ==
  /\ measured' = Plus(measured, <<"async_response", r.returned>>)
  /\ UNCHANGED planned

-----------------------------------------------------------------------------
(* History *)

\* A row has the outcome of the exchange; a late response is a response.
BugRowAsMetric(r) ==
  [kind |-> <<IF r.call = "late_response" THEN "async_response" ELSE r.call, r.returned>>,
   reversal |-> HasReversal(r)]
RowOf(r) ==
  [kind |-> <<IF r.call = "late_response" THEN "response" ELSE r.call, r.returned>>,
   reversal |-> HasReversal(r)]

Recordable(r) == r.returned # "raised"

RecordRow(r) == Recordable(r) /\ rows' = Plus(rows, RowOf(r)) /\ UNCHANGED lost

\* The connection or the INSERT fails.
LoseRow(r) ==
  /\ Recordable(r) /\ RowOf(r) \in Row
  /\ \A x \in Row : lost[x] < MaxLost
  /\ lost' = Plus(lost, RowOf(r)) /\ UNCHANGED rows

NoRow(r) == ~Recordable(r) /\ UNCHANGED <<rows, lost>>

Record(r) == RecordRow(r) \/ LoseRow(r) \/ NoRow(r)

-----------------------------------------------------------------------------
ReportedExchange(a, t) ==
  /\ Exchange(a, t)
  /\ ObserveExchange(result')
  /\ Record(result')

ReportedLateResponse(a) ==
  /\ LateResponse(a)
  /\ RecordLateResponse(result')
  /\ Record(result')

ReportsNext ==
  \/ /\ Tick \/ \E c \in Correlations, timeout \in Timeouts : Start(c, timeout)
     /\ UNCHANGED reportVars
  \/ \E a \in attempts :
       \/ \E t \in now..MaxTime : ReportedExchange(a, t)
       \/ ReportedLateResponse(a)

ReportsSpec == ReportsInit /\ [][ReportsNext]_<<vars, reportVars>>

-----------------------------------------------------------------------------
(* Properties *)

Reversed == {c \in Correlations : links[c] # None}
ConcludedAs(disposition) == {c \in Correlations : concluded[c][disposition] > 0}

\* The counters tell what happened, whichever way an attempt ended: each
\* conclusion is counted once, synchronous or not, and the timeouts counted
\* are the reversals planned and the reversals linked.
MetricsAgree ==
  /\ \A d \in {"accepted", "late"} :
       measured[<<"response", d>>] + measured[<<"async_response", d>>]
         = Cardinality(ConcludedAs(d))
  /\ measured[<<"timeout", "timed_out">>] = Cardinality(Reversed)
  /\ planned = Cardinality(Reversed)

\* So do the rows, but for inserts that failed: every link of the registry is a
\* row with a reversal, every conclusion a row, or one that was lost.
HistoryAgrees ==
  LET written(k, reversal) ==
        LET x == [kind |-> k, reversal |-> reversal] IN rows[x] + lost[x]
  IN  /\ \A d \in {"accepted", "late"} :
           written(<<"response", d>>, FALSE) = Cardinality(ConcludedAs(d))
      /\ written(<<"timeout", "timed_out">>, TRUE) = Cardinality(Reversed)
=============================================================================
