----------------------------- MODULE NetworkFlow -----------------------------
(***************************************************************************)
(* AuthorizationNetworkFlow (app/network_flow.py) with its coordinator,    *)
(* its ISO8583NetworkAdapter (app/network_transport.py) and its            *)
(* ReversalRegistry (app/network_routing.py).                              *)
(*                                                                         *)
(* The flow runs in one thread: start, exchange and handle_late_response   *)
(* are whole calls, in any order the caller chooses, on any attempt it     *)
(* still has, a repeated or superseded one too.  exchange lasts from now   *)
(* to completed_at.  The network outside is free: a request is received by *)
(* the issuer or not, and what comes back is nothing, an answer, somebody  *)
(* else's answer, an answer without a correlation, or bytes that do not    *)
(* decode.  The route start asks for is a pure function (Canonical); the   *)
(* telemetry and the observations of each call are in NetworkReports.      *)
(***************************************************************************)
EXTENDS NetworkCoordinator

CONSTANTS
  ReversalKeys,  \* what the reversal correlation provider may return
  Timeouts       \* timeout_seconds of the attempts

ASSUME TimeoutsAssumption == Timeouts \subseteq Nat \ {0} /\ None \notin ReversalKeys

VARIABLES
  links,      \* ReversalRegistry: the reversal linked to each correlation
  attempts,   \* the NetworkAttempt objects that start has returned
  now,        \* the caller's clock
  result,     \* the last call, what it returned and what it met
  received,   \* history: correlations whose request the issuer received
  concluded   \* history: the conclusive dispositions given for each correlation

history == <<received, concluded>>
vars == <<coordinatorVars, links, attempts, now, result, history>>

Attempts == [correlation : Correlations, deadline : Times]
Dispositions == {"accepted", "mismatched", "timed_out", "late", "duplicate"}
Calls == {"none", "start", "failure", "timeout", "response", "late_response"}

\* returned: a disposition, "failure", an exception ("raised"), or "" for start;
\* due: the call met its correlation pending past its attempt's deadline.
Results ==
  [call : Calls, correlation : Correlations \union {None},
   returned : Dispositions \union {"failure", "raised", ""}, due : BOOLEAN]

\* Every state is well typed, and no order of retries, expiries of other
\* attempts and repeated exchanges puts a correlation into two states at once.
TypeOK ==
  /\ CoordinatorTypeOK
  /\ links \in [Correlations -> ReversalKeys \union {None}]
  /\ attempts \subseteq Attempts
  /\ now \in Times
  /\ result \in Results
  /\ received \subseteq Correlations
  /\ concluded \in [Correlations -> [accepted : 0..2, late : 0..2]]

Init ==
  /\ CoordinatorInit
  /\ links = [c \in Correlations |-> None]
  /\ attempts = {} /\ now = 0 /\ received = {}
  /\ result = [call |-> "none", correlation |-> None, returned |-> "", due |-> FALSE]
  /\ concluded = [c \in Correlations |-> [accepted |-> 0, late |-> 0]]

-----------------------------------------------------------------------------
(* Helpers *)

Return(call, a, t, returned) ==
  LET c == a.correlation
  IN  result' = [call |-> call, correlation |-> c, returned |-> returned,
                 due |-> c \in Expired(t) /\ a.deadline <= t]

\* The request reaches the issuer, or gets lost on the way.
Reach(c) == received' = received \union {c}
MayReach(c) == Reach(c) \/ UNCHANGED received

Conclude(c, disposition) ==
  concluded' =
    IF disposition \in {"accepted", "late"}
    THEN [concluded EXCEPT ![c][disposition] = IF @ < 2 THEN @ + 1 ELSE @]
    ELSE concluded

\* ReversalRegistry.link raises for an original or a reversal already linked.
Linkable(c, r) ==
  c # r /\ links[c] = None /\ \A d \in Correlations : links[d] # r

-----------------------------------------------------------------------------
(* start *)

Start(c, timeout) ==
  /\ now + timeout \in Times
  /\ Register(c, now + timeout)
  /\ LET a == [correlation |-> c, deadline |-> now + timeout]
     IN  attempts' = attempts \union {a} /\ Return("start", a, now, "")
  /\ UNCHANGED <<links, now, history>>

-----------------------------------------------------------------------------
(* exchange, one action for each TransportOutcome the adapter reports *)

\* FAILURE: cancel the pending correlation, or raise if it is not pending.
AfterFailure(a, t) ==
  LET c == a.correlation
  IN  /\ now' = t
      /\ IF Pending(c)
         THEN Cancel(c) /\ Return("failure", a, t, "failure")
         ELSE UNCHANGED coordinatorVars /\ Return("failure", a, t, "raised")
      /\ UNCHANGED <<links, attempts, concluded>>

\* The transport fails before it sends anything.
LocalFailure(a, t) == UNCHANGED received /\ AfterFailure(a, t)

\* The issuer answered, and the adapter calls the bytes it cannot decode a
\* FAILURE too.
MalformedResponse(a, t) == Reach(a.correlation) /\ AfterFailure(a, t)

\* TIMEOUT before the deadline: ValueError
EarlyTimeout(a, t) ==
  /\ t < a.deadline
  /\ now' = t
  /\ MayReach(a.correlation)
  /\ Return("timeout", a, t, "raised")
  /\ UNCHANGED <<coordinatorVars, links, attempts, concluded>>

\* TIMEOUT with two expired keys or more: TypeError out of sorted
UnsortableTimeout(a, t) ==
  /\ t >= a.deadline
  /\ ~Sortable(Expired(t))
  /\ now' = t
  /\ MayReach(a.correlation)
  /\ Return("timeout", a, t, "raised")
  /\ UNCHANGED <<coordinatorVars, links, attempts, concluded>>

\* TIMEOUT that expires the attempt and links reversal r to it; or raises, the
\* expiry done, because another correlation expired or r cannot be linked.
ExpiringTimeout(a, t, r) ==
  LET c == a.correlation
  IN  /\ t >= a.deadline
      /\ Sortable(Expired(t))
      /\ now' = t
      /\ MayReach(c)
      /\ Expire(t)
      /\ IF c \in Expired(t) /\ Linkable(c, r)
         THEN /\ links' = [links EXCEPT ![c] = r]
              /\ Return("timeout", a, t, "timed_out")
         ELSE /\ UNCHANGED links
              /\ Return("timeout", a, t, "raised")
      /\ UNCHANGED <<attempts, concluded>>

\* RESPONSE after the deadline with two expired keys or more: TypeError
UnsortableResponse(a, t) ==
  /\ t >= a.deadline
  /\ ~Sortable(Expired(t))
  /\ now' = t
  /\ Reach(a.correlation)
  /\ Return("response", a, t, "raised")
  /\ UNCHANGED <<coordinatorVars, links, attempts, concluded>>

\* RESPONSE that does not correlate: MISMATCHED, or ISO8583MappingError when it
\* lacks DE11 or DE37; after the deadline the expiry has been done.
UnrelatedResponse(a, t, returned) ==
  /\ t >= a.deadline => Sortable(Expired(t))
  /\ now' = t
  /\ Reach(a.correlation)
  /\ IF t >= a.deadline THEN Expire(t) ELSE UNCHANGED coordinatorVars
  /\ Return("response", a, t, returned)
  /\ UNCHANGED <<links, attempts, concluded>>

\* RESPONSE in time
TimelyResponse(a, t) ==
  LET c == a.correlation
      disposition == Disposition(c, t)
  IN  /\ t < a.deadline
      /\ now' = t
      /\ Reach(c)
      /\ HandleResponse(c, disposition)
      /\ Conclude(c, disposition)
      /\ Return("response", a, t, disposition)
      /\ UNCHANGED <<links, attempts>>

\* RESPONSE at or after the deadline: expire comes first, so that a correlation
\* that was pending is handled as timed out, together with any other expired one.
LateExchange(a, t) ==
  LET c == a.correlation
      others == Expired(t) \ {c}
      disposition == IF c \in Expired(t) THEN "late" ELSE Disposition(c, t)
  IN  /\ t >= a.deadline
      /\ Sortable(Expired(t))
      /\ now' = t
      /\ Reach(c)
      /\ pending' = [d \in Correlations |->
                       IF d \in Expired(t) \/ (d = c /\ disposition = "accepted")
                       THEN None ELSE pending[d]]
      /\ timedOut' = (timedOut \union others) \ (IF disposition = "late" THEN {c} ELSE {})
      /\ Complete(c, disposition)
      /\ Conclude(c, disposition)
      /\ Return("response", a, t, disposition)
      /\ UNCHANGED <<links, attempts>>

-----------------------------------------------------------------------------
(* handle_late_response *)

LateResponse(a) ==
  LET c == a.correlation
      disposition == Disposition(c, now)
  IN  /\ c \in received
      /\ HandleResponse(c, disposition)
      /\ Conclude(c, disposition)
      /\ Return("late_response", a, now, disposition)
      /\ UNCHANGED <<links, attempts, now, received>>

Tick ==
  /\ now < MaxTime
  /\ now' = now + 1
  /\ UNCHANGED <<coordinatorVars, links, attempts, result, history>>

Exchange(a, t) ==
  \/ LocalFailure(a, t) \/ MalformedResponse(a, t)
  \/ EarlyTimeout(a, t) \/ UnsortableTimeout(a, t)
  \/ \E r \in ReversalKeys : ExpiringTimeout(a, t, r)
  \/ UnsortableResponse(a, t)
  \/ \E returned \in {"mismatched", "raised"} : UnrelatedResponse(a, t, returned)
  \/ TimelyResponse(a, t) \/ LateExchange(a, t)

Next ==
  \/ \E c \in Correlations, timeout \in Timeouts : Start(c, timeout)
  \/ \E a \in attempts :
       \/ \E t \in now..MaxTime : Exchange(a, t)
       \/ LateResponse(a)
  \/ Tick

Spec == Init /\ [][Next]_vars

-----------------------------------------------------------------------------
(* Properties *)

\* A correlation is concluded once: of all the answers to all its attempts one
\* at most is ACCEPTED or LATE, and the rest are told apart as duplicates.
ConcludedOnce ==
  \A c \in Correlations :
    concluded[c].accepted + concluded[c].late = IF c \in completed THEN 1 ELSE 0

\* An authorization that was accepted in time never has a reversal, and a
\* reversal belongs to an attempt that is timed out or was answered late.
ReversalOnlyAfterTimeout ==
  \A c \in Correlations :
    links[c] # None =>
      concluded[c].accepted = 0 /\ (c \in timedOut \/ concluded[c].late = 1)

\* What is settled stays settled: a completed correlation stays completed, a
\* timed-out one can only be completed, and a reversal is never replaced.
SettledForGood ==
  [][\A c \in Correlations :
       /\ c \in completed => c \in completed'
       /\ c \in timedOut => c \in timedOut' \union completed'
       /\ links[c] # None => links'[c] = links[c]]_vars

\* tests/test_network_flow.py, test_timeout_creates_reversal_link_without_
\* delivery_claim: a due attempt whose exchange times out ends TIMED_OUT.
TimeoutIsClassified ==
  result.call = "timeout" /\ result.due => result.correlation \in timedOut \union completed

\* app/network_coordinator.py, cancel: a correlation may be retried "only when
\* external delivery is known not to have occurred".
CancelledWasNotDelivered ==
  result.returned = "failure" => result.correlation \notin received
=============================================================================
