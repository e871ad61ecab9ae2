--------------------------- MODULE NetworkFlowProofs ---------------------------
(***************************************************************************)
(* Theorems about NetworkFlow and the reports it leaves, for every set of  *)
(* correlations and reversal keys, all timeouts and every clock.           *)
(***************************************************************************)
EXTENDS NetworkReports, FiniteSetTheorems, TLAPS

-----------------------------------------------------------------------------
(* The inductive invariant *)

\* The three conjuncts need each other: that a pending correlation is neither
\* completed nor timed out (TypeOK) makes a conclusion the first one, and what is
\* linked is timed out or concluded, so that it is not accepted any more.
IInv == TypeOK /\ ConcludedOnce /\ ReversalOnlyAfterTimeout

LEMMA InitInvariant == Init => IInv
<1>. SUFFICES ASSUME Init PROVE IInv
  OBVIOUS
<1>1. CoordinatorTypeOK
  BY DEF Init, CoordinatorInit, CoordinatorTypeOK
<1>2. now \in Times
  <2>1. now = 0
    BY DEF Init
  <2>. QED  BY <2>1, TimeAssumption DEF Times
<1>3. result \in Results
  BY DEF Init, Results, Calls
<1>4. links \in [Correlations -> ReversalKeys \union {None}]
  BY DEF Init
<1>5. PICK zero : zero = [accepted |-> 0, late |-> 0]
  OBVIOUS
<1>6. zero \in [accepted : 0..2, late : 0..2] /\ zero.accepted = 0 /\ zero.late = 0
  BY <1>5
<1>7. concluded = [c \in Correlations |-> zero] /\ completed = {}
  BY <1>5 DEF Init, CoordinatorInit
<1>8. ConcludedOnce
  <2>1. \A c \in Correlations : concluded[c].accepted = 0 /\ concluded[c].late = 0
    BY <1>6, <1>7, Zenon
  <2>2. ASSUME NEW c \in Correlations PROVE concluded[c].accepted + concluded[c].late = 0
    BY <2>1
  <2>3. \A c \in Correlations : c \notin completed
    BY <1>7
  <2>. QED  BY <2>2, <2>3, Zenon DEF ConcludedOnce
<1>9. ReversalOnlyAfterTimeout
  <2>1. links = [c \in Correlations |-> None]
    BY DEF Init
  <2>. QED  BY <2>1 DEF ReversalOnlyAfterTimeout
<1>10. attempts \subseteq Attempts /\ received \subseteq Correlations
  BY Zenon DEF Init
<1>. QED  BY <1>1, <1>2, <1>3, <1>4, <1>6, <1>7, <1>8, <1>9, <1>10 DEF IInv, TypeOK

\* What handle_response finds out about a correlation when it accepts an answer,
\* calls it late or calls the correlation timed out.
LEMMA DispositionOf ==
  ASSUME TypeOK, NEW c \in Correlations, NEW t \in Times, NEW d, d = Disposition(c, t)
  PROVE  /\ d \in Dispositions
         /\ d = "accepted" => pending[c] # None /\ c \notin completed /\ c \notin timedOut
         /\ d = "late" => pending[c] = None /\ c \notin completed /\ c \in timedOut
         /\ d = "timed_out" => pending[c] # None /\ c \notin completed /\ c \notin timedOut
<1>1. /\ c \in completed \union timedOut => pending[c] = None
      /\ pending[c] # None => pending[c] \in Nat /\ t \in Nat
  BY DEF TypeOK, CoordinatorTypeOK, Times
<1>2. ASSUME c \in completed PROVE Disposition(c, t) = "duplicate"
  BY <1>1, <1>2 DEF Disposition, Pending
<1>3. ASSUME c \notin completed, c \in timedOut PROVE Disposition(c, t) = "late"
  BY <1>1, <1>3 DEF Disposition, Pending
<1>4. ASSUME c \notin completed, c \notin timedOut, pending[c] = None
      PROVE  Disposition(c, t) = "mismatched"
  BY <1>4 DEF Disposition, Pending
<1>5. ASSUME c \notin completed, c \notin timedOut, pending[c] # None
      PROVE  Disposition(c, t) \in {"timed_out", "accepted"}
  <2>1. CASE pending[c] <= t
    BY <1>1, <1>5, <2>1 DEF Disposition, Pending
  <2>2. CASE pending[c] > t
    BY <1>1, <1>5, <2>2 DEF Disposition, Pending
  <2>. QED  BY <1>1, <1>5, <2>1, <2>2
<1>. QED  BY <1>1, <1>2, <1>3, <1>4, <1>5 DEF Dispositions

-----------------------------------------------------------------------------
(* What a call concludes, links or leaves *)

\* Nothing is concluded or linked, and the call says so.
Quiet ==
  /\ UNCHANGED <<links, concluded>>
  /\ result'.returned \notin {"accepted", "late"}
  /\ ~HasReversal(result')

\* An answer concludes correlation c, for the first time.
Concludes(c, d) ==
  /\ c \notin completed /\ links' = links
  /\ completed' = completed \union {c} /\ c \notin timedOut'
  /\ d = "accepted" => c \notin timedOut
  /\ concluded' = [concluded EXCEPT ![c][d] = 1]
  /\ result'.call \in {"response", "late_response"} /\ result'.returned = d

\* A timeout links reversal r to correlation c, the first one.
Links(c, r) ==
  /\ c \notin completed /\ c \in timedOut' /\ links[c] = None
  /\ links' = [links EXCEPT ![c] = r]
  /\ UNCHANGED concluded
  /\ result'.call = "timeout" /\ result'.returned = "timed_out"

\* A call on a correlation does one of the three, whatever else it expires.
CallOf(c) ==
  \/ Quiet
  \/ \E d \in {"accepted", "late"} : Concludes(c, d)
  \/ \E r \in ReversalKeys : Links(c, r)

\* The pending, completed and timed-out correlations after a call: only what
\* expires, what the call is about and what it concludes moves.
CollectionsKept ==
  /\ CoordinatorTypeOK'
  /\ completed \subseteq completed'
  /\ timedOut \subseteq timedOut' \union completed'
  /\ \A c \in completed' \ completed : \E d \in {"accepted", "late"} : Concludes(c, d)

\* The call's own typing.
ResultOK == result' \in Results /\ now' \in Times /\ attempts' = attempts

\* Concluding a correlation that no answer has concluded counts from zero.
LEMMA FirstConclusion ==
  ASSUME IInv, NEW c \in Correlations, c \notin completed, NEW d \in {"accepted", "late"},
         Conclude(c, d)
  PROVE  concluded' = [concluded EXCEPT ![c][d] = 1]
<1>1. concluded[c] \in [accepted : 0..2, late : 0..2]
  BY DEF IInv, TypeOK
<1>2. concluded[c].accepted = 0 /\ concluded[c].late = 0
  BY <1>1 DEF IInv, ConcludedOnce
<1>3. concluded[c][d] = 0
  BY <1>2
<1>. QED  BY <1>3 DEF Conclude

\* A call's report has a correlation, an outcome and whether it was due.
LEMMA ReturnTyped ==
  ASSUME NEW a, a.correlation \in Correlations, NEW call \in Calls, NEW t,
         NEW returned \in Dispositions \union {"failure", "raised", ""},
         Return(call, a, t, returned)
  PROVE  /\ result' \in Results
         /\ result'.call = call /\ result'.returned = returned
BY DEF Return, Results

\* handle_response with the disposition it has found.
LEMMA HandleResponseCall ==
  ASSUME IInv, NEW a \in attempts, NEW c, c = a.correlation, NEW t \in Times,
         NEW d, d = Disposition(c, t), HandleResponse(c, d), Conclude(c, d),
         NEW call \in {"response", "late_response"}, NEW u, Return(call, a, u, d),
         links' = links
  PROVE  CallOf(c) /\ CollectionsKept /\ result' \in Results
<1>. USE DEF IInv, TypeOK
<1>1. c \in Correlations
  BY DEF Attempts
<1>2. /\ d \in Dispositions
      /\ d = "accepted" => pending[c] # None /\ c \notin completed /\ c \notin timedOut
      /\ d = "late" => pending[c] = None /\ c \notin completed /\ c \in timedOut
      /\ d = "timed_out" => pending[c] # None /\ c \notin completed /\ c \notin timedOut
  BY <1>1, DispositionOf
<1>3. result' \in Results /\ result'.call = call /\ result'.returned = d
  <2>1. call \in Calls
    BY DEF Calls
  <2>. QED  BY <1>1, <1>2, <2>1, ReturnTyped, Zenon
<1>4. CASE d \in {"accepted", "late"}
  <2>1. Concludes(c, d)
    BY <1>1, <1>2, <1>3, <1>4, FirstConclusion DEF HandleResponse, Complete, Concludes
  <2>2. CoordinatorTypeOK'
    BY <1>1, <1>2, <1>4 DEF HandleResponse, Complete, CoordinatorTypeOK
  <2>3. completed' = completed \union {c} /\ timedOut \subseteq timedOut' \union {c}
    BY <1>4 DEF HandleResponse, Complete
  <2>. QED  BY <1>3, <1>4, <2>1, <2>2, <2>3 DEF CallOf, CollectionsKept
<1>5. CASE d \notin {"accepted", "late"}
  <2>1. Quiet
    BY <1>3, <1>5 DEF Quiet, HasReversal, Conclude
  <2>2. CoordinatorTypeOK' /\ completed' = completed /\ timedOut \subseteq timedOut'
    BY <1>1, <1>2, <1>5 DEF HandleResponse, Complete, CoordinatorTypeOK
  <2>. QED  BY <1>3, <2>1, <2>2 DEF CallOf, CollectionsKept
<1>. QED  BY <1>4, <1>5

\* expire moves pending correlations to the timed-out ones.
LEMMA ExpireKeeps ==
  ASSUME CoordinatorTypeOK, NEW t \in Times, Expire(t)
  PROVE  CoordinatorTypeOK' /\ completed' = completed /\ timedOut \subseteq timedOut'
BY TimeAssumption DEF Expire, WithExpired, Expired, Pending, CoordinatorTypeOK

\* exchange, outcome by outcome.
LEMMA ExchangeCall ==
  ASSUME IInv, NEW a \in attempts, NEW c, c = a.correlation, NEW t \in now..MaxTime,
         Exchange(a, t)
  PROVE  CallOf(c) /\ CollectionsKept /\ ResultOK /\ received' \subseteq Correlations
<1>. USE DEF IInv, TypeOK
<1>1. c \in Correlations /\ a.deadline \in Times /\ t \in Times /\ t \in Nat
  BY TimeAssumption DEF Attempts, Times
<1>2. /\ now' = t /\ attempts' = attempts
      /\ received' = received \/ received' = received \union {c}
  BY DEF Exchange, LocalFailure, MalformedResponse, AfterFailure, EarlyTimeout,
         UnsortableTimeout, ExpiringTimeout, UnsortableResponse, UnrelatedResponse,
         TimelyResponse, LateExchange, MayReach, Reach
<1>3. ResultOK <=> result' \in Results
  BY <1>1, <1>2 DEF ResultOK
<1>4. ASSUME UNCHANGED coordinatorVars PROVE CollectionsKept
  BY <1>4 DEF coordinatorVars, CollectionsKept, CoordinatorTypeOK
<1>5. CASE LocalFailure(a, t) \/ MalformedResponse(a, t)
  <2>1. AfterFailure(a, t)
    BY <1>5 DEF LocalFailure, MalformedResponse
  <2>2. \E returned \in {"failure", "raised"} : Return("failure", a, t, returned)
    BY <2>1 DEF AfterFailure
  <2>3. /\ result' \in Results /\ result'.call = "failure"
        /\ result'.returned \in {"failure", "raised"}
    BY <1>1, <2>2, ReturnTyped DEF Calls
  <2>4. Quiet
    BY <2>1, <2>3 DEF AfterFailure, Quiet, HasReversal
  <2>5. CollectionsKept
    BY <1>1, <1>4, <2>1 DEF AfterFailure, Cancel, CollectionsKept, CoordinatorTypeOK
  <2>. QED  BY <1>1, <1>2, <1>3, <2>3, <2>4, <2>5 DEF CallOf
<1>6. CASE EarlyTimeout(a, t) \/ UnsortableTimeout(a, t) \/ UnsortableResponse(a, t)
  <2>1. /\ UNCHANGED <<coordinatorVars, links, concluded>>
        /\ \E call \in Calls : Return(call, a, t, "raised")
    BY <1>6 DEF EarlyTimeout, UnsortableTimeout, UnsortableResponse, Calls
  <2>2. result' \in Results /\ result'.returned = "raised"
    BY <1>1, <2>1, ReturnTyped
  <2>3. Quiet
    BY <2>1, <2>2 DEF Quiet, HasReversal
  <2>. QED  BY <1>1, <1>2, <1>3, <1>4, <2>1, <2>2, <2>3 DEF CallOf
<1>7. ASSUME NEW r \in ReversalKeys, ExpiringTimeout(a, t, r)
      PROVE  CallOf(c) /\ CollectionsKept /\ result' \in Results
  <2>1. Expire(t) /\ concluded' = concluded
    BY <1>7 DEF ExpiringTimeout
  <2>2. CoordinatorTypeOK' /\ completed' = completed /\ timedOut \subseteq timedOut'
    BY <1>1, <2>1, ExpireKeeps
  <2>3. CollectionsKept
    BY <2>2 DEF CollectionsKept
  <2>4. CASE c \in Expired(t) /\ Linkable(c, r)
    <3>1. links' = [links EXCEPT ![c] = r] /\ Return("timeout", a, t, "timed_out")
      BY <1>7, <2>4 DEF ExpiringTimeout
    <3>2. result' \in Results /\ result'.call = "timeout" /\ result'.returned = "timed_out"
      BY <1>1, <3>1, ReturnTyped DEF Calls, Dispositions
    <3>3. c \notin completed /\ c \in timedOut'
      BY <1>1, <2>1, <2>4 DEF Expire, WithExpired, Expired, Pending, CoordinatorTypeOK
    <3>4. Links(c, r)
      BY <2>1, <2>4, <3>1, <3>2, <3>3 DEF Links, Linkable
    <3>. QED  BY <2>3, <3>2, <3>4 DEF CallOf
  <2>5. CASE ~(c \in Expired(t) /\ Linkable(c, r))
    <3>1. UNCHANGED links /\ Return("timeout", a, t, "raised")
      BY <1>7, <2>5 DEF ExpiringTimeout
    <3>2. result' \in Results /\ result'.returned = "raised"
      BY <1>1, <3>1, ReturnTyped DEF Calls
    <3>3. Quiet
      BY <2>1, <3>1, <3>2 DEF Quiet, HasReversal
    <3>. QED  BY <2>3, <3>2, <3>3 DEF CallOf
  <2>. QED  BY <2>4, <2>5
<1>8. ASSUME NEW returned \in {"mismatched", "raised"}, UnrelatedResponse(a, t, returned)
      PROVE  CallOf(c) /\ CollectionsKept /\ result' \in Results
  <2>1. /\ UNCHANGED <<links, concluded>> /\ Return("response", a, t, returned)
        /\ Expire(t) \/ UNCHANGED coordinatorVars
    BY <1>8 DEF UnrelatedResponse
  <2>2. result' \in Results /\ result'.call = "response" /\ result'.returned = returned
    BY <1>1, <2>1, ReturnTyped DEF Calls, Dispositions
  <2>3. Quiet
    BY <2>1, <2>2 DEF Quiet, HasReversal
  <2>4. CollectionsKept
    BY <1>1, <1>4, <2>1, ExpireKeeps DEF CollectionsKept
  <2>. QED  BY <2>2, <2>3, <2>4 DEF CallOf
<1>9. CASE TimelyResponse(a, t)
  <2>1. PICK d : d = Disposition(c, t)
    OBVIOUS
  <2>2. /\ HandleResponse(c, d) /\ Conclude(c, d)
        /\ Return("response", a, t, d) /\ links' = links
    BY <1>9, <2>1 DEF TimelyResponse
  <2>. QED  BY <1>1, <1>2, <1>3, <2>1, <2>2, HandleResponseCall
<1>10. CASE LateExchange(a, t)
  <2>1. PICK d : d = IF c \in Expired(t) THEN "late" ELSE Disposition(c, t)
    OBVIOUS
  <2>2. /\ pending' = [b \in Correlations |->
                         IF b \in Expired(t) \/ (b = c /\ d = "accepted")
                         THEN None ELSE pending[b]]
        /\ timedOut' = (timedOut \union (Expired(t) \ {c})) \ (IF d = "late" THEN {c} ELSE {})
        /\ Complete(c, d) /\ Conclude(c, d) /\ Return("response", a, t, d)
        /\ links' = links
    BY <1>10, <2>1 DEF LateExchange
  <2>3. \A b \in Expired(t) : b \in Correlations /\ pending[b] # None
                                /\ b \notin completed /\ b \notin timedOut
    BY DEF Expired, Pending, CoordinatorTypeOK
  <2>4. /\ d \in Dispositions
        /\ d = "accepted" => pending[c] # None /\ c \notin completed /\ c \notin timedOut
        /\ d = "late" => c \notin completed
        /\ d \notin {"accepted", "late"} => c \notin Expired(t)
    <3>1. CASE c \in Expired(t)
      BY <2>1, <2>3, <3>1 DEF Dispositions
    <3>2. CASE c \notin Expired(t)
      BY <1>1, <2>1, <3>2, DispositionOf
    <3>. QED  BY <3>1, <3>2
  <2>5. result' \in Results /\ result'.call = "response" /\ result'.returned = d
    BY <1>1, <2>2, <2>4, ReturnTyped DEF Calls
  <2>6. CASE d \in {"accepted", "late"}
    <3>1. completed' = completed \union {c}
      BY <2>2, <2>6 DEF Complete
    <3>2. c \notin timedOut'
      BY <2>2, <2>4, <2>6
    <3>3. Concludes(c, d)
      BY <1>1, <2>2, <2>4, <2>5, <2>6, <3>1, <3>2, FirstConclusion DEF Concludes
    <3>4. timedOut \subseteq timedOut' \union completed'
      BY <2>2, <3>1
    <3>5. pending'[c] = None
      <4>1. c \in Expired(t) \/ d = "accepted" \/ c \in timedOut
        BY <1>1, <2>1, <2>6, DispositionOf
      <4>. QED  BY <1>1, <2>2, <4>1 DEF CoordinatorTypeOK
    <3>6. CoordinatorTypeOK'
      BY <1>1, <2>2, <2>3, <3>1, <3>2, <3>5, TimeAssumption DEF CoordinatorTypeOK
    <3>. QED  BY <1>2, <1>3, <1>1, <2>5, <2>6, <3>1, <3>3, <3>4, <3>6 DEF CallOf, CollectionsKept
  <2>7. CASE d \notin {"accepted", "late"}
    <3>1. Quiet
      BY <2>2, <2>5, <2>7 DEF Quiet, HasReversal, Conclude
    <3>2. completed' = completed /\ timedOut' = timedOut \union Expired(t)
      BY <2>2, <2>4, <2>7 DEF Complete
    <3>3. CoordinatorTypeOK'
      BY <2>2, <2>3, <2>7, <3>2, TimeAssumption DEF CoordinatorTypeOK
    <3>. QED  BY <1>1, <1>2, <1>3, <2>5, <3>1, <3>2, <3>3 DEF CallOf, CollectionsKept
  <2>. QED  BY <2>6, <2>7
<1>. QED
  BY <1>1, <1>2, <1>3, <1>5, <1>6, <1>7, <1>8, <1>9, <1>10 DEF Exchange

\* handle_late_response.
LEMMA LateResponseCall ==
  ASSUME IInv, NEW a \in attempts, NEW c, c = a.correlation, LateResponse(a)
  PROVE  CallOf(c) /\ CollectionsKept /\ ResultOK /\ received' = received
<1>1. PICK d : d = Disposition(c, now)
  OBVIOUS
<1>2. /\ HandleResponse(c, d) /\ Conclude(c, d) /\ Return("late_response", a, now, d)
      /\ UNCHANGED <<links, attempts, now, received>> /\ now \in Times
  BY <1>1 DEF LateResponse, IInv, TypeOK
<1>. QED  BY <1>1, <1>2, HandleResponseCall DEF ResultOK, IInv, TypeOK

-----------------------------------------------------------------------------
(* Every step keeps the invariant *)

\* What a call does keeps both properties, whichever it does.
LEMMA CallInvariant ==
  ASSUME IInv, NEW c \in Correlations, CallOf(c), CollectionsKept, ResultOK,
         received' \subseteq Correlations
  PROVE  IInv'
<1>. USE DEF IInv, TypeOK, CollectionsKept, ResultOK
<1>1. \A b \in Correlations : concluded[b] \in [accepted : 0..2, late : 0..2]
  OBVIOUS
<1>2. CASE Quiet
  <2>1. completed' = completed
    BY <1>2 DEF Quiet, Concludes
  <2>. QED  BY <1>2, <2>1 DEF Quiet, ConcludedOnce, ReversalOnlyAfterTimeout
<1>3. ASSUME NEW d \in {"accepted", "late"}, Concludes(c, d) PROVE IInv'
  <2>1. /\ c \notin completed /\ links' = links
        /\ completed' = completed \union {c}
        /\ d = "accepted" => c \notin timedOut
        /\ concluded' = [concluded EXCEPT ![c][d] = 1]
    BY <1>3 DEF Concludes
  <2>2. concluded[c].accepted = 0 /\ concluded[c].late = 0
    BY <1>1, <2>1 DEF ConcludedOnce
  <2>3. concluded'[c] = [accepted |-> IF d = "accepted" THEN 1 ELSE 0,
                         late |-> IF d = "late" THEN 1 ELSE 0]
    BY <1>1, <2>1, <2>2
  <2>4. \A b \in Correlations \ {c} : concluded'[b] = concluded[b]
    BY <2>1
  <2>5. concluded' \in [Correlations -> [accepted : 0..2, late : 0..2]]
    BY <1>1, <2>1
  <2>6. ConcludedOnce'
    BY <2>1, <2>3, <2>4 DEF ConcludedOnce
  <2>7. ReversalOnlyAfterTimeout'
    <3>. SUFFICES ASSUME NEW b \in Correlations, links[b] # None
                  PROVE  /\ concluded'[b].accepted = 0
                         /\ b \in timedOut' \/ concluded'[b].late = 1
      BY <2>1 DEF ReversalOnlyAfterTimeout
    <3>1. concluded[b].accepted = 0 /\ (b \in timedOut \/ concluded[b].late = 1)
      BY DEF ReversalOnlyAfterTimeout
    <3>2. CASE b = c
      BY <2>1, <2>2, <2>3, <3>1, <3>2
    <3>3. CASE b # c
      <4>1. b \in timedOut => b \in timedOut' \/ b \in completed
        BY <2>1, <3>3
      <4>2. b \in completed => concluded[b].late = 1
        BY <1>1, <3>1 DEF ConcludedOnce
      <4>. QED  BY <2>4, <3>1, <3>3, <4>1, <4>2
    <3>. QED  BY <3>2, <3>3
  <2>. QED  BY <2>1, <2>5, <2>6, <2>7
<1>4. ASSUME NEW r \in ReversalKeys, Links(c, r) PROVE IInv'
  <2>1. /\ c \notin completed /\ c \in timedOut' /\ links[c] = None
        /\ links' = [links EXCEPT ![c] = r] /\ concluded' = concluded
        /\ result'.returned = "timed_out"
    BY <1>4 DEF Links
  <2>2. completed' = completed
    BY <2>1 DEF Concludes
  <2>3. concluded[c].accepted = 0
    BY <1>1, <2>1 DEF ConcludedOnce
  <2>. QED  BY <2>1, <2>2, <2>3 DEF ConcludedOnce, ReversalOnlyAfterTimeout
<1>. QED  BY <1>2, <1>3, <1>4 DEF CallOf

LEMMA NextInvariant == IInv /\ [Next]_vars => IInv'
<1>. SUFFICES ASSUME IInv, [Next]_vars PROVE IInv'
  OBVIOUS
<1>1. ASSUME NEW c \in Correlations, NEW timeout \in Timeouts, Start(c, timeout) PROVE IInv'
  <2>1. PICK a : a = [correlation |-> c, deadline |-> now + timeout]
    OBVIOUS
  <2>2. /\ a \in Attempts /\ attempts' = attempts \union {a}
        /\ Return("start", a, now, "") /\ now + timeout \in Times
        /\ Register(c, now + timeout)
        /\ UNCHANGED <<links, now, received, concluded>>
    BY <1>1, <2>1 DEF Start, Attempts, history
  <2>3. result' \in Results
    BY <2>1, <2>2, ReturnTyped DEF Calls
  <2>4. CoordinatorTypeOK' /\ UNCHANGED <<completed, timedOut>>
    BY <2>2 DEF Register, Unused, CoordinatorTypeOK, IInv, TypeOK
  <2>. QED
    BY <2>2, <2>3, <2>4 DEF IInv, TypeOK, ConcludedOnce, ReversalOnlyAfterTimeout
<1>2. ASSUME NEW a \in attempts, NEW t \in now..MaxTime, Exchange(a, t) PROVE IInv'
  <2>1. a.correlation \in Correlations
    BY DEF IInv, TypeOK, Attempts
  <2>. QED  BY <1>2, <2>1, ExchangeCall, CallInvariant
<1>3. ASSUME NEW a \in attempts, LateResponse(a) PROVE IInv'
  <2>1. a.correlation \in Correlations /\ received \subseteq Correlations
    BY DEF IInv, TypeOK, Attempts
  <2>. QED  BY <1>3, <2>1, LateResponseCall, CallInvariant
<1>4. CASE Tick
  <2>1. now' \in Times
    BY <1>4, TimeAssumption DEF Tick, IInv, TypeOK, Times
  <2>. QED
    BY <1>4, <2>1
       DEF Tick, coordinatorVars, history, IInv, TypeOK, CoordinatorTypeOK, ConcludedOnce,
           ReversalOnlyAfterTimeout
<1>5. CASE UNCHANGED vars
  BY <1>5
     DEF vars, coordinatorVars, history, IInv, TypeOK, CoordinatorTypeOK, ConcludedOnce,
         ReversalOnlyAfterTimeout
<1>. QED  BY <1>1, <1>2, <1>3, <1>4, <1>5 DEF Next

LEMMA FlowInvariant == Spec => []IInv
BY InitInvariant, NextInvariant, PTL DEF Spec

\* The coordinator, the registry and the flow keep their types, in every order of
\* retries, expiries and repeated exchanges.
THEOREM FlowTypes == Spec => []TypeOK
BY FlowInvariant, PTL DEF IInv

\* handle_response and expire conclude every correlation once.
THEOREM OneConclusion == Spec => []ConcludedOnce
BY FlowInvariant, PTL DEF IInv

\* exchange links a reversal to timed-out correlations only, and what is linked is
\* never accepted after it.
THEOREM ReversalsAreForTimeouts == Spec => []ReversalOnlyAfterTimeout
BY FlowInvariant, PTL DEF IInv

\* No later call on a correlation takes back that it is completed, timed out or
\* linked to its reversal.
THEOREM SettledStays == Spec => SettledForGood
<1>. DEFINE Kept == \A c \in Correlations :
                      /\ c \in completed => c \in completed'
                      /\ c \in timedOut => c \in timedOut' \union completed'
                      /\ links[c] # None => links'[c] = links[c]
<1>1. ASSUME IInv, [Next]_vars PROVE Kept
  <2>1. ASSUME NEW c \in Correlations, CallOf(c), CollectionsKept PROVE Kept
    BY <1>1, <2>1 DEF CallOf, CollectionsKept, Quiet, Concludes, Links, IInv, TypeOK
  <2>2. ASSUME NEW c \in Correlations, NEW timeout \in Timeouts, Start(c, timeout) PROVE Kept
    BY <2>2 DEF Start, Register
  <2>3. ASSUME NEW a \in attempts, NEW t \in now..MaxTime, Exchange(a, t)
        PROVE  Kept
    <3>1. a.correlation \in Correlations
      BY <1>1 DEF IInv, TypeOK, Attempts
    <3>. QED  BY <1>1, <2>1, <2>3, <3>1, ExchangeCall
  <2>4. ASSUME NEW a \in attempts, LateResponse(a) PROVE Kept
    <3>1. a.correlation \in Correlations
      BY <1>1 DEF IInv, TypeOK, Attempts
    <3>. QED  BY <1>1, <2>1, <2>4, <3>1, LateResponseCall
  <2>5. CASE Tick \/ UNCHANGED vars
    BY <2>5 DEF Tick, vars, coordinatorVars
  <2>. QED  BY <1>1, <2>2, <2>3, <2>4, <2>5 DEF Next
<1>2. IInv /\ [Next]_vars => [Kept]_vars
  BY <1>1
<1>. QED  BY <1>2, FlowInvariant, PTL DEF Spec, SettledForGood

-----------------------------------------------------------------------------
(* The reports *)

\* What the counters and rows are about is the flow of Spec: a report adds to a
\* call and changes nothing of it, also when its insert fails.
THEOREM ReportsOnly == ReportsSpec => Spec
<1>1. [ReportsNext]_<<vars, reportVars>> => [Next]_vars
  BY DEF ReportsNext, ReportedExchange, ReportedLateResponse, Next, vars
<1>. QED  BY <1>1, PTL DEF ReportsSpec, ReportsInit, Spec

CountersOK ==
  /\ measured \in [Conclusive \union AsyncConclusive -> Nat] /\ planned \in Nat
  /\ rows \in [Row -> Nat] /\ lost \in [Row -> Nat]
  /\ IsFiniteSet(Reversed) /\ IsFiniteSet(ConcludedAs("accepted"))
  /\ IsFiniteSet(ConcludedAs("late"))

\* The row of an answer, and of a timeout.
AnswerRow(d) == [kind |-> <<"response", d>>, reversal |-> FALSE]
TimeoutRow == [kind |-> <<"timeout", "timed_out">>, reversal |-> TRUE]

\* MetricsAgree and HistoryAgrees, counter by counter.
Agreement ==
  /\ \A d \in {"accepted", "late"} :
       /\ measured[<<"response", d>>] + measured[<<"async_response", d>>]
            = Cardinality(ConcludedAs(d))
       /\ rows[AnswerRow(d)] + lost[AnswerRow(d)] = Cardinality(ConcludedAs(d))
  /\ measured[<<"timeout", "timed_out">>] = Cardinality(Reversed)
  /\ planned = Cardinality(Reversed)
  /\ rows[TimeoutRow] + lost[TimeoutRow] = Cardinality(Reversed)

ReportsInv == CountersOK /\ Agreement

LEMMA AgreementParts == Agreement <=> MetricsAgree /\ HistoryAgrees
<1>1. MetricsAgree <=>
        /\ \A d \in {"accepted", "late"} :
             measured[<<"response", d>>] + measured[<<"async_response", d>>]
               = Cardinality(ConcludedAs(d))
        /\ measured[<<"timeout", "timed_out">>] = Cardinality(Reversed)
        /\ planned = Cardinality(Reversed)
  BY Zenon DEF MetricsAgree
<1>2. HistoryAgrees <=>
        /\ \A d \in {"accepted", "late"} :
             rows[AnswerRow(d)] + lost[AnswerRow(d)] = Cardinality(ConcludedAs(d))
        /\ rows[TimeoutRow] + lost[TimeoutRow] = Cardinality(Reversed)
  BY Zenon DEF HistoryAgrees, AnswerRow, TimeoutRow
<1>. QED  BY <1>1, <1>2, Zenon DEF Agreement

\* The counters and rows there are.
LEMMA Keys ==
  /\ \A d \in {"accepted", "late"} :
       /\ <<"response", d>> \in Conclusive /\ <<"async_response", d>> \in AsyncConclusive
       /\ AnswerRow(d) \in Row
  /\ <<"timeout", "timed_out">> \in Conclusive /\ TimeoutRow \in Row
  /\ \A call, d : <<call, d>> \in Conclusive \union AsyncConclusive =>
       d \in {"accepted", "late"} \/ (call = "timeout" /\ d = "timed_out")
<1>1. /\ \A d \in {"accepted", "late"} :
           <<"response", d>> \in Conclusive /\ <<"async_response", d>> \in AsyncConclusive
      /\ <<"timeout", "timed_out">> \in Conclusive
  BY DEF Conclusive, AsyncConclusive
<1>2. (\A d \in {"accepted", "late"} : AnswerRow(d) \in Row) /\ TimeoutRow \in Row
  BY <1>1 DEF Row, AnswerRow, TimeoutRow
<1>3. \A call, d : <<call, d>> \in Conclusive \union AsyncConclusive =>
        d \in {"accepted", "late"} \/ (call = "timeout" /\ d = "timed_out")
  BY DEF Conclusive, AsyncConclusive
<1>. QED  BY <1>1, <1>2, <1>3

\* A report that counts nothing.
LEMMA QuietReport ==
  ASSUME ReportsInv, Quiet, Record(result'),
         ObserveExchange(result') \/ RecordLateResponse(result')
  PROVE  ReportsInv'
<1>1. UNCHANGED <<measured, planned>>
  <2>1. DOMAIN measured = Conclusive \union AsyncConclusive
    BY DEF ReportsInv, CountersOK
  <2>2. \A key : key \notin Conclusive \union AsyncConclusive => Plus(measured, key) = measured
    BY <2>1 DEF Plus
  <2>3. /\ Observed(result') \notin Conclusive \union AsyncConclusive
        /\ <<"async_response", result'.returned>> \notin Conclusive \union AsyncConclusive
    BY Keys DEF Quiet, Observed, HasReversal
  <2>. QED  BY <2>2, <2>3 DEF Quiet, ObserveExchange, RecordLateResponse
<1>2. RowOf(result') \notin Row
  BY Keys DEF Quiet, RowOf, Row, HasReversal
<1>3. UNCHANGED <<rows, lost>>
  BY <1>2 DEF Record, RecordRow, LoseRow, NoRow, Plus, ReportsInv, CountersOK
<1>4. UNCHANGED <<Reversed, ConcludedAs("accepted"), ConcludedAs("late")>>
  BY DEF Quiet, Reversed, ConcludedAs
<1>. QED  BY <1>1, <1>3, <1>4 DEF ReportsInv, CountersOK, Agreement

\* A row is stored or lost.
LEMMA RowKept ==
  ASSUME ReportsInv, Record(result'), result'.returned # "raised",
         NEW x \in Row, RowOf(result') = x
  PROVE  /\ rows' \in [Row -> Nat] /\ lost' \in [Row -> Nat]
         /\ rows'[x] + lost'[x] = rows[x] + lost[x] + 1
         /\ \A y \in Row : y # x => rows'[y] = rows[y] /\ lost'[y] = lost[y]
<1>1. \/ rows' = [rows EXCEPT ![x] = rows[x] + 1] /\ lost' = lost
      \/ lost' = [lost EXCEPT ![x] = lost[x] + 1] /\ rows' = rows
  BY DEF Record, RecordRow, LoseRow, NoRow, Recordable, Plus, ReportsInv, CountersOK
<1>. QED  BY <1>1 DEF ReportsInv, CountersOK

\* An answer that concludes its correlation is counted once and has one row.
LEMMA ConclusionReport ==
  ASSUME IInv, ReportsInv, Record(result'),
         NEW c \in Correlations, NEW d \in {"accepted", "late"}, Concludes(c, d),
         \/ result'.call = "response" /\ ObserveExchange(result')
         \/ result'.call = "late_response" /\ RecordLateResponse(result')
  PROVE  ReportsInv'
<1>. USE DEF ReportsInv
<1>1. CountersOK /\ Agreement /\ result'.returned = d
  BY DEF Concludes
<1>2. PICK key : /\ key \in {<<"response", d>>, <<"async_response", d>>}
                 /\ measured' = [measured EXCEPT ![key] = measured[key] + 1]
  <2>1. Plus(measured, <<"response", d>>)
          = [measured EXCEPT ![<<"response", d>>] = measured[<<"response", d>>] + 1]
    BY Keys DEF Plus, CountersOK
  <2>2. Plus(measured, <<"async_response", d>>)
          = [measured EXCEPT ![<<"async_response", d>>] = measured[<<"async_response", d>>] + 1]
    BY Keys DEF Plus, CountersOK
  <2>3. CASE result'.call = "response" /\ ObserveExchange(result')
    <3>1. Observed(result') = <<"response", d>>
      BY <1>1, <2>3 DEF Observed
    <3>. QED  BY <2>1, <2>3, <3>1 DEF ObserveExchange
  <2>4. CASE result'.call = "late_response" /\ RecordLateResponse(result')
    BY <1>1, <2>2, <2>4 DEF RecordLateResponse
  <2>. QED  BY <2>3, <2>4
<1>3. planned' = planned
  BY <1>1 DEF ObserveExchange, RecordLateResponse, HasReversal
<1>4. RowOf(result') = AnswerRow(d)
  BY <1>1 DEF Concludes, RowOf, AnswerRow, HasReversal
<1>5. /\ rows' \in [Row -> Nat] /\ lost' \in [Row -> Nat]
      /\ rows'[AnswerRow(d)] + lost'[AnswerRow(d)] = rows[AnswerRow(d)] + lost[AnswerRow(d)] + 1
      /\ \A y \in Row : y # AnswerRow(d) => rows'[y] = rows[y] /\ lost'[y] = lost[y]
  BY <1>1, <1>4, Keys, RowKept
<1>6. /\ c \notin ConcludedAs(d) /\ ConcludedAs(d)' = ConcludedAs(d) \union {c}
      /\ \A b \in {"accepted", "late"} : b # d => ConcludedAs(b)' = ConcludedAs(b)
      /\ Reversed' = Reversed
  <2>1. concluded \in [Correlations -> [accepted : 0..2, late : 0..2]]
    BY DEF IInv, TypeOK
  <2>2. concluded[c].accepted = 0 /\ concluded[c].late = 0
    BY <2>1 DEF IInv, ConcludedOnce, Concludes
  <2>3. concluded' = [concluded EXCEPT ![c][d] = 1]
    BY DEF Concludes
  <2>4. concluded[c][d] = 0 /\ concluded'[c][d] = 1
    BY <2>1, <2>2, <2>3
  <2>5. \A e \in Correlations \ {c} : concluded'[e] = concluded[e]
    BY <2>1, <2>3
  <2>6. \A b \in {"accepted", "late"} : b # d => concluded'[c][b] = concluded[c][b]
    BY <2>1, <2>3
  <2>7. c \notin ConcludedAs(d) /\ ConcludedAs(d)' = ConcludedAs(d) \union {c}
    BY <2>4, <2>5 DEF ConcludedAs
  <2>8. ASSUME NEW b \in {"accepted", "late"}, b # d PROVE ConcludedAs(b)' = ConcludedAs(b)
    BY <2>5, <2>6, <2>8 DEF ConcludedAs
  <2>9. Reversed' = Reversed
    BY DEF Concludes, Reversed
  <2>. QED  BY <2>7, <2>8, <2>9
<1>7. /\ IsFiniteSet(ConcludedAs(d)) /\ IsFiniteSet(ConcludedAs(d)')
      /\ Cardinality(ConcludedAs(d)') = Cardinality(ConcludedAs(d)) + 1
  <2>1. IsFiniteSet(ConcludedAs(d))
    BY <1>1 DEF CountersOK
  <2>. QED  BY <1>6, <2>1, FS_AddElement
<1>8. CountersOK'
  <2>1. measured' \in [Conclusive \union AsyncConclusive -> Nat]
    BY <1>1, <1>2, Keys DEF CountersOK
  <2>2. IsFiniteSet(ConcludedAs("accepted")') /\ IsFiniteSet(ConcludedAs("late")')
    BY <1>1, <1>6, <1>7 DEF CountersOK
  <2>. QED  BY <1>1, <1>3, <1>5, <1>6, <2>1, <2>2 DEF CountersOK
<1>9. Agreement'
  <2>1. /\ measured'[<<"response", d>>] + measured'[<<"async_response", d>>]
             = measured[<<"response", d>>] + measured[<<"async_response", d>>] + 1
        /\ \A b \in {"accepted", "late"} : b # d =>
             /\ measured'[<<"response", b>>] = measured[<<"response", b>>]
             /\ measured'[<<"async_response", b>>] = measured[<<"async_response", b>>]
        /\ measured'[<<"timeout", "timed_out">>] = measured[<<"timeout", "timed_out">>]
    BY <1>1, <1>2, Keys DEF CountersOK
  <2>2. /\ TimeoutRow # AnswerRow(d)
        /\ \A b \in {"accepted", "late"} : b # d => AnswerRow(b) # AnswerRow(d)
    BY DEF TimeoutRow, AnswerRow
  <2>3. ASSUME NEW b \in {"accepted", "late"}
        PROVE  /\ measured'[<<"response", b>>] + measured'[<<"async_response", b>>]
                    = Cardinality(ConcludedAs(b)')
               /\ rows'[AnswerRow(b)] + lost'[AnswerRow(b)] = Cardinality(ConcludedAs(b)')
    <3>1. CASE b = d
      BY <1>1, <1>5, <1>7, <2>1, <3>1 DEF Agreement
    <3>2. CASE b # d
      BY <1>1, <1>5, <1>6, <2>1, <2>2, <3>2, Keys DEF Agreement
    <3>. QED  BY <3>1, <3>2
  <2>4. /\ measured'[<<"timeout", "timed_out">>] = Cardinality(Reversed')
        /\ planned' = Cardinality(Reversed')
        /\ rows'[TimeoutRow] + lost'[TimeoutRow] = Cardinality(Reversed')
    BY <1>1, <1>3, <1>5, <1>6, <2>1, <2>2, Keys DEF Agreement
  <2>. QED  BY <2>3, <2>4 DEF Agreement
<1>. QED  BY <1>8, <1>9

\* A timeout that links its reversal is counted once and has one row.
LEMMA LinkReport ==
  ASSUME IInv, ReportsInv, Record(result'),
         NEW c \in Correlations, NEW r \in ReversalKeys, Links(c, r), ObserveExchange(result')
  PROVE  ReportsInv'
<1>. USE DEF ReportsInv
<1>1. /\ CountersOK /\ Agreement
      /\ result'.call = "timeout" /\ result'.returned = "timed_out" /\ HasReversal(result')
  BY DEF Links, HasReversal
<1>2. /\ measured' = [measured EXCEPT ![<<"timeout", "timed_out">>]
                                        = measured[<<"timeout", "timed_out">>] + 1]
      /\ planned' = planned + 1
  <2>1. Observed(result') = <<"timeout", "timed_out">>
    BY <1>1 DEF Observed
  <2>. QED  BY <1>1, <2>1, Keys DEF ObserveExchange, Plus, CountersOK
<1>3. RowOf(result') = TimeoutRow
  BY <1>1 DEF RowOf, TimeoutRow
<1>4. /\ rows' \in [Row -> Nat] /\ lost' \in [Row -> Nat]
      /\ rows'[TimeoutRow] + lost'[TimeoutRow] = rows[TimeoutRow] + lost[TimeoutRow] + 1
      /\ \A y \in Row : y # TimeoutRow => rows'[y] = rows[y] /\ lost'[y] = lost[y]
  BY <1>1, <1>3, Keys, RowKept
<1>5. /\ c \notin Reversed /\ Reversed' = Reversed \union {c}
      /\ \A b : ConcludedAs(b)' = ConcludedAs(b)
  BY TimeoutsAssumption DEF Links, Reversed, ConcludedAs, IInv, TypeOK
<1>6. IsFiniteSet(Reversed') /\ Cardinality(Reversed') = Cardinality(Reversed) + 1
  BY <1>1, <1>5, FS_AddElement DEF CountersOK
<1>7. CountersOK'
  BY <1>1, <1>2, <1>4, <1>5, <1>6, Keys DEF CountersOK
<1>8. Agreement'
  <2>1. /\ measured'[<<"timeout", "timed_out">>] = measured[<<"timeout", "timed_out">>] + 1
        /\ \A d \in {"accepted", "late"} :
             /\ measured'[<<"response", d>>] = measured[<<"response", d>>]
             /\ measured'[<<"async_response", d>>] = measured[<<"async_response", d>>]
    BY <1>1, <1>2, Keys DEF CountersOK
  <2>2. \A d \in {"accepted", "late"} : AnswerRow(d) # TimeoutRow
    BY DEF TimeoutRow, AnswerRow
  <2>. QED  BY <1>1, <1>2, <1>4, <1>5, <1>6, <2>1, <2>2, Keys DEF Agreement
<1>. QED  BY <1>7, <1>8

LEMMA ReportsInitInvariant == ReportsInit => ReportsInv
<1>. SUFFICES ASSUME ReportsInit PROVE ReportsInv
  OBVIOUS
<1>1. concluded = [c \in Correlations |-> [accepted |-> 0, late |-> 0]]
  BY DEF ReportsInit, Init
<1>2. ConcludedAs("accepted") = {} /\ ConcludedAs("late") = {}
  BY <1>1 DEF ConcludedAs
<1>3. links = [c \in Correlations |-> None]
  BY DEF ReportsInit, Init
<1>4. Reversed = {}
  BY <1>3 DEF Reversed
<1>5. /\ measured = [k \in Conclusive \union AsyncConclusive |-> 0] /\ planned = 0
      /\ rows = [x \in Row |-> 0] /\ lost = rows
  BY DEF ReportsInit
<1>6. IsFiniteSet({}) /\ Cardinality({}) = 0
  BY FS_EmptySet
<1>7. CountersOK
  BY <1>2, <1>4, <1>5, <1>6 DEF CountersOK
<1>8. Agreement
  BY <1>2, <1>4, <1>5, <1>6, Keys DEF Agreement
<1>. QED  BY <1>7, <1>8 DEF ReportsInv

\* An exchange never reports itself as a late response, nor a late response as
\* anything else.
LEMMA CallNames ==
  /\ \A a, t : Exchange(a, t) => result'.call \in {"failure", "timeout", "response"}
  /\ \A a : LateResponse(a) => result'.call = "late_response"
BY DEF Exchange, LocalFailure, MalformedResponse, AfterFailure, EarlyTimeout,
       UnsortableTimeout, ExpiringTimeout, UnsortableResponse, UnrelatedResponse,
       TimelyResponse, LateExchange, LateResponse, Return

LEMMA ReportsNextInvariant ==
  IInv /\ ReportsInv /\ [ReportsNext]_<<vars, reportVars>> => ReportsInv'
<1>. SUFFICES ASSUME IInv, ReportsInv, [ReportsNext]_<<vars, reportVars>> PROVE ReportsInv'
  OBVIOUS
<1>1. ASSUME UNCHANGED <<links, concluded, reportVars>> PROVE ReportsInv'
  BY <1>1 DEF reportVars, ReportsInv, CountersOK, Agreement, Reversed, ConcludedAs
<1>2. CASE /\ Tick \/ \E c \in Correlations, timeout \in Timeouts : Start(c, timeout)
           /\ UNCHANGED reportVars
  BY <1>1, <1>2 DEF Tick, Start, history
<1>3. ASSUME NEW a \in attempts, NEW t \in now..MaxTime, ReportedExchange(a, t)
      PROVE  ReportsInv'
  <2>1. PICK c \in Correlations : c = a.correlation
    BY DEF IInv, TypeOK, Attempts
  <2>2. /\ CallOf(c) /\ result'.call \in {"failure", "timeout", "response"}
        /\ ObserveExchange(result') /\ Record(result')
    BY <1>3, <2>1, ExchangeCall, CallNames DEF ReportedExchange
  <2>3. ASSUME NEW d \in {"accepted", "late"}, Concludes(c, d) PROVE ReportsInv'
    BY <2>2, <2>3, ConclusionReport DEF Concludes
  <2>. QED  BY <2>2, <2>3, QuietReport, LinkReport DEF CallOf
<1>4. ASSUME NEW a \in attempts, ReportedLateResponse(a) PROVE ReportsInv'
  <2>1. PICK c \in Correlations : c = a.correlation
    BY DEF IInv, TypeOK, Attempts
  <2>2. /\ CallOf(c) /\ result'.call = "late_response"
        /\ RecordLateResponse(result') /\ Record(result')
    BY <1>4, <2>1, LateResponseCall, CallNames DEF ReportedLateResponse
  <2>3. ASSUME NEW r \in ReversalKeys, Links(c, r) PROVE ReportsInv'
    BY <2>2, <2>3 DEF Links
  <2>. QED  BY <2>2, <2>3, QuietReport, ConclusionReport DEF CallOf
<1>5. CASE UNCHANGED <<vars, reportVars>>
  BY <1>1, <1>5 DEF vars, history
<1>. QED  BY <1>2, <1>3, <1>4, <1>5 DEF ReportsNext

LEMMA ReportsInvariant == ReportsSpec => []ReportsInv
<1>1. ReportsSpec => []IInv
  BY ReportsOnly, FlowInvariant, PTL
<1>. QED
  BY <1>1, ReportsInitInvariant, ReportsNextInvariant, PTL DEF ReportsSpec

\* NetworkTelemetry counts each conclusion and each reversal plan once, by whichever
\* call it came.
THEOREM MetricsTellTheFlow == ReportsSpec => []MetricsAgree
BY ReportsInvariant, AgreementParts, PTL DEF ReportsInv

\* network_observations has a row for each conclusion and each reversal, except
\* for the inserts that failed.
THEOREM HistoryTellsTheFlow == ReportsSpec => []HistoryAgrees
BY ReportsInvariant, AgreementParts, PTL DEF ReportsInv
=============================================================================
