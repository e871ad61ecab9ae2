------------------------ MODULE EventDeliveryProofs ------------------------
(***************************************************************************)
(* Theorems about Outbox and EventConsumer, alone and composed, for every  *)
(* set of events, workers, consumers and sessions and all parameters of    *)
(* claim_batch.                                                            *)
(***************************************************************************)
EXTENDS EventDelivery, FiniteSetTheorems, TLAPS

-----------------------------------------------------------------------------
(* The inductive invariant of the outbox *)

\* What the step of a worker says of its batch: it has events while it is at
\* work, and acknowledges only what the outside has received.
WorkerOK(w) ==
  /\ step[w] = "idle" <=> batch[w] = {}
  /\ batch[w] \subseteq stored
  /\ step[w] = "ack" => Current(w) \in delivered

\* A row lock is held by the worker that has selected the row and not committed
\* its claim; the row was unpublished, and nobody can publish it.
RowLocksOK ==
  /\ \A e \in Events, w \in Workers :
       claimant[e] = w <=> step[w] = "claiming" /\ e \in batch[w]
  /\ \A e \in Events : claimant[e] # None => e \notin published

\* Who holds an event that nobody has held past the lease holds it alone, with an
\* attempt left, and from its commit on the row carries the worker's lease.
LeasesOK ==
  \A e \in Events \ overran : \A w \in Holders(e) :
    /\ Holders(e) = {w}
    /\ e \notin published /\ attempts[e] < MaxAttempts
    /\ heldAge[w] <= Lease
    /\ step[w] # "claiming" => lockedAge[e] = heldAge[w]

IInv ==
  /\ TypeOK /\ \A w \in Workers : WorkerOK(w)
  /\ RowLocksOK /\ LeasesOK /\ PublishedWasDelivered /\ AttemptsBounded

-----------------------------------------------------------------------------
(* Batches and holders *)

\* A set of naturals that is not empty has a least element.
LEMMA LeastElement ==
  ASSUME NEW S \in SUBSET Nat, S # {}
  PROVE  \E n \in S : \A m \in S : n <= m
<1>1. PICK R : R = OpToRel(<, Nat)
  OBVIOUS
<1>2. IsWellFoundedOn(R, Nat)
  BY <1>1, NatLessThanWellFounded
<1>3. \E n \in S : \A m \in S : ~(<<m, n>> \in R)
  BY <1>2, WFMin
<1>4. \A m, n \in Nat : <<m, n>> \in R <=> m < n
  BY <1>1 DEF OpToRel
<1>5. \A m, n \in S : ~(<<m, n>> \in R) => n <= m
  BY <1>4
<1>. QED  BY <1>3, <1>5

\* A worker at work has a current event, which is one of its batch.
LEMMA CurrentInBatch ==
  ASSUME TypeOK, NEW w \in Workers, batch[w] # {}
  PROVE  Current(w) \in batch[w] /\ Current(w) \in Events
<1>1. batch[w] \in SUBSET Nat /\ batch[w] \subseteq Events
  BY ParametersAssumption DEF TypeOK
<1>2. \E e \in batch[w] : \A f \in batch[w] : e <= f
  BY <1>1, LeastElement
<1>. QED  BY <1>1, <1>2 DEF Current

\* The current event depends on the batch alone.
LEMMA CurrentKept ==
  ASSUME NEW w \in Workers, batch'[w] = batch[w]
  PROVE  Current(w)' = Current(w)
BY DEF Current

\* Events have finitely many holders, at most all workers.
LEMMA HoldersFinite ==
  ASSUME NEW e
  PROVE  /\ IsFiniteSet(Holders(e)) /\ Cardinality(Holders(e)) \in Nat
         /\ Cardinality(Holders(e)) <= Cardinality(Workers)
         /\ Cardinality(Workers) \in Nat
         /\ IsFiniteSet(Holders(e)') /\ Cardinality(Holders(e)') \in Nat
         /\ Cardinality(Holders(e)') <= Cardinality(Workers)
<1>1. Holders(e) \in SUBSET Workers /\ Holders(e)' \in SUBSET Workers
  BY DEF Holders
<1>. QED  BY <1>1, ParametersAssumption, FS_Subset, FS_CardinalityType

\* The holders of an event are those whose batch has it.
LEMMA HoldersOf ==
  ASSUME NEW e
  PROVE  /\ \A w : w \in Holders(e) <=> w \in Workers /\ e \in batch[w]
         /\ \A w : w \in Holders(e)' <=> w \in Workers /\ e \in batch'[w]
BY DEF Holders

-----------------------------------------------------------------------------
(* Every step keeps the invariant *)

LEMMA InitInvariant == Init => IInv
<1>. SUFFICES ASSUME Init PROVE IInv
  OBVIOUS
<1>1. TypeOK
  BY ParametersAssumption DEF Init, TypeOK, Ages, Steps, Expired
<1>2. \A e \in Events : Holders(e) = {}
  BY DEF Init, Holders
<1>3. AttemptsBounded
  BY <1>2, HoldersFinite, FS_EmptySet, ParametersAssumption DEF Init, AttemptsBounded
<1>4. (\A w \in Workers : WorkerOK(w)) /\ RowLocksOK /\ PublishedWasDelivered
  BY ParametersAssumption DEF Init, WorkerOK, RowLocksOK, PublishedWasDelivered
<1>5. LeasesOK
  BY <1>2 DEF LeasesOK
<1>. QED  BY <1>1, <1>3, <1>4, <1>5 DEF IInv

\* What time does: an event joins the overrun ones when a worker at work has held
\* it for the whole lease.
LEMMA OverrunGrows ==
  ASSUME TypeOK, Tick
  PROVE  /\ overran \subseteq overran' /\ overran' \subseteq Events
         /\ \A w \in Workers : \A e \in batch[w] :
              step[w] # "idle" /\ heldAge[w] >= Lease => e \in overran'
<1>. DEFINE late == {v \in Workers : step[v] # "idle" /\ heldAge[v] >= Lease}
<1>1. overran' = overran \union UNION {batch[v] : v \in late}
  BY DEF Tick
<1>2. \A e : e \in UNION {batch[v] : v \in late} <=> (\E w \in late : e \in batch[w])
  OBVIOUS
<1>3. \A w \in late : batch[w] \subseteq Events
  BY DEF TypeOK
<1>. HIDE DEF late
<1>4. \A e : e \in overran' <=> e \in overran \/ \E w \in late : e \in batch[w]
  BY <1>1, <1>2, Zenon
<1>. QED  BY <1>3, <1>4 DEF TypeOK, late

\* What an acknowledgement and a failure have in common: the worker is done with
\* its current event, whose row nobody has locked.
LEMMA HandledFacts ==
  ASSUME IInv, NEW w \in Workers, Acknowledge(w) \/ RecordFailure(w),
         NEW e, e = Current(w)
  PROVE  /\ e \in batch[w] /\ e \in Events /\ e \in stored
         /\ step[w] \in {"ack", "fail"} /\ claimant[e] = None
         /\ published' = (IF step[w] = "ack" THEN published \union {e} ELSE published)
         /\ attempts' = [attempts EXCEPT ![e] =
                           IF e \in published THEN attempts[e] ELSE attempts[e] + 1]
         /\ lockedAge' = [lockedAge EXCEPT ![e] =
                            IF e \in published THEN lockedAge[e] ELSE None]
         /\ batch' = [batch EXCEPT ![w] = batch[w] \ {e}]
         /\ step' = [step EXCEPT ![w] = IF batch[w] = {e} THEN "idle" ELSE "publish"]
         /\ UNCHANGED <<stored, claimant, heldAge, delivered, overran, crashes, resets>>
<1>1. step[w] \in {"ack", "fail"}
  BY DEF Acknowledge, RecordFailure
<1>2. batch[w] # {} /\ batch[w] \subseteq stored
  BY <1>1 DEF IInv, WorkerOK
<1>3. Current(w) \in batch[w] /\ Current(w) \in Events
  BY <1>2, CurrentInBatch DEF IInv
<1>. QED
  BY <1>1, <1>2, <1>3
     DEF Acknowledge, RecordFailure, RowFree, CountAttempt, FreeLease,
         FailureKeepsUnpublished, Finish, history, bounds

LEMMA TypeStep == IInv /\ [Next]_vars => TypeOK'
<1>. SUFFICES ASSUME IInv, [Next]_vars PROVE TypeOK'
  OBVIOUS
<1>. USE ParametersAssumption
     DEF TypeOK, Ages, Steps, Expired, rowVars, workerVars, history, bounds
<1>0. TypeOK /\ \A w \in Workers : WorkerOK(w)
  BY DEF IInv
<1>1. ASSUME NEW e \in Events, Store(e) PROVE TypeOK'
  BY <1>0, <1>1 DEF Store
<1>2. ASSUME NEW e \in Events, ResetEvent(e) PROVE TypeOK'
  BY <1>0, <1>2 DEF ResetEvent
<1>3. CASE Tick
  <2>1. \A age \in Ages : Older(age) \in Ages
    BY DEF Older
  <2>2. overran' \subseteq Events
    BY <1>0, <1>3, OverrunGrows
  <2>. QED  BY <1>0, <1>3, <2>1, <2>2 DEF Tick
<1>4. ASSUME NEW w \in Workers, ClaimSelect(w) PROVE TypeOK'
  BY <1>0, <1>4 DEF ClaimSelect, Claimable
<1>5. ASSUME NEW w \in Workers, ClaimCommit(w) PROVE TypeOK'
  BY <1>0, <1>5 DEF ClaimCommit
<1>6. ASSUME NEW w \in Workers, step[w] \in {"publish", "ack", "fail"}
      PROVE  Current(w) \in stored /\ Current(w) \in Events
  BY <1>0, <1>6, CurrentInBatch DEF WorkerOK
<1>7. ASSUME NEW w \in Workers, Publish(w) PROVE TypeOK'
  BY <1>0, <1>6, <1>7 DEF Publish
<1>8. ASSUME NEW w \in Workers, Acknowledge(w) \/ RecordFailure(w) PROVE TypeOK'
  <2>1. PICK e : e = Current(w)
    OBVIOUS
  <2>2. /\ e \in Events /\ e \in stored
        /\ published' = published \/ published' = published \union {e}
        /\ attempts' = [attempts EXCEPT ![e] =
                          IF e \in published THEN attempts[e] ELSE attempts[e] + 1]
        /\ lockedAge' = [lockedAge EXCEPT ![e] =
                           IF e \in published THEN lockedAge[e] ELSE None]
        /\ batch' = [batch EXCEPT ![w] = batch[w] \ {e}]
        /\ step' = [step EXCEPT ![w] = IF batch[w] = {e} THEN "idle" ELSE "publish"]
        /\ UNCHANGED <<stored, claimant, heldAge, delivered, overran, crashes, resets>>
    BY <1>8, <2>1, HandledFacts
  <2>3. attempts' \in [Events -> Nat]
    BY <1>0, <2>2
  <2>4. lockedAge' \in [Events -> Ages \union {None}]
    BY <1>0, <2>2
  <2>5. batch' \in [Workers -> SUBSET Events] /\ step' \in [Workers -> Steps]
    BY <1>0, <2>2
  <2>. QED  BY <1>0, <2>2, <2>3, <2>4, <2>5
<1>9. ASSUME NEW w \in Workers, Crash(w) PROVE TypeOK'
  BY <1>0, <1>9 DEF Crash
<1>10. CASE UNCHANGED vars
  BY <1>0, <1>10 DEF vars
<1>. QED
  BY <1>1, <1>2, <1>3, <1>4, <1>5, <1>7, <1>8, <1>9, <1>10 DEF Next, Work

\* The other components: what is stored or reset is nobody's business but the
\* row's, and a reset event has all its attempts left.
LEMMA OutsideStep ==
  ASSUME IInv, NEW e \in Events, Store(e) \/ ResetEvent(e), TypeOK'
  PROVE  IInv'
<1>. USE ParametersAssumption DEF IInv, TypeOK
<1>1. /\ UNCHANGED <<published, lockedAge, claimant, step, batch, heldAge, delivered, overran>>
      /\ stored \subseteq stored'
      /\ attempts' = attempts \/ attempts' = [attempts EXCEPT ![e] = 0]
  BY DEF Store, ResetEvent, workerVars, history
<1>2. \A f : Holders(f)' = Holders(f)
  BY <1>1 DEF Holders
<1>3. \A f \in Events : attempts'[f] <= attempts[f] /\ attempts'[f] \in Nat
  BY <1>1
<1>4. \A w \in Workers : WorkerOK(w)'
  BY <1>1, CurrentKept DEF WorkerOK
<1>5. RowLocksOK' /\ PublishedWasDelivered'
  BY <1>1 DEF RowLocksOK, PublishedWasDelivered
<1>6. LeasesOK'
  BY <1>1, <1>2, <1>3 DEF LeasesOK
<1>7. AttemptsBounded'
  BY <1>1, <1>2, <1>3, HoldersFinite DEF AttemptsBounded
<1>. QED  BY <1>4, <1>5, <1>6, <1>7

\* A lease that time runs out makes its events overrun ones.
LEMMA TickStep ==
  ASSUME IInv, Tick, TypeOK'
  PROVE  IInv'
<1>. USE ParametersAssumption DEF IInv, TypeOK, Ages, Expired
<1>1. /\ UNCHANGED <<stored, published, attempts, claimant, step, batch, delivered>>
      /\ lockedAge' = [e \in Events |->
                         IF lockedAge[e] = None THEN None ELSE Older(lockedAge[e])]
      /\ heldAge' = [w \in Workers |-> IF step[w] = "idle" THEN 0 ELSE Older(heldAge[w])]
  BY DEF Tick
<1>2. \A e : Holders(e)' = Holders(e)
  BY <1>1 DEF Holders
<1>3. \A w \in Workers : WorkerOK(w)'
  BY <1>1, CurrentKept DEF WorkerOK
<1>4. RowLocksOK' /\ PublishedWasDelivered'
  BY <1>1 DEF RowLocksOK, PublishedWasDelivered
<1>5. LeasesOK'
  <2>. SUFFICES ASSUME NEW e \in Events \ overran', NEW w \in Holders(e)'
                PROVE  /\ Holders(e)' = {w}
                       /\ e \notin published' /\ attempts'[e] < MaxAttempts
                       /\ heldAge'[w] <= Lease
                       /\ step'[w] # "claiming" => lockedAge'[e] = heldAge'[w]
    BY DEF LeasesOK
  <2>1. w \in Workers /\ e \in batch[w] /\ step[w] # "idle" /\ e \notin overran
    BY <1>1, <1>2, OverrunGrows, HoldersOf DEF WorkerOK
  <2>2. heldAge[w] < Lease
    BY <2>1, OverrunGrows
  <2>3. step[w] # "claiming" => lockedAge[e] = heldAge[w] /\ lockedAge[e] # None
    BY <1>2, <2>1 DEF LeasesOK
  <2>. QED  BY <1>1, <1>2, <2>1, <2>2, <2>3 DEF LeasesOK, Older
<1>6. AttemptsBounded'
  BY <1>1, <1>2, OverrunGrows DEF AttemptsBounded
<1>. QED  BY <1>3, <1>4, <1>5, <1>6

\* A worker selects events that are free: whoever else has one of them has had it
\* for longer than the lease.
LEMMA ClaimSelectStep ==
  ASSUME IInv, NEW w \in Workers, ClaimSelect(w), TypeOK'
  PROVE  IInv'
<1>. USE ParametersAssumption DEF IInv, TypeOK
<1>1. PICK chosen \in SUBSET Claimable :
        /\ chosen # {}
        /\ batch' = [batch EXCEPT ![w] = chosen]
        /\ claimant' = [e \in Events |-> IF e \in chosen THEN w ELSE claimant[e]]
  BY DEF ClaimSelect
<1>2. /\ step[w] = "idle" /\ batch[w] = {}
      /\ step' = [step EXCEPT ![w] = "claiming"]
      /\ UNCHANGED <<stored, published, attempts, lockedAge, delivered, overran>>
      /\ heldAge' = [heldAge EXCEPT ![w] = 0]
  BY DEF ClaimSelect, rowVars, history, WorkerOK
<1>3. \A e \in chosen :
        /\ e \in Events /\ e \in stored /\ e \notin published
        /\ attempts[e] < MaxAttempts
        /\ lockedAge[e] = None \/ lockedAge[e] > Lease
        /\ claimant[e] = None
  BY DEF Claimable, AttemptsLeft, Unleased, RowFree
<1>. HIDE DEF Claimable
<1>4. \A v \in Workers : WorkerOK(v)'
  BY <1>1, <1>2, <1>3, CurrentKept DEF WorkerOK
<1>5. RowLocksOK' /\ PublishedWasDelivered'
  BY <1>1, <1>2, <1>3 DEF RowLocksOK, PublishedWasDelivered
<1>6. /\ \A e \in chosen : Holders(e)' = Holders(e) \union {w}
      /\ \A e \in Events \ chosen : Holders(e)' = Holders(e)
  <2>1. ASSUME NEW e PROVE e \in batch'[w] <=> e \in chosen
    BY <1>1
  <2>2. ASSUME NEW e, NEW v \in Workers \ {w} PROVE e \in batch'[v] <=> e \in batch[v]
    BY <1>1
  <2>3. ASSUME NEW e \in chosen PROVE Holders(e)' = Holders(e) \union {w}
    <3>1. \A v : v \in Holders(e)' <=> v \in Holders(e) \union {w}
      BY <2>1, <2>2, HoldersOf
    <3>. QED  BY <3>1, Zenon
  <2>4. ASSUME NEW e \in Events \ chosen PROVE Holders(e)' = Holders(e)
    <3>1. \A v : v \in Holders(e)' <=> v \in Holders(e)
      BY <1>2, <2>1, <2>2, HoldersOf
    <3>. QED  BY <3>1, Zenon
  <2>. QED  BY <2>3, <2>4
<1>7. \A e \in chosen : e \notin overran => Holders(e) = {}
  <2>. SUFFICES ASSUME NEW e \in chosen, e \notin overran, NEW v \in Holders(e) PROVE FALSE
    BY Zenon
  <2>0. v \in Workers /\ e \in batch[v] /\ e \in Events /\ claimant[e] # v
    BY <1>3, HoldersOf
  <2>1. step[v] # "claiming"
    BY <2>0 DEF RowLocksOK
  <2>2. lockedAge[e] = heldAge[v] /\ heldAge[v] <= Lease
    BY <2>0, <2>1 DEF LeasesOK
  <2>3. heldAge[v] \in Nat
    BY <2>0 DEF Ages, Expired
  <2>. QED  BY <1>3, <2>2, <2>3
<1>8. LeasesOK'
  <2>. SUFFICES ASSUME NEW e \in Events \ overran, NEW v \in Holders(e)'
                PROVE  /\ Holders(e)' = {v}
                       /\ e \notin published' /\ attempts'[e] < MaxAttempts
                       /\ heldAge'[v] <= Lease
                       /\ step'[v] # "claiming" => lockedAge'[e] = heldAge'[v]
    BY <1>2 DEF LeasesOK
  <2>1. CASE e \in chosen
    <3>1. Holders(e)' = {w} /\ v = w
      BY <1>6, <1>7, <2>1
    <3>. QED  BY <1>2, <1>3, <2>1, <3>1
  <2>2. CASE e \notin chosen
    <3>1. Holders(e)' = Holders(e) /\ v \in Holders(e) /\ v \in Workers
      BY <1>6, <2>2, HoldersOf
    <3>2. v # w
      BY <1>2, <3>1, HoldersOf
    <3>. QED  BY <1>2, <3>1, <3>2 DEF LeasesOK
  <2>. QED  BY <2>1, <2>2
<1>9. AttemptsBounded'
  <2>1. ASSUME NEW e \in Events
        PROVE  /\ attempts'[e] + Cardinality(Holders(e)') < MaxAttempts + Cardinality(Workers)
               /\ e \notin overran' => attempts'[e] <= MaxAttempts
    <3>1. CASE e \in chosen
      BY <1>2, <1>3, <3>1, HoldersFinite
    <3>2. CASE e \notin chosen
      BY <1>2, <1>6, <3>2 DEF AttemptsBounded
    <3>. QED  BY <3>1, <3>2
  <2>. QED  BY <2>1 DEF AttemptsBounded
<1>. QED  BY <1>4, <1>5, <1>8, <1>9

\* The claim's commit puts the worker's lease on the rows it has locked.
LEMMA ClaimCommitStep ==
  ASSUME IInv, NEW w \in Workers, ClaimCommit(w), TypeOK'
  PROVE  IInv'
<1>. USE ParametersAssumption DEF IInv, TypeOK
<1>1. /\ step[w] = "claiming" /\ step' = [step EXCEPT ![w] = "publish"]
      /\ lockedAge' = [e \in Events |-> IF e \in batch[w] THEN heldAge[w] ELSE lockedAge[e]]
      /\ claimant' = [e \in Events |-> IF claimant[e] = w THEN None ELSE claimant[e]]
      /\ UNCHANGED <<stored, published, attempts, batch, heldAge, delivered, overran>>
  BY DEF ClaimCommit, history
<1>2. \A e : Holders(e)' = Holders(e)
  BY <1>1 DEF Holders
<1>3. \A v \in Workers : WorkerOK(v)'
  BY <1>1, CurrentKept DEF WorkerOK
<1>4. RowLocksOK' /\ PublishedWasDelivered'
  BY <1>1 DEF RowLocksOK, PublishedWasDelivered
<1>5. LeasesOK'
  <2>. SUFFICES ASSUME NEW e \in Events \ overran, NEW v \in Holders(e)
                PROVE  /\ Holders(e) = {v}
                       /\ e \notin published /\ attempts[e] < MaxAttempts
                       /\ heldAge[v] <= Lease
                       /\ step'[v] # "claiming" => lockedAge'[e] = heldAge[v]
    BY <1>1, <1>2 DEF LeasesOK
  <2>1. v \in Workers /\ e \in batch[v] /\ (e \in batch[w] => v = w)
    BY HoldersOf DEF LeasesOK
  <2>. QED  BY <1>1, <2>1 DEF LeasesOK
<1>6. AttemptsBounded'
  BY <1>1, <1>2 DEF AttemptsBounded
<1>. QED  BY <1>3, <1>4, <1>5, <1>6

\* A publication, whatever the call answers, leaves the rows alone; one that
\* answers without error has been received.
LEMMA PublishStep ==
  ASSUME IInv, NEW w \in Workers, Publish(w), TypeOK'
  PROVE  IInv'
<1>. USE ParametersAssumption DEF IInv, TypeOK
<1>1. /\ step[w] = "publish"
      /\ \/ step' = [step EXCEPT ![w] = "ack"] /\ delivered' = delivered \union {Current(w)}
         \/ step' = [step EXCEPT ![w] = "fail"]
      /\ delivered \subseteq delivered'
      /\ UNCHANGED <<stored, published, attempts, lockedAge, claimant, batch, heldAge, overran>>
  BY DEF Publish, rowVars
<1>2. \A e : Holders(e)' = Holders(e)
  BY <1>1 DEF Holders
<1>3. ASSUME NEW v \in Workers PROVE WorkerOK(v)'
  <2>1. Current(v)' = Current(v)
    BY <1>1, CurrentKept
  <2>. QED  BY <1>1, <2>1 DEF WorkerOK
<1>4. RowLocksOK' /\ PublishedWasDelivered'
  BY <1>1 DEF RowLocksOK, PublishedWasDelivered
<1>5. LeasesOK'
  BY <1>1, <1>2, HoldersOf DEF LeasesOK
<1>6. AttemptsBounded'
  BY <1>1, <1>2 DEF AttemptsBounded
<1>. QED  BY <1>3, <1>4, <1>5, <1>6

\* A worker that is done with an event counts an attempt, and no longer holds it:
\* the attempt it adds is one that the bound had kept for it.
LEMMA HandledStep ==
  ASSUME IInv, NEW w \in Workers, Acknowledge(w) \/ RecordFailure(w), TypeOK'
  PROVE  IInv'
<1>. USE ParametersAssumption DEF IInv, TypeOK
<1>1. PICK e : e = Current(w)
  OBVIOUS
<1>2. /\ e \in batch[w] /\ e \in Events /\ e \in stored
      /\ step[w] \in {"ack", "fail"} /\ claimant[e] = None
      /\ published' = (IF step[w] = "ack" THEN published \union {e} ELSE published)
      /\ attempts' = [attempts EXCEPT ![e] =
                        IF e \in published THEN attempts[e] ELSE attempts[e] + 1]
      /\ lockedAge' = [lockedAge EXCEPT ![e] =
                         IF e \in published THEN lockedAge[e] ELSE None]
      /\ batch' = [batch EXCEPT ![w] = batch[w] \ {e}]
      /\ step' = [step EXCEPT ![w] = IF batch[w] = {e} THEN "idle" ELSE "publish"]
      /\ UNCHANGED <<stored, claimant, heldAge, delivered, overran, crashes, resets>>
  BY <1>1, HandledFacts
<1>3. step[w] = "ack" => e \in delivered
  BY <1>1 DEF WorkerOK
<1>4. Holders(e)' = Holders(e) \ {w} /\ w \in Holders(e)
  BY <1>2, HoldersOf
<1>5. ASSUME NEW f \in Events \ {e}
      PROVE  /\ Holders(f)' = Holders(f)
             /\ attempts'[f] = attempts[f] /\ lockedAge'[f] = lockedAge[f]
             /\ f \in published' <=> f \in published
  <2>1. \A v \in Workers : f \in batch'[v] <=> f \in batch[v]
    BY <1>2
  <2>. QED  BY <1>2, <2>1 DEF Holders
<1>6. ASSUME NEW v \in Workers PROVE WorkerOK(v)'
  <2>1. CASE v = w
    BY <1>2, <2>1 DEF WorkerOK
  <2>2. CASE v # w
    <3>1. batch'[v] = batch[v] /\ step'[v] = step[v]
      BY <1>2, <2>2
    <3>. QED  BY <1>2, <3>1, CurrentKept DEF WorkerOK
  <2>. QED  BY <2>1, <2>2
<1>7. RowLocksOK'
  <2>1. \A f \in Events, v \in Workers :
          claimant'[f] = v <=> step'[v] = "claiming" /\ f \in batch'[v]
    BY <1>2 DEF RowLocksOK
  <2>2. \A f \in Events : claimant'[f] # None => f \notin published'
    BY <1>2 DEF RowLocksOK
  <2>. QED  BY <2>1, <2>2 DEF RowLocksOK
<1>8. PublishedWasDelivered'
  BY <1>2, <1>3 DEF PublishedWasDelivered
<1>9. LeasesOK'
  <2>. SUFFICES ASSUME NEW f \in Events \ overran, NEW v \in Holders(f)'
                PROVE  /\ Holders(f)' = {v}
                       /\ f \notin published' /\ attempts'[f] < MaxAttempts
                       /\ heldAge'[v] <= Lease
                       /\ step'[v] # "claiming" => lockedAge'[f] = heldAge'[v]
    BY <1>2 DEF LeasesOK
  <2>1. f # e
    BY <1>2, <1>4 DEF LeasesOK
  <2>2. v \in Holders(f) /\ v \in Workers /\ (step'[v] # "claiming" => step[v] # "claiming")
    BY <1>2, <1>5, <2>1, HoldersOf
  <2>. QED  BY <1>2, <1>5, <2>1, <2>2 DEF LeasesOK
<1>10. AttemptsBounded'
  <2>1. ASSUME NEW f \in Events
        PROVE  /\ attempts'[f] + Cardinality(Holders(f)') < MaxAttempts + Cardinality(Workers)
               /\ f \notin overran' => attempts'[f] <= MaxAttempts
    <3>1. CASE f = e
      <4>1. Cardinality(Holders(e)') = Cardinality(Holders(e)) - 1
        BY <1>4, HoldersFinite, FS_RemoveElement
      <4>2. attempts'[e] <= attempts[e] + 1 /\ attempts'[e] \in Nat /\ attempts[e] \in Nat
        <5>1. attempts \in [Events -> Nat]
          OBVIOUS
        <5>2. attempts'[e] = attempts[e] \/ attempts'[e] = attempts[e] + 1
          BY <1>2, <5>1
        <5>. QED  BY <1>2, <5>1, <5>2
      <4>3. e \notin overran => attempts[e] < MaxAttempts
        BY <1>2, <1>4 DEF LeasesOK
      <4>4. attempts[e] + Cardinality(Holders(e)) < MaxAttempts + Cardinality(Workers)
        BY <1>2 DEF AttemptsBounded
      <4>. QED  BY <1>2, <3>1, <4>1, <4>2, <4>3, <4>4, HoldersFinite
    <3>2. CASE f # e
      BY <1>2, <1>5, <3>2 DEF AttemptsBounded
    <3>. QED  BY <3>1, <3>2
  <2>. QED  BY <2>1 DEF AttemptsBounded
<1>. QED  BY <1>6, <1>7, <1>8, <1>9, <1>10

\* A worker that dies holds nothing any more, and locks no row.
LEMMA CrashStep ==
  ASSUME IInv, NEW w \in Workers, Crash(w), TypeOK'
  PROVE  IInv'
<1>. USE ParametersAssumption DEF IInv, TypeOK
<1>1. /\ claimant' = [e \in Events |-> IF claimant[e] = w THEN None ELSE claimant[e]]
      /\ step' = [step EXCEPT ![w] = "idle"]
      /\ batch' = [batch EXCEPT ![w] = {}]
      /\ heldAge' = [heldAge EXCEPT ![w] = 0]
      /\ UNCHANGED <<stored, published, attempts, lockedAge, delivered, overran>>
  BY DEF Crash, rowVars, history
<1>2. ASSUME NEW e, NEW v \in Holders(e)'
      PROVE  v \in Holders(e) /\ v \in Workers /\ v # w
  BY <1>1, HoldersOf
<1>3. \A v \in Workers : WorkerOK(v)'
  BY <1>1, CurrentKept DEF WorkerOK
<1>4. RowLocksOK' /\ PublishedWasDelivered'
  BY <1>1 DEF RowLocksOK, PublishedWasDelivered
<1>5. LeasesOK'
  BY <1>1, <1>2 DEF LeasesOK
<1>6. ASSUME NEW e PROVE Cardinality(Holders(e)') <= Cardinality(Holders(e))
  BY <1>2, HoldersFinite, FS_Subset
<1>7. AttemptsBounded'
  BY <1>1, <1>6, HoldersFinite DEF AttemptsBounded
<1>. QED  BY <1>3, <1>4, <1>5, <1>7

LEMMA NextInvariant == IInv /\ [Next]_vars => IInv'
<1>. SUFFICES ASSUME IInv, [Next]_vars PROVE IInv'
  OBVIOUS
<1>1. TypeOK'
  BY TypeStep
<1>2. CASE UNCHANGED vars
  <2>1. /\ \A w \in Workers : Current(w)' = Current(w)
        /\ \A e : Holders(e)' = Holders(e)
    BY <1>2, CurrentKept DEF vars, workerVars, Holders
  <2>. QED
    BY <1>1, <1>2, <2>1
       DEF IInv, vars, rowVars, workerVars, history, WorkerOK, RowLocksOK, LeasesOK,
           PublishedWasDelivered, AttemptsBounded
<1>. QED
  BY <1>1, <1>2, OutsideStep, TickStep, ClaimSelectStep, ClaimCommitStep, PublishStep,
     HandledStep, CrashStep
     DEF Next, Work

\* The outbox part of a delivery behaves as the outbox alone: a consumer's step
\* leaves every variable of the outbox as it was.
LEMMA DeliveryIsOutbox == DeliverySpec => Spec
<1>1. DeliveryInit => Init
  BY DEF DeliveryInit
<1>2. Consumer!ConsumerNext => UNCHANGED delivered
  BY DEF Consumer!ConsumerNext, Consumer!ConsumerStep, Consumer!Take, Consumer!Claim,
         Consumer!Duplicate, Consumer!Handle, Consumer!Consume, Consumer!RollBack
<1>3. [DeliveryNext]_allVars => [Next]_vars
  BY <1>2 DEF DeliveryNext, allVars, vars, outboxOnly, history
<1>. QED  BY <1>1, <1>3, PTL DEF DeliverySpec, Spec

LEMMA OutboxInvariant == DeliverySpec => []IInv
BY InitInvariant, NextInvariant, DeliveryIsOutbox, PTL DEF Spec

-----------------------------------------------------------------------------
(* What publish_batch, its leases and its row locks give *)

\* The rows and the workers of publish_batch keep their types.
THEOREM OutboxTypes == DeliverySpec => []TypeOK
BY OutboxInvariant, PTL DEF IInv

\* acknowledge marks an event published only after publish() has answered for it,
\* also when another worker took it over in between.
THEOREM PublishedDelivered == DeliverySpec => []PublishedWasDelivered
BY OutboxInvariant, PTL DEF IInv

\* SKIP LOCKED and the lease give an event to one worker at a time, for as long as
\* no holder outlives its lease.
THEOREM ExclusiveClaims == DeliverySpec => []OverlapNeedsOverrun
<1>1. IInv => OverlapNeedsOverrun
  <2>. SUFFICES ASSUME IInv, NEW e \in Events, e \notin overran
                PROVE  Cardinality(Holders(e)) <= 1
    BY DEF OverlapNeedsOverrun
  <2>1. CASE Holders(e) = {}
    BY <2>1, FS_EmptySet
  <2>2. ASSUME NEW w \in Holders(e) PROVE Holders(e) = {w}
    BY DEF IInv, LeasesOK
  <2>3. \A w : Cardinality({w}) = 1
    BY FS_Singleton
  <2>. QED  BY <2>1, <2>2, <2>3
<1>. QED  BY <1>1, OutboxInvariant, PTL

\* max_attempts bounds the attempts of claim_batch, acknowledge and
\* record_failure up to one more for each worker holding the event too long.
THEOREM BoundedAttempts == DeliverySpec => []AttemptsBounded
BY OutboxInvariant, PTL DEF IInv

\* The guard published_at IS NULL of every UPDATE, and the row lock of claim_batch,
\* leave a published row as it is.
THEOREM PublishedIsFinal == DeliverySpec => PublishedRowFrozen
<1>. DEFINE Frozen == \A e \in published :
                        e \in published' /\ attempts'[e] = attempts[e]
                          /\ (lockedAge[e] = None => lockedAge'[e] = None)
<1>1. ASSUME IInv, [Next]_vars PROVE Frozen
  <2>. SUFFICES ASSUME NEW e \in published
                PROVE  /\ e \in published' /\ attempts'[e] = attempts[e]
                       /\ lockedAge[e] = None => lockedAge'[e] = None
    OBVIOUS
  <2>. USE DEF TypeOK
  <2>0. TypeOK /\ e \in Events
    BY <1>1 DEF IInv
  <2>1. ASSUME NEW f \in Events, Store(f) \/ ResetEvent(f)
        PROVE  /\ e \in published' /\ attempts'[e] = attempts[e]
               /\ lockedAge[e] = None => lockedAge'[e] = None
    BY <2>0, <2>1 DEF Store, ResetEvent
  <2>2. CASE Tick
    BY <2>0, <2>2 DEF Tick
  <2>3. ASSUME NEW w \in Workers, ClaimSelect(w) \/ Publish(w) \/ Crash(w)
        PROVE  /\ e \in published' /\ attempts'[e] = attempts[e]
               /\ lockedAge[e] = None => lockedAge'[e] = None
    BY <2>3 DEF ClaimSelect, Publish, Crash, rowVars
  <2>4. ASSUME NEW w \in Workers, ClaimCommit(w)
        PROVE  /\ e \in published' /\ attempts'[e] = attempts[e]
               /\ lockedAge[e] = None => lockedAge'[e] = None
    <3>1. w # None /\ step[w] = "claiming" /\ RowLocksOK
      BY <1>1, <2>4, ParametersAssumption DEF ClaimCommit, IInv
    <3>2. e \in batch[w] => claimant[e] = w
      BY <2>0, <3>1 DEF RowLocksOK
    <3>3. e \notin batch[w]
      BY <2>0, <3>1, <3>2 DEF RowLocksOK
    <3>. QED  BY <2>0, <2>4, <3>3 DEF ClaimCommit
  <2>5. ASSUME NEW w \in Workers, Acknowledge(w) \/ RecordFailure(w)
        PROVE  /\ e \in published' /\ attempts'[e] = attempts[e]
               /\ lockedAge[e] = None => lockedAge'[e] = None
    <3>1. PICK f : f = Current(w)
      OBVIOUS
    <3>2. /\ published \subseteq published'
          /\ attempts' = [attempts EXCEPT ![f] =
                            IF f \in published THEN attempts[f] ELSE attempts[f] + 1]
          /\ lockedAge' = [lockedAge EXCEPT ![f] =
                             IF f \in published THEN lockedAge[f] ELSE None]
      BY <1>1, <2>5, <3>1, HandledFacts
    <3>. QED  BY <2>0, <3>2
  <2>6. CASE UNCHANGED vars
    BY <2>6 DEF vars, rowVars
  <2>. QED  BY <1>1, <2>1, <2>2, <2>3, <2>4, <2>5, <2>6 DEF Next, Work
<1>2. IInv /\ [Next]_vars => [Frozen]_vars
  BY <1>1
<1>. QED  BY <1>2, OutboxInvariant, DeliveryIsOutbox, PTL DEF Spec, PublishedRowFrozen

-----------------------------------------------------------------------------
(* What consume_once gives *)

Pairs == Consumer!Pairs

Running(x) == \E s \in Sessions : place[s] = "handled" /\ work[s] = x

\* The pending insert of a pair belongs to the session that has inserted it and
\* not yet ended its transaction, and to a pair that is not consumed.
ClaimsOK ==
  /\ \A s \in Sessions : place[s] # "idle" => work[s] \in Pairs
  /\ \A x \in Pairs, s \in Sessions :
       pairClaimant[x] = s <=> place[s] \in {"claimed", "handled"} /\ work[s] = x
  /\ \A x \in Pairs : pairClaimant[x] # None => x \notin consumed
  /\ \A x \in Pairs : undone[x] <= rollbacks

\* The effects on a pair are counted once: a pair that is consumed is in nobody's
\* hands, so the two terms of the balance exclude each other.
ConsumerInv == Consumer!ConsumerTypeOK /\ ClaimsOK /\ EffectsAccountedFor

LEMMA ConsumerInitInvariant == DeliveryInit => ConsumerInv
BY ConsumersAssumption
   DEF DeliveryInit, Consumer!ConsumerInit, ConsumerInv, Consumer!ConsumerTypeOK,
       Consumer!Pairs, Consumer!Places, Consumer!Counts, ClaimsOK, Pairs,
       EffectsAccountedFor, Consumer!EffectsAccountedFor

\* Of a pair that is consumed or waits for a commit, the effects are known.
LEMMA EffectsOf ==
  ASSUME ConsumerInv, NEW x \in Pairs
  PROVE  /\ handled[x] = undone[x] + (IF x \in consumed THEN 1 ELSE 0)
                           + (IF Running(x) THEN 1 ELSE 0)
         /\ x \in consumed => ~Running(x)
         /\ handled[x] \in Nat /\ undone[x] \in Nat /\ undone[x] <= rollbacks
         /\ rollbacks \in Nat /\ rollbacks <= MaxRollbacks
<1>1. \A s \in Sessions : place[s] = "handled" /\ work[s] = x => pairClaimant[x] = s /\ s # None
  BY ConsumersAssumption DEF ConsumerInv, ClaimsOK
<1>2. x \in consumed => ~Running(x)
  BY <1>1 DEF ConsumerInv, ClaimsOK, Running
<1>. QED
  BY <1>2, ConsumersAssumption
     DEF ConsumerInv, EffectsAccountedFor, Consumer!EffectsAccountedFor, Running, ClaimsOK,
         Consumer!ConsumerTypeOK, Consumer!Counts, Pairs

\* The end of a transaction, with a commit, a rollback or nothing to insert.
LEMMA SettleFacts ==
  ASSUME ConsumerInv, NEW s \in Sessions, Consumer!Settle(s), NEW x \in Pairs
  PROVE  /\ pairClaimant'[x] = (IF pairClaimant[x] = s THEN None ELSE pairClaimant[x])
         /\ place' = [place EXCEPT ![s] = "idle"] /\ work' = [work EXCEPT ![s] = None]
         /\ Running(x)' <=> \E t \in Sessions \ {s} : place[t] = "handled" /\ work[t] = x
         /\ place[s] = "handled" /\ work[s] = x => ~Running(x)'
         /\ ~(place[s] = "handled" /\ work[s] = x) => (Running(x)' <=> Running(x))
<1>. USE DEF ConsumerInv, Consumer!ConsumerTypeOK, Pairs
<1>1. /\ pairClaimant'[x] = (IF pairClaimant[x] = s THEN None ELSE pairClaimant[x])
      /\ place' = [place EXCEPT ![s] = "idle"] /\ work' = [work EXCEPT ![s] = None]
  BY DEF Consumer!Settle
<1>2. Running(x)' <=> \E t \in Sessions \ {s} : place[t] = "handled" /\ work[t] = x
  BY <1>1 DEF Running
<1>3. place[s] = "handled" /\ work[s] = x => ~Running(x)'
  BY <1>2 DEF ClaimsOK
<1>4. ~(place[s] = "handled" /\ work[s] = x) => (Running(x)' <=> Running(x))
  BY <1>2 DEF Running
<1>. QED  BY <1>1, <1>2, <1>3, <1>4

\* The transaction's end keeps the claims in order.
LEMMA SettleKeepsClaims ==
  ASSUME ConsumerInv, NEW s \in Sessions, Consumer!Settle(s), place[s] # "idle",
         \/ consumed' = consumed
         \/ place[s] = "handled" /\ consumed' = consumed \union {work[s]},
         \A x \in Pairs : undone'[x] <= rollbacks'
  PROVE  /\ ClaimsOK'
         /\ pairClaimant' \in [Pairs -> Sessions \union {None}]
         /\ place' \in [Sessions -> Consumer!Places]
         /\ work' \in [Sessions -> Pairs \union {None}]
         /\ consumed' \subseteq Pairs
<1>. USE DEF ConsumerInv, Consumer!ConsumerTypeOK, Pairs, Consumer!Places
<1>1. work[s] \in Pairs /\ s # None
  BY ConsumersAssumption DEF ClaimsOK
<1>2. /\ pairClaimant' \in [Pairs -> Sessions \union {None}]
      /\ place' \in [Sessions -> Consumer!Places]
      /\ work' \in [Sessions -> Pairs \union {None}]
      /\ consumed' \subseteq Pairs
  BY <1>1 DEF Consumer!Settle
<1>3. \A t \in Sessions : place'[t] # "idle" => work'[t] \in Pairs
  BY DEF Consumer!Settle, ClaimsOK
<1>4. \A x \in Pairs, t \in Sessions :
        pairClaimant'[x] = t <=> place'[t] \in {"claimed", "handled"} /\ work'[t] = x
  <2>. SUFFICES ASSUME NEW x \in Pairs, NEW t \in Sessions
                PROVE  pairClaimant'[x] = t
                         <=> place'[t] \in {"claimed", "handled"} /\ work'[t] = x
    OBVIOUS
  <2>1. t # None
    BY ConsumersAssumption
  <2>2. CASE t = s
    BY <2>1, <2>2, SettleFacts
  <2>3. CASE t # s
    <3>1. place'[t] = place[t] /\ work'[t] = work[t]
      BY <2>3, SettleFacts
    <3>. QED  BY <2>1, <2>3, <3>1, SettleFacts DEF ClaimsOK
  <2>. QED  BY <2>2, <2>3
<1>5. \A x \in Pairs : pairClaimant'[x] # None => x \notin consumed'
  <2>. SUFFICES ASSUME NEW x \in Pairs, pairClaimant'[x] # None PROVE x \notin consumed'
    OBVIOUS
  <2>1. pairClaimant[x] # None /\ pairClaimant[x] # s
    BY SettleFacts
  <2>2. place[s] = "handled" => work[s] # x
    BY <2>1 DEF ClaimsOK
  <2>. QED  BY <2>1, <2>2 DEF ClaimsOK
<1>. QED  BY <1>2, <1>3, <1>4, <1>5 DEF ClaimsOK

LEMMA ConsumerNextInvariant == ConsumerInv /\ [DeliveryNext]_allVars => ConsumerInv'
<1>. SUFFICES ASSUME ConsumerInv, [DeliveryNext]_allVars PROVE ConsumerInv'
  OBVIOUS
<1>. USE ConsumersAssumption
<1>0. /\ consumed \subseteq Pairs /\ Pairs = Consumers \X Events
      /\ pairClaimant \in [Pairs -> Sessions \union {None}]
      /\ place \in [Sessions -> Consumer!Places]
      /\ work \in [Sessions -> Pairs \union {None}]
      /\ handled \in [Pairs -> 0..MaxRollbacks + 1] /\ undone \in [Pairs -> 0..MaxRollbacks + 1]
      /\ rollbacks \in 0..MaxRollbacks
  BY DEF ConsumerInv, Consumer!ConsumerTypeOK, Pairs, Consumer!Pairs, Consumer!Counts
<1>1. ASSUME /\ ClaimsOK'
             /\ consumed' \subseteq Pairs
             /\ pairClaimant' \in [Pairs -> Sessions \union {None}]
             /\ place' \in [Sessions -> Consumer!Places]
             /\ work' \in [Sessions -> Pairs \union {None}]
             /\ handled' \in [Pairs -> 0..MaxRollbacks + 1]
             /\ undone' \in [Pairs -> 0..MaxRollbacks + 1]
             /\ rollbacks' \in 0..MaxRollbacks,
             \A x \in Pairs :
               handled'[x] = undone'[x] + (IF x \in consumed' THEN 1 ELSE 0)
                               + (IF Running(x)' THEN 1 ELSE 0)
      PROVE  ConsumerInv'
  BY <1>1 DEF ConsumerInv, Consumer!ConsumerTypeOK, Consumer!Counts, EffectsAccountedFor,
              Consumer!EffectsAccountedFor, Running, Pairs
<1>2. CASE UNCHANGED consumerVars
  BY <1>2
     DEF consumerVars, ConsumerInv, Consumer!ConsumerTypeOK, ClaimsOK, EffectsAccountedFor,
         Consumer!EffectsAccountedFor
<1>3. ASSUME NEW s \in Sessions, NEW c \in Consumers, NEW e \in Events, Consumer!Take(s, c, e)
      PROVE  ConsumerInv'
  <2>1. /\ place[s] = "idle" /\ <<c, e>> \in Pairs
        /\ place' = [place EXCEPT ![s] = "called"] /\ work' = [work EXCEPT ![s] = <<c, e>>]
        /\ UNCHANGED <<consumed, pairClaimant, handled, undone, rollbacks>>
    BY <1>0, <1>3 DEF Consumer!Take
  <2>2. \A x \in Pairs : Running(x)' <=> Running(x)
    BY <1>0, <2>1 DEF Running
  <2>3. ClaimsOK'
    BY <1>0, <2>1 DEF ConsumerInv, ClaimsOK
  <2>4. place' \in [Sessions -> Consumer!Places] /\ work' \in [Sessions -> Pairs \union {None}]
    BY <1>0, <2>1 DEF Consumer!Places
  <2>. QED  BY <1>0, <1>1, <2>1, <2>2, <2>3, <2>4, EffectsOf
<1>4. ASSUME NEW s \in Sessions, Consumer!Claim(s) PROVE ConsumerInv'
  <2>0. PICK x : x = work[s]
    OBVIOUS
  <2>1. /\ place[s] = "called" /\ x \notin consumed /\ pairClaimant[x] = None
        /\ place' = [place EXCEPT ![s] = "claimed"]
        /\ pairClaimant' = [pairClaimant EXCEPT ![x] = s]
        /\ UNCHANGED <<consumed, work, handled, undone, rollbacks>>
    BY <1>4, <2>0 DEF Consumer!Claim, Consumer!InsertSucceeds
  <2>2. x \in Pairs
    BY <2>0, <2>1 DEF ConsumerInv, ClaimsOK
  <2>3. \A y \in Pairs : Running(y)' <=> Running(y)
    BY <1>0, <2>1 DEF Running
  <2>4. ClaimsOK'
    BY <1>0, <2>0, <2>1, <2>2 DEF ConsumerInv, ClaimsOK
  <2>5. /\ place' \in [Sessions -> Consumer!Places]
        /\ pairClaimant' \in [Pairs -> Sessions \union {None}]
    BY <1>0, <2>1, <2>2 DEF Consumer!Places
  <2>. QED  BY <1>0, <1>1, <2>1, <2>3, <2>4, <2>5, EffectsOf
<1>5. ASSUME NEW s \in Sessions, Consumer!Duplicate(s) PROVE ConsumerInv'
  <2>1. /\ place[s] = "called" /\ Consumer!Settle(s)
        /\ UNCHANGED <<consumed, handled, undone, rollbacks>>
    BY <1>5 DEF Consumer!Duplicate
  <2>2. \A y \in Pairs : Running(y)' <=> Running(y)
    BY <2>1, SettleFacts
  <2>3. \A y \in Pairs : undone'[y] <= rollbacks'
    BY <2>1, EffectsOf
  <2>4. /\ ClaimsOK' /\ consumed' \subseteq Pairs
        /\ pairClaimant' \in [Pairs -> Sessions \union {None}]
        /\ place' \in [Sessions -> Consumer!Places]
        /\ work' \in [Sessions -> Pairs \union {None}]
    BY <2>1, <2>3, SettleKeepsClaims
  <2>5. \A y \in Pairs : handled'[y] = undone'[y] + (IF y \in consumed' THEN 1 ELSE 0)
                                         + (IF Running(y)' THEN 1 ELSE 0)
    BY <2>1, <2>2, EffectsOf
  <2>. QED  BY <1>0, <1>1, <2>1, <2>4, <2>5
<1>6. ASSUME NEW s \in Sessions, Consumer!Handle(s) PROVE ConsumerInv'
  <2>0. PICK x : x = work[s]
    OBVIOUS
  <2>1. /\ place[s] = "claimed"
        /\ place' = [place EXCEPT ![s] = "handled"]
        /\ handled' = [handled EXCEPT ![x] = handled[x] + 1]
        /\ UNCHANGED <<consumed, pairClaimant, work, undone, rollbacks>>
    BY <1>6, <2>0 DEF Consumer!Handle, Consumer!Count
  <2>2. x \in Pairs /\ pairClaimant[x] = s /\ x \notin consumed
    BY <2>0, <2>1 DEF ConsumerInv, ClaimsOK
  <2>3. \A y \in Pairs : y = x => ~Running(y) /\ Running(y)'
    BY <1>0, <2>0, <2>1, <2>2 DEF ConsumerInv, ClaimsOK, Running
  <2>4. \A y \in Pairs : y # x => (Running(y)' <=> Running(y))
    BY <1>0, <2>0, <2>1 DEF Running
  <2>5. ClaimsOK'
    BY <1>0, <2>0, <2>1, <2>2 DEF ConsumerInv, ClaimsOK
  <2>6. place' \in [Sessions -> Consumer!Places]
    BY <1>0, <2>1 DEF Consumer!Places
  <2>7. handled[x] = undone[x] /\ handled[x] <= MaxRollbacks
    BY <2>2, <2>3, EffectsOf
  <2>8. handled' \in [Pairs -> 0..MaxRollbacks + 1]
    BY <1>0, <2>1, <2>2, <2>7
  <2>9. ASSUME NEW y \in Pairs
        PROVE  handled'[y] = undone'[y] + (IF y \in consumed' THEN 1 ELSE 0)
                               + (IF Running(y)' THEN 1 ELSE 0)
    <3>1. CASE y = x
      <4>1. handled'[x] = handled[x] + 1 /\ undone'[x] = undone[x] /\ x \notin consumed'
        BY <1>0, <2>1, <2>2
      <4>2. undone[x] \in Nat
        BY <1>0, <2>2
      <4>. QED  BY <2>3, <2>7, <3>1, <4>1, <4>2
    <3>2. CASE y # x
      BY <1>0, <2>1, <2>4, <3>2, EffectsOf
    <3>. QED  BY <3>1, <3>2
  <2>. QED  BY <1>0, <1>1, <2>1, <2>5, <2>6, <2>8, <2>9
<1>7. ASSUME NEW s \in Sessions, Consumer!Consume(s) PROVE ConsumerInv'
  <2>1. /\ place[s] = "handled" /\ Consumer!Settle(s)
        /\ consumed' = consumed \union {work[s]}
        /\ UNCHANGED <<handled, undone, rollbacks>>
    BY <1>7 DEF Consumer!Consume
  <2>2. work[s] \in Pairs /\ Running(work[s])
    BY <2>1 DEF ConsumerInv, ClaimsOK, Running
  <2>3. \A y \in Pairs : undone'[y] <= rollbacks'
    BY <2>1, EffectsOf
  <2>4. ASSUME NEW y \in Pairs
        PROVE  handled'[y] = undone'[y] + (IF y \in consumed' THEN 1 ELSE 0)
                               + (IF Running(y)' THEN 1 ELSE 0)
    <3>1. CASE y = work[s]
      BY <2>1, <2>2, <3>1, SettleFacts, EffectsOf
    <3>2. CASE y # work[s]
      <4>1. (Running(y)' <=> Running(y)) /\ (y \in consumed' <=> y \in consumed)
        BY <2>1, <3>2, SettleFacts
      <4>. QED  BY <2>1, <4>1, EffectsOf
    <3>. QED  BY <3>1, <3>2
  <2>. QED  BY <1>0, <1>1, <2>1, <2>3, <2>4, SettleKeepsClaims
<1>8. ASSUME NEW s \in Sessions, Consumer!RollBack(s) PROVE ConsumerInv'
  <2>0. PICK x : x = work[s]
    OBVIOUS
  <2>1. /\ place[s] # "idle" /\ Consumer!Settle(s)
        /\ rollbacks < MaxRollbacks /\ rollbacks' = rollbacks + 1
        /\ undone' = IF place[s] = "handled" THEN [undone EXCEPT ![x] = undone[x] + 1] ELSE undone
        /\ UNCHANGED <<consumed, handled>>
    BY <1>8, <2>0 DEF Consumer!RollBack, Consumer!Count
  <2>2. x \in Pairs
    BY <2>0, <2>1 DEF ConsumerInv, ClaimsOK
  <2>3. \A y \in Pairs : ~(place[s] = "handled" /\ x = y) => (Running(y)' <=> Running(y))
    BY <2>0, <2>1, SettleFacts
  <2>4. rollbacks' \in 0..MaxRollbacks
    BY <1>0, <2>1
  <2>5. ASSUME NEW y \in Pairs
        PROVE  /\ undone'[y] \in Nat /\ undone'[y] <= rollbacks'
               /\ handled'[y] = undone'[y] + (IF y \in consumed' THEN 1 ELSE 0)
                                + (IF Running(y)' THEN 1 ELSE 0)
    <3>1. CASE place[s] = "handled" /\ x = y
      <4>1. undone'[y] = undone[y] + 1
        BY <1>0, <2>1, <2>2, <3>1
      <4>2. Running(y) /\ ~Running(y)'
        <5>1. work[s] = y
          BY <2>0, <3>1
        <5>2. Running(y)
          BY <3>1, <5>1 DEF Running
        <5>. QED  BY <2>1, <3>1, <5>1, <5>2, SettleFacts
      <4>3. y \notin consumed /\ y \notin consumed'
        BY <2>1, <4>2, EffectsOf
      <4>4. /\ handled[y] = undone[y] + 1 /\ undone[y] \in Nat
            /\ undone[y] <= rollbacks /\ rollbacks \in Nat
        BY <4>2, <4>3, EffectsOf
      <4>. QED  BY <2>1, <4>1, <4>2, <4>3, <4>4
    <3>2. CASE ~(place[s] = "handled" /\ x = y)
      <4>1. undone'[y] = undone[y]
        BY <1>0, <2>1, <2>2, <3>2
      <4>. QED  BY <2>1, <2>3, <3>2, <4>1, EffectsOf
    <3>. QED  BY <3>1, <3>2
  <2>6. undone' \in [Pairs -> 0..MaxRollbacks + 1]
    <3>1. DOMAIN undone' = Pairs /\ undone' = [y \in Pairs |-> undone'[y]]
      BY <1>0, <2>1
    <3>2. \A y \in Pairs : undone'[y] \in 0..MaxRollbacks + 1
      BY <2>4, <2>5
    <3>. QED  BY <3>1, <3>2
  <2>7. /\ ClaimsOK' /\ consumed' \subseteq Pairs
        /\ pairClaimant' \in [Pairs -> Sessions \union {None}]
        /\ place' \in [Sessions -> Consumer!Places]
        /\ work' \in [Sessions -> Pairs \union {None}]
    BY <2>1, <2>5, SettleKeepsClaims
  <2>. QED  BY <1>0, <1>1, <2>1, <2>4, <2>5, <2>6, <2>7
<1>. QED
  BY <1>2, <1>3, <1>4, <1>5, <1>6, <1>7, <1>8
     DEF DeliveryNext, allVars, Consumer!ConsumerNext, Consumer!ConsumerStep

\* consume_once inserts its claim in the transaction that ends after the handler:
\* a handler takes effect a second time only for an effect whose claim rolled back.
THEOREM EffectsBalanced == DeliverySpec => []EffectsAccountedFor
BY ConsumerInitInvariant, ConsumerNextInvariant, PTL DEF DeliverySpec, ConsumerInv
=============================================================================
