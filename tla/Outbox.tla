------------------------------- MODULE Outbox -------------------------------
(***************************************************************************)
(* PostgresOutbox (app/outbox.py) and the replay control of                *)
(* app/reconciliation.py: workers claim unpublished events under expiring  *)
(* leases, publish them outside any transaction, and acknowledge each one  *)
(* or record its failure.                                                  *)
(*                                                                         *)
(* Time is kept as ages that stop counting once a lease has expired, since *)
(* the code only compares them with lease_seconds.  Events are numbered in *)
(* the order of created_at, the start of the transaction that writes them, *)
(* which need not be the order they are committed in.                      *)
(***************************************************************************)
EXTENDS Integers, FiniteSets

CONSTANTS
  Events,        \* numbered by created_at
  Workers,
  MaxAttempts, Lease, BatchSize,   \* the parameters of claim_batch
  MaxCrashes,    \* bound on crashes of workers
  MaxResets,     \* bound on resets by an operator
  None

ASSUME ParametersAssumption ==
  /\ Events \subseteq Nat /\ None \notin Nat
  /\ IsFiniteSet(Workers) /\ None \notin Workers
  /\ MaxAttempts \in Nat \ {0} /\ Lease \in Nat \ {0} /\ BatchSize \in Nat \ {0}
  /\ MaxCrashes \in Nat /\ MaxResets \in Nat

VARIABLES
  stored,      \* outbox_events: the events whose transaction has committed
  published,   \* those with published_at
  attempts,    \* attempts of each event
  lockedAge,   \* time since locked_at, None where it is NULL
  claimant,    \* the worker whose open claim_batch holds the event's row lock
  step,        \* where in publish_batch each worker is
  batch,       \* the events it has claimed and not finished with
  heldAge,     \* time since NOW() of the worker's claim_batch
  delivered,   \* history: events the outside has received
  overran,     \* history: events a worker went on holding past its lease
  crashes, resets

rowVars == <<stored, published, attempts, lockedAge>>
workerVars == <<step, batch, heldAge>>
history == <<delivered, overran>>
bounds == <<crashes, resets>>
vars == <<rowVars, claimant, workerVars, history, bounds>>

Expired == Lease + 1
Ages == 0..Expired
Steps == {"idle", "claiming", "publish", "ack", "fail"}

TypeOK ==
  /\ stored \subseteq Events /\ published \subseteq stored
  /\ attempts \in [Events -> Nat]
  /\ lockedAge \in [Events -> Ages \union {None}]
  /\ claimant \in [Events -> Workers \union {None}]
  /\ step \in [Workers -> Steps]
  /\ batch \in [Workers -> SUBSET Events]
  /\ heldAge \in [Workers -> Ages]
  /\ delivered \subseteq Events /\ overran \subseteq Events
  /\ crashes \in 0..MaxCrashes /\ resets \in 0..MaxResets

Init ==
  /\ stored = {} /\ published = {} /\ delivered = {} /\ overran = {}
  /\ attempts = [e \in Events |-> 0]
  /\ lockedAge = [e \in Events |-> None]
  /\ claimant = [e \in Events |-> None]
  /\ step = [w \in Workers |-> "idle"]
  /\ batch = [w \in Workers |-> {}]
  /\ heldAge = [w \in Workers |-> 0]
  /\ crashes = 0 /\ resets = 0

-----------------------------------------------------------------------------
(* Helpers *)

BugLeaseNeverExpires(e) == lockedAge[e] = None
BugLeaseIgnored(e) == TRUE
Unleased(e) == lockedAge[e] = None \/ lockedAge[e] > Lease

BugAttemptsUnlimited(e) == TRUE
AttemptsLeft(e) == attempts[e] < MaxAttempts

RowFree(e) == claimant[e] = None

\* What the SELECT of claim_batch finds and, FOR UPDATE SKIP LOCKED, may take.
Claimable ==
  {e \in stored \ published : AttemptsLeft(e) /\ Unleased(e) /\ RowFree(e)}

\* ORDER BY created_at ... LIMIT batch_size
IsOldest(chosen) ==
  /\ \A e \in chosen, f \in Claimable \ chosen : e < f
  /\ \/ chosen = Claimable /\ Cardinality(chosen) <= BatchSize
     \/ Cardinality(chosen) = BatchSize

\* The event that publish_batch handles now: it takes its batch in order.
Current(w) == CHOOSE e \in batch[w] : \A f \in batch[w] : e <= f

Finish(w) ==
  /\ batch' = [batch EXCEPT ![w] = @ \ {Current(w)}]
  /\ step' = [step EXCEPT ![w] = IF batch[w] = {Current(w)} THEN "idle" ELSE "publish"]
  /\ UNCHANGED heldAge

Older(age) == IF age < Expired THEN age + 1 ELSE age

BugFailureMarksPublished(w) ==
  published' = IF Current(w) \in stored THEN published \union {Current(w)} ELSE published
FailureKeepsUnpublished(w) == UNCHANGED published

\* attempts = attempts + 1, WHERE published_at IS NULL
BugCountsPublished(e) == [attempts EXCEPT ![e] = @ + 1]
CountAttempt(e) == [attempts EXCEPT ![e] = IF e \in published THEN @ ELSE @ + 1]

\* locked_at = NULL, WHERE published_at IS NULL
FreeLease(e) == [lockedAge EXCEPT ![e] = IF e \in published THEN @ ELSE None]

-----------------------------------------------------------------------------
(* The other components *)

\* A payment operation commits its event.
Store(e) ==
  /\ e \notin stored
  /\ stored' = stored \union {e}
  /\ UNCHANGED <<published, attempts, lockedAge, claimant, workerVars, history, bounds>>

\* PostgresReplayController.reset_outbox_event, at an operator's hand
ResetEvent(e) ==
  /\ resets < MaxResets
  /\ e \in stored \ published
  /\ claimant[e] = None
  /\ attempts' = [attempts EXCEPT ![e] = 0]
  /\ resets' = resets + 1
  /\ UNCHANGED <<stored, published, lockedAge, claimant, workerVars, history, crashes>>

Tick ==
  /\ lockedAge' = [e \in Events |->
                     IF lockedAge[e] = None THEN None ELSE Older(lockedAge[e])]
  /\ heldAge' = [w \in Workers |-> IF step[w] = "idle" THEN 0 ELSE Older(heldAge[w])]
  /\ overran' = overran \union
       UNION {batch[w] : w \in {v \in Workers : step[v] # "idle" /\ heldAge[v] >= Lease}}
  /\ UNCHANGED <<stored, published, attempts, claimant, step, batch, delivered, bounds>>

-----------------------------------------------------------------------------
(* publish_batch *)

\* claim_batch: SELECT ... FOR UPDATE SKIP LOCKED
ClaimSelect(w) ==
  /\ step[w] = "idle"
  /\ \E chosen \in SUBSET Claimable :
       /\ chosen # {}
       /\ IsOldest(chosen)
       /\ batch' = [batch EXCEPT ![w] = chosen]
       /\ claimant' = [e \in Events |-> IF e \in chosen THEN w ELSE claimant[e]]
  /\ step' = [step EXCEPT ![w] = "claiming"]
  /\ heldAge' = [heldAge EXCEPT ![w] = 0]
  /\ UNCHANGED <<rowVars, history, bounds>>

\* claim_batch: UPDATE ... SET locked_at = NOW(), and commit
ClaimCommit(w) ==
  /\ step[w] = "claiming"
  /\ lockedAge' = [e \in Events |-> IF e \in batch[w] THEN heldAge[w] ELSE lockedAge[e]]
  /\ claimant' = [e \in Events |-> IF claimant[e] = w THEN None ELSE claimant[e]]
  /\ step' = [step EXCEPT ![w] = "publish"]
  /\ UNCHANGED <<stored, published, attempts, batch, heldAge, history, bounds>>

\* publish(event): the outside receives it or not, and the call returns or
\* raises; it may raise although the event was received.
Publish(w) ==
  /\ step[w] = "publish"
  /\ \/ /\ step' = [step EXCEPT ![w] = "ack"]
        /\ delivered' = delivered \union {Current(w)}
     \/ /\ step' = [step EXCEPT ![w] = "fail"]
        /\ \/ delivered' = delivered \union {Current(w)}
           \/ UNCHANGED delivered
  /\ UNCHANGED <<rowVars, claimant, batch, heldAge, overran, bounds>>

\* acknowledge: the UPDATE waits for a row lock and skips a published row.
Acknowledge(w) ==
  LET e == Current(w)
  IN  /\ step[w] = "ack"
      /\ RowFree(e)
      /\ attempts' = CountAttempt(e)
      /\ lockedAge' = FreeLease(e)
      /\ published' = published \union {e}
      /\ Finish(w)
      /\ UNCHANGED <<stored, claimant, history, bounds>>

\* record_failure, likewise
RecordFailure(w) ==
  LET e == Current(w)
  IN  /\ step[w] = "fail"
      /\ RowFree(e)
      /\ attempts' = CountAttempt(e)
      /\ lockedAge' = FreeLease(e)
      /\ FailureKeepsUnpublished(w)
      /\ Finish(w)
      /\ UNCHANGED <<stored, claimant, history, bounds>>

\* The worker dies and restarts; an open claim_batch rolls back.
Crash(w) ==
  /\ crashes < MaxCrashes
  /\ step[w] # "idle"
  /\ claimant' = [e \in Events |-> IF claimant[e] = w THEN None ELSE claimant[e]]
  /\ step' = [step EXCEPT ![w] = "idle"]
  /\ batch' = [batch EXCEPT ![w] = {}]
  /\ heldAge' = [heldAge EXCEPT ![w] = 0]
  /\ crashes' = crashes + 1
  /\ UNCHANGED <<rowVars, history, resets>>

Work(w) ==
  ClaimCommit(w) \/ Publish(w) \/ Acknowledge(w) \/ RecordFailure(w)

Next ==
  \/ \E e \in Events : Store(e) \/ ResetEvent(e)
  \/ Tick
  \/ \E w \in Workers : ClaimSelect(w) \/ Work(w) \/ Crash(w)

Spec == Init /\ [][Next]_vars

\* Time passes, and a worker that is up keeps running its batch and is run
\* again for the next one.
Fairness == WF_vars(Tick) /\ \A w \in Workers : WF_vars(ClaimSelect(w)) /\ SF_vars(Work(w))

FairSpec == Spec /\ Fairness

-----------------------------------------------------------------------------
(* Properties *)

Holders(e) == {w \in Workers : e \in batch[w]}

\* An event is marked published only if the outside received it, whichever of
\* several workers acknowledges it and whatever the others report.
PublishedWasDelivered == published \subseteq delivered

\* A published row is final: a stale worker's failure or acknowledgement, a
\* claim that began before the acknowledgement, or a reset leaves it alone.
PublishedRowFrozen ==
  [][\A e \in published :
       e \in published' /\ attempts'[e] = attempts[e]
         /\ (lockedAge[e] = None => lockedAge'[e] = None)]_vars

\* No two workers have one event at the same time unless one of them outlived
\* its lease.
OverlapNeedsOverrun ==
  \A e \in Events : e \notin overran => Cardinality(Holders(e)) <= 1

\* The ceiling on attempts is exceeded by overlapping holders only: at most one
\* each, and not at all for an event nobody held past its lease.
AttemptsBounded ==
  \A e \in Events :
    /\ attempts[e] + Cardinality(Holders(e)) < MaxAttempts + Cardinality(Workers)
    /\ e \notin overran => attempts[e] <= MaxAttempts
=============================================================================
