------------------------- MODULE PaymentRepository -------------------------
(***************************************************************************)
(* PostgresPaymentRepository.create_payment (app/repository.py), run by    *)
(* concurrent callers that may die at any point.                           *)
(*                                                                         *)
(* A keyed call inserts a candidate payment, then claims its key with      *)
(* INSERT ... ON CONFLICT (key) DO NOTHING.  PostgreSQL makes that insert  *)
(* wait while another transaction holds an uncommitted claim of the key:   *)
(* the waiter loses if the holder commits and wins if it rolls back.  A    *)
(* loser deletes its candidate and reads the claim and payment it lost to, *)
(* each in a statement of its own.                                         *)
(***************************************************************************)
CONSTANTS
  Callers, Keys, Ids,
  CallKeys,   \* what callers pass as key: some of Keys, and NoKey
  Bodies,     \* CreatePaymentRequest values; the fingerprint tells them apart
  NoKey,      \* no key, or an empty one
  None

ASSUME KeyAssumption == CallKeys \subseteq Keys \union {NoKey} /\ NoKey \notin Keys

VARIABLES
  payments,   \* committed payments
  claims,     \* committed idempotency_keys: fingerprint and payment id
  holder,     \* the caller whose uncommitted claim of the key is pending
  candidate,  \* identifier of the caller's own uncommitted payment, if any
  pc, args, outcome

tables == <<payments, claims>>
vars == <<tables, holder, candidate, pc, args, outcome>>

Payment == [body : Bodies, status : {"pending", "moved"}]
Claim == [fingerprint : Bodies, payment : Ids]
Arguments == [key : Keys \union {NoKey}, body : Bodies]
Returned(id, payment) == [result |-> "payment", id |-> id, payment |-> payment]
Conflict == [result |-> "conflict"]
Outcomes == [result : {"payment"}, id : Ids, payment : Payment] \union {Conflict}

Places == {"idle", "called", "inserted", "claimed", "lost", "matched", "closing", "done"}

\* NULL, or no value, is told apart from every value.
ASSUME NoneAssumption ==
  /\ None \notin Callers /\ None \notin Ids
  /\ None \notin Payment /\ None \notin Claim /\ None \notin Outcomes

TypeOK ==
  /\ payments \in [Ids -> Payment \union {None}]
  /\ claims \in [Keys -> Claim \union {None}]
  /\ holder \in [Keys -> Callers \union {None}]
  /\ candidate \in [Callers -> Ids \union {None}]
  /\ pc \in [Callers -> Places]
  /\ args \in [Callers -> Arguments \union {None}]
  /\ outcome \in [Callers -> Outcomes \union {None}]

Init ==
  /\ payments = [id \in Ids |-> None]
  /\ claims = [k \in Keys |-> None]
  /\ holder = [k \in Keys |-> None]
  /\ candidate = [c \in Callers |-> None]
  /\ pc = [c \in Callers |-> "idle"]
  /\ args = [c \in Callers |-> None]
  /\ outcome = [c \in Callers |-> None]

-----------------------------------------------------------------------------
(* Helpers *)

Goto(c, place) == pc' = [pc EXCEPT ![c] = place]

\* uuid4 draws an identifier that no payment or candidate has.
Fresh(id) == payments[id] = None /\ \A c \in Callers : candidate[c] # id

NewPayment(c) == [body |-> args[c].body, status |-> "pending"]
NewClaim(c) == [fingerprint |-> args[c].body, payment |-> candidate[c]]

\* INSERT ... ON CONFLICT DO NOTHING finds no row and need not wait.
KeyFree(c) == claims[args[c].key] = None /\ holder[args[c].key] = None

KeyTaken(c) == claims[args[c].key] # None

SameRequest(c) == claims[args[c].key].fingerprint = args[c].body

\* DELETE FROM payments WHERE id = candidate
BugKeepsCandidate(c) == candidate' = candidate
DeleteCandidate(c) == candidate' = [candidate EXCEPT ![c] = None]

\* The end of a transaction settles its pending claim.
BugKeepsClaimPending(c) == holder
WithoutClaim(c) == [k \in Keys |-> IF holder[k] = c THEN None ELSE holder[k]]

BugPaymentNotInstalled(c) == payments
Installed(c) ==
  [id \in Ids |-> IF id = candidate[c] THEN NewPayment(c) ELSE payments[id]]

ClaimsWith(c) ==
  [k \in Keys |-> IF holder[k] = c THEN NewClaim(c) ELSE claims[k]]

-----------------------------------------------------------------------------
(* create_payment *)

Call(c, k, b) ==
  /\ pc[c] = "idle"
  /\ args' = [args EXCEPT ![c] = [key |-> k, body |-> b]]
  /\ Goto(c, "called")
  /\ UNCHANGED <<tables, holder, candidate, outcome>>

\* INSERT INTO payments; a call without key has nothing more to do.
InsertPayment(c, id) ==
  /\ pc[c] = "called"
  /\ Fresh(id)
  /\ candidate' = [candidate EXCEPT ![c] = id]
  /\ Goto(c, IF args[c].key = NoKey THEN "claimed" ELSE "inserted")
  /\ UNCHANGED <<tables, holder, args, outcome>>

ClaimKey(c) ==
  /\ pc[c] = "inserted"
  /\ KeyFree(c)
  /\ holder' = [holder EXCEPT ![args[c].key] = c]
  /\ Goto(c, "claimed")
  /\ UNCHANGED <<tables, candidate, args, outcome>>

\* DO NOTHING, then DELETE of the candidate
LoseKey(c) ==
  /\ pc[c] = "inserted"
  /\ KeyTaken(c)
  /\ DeleteCandidate(c)
  /\ Goto(c, "lost")
  /\ UNCHANGED <<tables, holder, args, outcome>>

\* SELECT ... FROM idempotency_keys, and the comparison of fingerprints
ReadClaim(c) ==
  /\ pc[c] = "lost"
  /\ claims[args[c].key] # None
  /\ IF SameRequest(c)
     THEN Goto(c, "matched") /\ UNCHANGED outcome
     ELSE Goto(c, "closing") /\ outcome' = [outcome EXCEPT ![c] = Conflict]
  /\ UNCHANGED <<tables, holder, candidate, args>>

\* SELECT ... FROM payments WHERE id = existing_payment_id
ReadPayment(c) ==
  LET id == claims[args[c].key].payment
  IN  /\ pc[c] = "matched"
      /\ payments[id] # None
      /\ outcome' = [outcome EXCEPT ![c] = Returned(id, payments[id])]
      /\ Goto(c, "closing")
      /\ UNCHANGED <<tables, holder, candidate, args>>

\* The with block ends: what is left of the caller's writes is committed.
Commit(c) ==
  /\ pc[c] \in {"claimed", "closing"}
  /\ payments' = Installed(c)
  /\ claims' = ClaimsWith(c)
  /\ holder' = WithoutClaim(c)
  /\ candidate' = [candidate EXCEPT ![c] = None]
  /\ outcome' = [outcome EXCEPT ![c] =
                   IF pc[c] = "claimed" THEN Returned(candidate[c], NewPayment(c)) ELSE @]
  /\ Goto(c, "done")
  /\ UNCHANGED args

Leave(c) ==
  /\ Goto(c, "idle")
  /\ args' = [args EXCEPT ![c] = None]
  /\ outcome' = [outcome EXCEPT ![c] = None]

\* The payment is returned, or IdempotencyConflictError raised.
Answer(c) ==
  /\ pc[c] = "done"
  /\ Leave(c)
  /\ UNCHANGED <<tables, holder, candidate>>

\* The caller's process or connection dies; an open transaction rolls back.
Crash(c) ==
  /\ pc[c] # "idle"
  /\ Leave(c)
  /\ holder' = WithoutClaim(c)
  /\ candidate' = [candidate EXCEPT ![c] = None]
  /\ UNCHANGED tables

\* The rest of the program moves a payment on (see PaymentOperations).
Move(id) ==
  /\ payments[id] # None
  /\ payments' = [payments EXCEPT ![id].status = "moved"]
  /\ UNCHANGED <<claims, holder, candidate, pc, args, outcome>>

Proceed(c) ==
  \/ \E id \in Ids : InsertPayment(c, id)
  \/ ReadClaim(c) \/ ReadPayment(c) \/ Commit(c) \/ Answer(c)

Next ==
  \/ \E c \in Callers :
       \/ \E k \in CallKeys, b \in Bodies : Call(c, k, b)
       \/ Proceed(c) \/ ClaimKey(c) \/ LoseKey(c) \/ Crash(c)
  \/ \E id \in Ids : Move(id)

Spec == Init /\ [][Next]_vars

\* A caller runs until it answers or dies; PostgreSQL wakes the waiters of a
\* claim in turn when its transaction ends.
Fairness ==
  \A c \in Callers : WF_vars(Proceed(c)) /\ SF_vars(ClaimKey(c) \/ LoseKey(c))

FairSpec == Spec /\ Fairness

-----------------------------------------------------------------------------
(* Properties *)

\* A key names at most one payment and a losing candidate leaves none behind:
\* two claims never share a payment, and a claim's payment has its body.  A
\* caller that lost the key therefore finds both: "Idempotency claim disappeared
\* during transaction" and "Idempotency record references a missing payment" are
\* errors the code never raises.
ClaimsNameTheirPayments ==
  /\ \A k \in Keys : claims[k] # None =>
       /\ payments[claims[k].payment] # None
       /\ payments[claims[k].payment].body = claims[k].fingerprint
  /\ \A j, k \in Keys :
       claims[j] # None /\ claims[k] # None /\ claims[j].payment = claims[k].payment => j = k
  /\ \A c \in Callers : pc[c] \in {"lost", "matched"} => claims[args[c].key] # None

\* A caller never waits for ever for another's claim: it wins or loses the key
\* and its call ends, also if the other dies.
ClaimantsFinish == \A c \in Callers : pc[c] = "inserted" ~> pc[c] = "idle"

Phase ==
  [c \in Callers |->
     CASE pc[c] = "idle" -> "idle"
       [] pc[c] = "done" \/ outcome[c] # None -> "done"
       [] OTHER -> "called"]

Contract == INSTANCE PaymentContract WITH phase <- Phase

\* The durable store keeps the contract of the in-memory one: each call takes
\* effect once, between its call and its answer, and candidates never show.
ImplementsContract == Contract!Spec
=============================================================================
