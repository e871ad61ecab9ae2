---------------------------- MODULE EventConsumer ----------------------------
(***************************************************************************)
(* PostgresOutbox.consume_once (app/outbox.py): a consumer takes a         *)
(* delivered event, claims (consumer_name, event_id) by inserting it, and  *)
(* runs its handler before the transaction commits.  The handler gets the  *)
(* event and not the transaction, so what it does outside the database     *)
(* stays done when the claim rolls back.                                   *)
(*                                                                         *)
(* What reaches consumers is the variable delivered, which EventDelivery   *)
(* shares with Outbox; a delivered event may be taken any number of times. *)
(***************************************************************************)
EXTENDS Integers

CONSTANTS
  Events, Consumers,
  Sessions,       \* calls of consume_once that can be under way at once
  MaxRollbacks,   \* bound on handlers and processes that fail
  None

VARIABLES
  delivered,   \* events the broker delivers
  consumed,    \* consumed_events: committed pairs of consumer and event
  claimant,    \* session whose uncommitted insert of the pair is pending
  place,       \* where in consume_once each session is
  work,        \* the pair it was called with
  handled,     \* history: how often the handler took effect for each pair
  undone,      \* history: how often such an effect lost its claim
  rollbacks

consumerVars == <<consumed, claimant, place, work, handled, undone, rollbacks>>

Pairs == Consumers \X Events
Places == {"idle", "called", "claimed", "handled"}
Counts == 0..MaxRollbacks + 1

ConsumerTypeOK ==
  /\ consumed \subseteq Pairs
  /\ claimant \in [Pairs -> Sessions \union {None}]
  /\ place \in [Sessions -> Places]
  /\ work \in [Sessions -> Pairs \union {None}]
  /\ handled \in [Pairs -> Counts] /\ undone \in [Pairs -> Counts]
  /\ rollbacks \in 0..MaxRollbacks

ConsumerInit ==
  /\ consumed = {}
  /\ claimant = [x \in Pairs |-> None]
  /\ place = [s \in Sessions |-> "idle"]
  /\ work = [s \in Sessions |-> None]
  /\ handled = [x \in Pairs |-> 0] /\ undone = [x \in Pairs |-> 0]
  /\ rollbacks = 0

BugInsertDoesNotWait(s) == work[s] \notin consumed
InsertSucceeds(s) == work[s] \notin consumed /\ claimant[work[s]] = None

Count(n, x) == [n EXCEPT ![x] = @ + 1]

\* The end of the transaction settles its pending insert.
Settle(s) ==
  /\ claimant' = [x \in Pairs |-> IF claimant[x] = s THEN None ELSE claimant[x]]
  /\ place' = [place EXCEPT ![s] = "idle"]
  /\ work' = [work EXCEPT ![s] = None]

\* The broker hands a delivered event to a consumer, not for the first time
\* perhaps.
Take(s, c, e) ==
  /\ place[s] = "idle"
  /\ e \in delivered
  /\ place' = [place EXCEPT ![s] = "called"]
  /\ work' = [work EXCEPT ![s] = <<c, e>>]
  /\ UNCHANGED <<delivered, consumed, claimant, handled, undone, rollbacks>>

\* INSERT ... ON CONFLICT DO NOTHING RETURNING event_id; it waits while another
\* transaction holds an uncommitted insert of the pair.
Claim(s) ==
  /\ place[s] = "called"
  /\ InsertSucceeds(s)
  /\ claimant' = [claimant EXCEPT ![work[s]] = s]
  /\ place' = [place EXCEPT ![s] = "claimed"]
  /\ UNCHANGED <<delivered, consumed, work, handled, undone, rollbacks>>

\* return False
Duplicate(s) ==
  /\ place[s] = "called"
  /\ work[s] \in consumed
  /\ Settle(s)
  /\ UNCHANGED <<delivered, consumed, handled, undone, rollbacks>>

Handle(s) ==
  /\ place[s] = "claimed"
  /\ handled' = Count(handled, work[s])
  /\ place' = [place EXCEPT ![s] = "handled"]
  /\ UNCHANGED <<delivered, consumed, claimant, work, undone, rollbacks>>

\* The with block commits; return True
Consume(s) ==
  /\ place[s] = "handled"
  /\ consumed' = consumed \union {work[s]}
  /\ Settle(s)
  /\ UNCHANGED <<delivered, handled, undone, rollbacks>>

\* The handler raises, or the process dies: the claim rolls back.
RollBack(s) ==
  /\ place[s] # "idle"
  /\ rollbacks < MaxRollbacks
  /\ rollbacks' = rollbacks + 1
  /\ undone' = IF place[s] = "handled" THEN Count(undone, work[s]) ELSE undone
  /\ Settle(s)
  /\ UNCHANGED <<delivered, consumed, handled>>

ConsumerStep(s) == Claim(s) \/ Duplicate(s) \/ Handle(s) \/ Consume(s)

ConsumerNext ==
  \E s \in Sessions :
    \/ \E c \in Consumers, e \in Events : Take(s, c, e)
    \/ ConsumerStep(s) \/ RollBack(s)

-----------------------------------------------------------------------------
(* Properties *)

\* A handler takes effect again only where a rollback took its claim back: for
\* every pair the effects are the lost ones, the committed one if there is one,
\* and one that is under way, however many sessions hold duplicates.
EffectsAccountedFor ==
  \A x \in Pairs :
    handled[x] = undone[x] + (IF x \in consumed THEN 1 ELSE 0)
                   + (IF \E s \in Sessions : place[s] = "handled" /\ work[s] = x
                      THEN 1 ELSE 0)
=============================================================================
