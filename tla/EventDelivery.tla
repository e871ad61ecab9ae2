---------------------------- MODULE EventDelivery ----------------------------
(***************************************************************************)
(* Outbox and EventConsumer together: what the workers publish is what the *)
(* consumers take, so that a stored event is carried to every consumer.    *)
(***************************************************************************)
EXTENDS Outbox

CONSTANTS Consumers, Sessions, MaxRollbacks

ASSUME ConsumersAssumption ==
  MaxRollbacks \in Nat /\ None \notin Sessions /\ None \notin Consumers \X Events

VARIABLES consumed, pairClaimant, place, work, handled, undone, rollbacks

Consumer == INSTANCE EventConsumer WITH claimant <- pairClaimant

consumerVars == <<consumed, pairClaimant, place, work, handled, undone, rollbacks>>
allVars == <<vars, consumerVars>>
outboxOnly == <<rowVars, claimant, workerVars, overran, bounds>>

DeliveryInit == Init /\ Consumer!ConsumerInit

DeliveryNext ==
  \/ Next /\ UNCHANGED consumerVars
  \/ Consumer!ConsumerNext /\ UNCHANGED outboxOnly

DeliveryFairness ==
  /\ WF_allVars(Tick /\ UNCHANGED consumerVars)
  /\ \A w \in Workers :
       /\ WF_allVars(ClaimSelect(w) /\ UNCHANGED consumerVars)
       /\ SF_allVars(Work(w) /\ UNCHANGED consumerVars)
  /\ \A s \in Sessions :
       WF_allVars(Consumer!ConsumerStep(s) /\ UNCHANGED outboxOnly)
  \* The broker delivers again what a consumer has not consumed.
  /\ \A c \in Consumers, e \in Events :
       SF_allVars(\E s \in Sessions : /\ <<c, e>> \notin consumed
                                      /\ Consumer!Take(s, c, e)
                                      /\ UNCHANGED outboxOnly)

DeliverySpec == DeliveryInit /\ [][DeliveryNext]_allVars /\ DeliveryFairness

-----------------------------------------------------------------------------
(* Properties *)

\* However often workers overlap, crash and publish again, every effect of a
\* handler belongs to a commit, to a rollback or to a call under way.
EffectsAccountedFor == Consumer!EffectsAccountedFor

\* An event that is stored is in the end consumed by every consumer, unless it
\* stays unpublished with its attempts used up: no crash leaves it leased, no
\* rollback leaves it half consumed for ever.
StoredIsConsumed ==
  \A e \in Events :
    e \in stored ~> \/ \A c \in Consumers : <<c, e>> \in consumed
                    \/ e \notin published /\ attempts[e] >= MaxAttempts
=============================================================================
