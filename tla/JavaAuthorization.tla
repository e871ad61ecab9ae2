-------------------------- MODULE JavaAuthorization --------------------------
(***************************************************************************)
(* AuthorizationService.authorize of the Java service: a decision on a     *)
(* payment under an Idempotency-Key, with its authorization.decided event, *)
(* in one READ COMMITTED transaction.                                      *)
(*                                                                         *)
(* authorize first looks the key up.  When it finds nothing it inserts,    *)
(* and the UNIQUE key makes an insert wait for an uncommitted one of the   *)
(* same key: it fails if that one commits and succeeds if it rolls back.   *)
(* Of a request the model keeps the payment and the amount.  One           *)
(* identifier stands for those of the decision and of its event.           *)
(***************************************************************************)
EXTENDS Integers, FiniteSets

CONSTANTS
  Keys, Callers, Payments,
  Ids,      \* decision and event identifiers randomUUID may draw
  Amounts,  \* amountMinor of the requests
  Limit,    \* 1_000_000 in the code
  None

VARIABLES
  decisions,  \* authorization_decisions: the row of each key
  events,     \* outbox_events
  holder,     \* caller whose uncommitted decision of the key is pending
  draft,      \* the decision the caller has inserted
  pc, args,
  answer,     \* what authorize returns, None when it throws
  given       \* history: the requests answered under each key, with their answers

tables == <<decisions, events>>
vars == <<tables, holder, draft, pc, args, answer, given>>

Statuses == {"approved", "declined"}
AuthorizationRequests == [payment : Payments, amount : Amounts]
Decisions == [id : Ids, payment : Payments, amount : Amounts, status : Statuses]
Responses == [id : Ids, payment : Payments, status : Statuses]

\* None stands for a NULL or a Java null.
NoneApart ==
  None \notin Callers /\ None \notin Decisions /\ None \notin Responses

TypeOK ==
  /\ decisions \in [Keys -> Decisions \union {None}]
  /\ events \subseteq Responses
  /\ holder \in [Keys -> Callers \union {None}]
  /\ draft \in [Callers -> Decisions \union {None}]
  /\ pc \in [Callers -> {"idle", "called", "unseen", "inserted", "staged", "found", "done"}]
  /\ args \in [Callers -> [key : Keys, request : AuthorizationRequests] \union {None}]
  /\ answer \in [Callers -> Responses \union {None}]
  /\ given \in [Keys -> SUBSET [request : AuthorizationRequests, answer : Responses]]

Init ==
  /\ decisions = [k \in Keys |-> None] /\ events = {}
  /\ holder = [k \in Keys |-> None]
  /\ draft = [c \in Callers |-> None]
  /\ pc = [c \in Callers |-> "idle"]
  /\ args = [c \in Callers |-> None]
  /\ answer = [c \in Callers |-> None]
  /\ given = [k \in Keys |-> {}]

-----------------------------------------------------------------------------
(* Helpers *)

KeyOf(c) == args[c].key
Goto(c, place) == pc' = [pc EXCEPT ![c] = place]

Fresh(id) ==
  /\ \A k \in Keys : decisions[k] # None => decisions[k].id # id
  /\ \A c \in Callers : draft[c] # None => draft[c].id # id

Decide(r) == IF r.amount > Limit THEN "declined" ELSE "approved"

NewDecision(c, id) ==
  LET r == args[c].request
  IN  [id |-> id, payment |-> r.payment, amount |-> r.amount, status |-> Decide(r)]

\* The response, and the event: its id, aggregate_id and payload.
Response(d) == [id |-> d.id, payment |-> d.payment, status |-> d.status]

\* idempotency_key ... UNIQUE
BugKeyNotUnique(c) == TRUE
KeyFree(c) == decisions[KeyOf(c)] = None /\ holder[KeyOf(c)] = None

WithoutHolder(c) == [k \in Keys |-> IF holder[k] = c THEN None ELSE holder[k]]

Leave(c) ==
  /\ holder' = WithoutHolder(c)
  /\ draft' = [draft EXCEPT ![c] = None]
  /\ args' = [args EXCEPT ![c] = None]
  /\ answer' = [answer EXCEPT ![c] = None]
  /\ Goto(c, "idle")

\* @Transactional rolls both inserts back.
BugEventOutsideTransaction(c) ==
  /\ events' = IF pc[c] = "staged" THEN events \union {Response(draft[c])} ELSE events
  /\ Leave(c)
  /\ UNCHANGED <<decisions, given>>
Rollback(c) == Leave(c) /\ UNCHANGED <<tables, given>>

-----------------------------------------------------------------------------
(* authorize *)

Call(c, k, r) ==
  /\ pc[c] = "idle"
  /\ args' = [args EXCEPT ![c] = [key |-> k, request |-> r]]
  /\ Goto(c, "called")
  /\ UNCHANGED <<tables, holder, draft, answer, given>>

\* The key has a decision: it is returned, whatever the request says.
FindDecision(c) ==
  /\ pc[c] = "called"
  /\ decisions[KeyOf(c)] # None
  /\ answer' = [answer EXCEPT ![c] = Response(decisions[KeyOf(c)])]
  /\ Goto(c, "found")
  /\ UNCHANGED <<tables, holder, draft, args, given>>

FindNothing(c) ==
  /\ pc[c] = "called"
  /\ decisions[KeyOf(c)] = None
  /\ Goto(c, "unseen")
  /\ UNCHANGED <<tables, holder, draft, args, answer, given>>

InsertDecision(c, id) ==
  /\ pc[c] = "unseen"
  /\ KeyFree(c)
  /\ Fresh(id)
  /\ holder' = [holder EXCEPT ![KeyOf(c)] = c]
  /\ draft' = [draft EXCEPT ![c] = NewDecision(c, id)]
  /\ Goto(c, "inserted")
  /\ UNCHANGED <<tables, args, answer, given>>

\* DuplicateKeyException: another call of the key committed since the look-up.
DuplicateKey(c) ==
  /\ pc[c] = "unseen"
  /\ decisions[KeyOf(c)] # None
  /\ Rollback(c)

InsertEvent(c) ==
  /\ pc[c] = "inserted"
  /\ answer' = [answer EXCEPT ![c] = Response(draft[c])]
  /\ Goto(c, "staged")
  /\ UNCHANGED <<tables, holder, draft, args, given>>

Commit(c) ==
  /\ pc[c] \in {"staged", "found"}
  /\ IF pc[c] = "staged"
     THEN /\ decisions' = [decisions EXCEPT ![KeyOf(c)] = draft[c]]
          /\ events' = events \union {Response(draft[c])}
     ELSE UNCHANGED tables
  /\ holder' = WithoutHolder(c)
  /\ draft' = [draft EXCEPT ![c] = None]
  /\ Goto(c, "done")
  /\ UNCHANGED <<args, answer, given>>

Return(c) ==
  /\ pc[c] = "done"
  /\ given' = [given EXCEPT ![KeyOf(c)] =
                 @ \union {[request |-> args[c].request, answer |-> answer[c]]}]
  /\ Leave(c)
  /\ UNCHANGED tables

\* The service or its connection dies.
Crash(c) == pc[c] # "idle" /\ Rollback(c)

Proceed(c) ==
  FindDecision(c) \/ FindNothing(c) \/ InsertEvent(c) \/ Commit(c) \/ Return(c)

Insert(c) == DuplicateKey(c) \/ \E id \in Ids : InsertDecision(c, id)

Next ==
  \E c \in Callers :
    \/ \E k \in Keys, r \in AuthorizationRequests : Call(c, k, r)
    \/ Proceed(c) \/ Insert(c) \/ Crash(c)

Spec == Init /\ [][Next]_vars

-----------------------------------------------------------------------------
(* Properties *)

\* The decision and its event are written together: for every payment and
\* status there are as many events to publish as there are decisions.
DecisionsAnnounced ==
  \A p \in Payments, st \in Statuses :
    Cardinality({e \in events : e.payment = p /\ e.status = st}) =
      Cardinality({k \in Keys : decisions[k] # None /\ decisions[k].payment = p
                                  /\ decisions[k].status = st})

\* Repeated requests with the same idempotency key return the original result
\* (docs/CLOUD_PLATFORM_ARCHITECTURE.md): whether they race, come late or follow
\* a crash, they are given one answer, and it is that of a committed decision.
RepeatsReturnOriginal ==
  \A k \in Keys : \A g \in given[k] :
    /\ g.answer \in events
    /\ \A h \in given[k] : g.request = h.request => g.answer = h.answer

\* docs/CLOUD_PLATFORM_ARCHITECTURE.md: a changed request with the same key
\* returns a conflict, so that all requests answered under a key are one.
ChangedRequestsConflict ==
  \A k \in Keys : \A g, h \in given[k] : g.request = h.request
=============================================================================
