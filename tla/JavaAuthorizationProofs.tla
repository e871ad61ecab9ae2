----------------------- MODULE JavaAuthorizationProofs -----------------------
(***************************************************************************)
(* Theorems about JavaAuthorization, for every set of keys, callers,       *)
(* payments, identifiers and amounts, and every limit.                     *)
(***************************************************************************)
EXTENDS JavaAuthorization, FiniteSetTheorems, FunctionTheorems, TLAPS

-----------------------------------------------------------------------------
(* The inductive invariant *)

Inserting(c) == pc[c] \in {"inserted", "staged"}

\* What the place of a caller in authorize says of its transaction.
PlaceOK(c) ==
  /\ pc[c] # "idle" => args[c] \in [key : Keys, request : AuthorizationRequests]
  /\ IF Inserting(c)
     THEN draft[c] \in Decisions /\ decisions[KeyOf(c)] = None
     ELSE draft[c] = None
  /\ pc[c] = "staged" => answer[c] = Response(draft[c])
  /\ pc[c] \in {"found", "done"} =>
       decisions[KeyOf(c)] # None /\ answer[c] = Response(decisions[KeyOf(c)])

\* The pending insert of a key is that of the one caller that is inserting it.
HoldersOK ==
  \A k \in Keys, c \in Callers : holder[k] = c <=> Inserting(c) /\ KeyOf(c) = k

\* No two decisions, committed or pending, have the same identifier.
IdsUnique ==
  /\ \A k, l \in Keys : decisions[k] # None /\ decisions[l] # None
                          /\ decisions[k].id = decisions[l].id => k = l
  /\ \A c \in Callers, k \in Keys :
       Inserting(c) /\ decisions[k] # None => decisions[k].id # draft[c].id
  /\ \A b, c \in Callers :
       Inserting(b) /\ Inserting(c) /\ draft[b].id = draft[c].id => b = c

\* The events are those of the committed decisions, and no others.
EventsOfDecisions ==
  /\ \A k \in Keys : decisions[k] # None => Response(decisions[k]) \in events
  /\ \A e \in events : \E k \in Keys : decisions[k] # None /\ e = Response(decisions[k])

Decided == {k \in Keys : decisions[k] # None}

\* What was answered under a key is its decision.
GivenOK ==
  \A k \in Keys : \A g \in given[k] :
    decisions[k] # None /\ g.answer = Response(decisions[k])

IInv ==
  /\ NoneApart
  /\ TypeOK /\ \A c \in Callers : PlaceOK(c)
  /\ HoldersOK /\ IdsUnique /\ EventsOfDecisions /\ IsFiniteSet(Decided) /\ GivenOK

-----------------------------------------------------------------------------
LEMMA InitInvariant == NoneApart /\ Init => IInv
<1>. SUFFICES ASSUME NoneApart, Init PROVE IInv
  OBVIOUS
<1>1. TypeOK
  BY DEF Init, TypeOK
<1>2. (\A c \in Callers : PlaceOK(c)) /\ HoldersOK
  BY DEF Init, PlaceOK, HoldersOK, Inserting, NoneApart
<1>3. Decided = {}
  BY DEF Init, Decided
<1>4. IdsUnique /\ EventsOfDecisions /\ GivenOK
  BY DEF Init, IdsUnique, EventsOfDecisions, GivenOK, Inserting
<1>. QED  BY <1>1, <1>2, <1>3, <1>4, FS_EmptySet DEF IInv

\* A response has the identifier, payment and status of its decision.
LEMMA ResponseTyped ==
  ASSUME NEW d \in Decisions
  PROVE  /\ Response(d) \in Responses
         /\ Response(d).id = d.id /\ Response(d).payment = d.payment
         /\ Response(d).status = d.status
BY DEF Decisions, Responses, Response

LEMMA TypeStep == IInv /\ [Next]_vars => TypeOK'
<1>. SUFFICES ASSUME IInv, [Next]_vars PROVE TypeOK'
  OBVIOUS
<1>. USE DEF tables, Goto
<1>0. TypeOK /\ \A c \in Callers : PlaceOK(c)
  BY DEF IInv
<1>1. ASSUME NEW c \in Callers, Leave(c)
      PROVE  /\ holder' \in [Keys -> Callers \union {None}]
             /\ draft' \in [Callers -> Decisions \union {None}]
             /\ pc' \in [Callers -> {"idle", "called", "unseen", "inserted", "staged", "found", "done"}]
             /\ args' \in [Callers -> [key : Keys, request : AuthorizationRequests] \union {None}]
             /\ answer' \in [Callers -> Responses \union {None}]
  BY <1>0, <1>1 DEF Leave, WithoutHolder, TypeOK
<1>2. ASSUME NEW c \in Callers, NEW k \in Keys, NEW r \in AuthorizationRequests, Call(c, k, r) PROVE TypeOK'
  BY <1>0, <1>2 DEF Call, TypeOK
<1>3. ASSUME NEW c \in Callers, pc[c] # "idle"
      PROVE  KeyOf(c) \in Keys /\ args[c].request \in AuthorizationRequests
  BY <1>0, <1>3 DEF PlaceOK, KeyOf
<1>4. ASSUME NEW c \in Callers, FindDecision(c) PROVE TypeOK'
  <2>1. decisions[KeyOf(c)] \in Decisions
    BY <1>0, <1>3, <1>4 DEF FindDecision, TypeOK
  <2>. QED  BY <1>0, <1>4, <2>1, ResponseTyped DEF FindDecision, TypeOK
<1>5. ASSUME NEW c \in Callers, FindNothing(c) PROVE TypeOK'
  BY <1>0, <1>5 DEF FindNothing, TypeOK
<1>6. ASSUME NEW c \in Callers, NEW id \in Ids, InsertDecision(c, id) PROVE TypeOK'
  <2>1. NewDecision(c, id) \in Decisions /\ KeyOf(c) \in Keys
    BY <1>3, <1>6 DEF InsertDecision, NewDecision, Decide, Decisions, Statuses, AuthorizationRequests
  <2>. QED  BY <1>0, <1>6, <2>1 DEF InsertDecision, TypeOK
<1>7. ASSUME NEW c \in Callers, InsertEvent(c) PROVE TypeOK'
  <2>1. Response(draft[c]) \in Responses
    BY <1>0, <1>7, ResponseTyped DEF InsertEvent, PlaceOK, Inserting
  <2>. QED  BY <1>0, <1>7, <2>1 DEF InsertEvent, TypeOK
<1>8. ASSUME NEW c \in Callers, Commit(c) PROVE TypeOK'
  <2>1. pc[c] = "staged" =>
          draft[c] \in Decisions /\ Response(draft[c]) \in Responses /\ KeyOf(c) \in Keys
    BY <1>0, <1>3, ResponseTyped DEF PlaceOK, Inserting
  <2>. QED  BY <1>0, <1>8, <2>1 DEF Commit, WithoutHolder, TypeOK
<1>9. ASSUME NEW c \in Callers, Return(c) PROVE TypeOK'
  <2>1. answer[c] \in Responses /\ KeyOf(c) \in Keys /\ args[c].request \in AuthorizationRequests
    <3>1. KeyOf(c) \in Keys /\ decisions[KeyOf(c)] \in Decisions
          /\ answer[c] = Response(decisions[KeyOf(c)])
      BY <1>0, <1>3, <1>9 DEF Return, PlaceOK, TypeOK
    <3>. QED  BY <1>3, <1>9, <3>1, ResponseTyped DEF Return
  <2>2. given' = [given EXCEPT ![KeyOf(c)] = given[KeyOf(c)] \union
                    {[request |-> args[c].request, answer |-> answer[c]]}]
        /\ UNCHANGED tables
    BY <1>9 DEF Return
  <2>3. given' \in [Keys -> SUBSET [request : AuthorizationRequests, answer : Responses]]
    BY <1>0, <2>1, <2>2 DEF TypeOK
  <2>. QED  BY <1>0, <1>1, <1>9, <2>2, <2>3 DEF Return, TypeOK
<1>10. ASSUME NEW c \in Callers, DuplicateKey(c) \/ Crash(c) PROVE TypeOK'
  BY <1>0, <1>1, <1>10 DEF DuplicateKey, Crash, Rollback, TypeOK
<1>11. CASE UNCHANGED vars
  BY <1>0, <1>11 DEF vars, TypeOK
<1>. QED
  BY <1>2, <1>4, <1>5, <1>6, <1>7, <1>8, <1>9, <1>10, <1>11 DEF Next, Proceed, Insert

-----------------------------------------------------------------------------
(* Every step keeps the invariant *)

\* The steps that look or prepare: they change no table and no pending insert.
LEMMA LookingStep ==
  ASSUME IInv, TypeOK', NEW c \in Callers,
         \/ \E k \in Keys, r \in AuthorizationRequests : Call(c, k, r)
         \/ FindDecision(c) \/ FindNothing(c) \/ InsertEvent(c)
  PROVE  IInv'
<1>. USE DEF IInv, NoneApart
<1>1. /\ UNCHANGED <<decisions, events, holder, draft, given>>
      /\ \A b \in Callers \ {c} : pc'[b] = pc[b] /\ args'[b] = args[b] /\ answer'[b] = answer[b]
      /\ pc[c] # "idle" => args'[c] = args[c]
  BY DEF Call, FindDecision, FindNothing, InsertEvent, Goto, tables, TypeOK
<1>2. Inserting(c)' <=> Inserting(c)
  BY DEF Call, FindDecision, FindNothing, InsertEvent, Goto, Inserting, TypeOK
<1>3. \A b \in Callers \ {c} : (Inserting(b)' <=> Inserting(b)) /\ KeyOf(b)' = KeyOf(b)
  BY <1>1 DEF Inserting, KeyOf
<1>4. Inserting(c) => KeyOf(c)' = KeyOf(c)
  BY <1>1 DEF Inserting, KeyOf
<1>5. \A b \in Callers \ {c} : PlaceOK(b)'
  BY <1>1, <1>3 DEF PlaceOK
<1>6. PlaceOK(c)'
  <2>1. ASSUME NEW k \in Keys, NEW r \in AuthorizationRequests, Call(c, k, r) PROVE PlaceOK(c)'
    <3>1. pc'[c] = "called" /\ args'[c] = [key |-> k, request |-> r] /\ draft'[c] = None
      BY <2>1 DEF Call, Goto, TypeOK, PlaceOK, Inserting
    <3>. QED  BY <3>1 DEF PlaceOK, Inserting
  <2>2. CASE FindDecision(c) \/ FindNothing(c)
    <3>1. /\ pc'[c] \in {"found", "unseen"} /\ args' = args /\ draft'[c] = None
          /\ pc[c] # "idle"
          /\ pc'[c] = "found" =>
               decisions[KeyOf(c)] # None /\ answer'[c] = Response(decisions[KeyOf(c)])
      BY <1>1, <2>2 DEF FindDecision, FindNothing, Goto, TypeOK, PlaceOK, Inserting
    <3>2. KeyOf(c)' = KeyOf(c) /\ args[c] \in [key : Keys, request : AuthorizationRequests]
      BY <3>1 DEF KeyOf, PlaceOK
    <3>. QED  BY <1>1, <3>1, <3>2 DEF PlaceOK, Inserting
  <2>3. CASE InsertEvent(c)
    <3>1. pc[c] = "inserted" /\ pc'[c] = "staged" /\ args' = args /\ answer'[c] = Response(draft[c])
      BY <2>3 DEF InsertEvent, Goto, TypeOK
    <3>2. KeyOf(c)' = KeyOf(c)
      BY <3>1 DEF KeyOf
    <3>. QED  BY <1>1, <3>1, <3>2 DEF PlaceOK, Inserting
  <2>. QED  BY <2>1, <2>2, <2>3
<1>7. HoldersOK' /\ IdsUnique'
  BY <1>1, <1>2, <1>3, <1>4 DEF HoldersOK, IdsUnique
<1>8. EventsOfDecisions' /\ Decided' = Decided /\ GivenOK'
  BY <1>1 DEF EventsOfDecisions, Decided, GivenOK
<1>. QED  BY <1>5, <1>6, <1>7, <1>8

\* The insert takes a key that nobody has decided or is deciding.
LEMMA InsertStep ==
  ASSUME IInv, TypeOK', NEW c \in Callers, NEW id \in Ids, InsertDecision(c, id)
  PROVE  IInv'
<1>. USE DEF IInv, NoneApart
<1>1. PICK k : k = KeyOf(c)
  OBVIOUS
<1>2. PICK d : d = NewDecision(c, id)
  OBVIOUS
<1>3. /\ pc[c] = "unseen" /\ decisions[k] = None /\ holder[k] = None
      /\ pc' = [pc EXCEPT ![c] = "inserted"]
      /\ holder' = [holder EXCEPT ![k] = c] /\ draft' = [draft EXCEPT ![c] = d]
      /\ Fresh(id)
      /\ UNCHANGED <<decisions, events, args, answer, given>>
  BY <1>1, <1>2 DEF InsertDecision, KeyFree, Goto, tables
<1>4. k \in Keys /\ d \in Decisions /\ d.id = id
  BY <1>1, <1>2, <1>3
     DEF PlaceOK, KeyOf, NewDecision, Decide, Decisions, Statuses, AuthorizationRequests
<1>5. \A b \in Callers : /\ KeyOf(b)' = KeyOf(b)
                         /\ Inserting(b)' <=> Inserting(b) \/ b = c
                         /\ b # c => draft'[b] = draft[b] /\ pc'[b] = pc[b]
  BY <1>3 DEF KeyOf, Inserting, TypeOK
<1>6. ~Inserting(c) /\ Inserting(c)' /\ draft'[c] = d /\ pc'[c] = "inserted"
  BY <1>3 DEF Inserting, TypeOK
<1>7. ASSUME NEW b \in Callers PROVE PlaceOK(b)'
  <2>1. CASE b = c
    BY <1>1, <1>3, <1>4, <1>5, <1>6, <2>1 DEF PlaceOK
  <2>2. CASE b # c
    BY <1>3, <1>5, <2>2 DEF PlaceOK
  <2>. QED  BY <2>1, <2>2
<1>8. HoldersOK'
  <2>. SUFFICES ASSUME NEW l \in Keys, NEW b \in Callers
                PROVE  holder'[l] = b <=> Inserting(b)' /\ KeyOf(b)' = l
    BY DEF HoldersOK
  <2>1. holder[l] = b <=> Inserting(b) /\ KeyOf(b) = l
    BY DEF HoldersOK
  <2>2. holder'[l] = (IF l = k THEN c ELSE holder[l])
    BY <1>3 DEF TypeOK
  <2>. QED  BY <1>1, <1>3, <1>5, <1>6, <2>1, <2>2
<1>9. IdsUnique'
  <2>1. \A l \in Keys : decisions[l] # None => decisions[l].id # id
    BY <1>3 DEF Fresh
  <2>2. \A b \in Callers : Inserting(b) => draft[b].id # id
    BY <1>3 DEF Fresh, PlaceOK
  <2>. QED  BY <1>3, <1>4, <1>5, <1>6, <2>1, <2>2 DEF IdsUnique
<1>10. EventsOfDecisions' /\ Decided' = Decided /\ GivenOK'
  BY <1>3 DEF EventsOfDecisions, Decided, GivenOK
<1>. QED  BY <1>7, <1>8, <1>9, <1>10

\* Leaving a transaction, which changes no table, drops its pending insert.
LEMMA LeaveStep ==
  ASSUME IInv, TypeOK', NEW c \in Callers, Leave(c), UNCHANGED tables, GivenOK'
  PROVE  IInv'
<1>. USE DEF IInv, NoneApart
<1>1. /\ pc'[c] = "idle" /\ draft'[c] = None
      /\ \A b \in Callers \ {c} : /\ pc'[b] = pc[b] /\ draft'[b] = draft[b]
                                  /\ args'[b] = args[b] /\ answer'[b] = answer[b]
      /\ \A k \in Keys : holder'[k] = IF holder[k] = c THEN None ELSE holder[k]
      /\ UNCHANGED <<decisions, events>>
  BY DEF Leave, WithoutHolder, Goto, tables, TypeOK
<1>2. /\ ~Inserting(c)'
      /\ \A b \in Callers \ {c} : (Inserting(b)' <=> Inserting(b)) /\ KeyOf(b)' = KeyOf(b)
  BY <1>1 DEF Inserting, KeyOf
<1>3. PlaceOK(c)' /\ \A b \in Callers \ {c} : PlaceOK(b)'
  BY <1>1, <1>2 DEF PlaceOK
<1>4. HoldersOK'
  <2>. SUFFICES ASSUME NEW k \in Keys, NEW b \in Callers
                PROVE  holder'[k] = b <=> Inserting(b)' /\ KeyOf(b)' = k
    BY DEF HoldersOK
  <2>. QED  BY <1>1, <1>2 DEF HoldersOK
<1>5. IdsUnique'
  BY <1>1, <1>2 DEF IdsUnique
<1>6. EventsOfDecisions' /\ Decided' = Decided
  BY <1>1 DEF EventsOfDecisions, Decided
<1>. QED  BY <1>3, <1>4, <1>5, <1>6

\* The commit makes the pending decision and its event real, or closes a look-up.
LEMMA CommitStep ==
  ASSUME IInv, TypeOK', NEW c \in Callers, Commit(c)
  PROVE  IInv'
<1>. USE DEF IInv, NoneApart
<1>1. PICK k : k = KeyOf(c)
  OBVIOUS
<1>2. PICK d : d = draft[c]
  OBVIOUS
<1>3. /\ pc' = [pc EXCEPT ![c] = "done"] /\ draft' = [draft EXCEPT ![c] = None]
      /\ \A l \in Keys : holder'[l] = IF holder[l] = c THEN None ELSE holder[l]
      /\ UNCHANGED <<args, answer, given>>
  BY DEF Commit, WithoutHolder, Goto
<1>4. \A b \in Callers : /\ KeyOf(b)' = KeyOf(b)
                         /\ Inserting(b)' <=> Inserting(b) /\ b # c
                         /\ b # c => draft'[b] = draft[b] /\ pc'[b] = pc[b]
  BY <1>3 DEF KeyOf, Inserting, TypeOK
<1>5. pc'[c] = "done" /\ draft'[c] = None /\ k \in Keys /\ pc[c] \in {"staged", "found"}
  BY <1>1, <1>3 DEF TypeOK, PlaceOK, KeyOf, Commit
<1>6. HoldersOK'
  BY <1>3, <1>4 DEF HoldersOK
<1>7. CASE pc[c] = "found"
  <2>1. UNCHANGED <<decisions, events>> /\ ~Inserting(c)
    BY <1>7 DEF Commit, tables, Inserting
  <2>2. ASSUME NEW b \in Callers PROVE PlaceOK(b)'
    <3>1. CASE b = c
      BY <1>3, <1>4, <1>5, <1>7, <2>1, <3>1 DEF PlaceOK
    <3>2. CASE b # c
      BY <1>3, <1>4, <2>1, <3>2 DEF PlaceOK
    <3>. QED  BY <3>1, <3>2
  <2>3. IdsUnique'
    BY <1>4, <2>1 DEF IdsUnique
  <2>4. EventsOfDecisions' /\ Decided' = Decided /\ GivenOK'
    BY <1>3, <2>1 DEF EventsOfDecisions, Decided, GivenOK
  <2>. QED  BY <1>6, <2>2, <2>3, <2>4
<1>8. CASE pc[c] = "staged"
  <2>1. /\ decisions' = [decisions EXCEPT ![k] = d]
        /\ events' = events \union {Response(d)}
        /\ Inserting(c) /\ d \in Decisions /\ decisions[k] = None /\ answer[c] = Response(d)
    BY <1>1, <1>2, <1>8 DEF Commit, Inserting, PlaceOK
  <2>2. decisions'[k] = d /\ \A l \in Keys \ {k} : decisions'[l] = decisions[l]
    BY <1>5, <2>1 DEF TypeOK
  <2>3. \A b \in Callers : Inserting(b) /\ KeyOf(b) = k => b = c
    BY <1>1, <1>5, <2>1 DEF HoldersOK
  <2>4. ASSUME NEW b \in Callers PROVE PlaceOK(b)'
    <3>1. CASE b = c
      BY <1>1, <1>3, <1>4, <1>5, <2>1, <2>2, <3>1 DEF PlaceOK
    <3>2. CASE b # c
      <4>1. pc[b] # "idle" => KeyOf(b) \in Keys
        BY DEF PlaceOK, KeyOf
      <4>2. Inserting(b) => KeyOf(b) # k
        BY <2>3, <3>2
      <4>3. pc[b] \in {"found", "done"} => KeyOf(b) # k
        BY <2>1 DEF PlaceOK
      <4>. QED  BY <1>3, <1>4, <2>2, <3>2, <4>1, <4>2, <4>3 DEF PlaceOK, Inserting
    <3>. QED  BY <3>1, <3>2
  <2>5. IdsUnique'
    <3>1. \A l \in Keys : decisions[l] # None => decisions[l].id # d.id
      BY <1>2, <2>1 DEF IdsUnique
    <3>2. \A b \in Callers : Inserting(b) /\ b # c => draft[b].id # d.id
      BY <1>2, <2>1 DEF IdsUnique
    <3>. QED  BY <1>4, <1>5, <2>1, <2>2, <3>1, <3>2 DEF IdsUnique
  <2>6. EventsOfDecisions'
    <3>1. ASSUME NEW l \in Keys, decisions'[l] # None PROVE Response(decisions'[l]) \in events'
      <4>1. CASE l = k
        BY <2>1, <2>2, <4>1
      <4>2. CASE l # k
        BY <2>1, <2>2, <3>1, <4>2 DEF EventsOfDecisions
      <4>. QED  BY <4>1, <4>2
    <3>2. ASSUME NEW e \in events'
          PROVE  \E l \in Keys : decisions'[l] # None /\ e = Response(decisions'[l])
      <4>1. CASE e = Response(d)
        BY <1>5, <2>1, <2>2, <4>1
      <4>2. CASE e \in events
        <5>1. PICK l \in Keys : decisions[l] # None /\ e = Response(decisions[l])
          BY <4>2 DEF EventsOfDecisions
        <5>2. l # k /\ decisions'[l] = decisions[l]
          BY <2>1, <2>2, <5>1
        <5>. QED  BY <5>1, <5>2
      <4>. QED  BY <2>1, <4>1, <4>2
    <3>. QED  BY <3>1, <3>2 DEF EventsOfDecisions
  <2>7. Decided' = Decided \union {k}
    BY <1>5, <2>1, <2>2 DEF Decided
  <2>8. IsFiniteSet(Decided')
    BY <2>7, FS_AddElement
  <2>9. GivenOK'
    BY <1>3, <2>1, <2>2 DEF GivenOK
  <2>. QED  BY <1>6, <2>4, <2>5, <2>6, <2>8, <2>9
<1>. QED  BY <1>5, <1>7, <1>8

LEMMA NextInvariant == IInv /\ [Next]_vars => IInv'
<1>. SUFFICES ASSUME IInv, [Next]_vars PROVE IInv'
  OBVIOUS
<1>0. TypeOK'
  BY TypeStep
<1>1. ASSUME NEW c \in Callers, Return(c) PROVE IInv'
  <2>1. PICK k : k = KeyOf(c)
    OBVIOUS
  <2>2. /\ pc[c] = "done" /\ Leave(c) /\ UNCHANGED tables
        /\ given' = [given EXCEPT ![k] = given[k] \union
                       {[request |-> args[c].request, answer |-> answer[c]]}]
    BY <1>1, <2>1 DEF Return
  <2>3. decisions[k] # None /\ answer[c] = Response(decisions[k])
    BY <2>1, <2>2 DEF IInv, PlaceOK
  <2>4. GivenOK'
    BY <2>2, <2>3 DEF tables, GivenOK, IInv, TypeOK
  <2>. QED  BY <1>0, <2>2, <2>4, LeaveStep
<1>2. ASSUME NEW c \in Callers, DuplicateKey(c) \/ Crash(c) PROVE IInv'
  <2>1. Leave(c) /\ UNCHANGED tables /\ UNCHANGED given
    BY <1>2 DEF DuplicateKey, Crash, Rollback
  <2>2. GivenOK'
    BY <2>1 DEF tables, GivenOK, IInv
  <2>. QED  BY <1>0, <2>1, <2>2, LeaveStep
<1>3. CASE UNCHANGED vars
  <2>1. \A c \in Callers : (Inserting(c)' <=> Inserting(c)) /\ KeyOf(c)' = KeyOf(c)
    BY <1>3 DEF vars, Inserting, KeyOf
  <2>2. UNCHANGED <<decisions, events, holder, draft, pc, args, answer, given>>
    BY <1>3 DEF vars, tables
  <2>. QED
    BY <1>0, <2>1, <2>2
       DEF IInv, PlaceOK, HoldersOK, IdsUnique, EventsOfDecisions, Decided, GivenOK
<1>. QED
  BY <1>0, <1>1, <1>2, <1>3, LookingStep, InsertStep, CommitStep DEF Next, Proceed, Insert

LEMMA Invariance == NoneApart /\ Spec => []IInv
BY InitInvariant, NextInvariant, PTL DEF Spec

-----------------------------------------------------------------------------
(* The theorems *)

\* The tables and the transactions of authorize keep their types.
THEOREM Types == NoneApart /\ Spec => []TypeOK
BY Invariance, PTL DEF IInv

\* Idempotency-Key: whoever repeats a request under a key is given the decision
\* that was committed and announced for it.
THEOREM Repeats == NoneApart /\ Spec => []RepeatsReturnOriginal
<1>1. IInv => RepeatsReturnOriginal
  BY DEF IInv, GivenOK, EventsOfDecisions, RepeatsReturnOriginal
<1>. QED  BY <1>1, Invariance, PTL

\* The two inserts of authorize commit together: what is published of a payment is
\* in one-to-one correspondence with its decisions.
THEOREM Announcements == NoneApart /\ Spec => []DecisionsAnnounced
<1>1. IInv => DecisionsAnnounced
  <2>. SUFFICES ASSUME IInv, NEW p \in Payments, NEW st \in Statuses,
                       NEW E, E = {e \in events : e.payment = p /\ e.status = st},
                       NEW K, K = {k \in Keys : decisions[k] # None /\ decisions[k].payment = p
                                                  /\ decisions[k].status = st}
                PROVE  Cardinality(E) = Cardinality(K)
    BY DEF DecisionsAnnounced
  <2>1. IsFiniteSet(K)
    BY FS_Subset DEF IInv, Decided
  <2>2. \A k \in Keys : decisions[k] # None =>
          /\ Response(decisions[k]).id = decisions[k].id
          /\ Response(decisions[k]).payment = decisions[k].payment
          /\ Response(decisions[k]).status = decisions[k].status
    BY ResponseTyped DEF IInv, TypeOK
  <2>. DEFINE f == [k \in K |-> Response(decisions[k])]
  <2>3. \A k \in K : f[k] \in E
    BY <2>2 DEF IInv, EventsOfDecisions
  <2>4. \A k, l \in K : f[k] = f[l] => k = l
    BY <2>2 DEF IInv, IdsUnique
  <2>5. \A e \in E : \E k \in K : f[k] = e
    BY <2>2 DEF IInv, EventsOfDecisions
  <2>6. f \in [K -> E]
    BY <2>3
  <2>. HIDE DEF f
  <2>7. f \in Bijection(K, E)
    BY <2>4, <2>5, <2>6, Fun_IsBij
  <2>. QED  BY <2>1, <2>7, FS_Bijection DEF ExistsBijection
<1>. QED  BY <1>1, Invariance, PTL
=============================================================================
