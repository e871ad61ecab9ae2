--------------------------- MODULE PaymentProofs ---------------------------
(***************************************************************************)
(* Theorems about PaymentOperations, for every set of payments, keys,      *)
(* sessions and requests, and then about Reconciliation and Snapshot over  *)
(* the same tables: what an inspection, and the snapshot around it, says   *)
(* of them while they change under it.                                     *)
(***************************************************************************)
EXTENDS Snapshot, FiniteSetTheorems, TLAPS

-----------------------------------------------------------------------------
(* Type correctness *)

\* What the place of a session says of the types of its variables.
SessionOK ==
  \A s \in Sessions :
    /\ pc[s] # "idle" => request[s] \in RequestType
    /\ pc[s] \in {"locked", "staged"} => seen[s] \in Statuses
    /\ pc[s] \in {"staged", "replay", "answer"} => row[s] \in Rows

TypeInv == TypeOK /\ SessionOK

USE DEF Operations, Statuses, Places

\* _TRANSITIONS maps every operation to a pair of statuses.
LEMMA TransitionTypes ==
  \A op \in Operations : From[op] \in Statuses /\ To[op] \in Statuses
BY DEF From, To

\* A row made by Stage, and the records Commit derives from a row, have the
\* types of their tables.
LEMMA RecordTypes ==
  /\ \A r \in RequestType : Fingerprint(r) \in Fingerprints
  /\ \A w \in Rows :
       /\ JournalOf(w) \in [id : Ids, payment : Payments, operation : Operations]
       /\ EntriesOf(w) \subseteq [journal : Ids, account : Accounts,
                                  side : {"debit", "credit"}, amount : Nat]
       /\ EventOf(w) \in [id : Ids, payment : Payments, announces : Statuses]
<1>1. \A r \in RequestType : Fingerprint(r) \in Fingerprints
  BY DEF RequestType, Fingerprint, Fingerprints
<1>2. ASSUME NEW w \in Rows
      PROVE  JournalOf(w) \in [id : Ids, payment : Payments, operation : Operations]
  BY DEF Rows, Fingerprints, JournalOf
<1>3. ASSUME NEW w \in Rows
      PROVE  EntriesOf(w) \subseteq [journal : Ids, account : Accounts,
                                     side : {"debit", "credit"}, amount : Nat]
  <2>1. Amount[w.fingerprint.payment] \in Nat
    BY ConstantsAssumption DEF Rows, Fingerprints
  <2>2. w.id \in Ids /\ w.fingerprint.source \in Accounts
        /\ w.fingerprint.destination \in Accounts
    BY DEF Rows, Fingerprints
  <2>. QED  BY <2>1, <2>2 DEF EntriesOf
<1>4. ASSUME NEW w \in Rows
      PROVE  EventOf(w) \in [id : Ids, payment : Payments, announces : Statuses]
  BY DEF Rows, Fingerprints, EventOf
<1>. QED  BY <1>1, <1>2, <1>3, <1>4

\* Ending a transaction keeps the types of the lock tables.
LEMMA ReleaseTypes ==
  ASSUME TypeOK, NEW s \in Sessions, ReleaseLocks(s)
  PROVE  /\ keyLock' \in [LockIds -> Sessions \union {None}]
         /\ rowLock' \in [Payments -> Sessions \union {None}]
BY DEF TypeOK, ReleaseLocks

\* An error or a crash preserves the types.
LEMMA RollbackTypes ==
  ASSUME TypeInv, NEW s \in Sessions, Rollback(s)
  PROVE  TypeInv'
<1>1. TypeOK'
  BY ReleaseTypes DEF TypeInv, TypeOK, Rollback, Idle, tables
<1>2. SessionOK'
  BY DEF TypeInv, TypeOK, SessionOK, Rollback, Idle
<1>. QED  BY <1>1, <1>2 DEF TypeInv

LEMMA TypeInit == Init => TypeInv
BY DEF Init, TypeInv, TypeOK, SessionOK

LEMMA TypeStep == TypeInv /\ [Next]_vars => TypeInv'
<1>. SUFFICES ASSUME TypeInv, [Next]_vars PROVE TypeInv'
  OBVIOUS
<1>. USE DEF TypeInv
<1>1. ASSUME NEW s \in Sessions, NEW r \in Requests, Begin(s, r) PROVE TypeInv'
  BY <1>1, ConstantsAssumption DEF TypeOK, SessionOK, Begin, Goto, tables
<1>2. ASSUME NEW s \in Sessions, LockKey(s) PROVE TypeInv'
  <2>1. LockOf(s) \in LockIds
    BY <1>2, ConstantsAssumption DEF SessionOK, LockKey, LockOf, RequestType
  <2>. QED  BY <1>2, <2>1 DEF TypeOK, SessionOK, LockKey, Goto, tables
<1>3. ASSUME NEW s \in Sessions, LockRow(s) PROVE TypeInv'
  <2>1. request[s].payment \in Payments
    BY <1>3 DEF SessionOK, LockRow, RequestType
  <2>. QED  BY <1>3, <2>1 DEF TypeOK, SessionOK, LockRow, Goto, tables
<1>4. ASSUME NEW s \in Sessions, KeyUnused(s) PROVE TypeInv'
  BY <1>4 DEF TypeOK, SessionOK, KeyUnused, Goto, tables
<1>5. ASSUME NEW s \in Sessions, FindReplay(s) PROVE TypeInv'
  <2>1. request[s].key \in Keys
    BY <1>5 DEF SessionOK, FindReplay, RequestType
  <2>2. operations[request[s].key] \in Rows
    BY <1>5, <2>1 DEF TypeOK, FindReplay
  <2>. QED  BY <1>5, <2>2 DEF TypeOK, SessionOK, FindReplay, Goto, tables
<1>6. ASSUME NEW s \in Sessions, NEW id \in Ids, Stage(s, id) PROVE TypeInv'
  <2>1. NewRow(s, id) \in Rows
    <3>1. request[s] \in RequestType /\ seen[s] \in Statuses
      BY <1>6 DEF SessionOK, Stage
    <3>2. To[request[s].operation] \in Statuses
      BY <3>1, TransitionTypes DEF RequestType
    <3>. QED  BY <3>1, <3>2, RecordTypes DEF NewRow, Rows
  <2>. QED  BY <1>6, <2>1 DEF TypeOK, SessionOK, Stage, Goto, tables
<1>7. ASSUME NEW s \in Sessions, Commit(s) PROVE TypeInv'
  <2>1. row[s] \in Rows /\ request[s] \in RequestType
    BY <1>7 DEF SessionOK, Commit
  <2>2. /\ row[s].to \in Statuses
        /\ request[s].payment \in Payments /\ request[s].key \in Keys
    BY <2>1 DEF Rows, RequestType
  <2>3. /\ status' \in [Payments -> Statuses \union {None}]
        /\ operations' \in [Keys -> Rows \union {None}]
    BY <1>7, <2>1, <2>2 DEF TypeOK, Commit
  <2>4. /\ journals' \subseteq [id : Ids, payment : Payments, operation : Operations]
        /\ entries' \subseteq [journal : Ids, account : Accounts,
                               side : {"debit", "credit"}, amount : Nat]
        /\ events' \subseteq [id : Ids, payment : Payments, announces : Statuses]
    BY <1>7, <2>1, RecordTypes DEF TypeOK, Commit
  <2>5. TypeOK'
    BY <1>7, <2>3, <2>4, ReleaseTypes DEF TypeOK, Commit, Goto
  <2>6. SessionOK'
    BY <1>7, <2>1 DEF TypeOK, SessionOK, Commit, Goto
  <2>. QED  BY <2>5, <2>6
<1>8. ASSUME NEW s \in Sessions, CommitReplay(s) PROVE TypeInv'
  BY <1>8, ReleaseTypes DEF TypeOK, SessionOK, CommitReplay, Goto, tables
<1>9. ASSUME NEW s \in Sessions, Answer(s) PROVE TypeInv'
  BY <1>9 DEF TypeOK, SessionOK, Answer, Idle, tables
<1>10. ASSUME NEW s \in Sessions,
              KeyConflict(s) \/ PaymentMissing(s) \/ Refuse(s) \/ Crash(s)
       PROVE  TypeInv'
  BY <1>10, RollbackTypes DEF KeyConflict, PaymentMissing, Refuse, Crash
<1>11. ASSUME NEW p \in Payments, CreatePayment(p) \/ Authorize(p) PROVE TypeInv'
  BY <1>11 DEF TypeOK, SessionOK, CreatePayment, Authorize
<1>12. CASE UNCHANGED vars
  BY <1>12 DEF TypeOK, SessionOK, vars, tables
<1>. QED
  BY <1>1, <1>2, <1>3, <1>4, <1>5, <1>6, <1>7, <1>8, <1>9, <1>10, <1>11, <1>12
     DEF Next, Proceed

\* Every variable keeps its type.
THEOREM TypeCorrect == Spec => []TypeOK
<1>1. Spec => []TypeInv
  BY TypeInit, TypeStep, PTL DEF Spec
<1>. QED  BY <1>1, PTL DEF TypeInv

-----------------------------------------------------------------------------
(* The inductive invariant *)

\* What a session holds and knows at each place of execute.
PlaceOK(s) ==
  /\ pc[s] # "idle" => request[s].source # request[s].destination
  /\ pc[s] \in {"keyed", "waitRow", "locked", "staged", "replay"} =>
       keyLock[LockOf(s)] = s
  /\ pc[s] \in {"waitRow", "locked", "staged"} => operations[request[s].key] = None
  /\ pc[s] \in {"locked", "staged"} =>
       /\ rowLock[request[s].payment] = s
       /\ seen[s] = status[request[s].payment]
  /\ pc[s] = "staged" =>
       /\ row[s].fingerprint = Fingerprint(request[s])
       /\ row[s].from = seen[s]
       /\ row[s].from = From[request[s].operation]
       /\ row[s].to = To[request[s].operation]
  /\ pc[s] \in {"replay", "answer"} =>
       /\ row[s] = operations[request[s].key]
       /\ row[s].fingerprint = Fingerprint(request[s])

PlaceInv == \A s \in Sessions : PlaceOK(s)

\* The identifier a session is about to store is nobody else's.
StagedIdsInv ==
  /\ \A s \in Sessions, k \in Keys :
       pc[s] = "staged" /\ operations[k] # None => operations[k].id # row[s].id
  /\ \A s, t \in Sessions :
       pc[s] = "staged" /\ pc[t] = "staged" /\ row[s].id = row[t].id => s = t

IInv ==
  TypeInv /\ PlaceInv /\ StagedIdsInv /\ LedgerAgreesWithStatus
    /\ RecordsAgree /\ IdentifiersUnique

\* An operation adds its own journal to those its payment must have, and that
\* journal was not among them.
LEMMA JournalsGrow ==
  \A op \in Operations :
    /\ JournalsFor(To[op]) = JournalsFor(From[op]) \union {op}
    /\ op \notin JournalsFor(From[op])
BY DEF JournalsFor, From, To

LEMMA InvInit == Init => IInv
<1>. SUFFICES ASSUME Init PROVE IInv
  OBVIOUS
<1>1. PlaceInv /\ StagedIdsInv /\ IdentifiersUnique
  BY DEF Init, PlaceInv, PlaceOK, StagedIdsInv, IdentifiersUnique
<1>2. LedgerAgreesWithStatus
  <2>1. JournalsFor(None) = {}
    BY NoneAssumption DEF JournalsFor, To
  <2>2. \A p \in Payments : Posted(p) = {}
    BY DEF Init, Posted
  <2>. QED  BY <2>1, <2>2 DEF Init, LedgerAgreesWithStatus
<1>3. RecordsAgree
  <2>1. Stored = {}
    BY DEF Init, Stored
  <2>. QED  BY <2>1 DEF Init, RecordsAgree
<1>. QED  BY <1>1, <1>2, <1>3, TypeInit DEF IInv

\* The invariants of the tables depend on the tables only.
LEMMA TablesKept ==
  ASSUME LedgerAgreesWithStatus, RecordsAgree, IdentifiersUnique, UNCHANGED tables
  PROVE  LedgerAgreesWithStatus' /\ RecordsAgree' /\ IdentifiersUnique'
<1>1. Stored' = Stored /\ \A p \in Payments : Posted(p)' = Posted(p)
  BY DEF tables, Stored, Posted
<1>2. LedgerAgreesWithStatus'
  BY <1>1 DEF tables, LedgerAgreesWithStatus
<1>3. RecordsAgree'
  BY <1>1 DEF tables, RecordsAgree
<1>4. IdentifiersUnique'
  BY DEF tables, IdentifiersUnique
<1>. QED  BY <1>2, <1>3, <1>4

\* An error or a crash gives up what the session held, and nobody else's.
LEMMA RollbackInv ==
  ASSUME IInv, NEW s \in Sessions, Rollback(s)
  PROVE  IInv'
<1>1. TypeInv'
  BY RollbackTypes DEF IInv
<1>2. PlaceInv'
  <2>. SUFFICES ASSUME NEW t \in Sessions, t # s, pc[t] # "idle"
                PROVE  PlaceOK(t)'
    BY DEF IInv, TypeInv, TypeOK, PlaceInv, PlaceOK, Rollback, Idle
  <2>1. /\ pc'[t] = pc[t] /\ request'[t] = request[t] /\ seen'[t] = seen[t]
        /\ row'[t] = row[t]
        /\ status' = status /\ operations' = operations
    BY DEF IInv, TypeInv, TypeOK, Rollback, Idle, tables
  <2>2. LockOf(t) \in LockIds /\ request[t].payment \in Payments
    BY ConstantsAssumption DEF IInv, TypeInv, SessionOK, RequestType, LockOf
  <2>3. /\ keyLock[LockOf(t)] = t => keyLock'[LockOf(t)] = t
        /\ rowLock[request[t].payment] = t => rowLock'[request[t].payment] = t
    BY <2>2 DEF Rollback, ReleaseLocks
  <2>. QED  BY <2>1, <2>3 DEF IInv, PlaceInv, PlaceOK, LockOf, Fingerprint
<1>3. StagedIdsInv'
  BY DEF IInv, TypeInv, TypeOK, StagedIdsInv, Rollback, Idle, tables
<1>. QED  BY <1>1, <1>2, <1>3, TablesKept DEF IInv, Rollback

\* A step of one session that leaves the tables and the other sessions alone,
\* and takes no lock another session holds, keeps the other sessions' PlaceOK.
LEMMA OthersKept ==
  ASSUME IInv, NEW s \in Sessions, NEW t \in Sessions, t # s, PlaceOK(t),
         pc'[t] = pc[t], request'[t] = request[t], seen'[t] = seen[t], row'[t] = row[t],
         status' = status, operations' = operations,
         \A l \in LockIds : keyLock[l] = t => keyLock'[l] = t,
         \A p \in Payments : rowLock[p] = t => rowLock'[p] = t
  PROVE  PlaceOK(t)'
<1>1. CASE pc[t] = "idle"
  BY <1>1 DEF PlaceOK
<1>2. CASE pc[t] # "idle"
  <2>1. LockOf(t) \in LockIds /\ request[t].payment \in Payments
    BY <1>2, ConstantsAssumption DEF IInv, TypeInv, SessionOK, RequestType, LockOf
  <2>. QED  BY <2>1 DEF PlaceOK, LockOf, Fingerprint
<1>. QED  BY <1>1, <1>2

LEMMA LockKeyInv ==
  ASSUME IInv, NEW s \in Sessions, LockKey(s), TypeInv'
  PROVE  IInv'
<1>. USE DEF IInv, TypeInv, TypeOK
<1>1. LockOf(s) \in LockIds
  BY ConstantsAssumption DEF SessionOK, LockKey, LockOf, RequestType
<1>2. ASSUME NEW t \in Sessions PROVE PlaceOK(t)'
  <2>1. CASE t = s
    BY <1>1, <2>1 DEF PlaceInv, PlaceOK, LockKey, Goto, LockOf, tables
  <2>2. CASE t # s
    BY <1>1, <2>2, OthersKept, NoneAssumption
       DEF PlaceInv, LockKey, KeyAvailable, Goto, tables
  <2>. QED  BY <2>1, <2>2
<1>3. StagedIdsInv'
  BY DEF StagedIdsInv, LockKey, Goto, tables
<1>. QED  BY <1>2, <1>3, TablesKept DEF PlaceInv, LockKey

LEMMA LockRowInv ==
  ASSUME IInv, NEW s \in Sessions, LockRow(s), TypeInv'
  PROVE  IInv'
<1>. USE DEF IInv, TypeInv, TypeOK
<1>1. request[s].payment \in Payments
  BY DEF SessionOK, LockRow, RequestType
<1>2. ASSUME NEW t \in Sessions PROVE PlaceOK(t)'
  <2>1. CASE t = s
    BY <1>1, <2>1 DEF PlaceInv, PlaceOK, LockRow, Goto, LockOf, tables
  <2>2. CASE t # s
    BY <1>1, <2>2, OthersKept, NoneAssumption
       DEF PlaceInv, LockRow, RowAvailable, Goto, tables
  <2>. QED  BY <2>1, <2>2
<1>3. StagedIdsInv'
  BY DEF StagedIdsInv, LockRow, Goto, tables
<1>. QED  BY <1>2, <1>3, TablesKept DEF PlaceInv, LockRow

LEMMA StageInv ==
  ASSUME IInv, NEW s \in Sessions, NEW id \in Ids, Stage(s, id), TypeInv'
  PROVE  IInv'
<1>. USE DEF IInv, TypeInv, TypeOK
<1>1. /\ row'[s] = NewRow(s, id) /\ row'[s].id = id
      /\ \A t \in Sessions : t # s => row'[t] = row[t] /\ pc'[t] = pc[t]
      /\ pc'[s] = "staged"
  BY DEF Stage, Goto, NewRow
<1>2. ASSUME NEW t \in Sessions PROVE PlaceOK(t)'
  <2>1. CASE t = s
    BY <1>1, <2>1 DEF PlaceInv, PlaceOK, Stage, Goto, TransitionAllowed, NewRow, LockOf,
                      Fingerprint, tables
  <2>2. CASE t # s
    BY <1>1, <2>2, OthersKept DEF PlaceInv, Stage, tables
  <2>. QED  BY <2>1, <2>2
<1>3. StagedIdsInv'
  <2>1. \A t \in Sessions : pc[t] = "staged" => row[t].id # id
    BY NoneAssumption DEF Stage, Fresh, SessionOK
  <2>. QED  BY <1>1, <2>1 DEF StagedIdsInv, Stage, Fresh, tables
<1>. QED  BY <1>2, <1>3, TablesKept DEF PlaceInv, Stage

LEMMA QuietInv ==
  ASSUME IInv, NEW s \in Sessions, TypeInv',
         \/ \E r \in Requests : Begin(s, r)
         \/ KeyUnused(s) \/ FindReplay(s) \/ Answer(s) \/ CommitReplay(s)
  PROVE  IInv'
<1>. USE DEF IInv, TypeInv, TypeOK
<1>1. UNCHANGED tables
  BY DEF Begin, KeyUnused, FindReplay, Answer, CommitReplay
<1>2. ASSUME NEW t \in Sessions, t # s PROVE PlaceOK(t)'
  BY <1>1, <1>2, OthersKept
     DEF PlaceInv, Begin, KeyUnused, FindReplay, Answer, CommitReplay, ReleaseLocks,
         Goto, Idle, tables
<1>3. PlaceOK(s)'
  <2>1. ASSUME NEW r \in Requests, Begin(s, r) PROVE PlaceOK(s)'
    BY <2>1 DEF PlaceOK, Begin, Goto
  <2>2. ASSUME KeyUnused(s) PROVE PlaceOK(s)'
    BY <2>2 DEF PlaceInv, PlaceOK, KeyUnused, Goto, LockOf, tables
  <2>3. ASSUME FindReplay(s) PROVE PlaceOK(s)'
    BY <2>3 DEF PlaceInv, PlaceOK, FindReplay, Goto, LockOf, SameRequest, Fingerprint, tables
  <2>4. ASSUME Answer(s) PROVE PlaceOK(s)'
    BY <2>4 DEF PlaceOK, Answer, Idle
  <2>5. ASSUME CommitReplay(s) PROVE PlaceOK(s)'
    BY <2>5, SMTT(30) DEF PlaceInv, PlaceOK, CommitReplay, Goto, Fingerprint, tables
  <2>. QED  BY <2>1, <2>2, <2>3, <2>4, <2>5
<1>4. StagedIdsInv'
  BY <1>1 DEF StagedIdsInv, Begin, KeyUnused, FindReplay, Answer, CommitReplay, Goto,
              Idle, tables
<1>. QED  BY <1>1, <1>2, <1>3, <1>4, TablesKept DEF PlaceInv

\* What it is to record an operation: one row under an unused key, the journal
\* of an operation the payment's status allows and its journals lack, and after
\* that the tables agree as before.
LEMMA OperationRecorded ==
  ASSUME TypeOK, LedgerAgreesWithStatus, RecordsAgree, IdentifiersUnique,
         NEW w \in Rows, NEW k \in Keys, NEW p \in Payments, NEW op \in Operations,
         p = w.fingerprint.payment, op = w.fingerprint.operation,
         w.fingerprint.source # w.fingerprint.destination,
         w.from = From[op], w.to = To[op], status[p] = w.from, operations[k] = None,
         \A j \in Keys : operations[j] # None => operations[j].id # w.id,
         status' = [status EXCEPT ![p] = w.to],
         operations' = [operations EXCEPT ![k] = w],
         journals' = journals \union {JournalOf(w)},
         entries' = entries \union EntriesOf(w),
         events' = events \union {EventOf(w)}
  PROVE  /\ Stored' = Stored \union {w} /\ w \notin Stored
         /\ op \notin Posted(p)
         /\ Posted(p)' = Posted(p) \union {op}
         /\ \A q \in Payments : q # p => Posted(q)' = Posted(q)
         /\ LedgerAgreesWithStatus' /\ RecordsAgree' /\ IdentifiersUnique'
<1>. USE DEF TypeOK
<1>1. Stored' = Stored \union {w} /\ w \notin Stored
  BY NoneAssumption DEF Stored
<1>2. op \notin Posted(p)
  BY JournalsGrow DEF LedgerAgreesWithStatus
<1>3. JournalOf(w).payment = p /\ JournalOf(w).operation = op
  BY DEF JournalOf
<1>4. /\ Posted(p)' = Posted(p) \union {op}
      /\ \A q \in Payments : q # p => Posted(q)' = Posted(q)
  <2>1. \A q \in Payments : \A o :
          o \in Posted(q)' <=> o \in Posted(q) \/ (q = p /\ o = op)
    BY <1>3, SMT DEF Posted
  <2>2. \A o : o \in Posted(p)' <=> o \in Posted(p) \union {op}
    BY <2>1
  <2>3. ASSUME NEW q \in Payments, q # p PROVE Posted(q)' = Posted(q)
    <3>1. \A o : o \in Posted(q)' <=> o \in Posted(q)
      BY <2>1, <2>3
    <3>. QED  BY <3>1, Zenon
  <2>. QED  BY <2>2, <2>3, Zenon
<1>5. LedgerAgreesWithStatus'
  <2>1. ASSUME NEW q \in Payments PROVE Posted(q)' = JournalsFor(status'[q])
    <3>1. CASE q = p
      <4>1. status'[q] = To[op] /\ status[q] = From[op]
        BY <3>1
      <4>2. Posted(q) = JournalsFor(From[op]) /\ Posted(q)' = Posted(q) \union {op}
        BY <1>4, <3>1, <4>1 DEF LedgerAgreesWithStatus
      <4>. QED  BY <4>1, <4>2, JournalsGrow
    <3>2. CASE q # p
      BY <1>4, <3>2 DEF LedgerAgreesWithStatus
    <3>. QED  BY <3>1, <3>2
  <2>2. ASSUME NEW q \in Payments, NEW i \in journals', NEW j \in journals',
               i.payment = q, j.payment = q, i.operation = j.operation
        PROVE  i = j
    <3>1. \A n \in journals : n.payment = p => n.operation # op
      BY <1>2 DEF Posted
    <3>. QED  BY <1>3, <2>2, <3>1 DEF LedgerAgreesWithStatus
  <2>. QED  BY <2>1, <2>2 DEF LedgerAgreesWithStatus
<1>6. RecordsAgree'
  <2>1. /\ journals' = {JournalOf(v) : v \in Stored'}
        /\ events' = {EventOf(v) : v \in Stored'}
    BY <1>1 DEF RecordsAgree
  <2>2. entries' = UNION {EntriesOf(v) : v \in Stored'}
    <3>1. UNION {EntriesOf(v) : v \in Stored \union {w}}
            = (UNION {EntriesOf(v) : v \in Stored}) \union EntriesOf(w)
      OBVIOUS
    <3>. QED  BY <1>1, <3>1 DEF RecordsAgree
  <2>3. \E debit, credit \in EntriesOf(w) :
          /\ debit.side = "debit" /\ credit.side = "credit"
          /\ debit.account # credit.account
          /\ debit.amount = credit.amount
    <3>. DEFINE leg(a, side) == [journal |-> w.id, account |-> a, side |-> side,
                                 amount |-> Amount[w.fingerprint.payment]]
                debit == leg(w.fingerprint.source, "debit")
                credit == leg(w.fingerprint.destination, "credit")
    <3>1. debit \in EntriesOf(w) /\ credit \in EntriesOf(w)
      BY DEF EntriesOf
    <3>. QED  BY <3>1
  <2>. QED  BY <1>1, <2>1, <2>2, <2>3 DEF RecordsAgree
<1>7. IdentifiersUnique'
  BY DEF IdentifiersUnique
<1>. QED  BY <1>1, <1>2, <1>4, <1>5, <1>6, <1>7

\* What a commit records.
LEMMA CommitFacts ==
  ASSUME IInv, NEW s \in Sessions, Commit(s)
  PROVE  LET w == row[s]
             k == request[s].key
             p == request[s].payment
             op == request[s].operation
         IN  /\ w \in Rows /\ k \in Keys /\ p \in Payments /\ op \in Operations
             /\ w.fingerprint = Fingerprint(request[s])
             /\ w.fingerprint.payment = p /\ w.fingerprint.operation = op
             /\ w.from = From[op] /\ w.to = To[op] /\ status[p] = From[op]
             /\ operations[k] = None
             /\ op \notin Posted(p)
             /\ Posted(p)' = Posted(p) \union {op}
             /\ \A q \in Payments : q # p => Posted(q)' = Posted(q)
             /\ LedgerAgreesWithStatus' /\ RecordsAgree' /\ IdentifiersUnique'
<1>. PICK w : w = row[s]
  OBVIOUS
<1>. PICK k, p, op :
       k = request[s].key /\ p = request[s].payment /\ op = request[s].operation
  OBVIOUS
<1>. USE DEF IInv, TypeInv
<1>1. w \in Rows /\ request[s] \in RequestType
  BY DEF SessionOK, Commit
<1>2. k \in Keys /\ p \in Payments /\ op \in Operations
  BY <1>1 DEF RequestType
<1>3. /\ w.fingerprint = Fingerprint(request[s])
      /\ w.from = From[op] /\ w.to = To[op] /\ status[p] = From[op]
      /\ operations[k] = None /\ request[s].source # request[s].destination
  BY DEF PlaceInv, PlaceOK, Commit
<1>4. /\ w.fingerprint.payment = p /\ w.fingerprint.operation = op
      /\ w.fingerprint.source # w.fingerprint.destination
  BY <1>3 DEF Fingerprint
<1>5. \A j \in Keys : operations[j] # None => operations[j].id # w.id
  BY DEF StagedIdsInv, Commit
<1>6. /\ status' = [status EXCEPT ![p] = w.to]
      /\ operations' = [operations EXCEPT ![k] = w]
      /\ journals' = journals \union {JournalOf(w)}
      /\ entries' = entries \union EntriesOf(w)
      /\ events' = events \union {EventOf(w)}
      /\ request' = request
  BY DEF Commit
<1>7. /\ op \notin Posted(p)
      /\ Posted(p)' = Posted(p) \union {op}
      /\ \A q \in Payments : q # p => Posted(q)' = Posted(q)
      /\ LedgerAgreesWithStatus' /\ RecordsAgree' /\ IdentifiersUnique'
  BY <1>1, <1>2, <1>3, <1>4, <1>5, <1>6, OperationRecorded, ZenonT(30)
<1>8. Posted(request[s].payment)' = Posted(p)'
  BY <1>6
<1>. QED  BY <1>1, <1>2, <1>3, <1>4, <1>7, <1>8

LEMMA CommitInv ==
  ASSUME IInv, NEW s \in Sessions, Commit(s), TypeInv'
  PROVE  IInv'
<1>. DEFINE w == row[s]
            k == request[s].key
            p == request[s].payment
            op == request[s].operation
<1>. USE DEF IInv, TypeInv, TypeOK
<1>1. /\ w \in Rows /\ k \in Keys /\ p \in Payments /\ op \in Operations
      /\ w.fingerprint = Fingerprint(request[s])
      /\ w.from = From[op] /\ w.to = To[op] /\ status[p] = From[op]
      /\ operations[k] = None
  BY CommitFacts
<1>2. /\ status' = [status EXCEPT ![p] = w.to]
      /\ operations' = [operations EXCEPT ![k] = w]
      /\ pc' = [pc EXCEPT ![s] = "answer"]
      /\ pc[s] = "staged"
      /\ request' = request /\ seen' = seen /\ row' = row
  BY DEF Commit, Goto
<1>3. LedgerAgreesWithStatus' /\ RecordsAgree' /\ IdentifiersUnique'
  BY CommitFacts
<1>4. StagedIdsInv'
  BY <1>1, <1>2 DEF StagedIdsInv
<1>5. ASSUME NEW t \in Sessions PROVE PlaceOK(t)'
  <2>1. CASE t = s
    <3>1. /\ pc'[s] = "answer" /\ request'[s] = request[s] /\ row'[s] = w
          /\ operations'[k] = w
      BY <1>1, <1>2
    <3>2. request[s].source # request[s].destination
      BY <1>2 DEF PlaceInv, PlaceOK
    <3>3. Fingerprint(request[s])' = Fingerprint(request[s])
      BY <1>2 DEF Fingerprint
    <3>. QED  BY <1>1, <2>1, <3>1, <3>2, <3>3 DEF PlaceOK
  <2>2. CASE t # s /\ pc[t] = "idle"
    BY <1>2, <2>2 DEF PlaceOK
  <2>3. CASE t # s /\ pc[t] # "idle"
    <3>1. request[t] \in RequestType /\ LockOf(t) \in LockIds
      BY <2>3, ConstantsAssumption DEF SessionOK, RequestType, LockOf
    <3>2. pc[t] \in {"waitRow", "locked", "staged"} => request[t].key # k
      BY <1>2, <2>3 DEF PlaceInv, PlaceOK, LockOf
    <3>3. pc[t] \in {"locked", "staged"} => request[t].payment # p
      BY <1>2, <2>3 DEF PlaceInv, PlaceOK
    <3>4. pc[t] \in {"replay", "answer"} => request[t].key # k
      BY <1>1, <2>3, NoneAssumption DEF PlaceInv, PlaceOK, SessionOK
    <3>5. /\ keyLock[LockOf(t)] = t => keyLock'[LockOf(t)] = t
          /\ rowLock[request[t].payment] = t => rowLock'[request[t].payment] = t
      BY <2>3, <3>1 DEF Commit, ReleaseLocks, RequestType
    <3>. QED
      BY <1>2, <2>3, <3>1, <3>2, <3>3, <3>4, <3>5
         DEF PlaceInv, PlaceOK, LockOf, Fingerprint, RequestType
  <2>. QED  BY <2>1, <2>2, <2>3
<1>. QED  BY <1>3, <1>4, <1>5 DEF PlaceInv

\* A payment that is created or authorized has no journal, before or after,
\* and no session is past its row lock.
LEMMA OutsideInv ==
  ASSUME IInv, NEW p \in Payments, CreatePayment(p) \/ Authorize(p), TypeInv'
  PROVE  IInv'
<1>. USE DEF IInv, TypeInv, TypeOK
<1>1. /\ UNCHANGED <<operations, journals, entries, events, keyLock, rowLock,
                     pc, request, seen, row>>
      /\ \A q \in Payments : q # p => status'[q] = status[q]
  BY DEF CreatePayment, Authorize
<1>2. LedgerAgreesWithStatus'
  <2>1. JournalsFor(None) = {} /\ JournalsFor("pending") = {}
        /\ JournalsFor("authorized") = {}
    BY NoneAssumption DEF JournalsFor, To
  <2>2. \A q \in Payments : Posted(q)' = Posted(q)
    BY <1>1 DEF Posted
  <2>3. JournalsFor(status'[p]) = JournalsFor(status[p])
    BY <2>1 DEF CreatePayment, Authorize
  <2>. QED  BY <1>1, <2>2, <2>3 DEF LedgerAgreesWithStatus
<1>3. RecordsAgree' /\ IdentifiersUnique'
  <2>1. Stored' = Stored
    BY <1>1 DEF Stored
  <2>2. RecordsAgree'
    BY <1>1, <2>1 DEF RecordsAgree
  <2>. QED  BY <1>1, <2>2 DEF IdentifiersUnique
<1>4. StagedIdsInv'
  BY <1>1 DEF StagedIdsInv
<1>5. ASSUME NEW t \in Sessions PROVE PlaceOK(t)'
  <2>1. pc[t] \in {"locked", "staged"} => status'[request[t].payment] = status[request[t].payment]
    <3>1. ASSUME pc[t] \in {"locked", "staged"} PROVE request[t].payment # p
      BY <3>1, NoneAssumption DEF PlaceInv, PlaceOK, SessionOK, CreatePayment, Authorize
    <3>2. ASSUME pc[t] \in {"locked", "staged"} PROVE request[t].payment \in Payments
      BY <3>2 DEF SessionOK, RequestType
    <3>. QED  BY <1>1, <3>1, <3>2
  <2>. QED  BY <1>1, <2>1 DEF PlaceInv, PlaceOK, LockOf, Fingerprint
<1>. QED  BY <1>2, <1>3, <1>4, <1>5 DEF PlaceInv

\* Nothing moves: the invariant depends on the variables only.
LEMMA StutterInv == IInv /\ UNCHANGED vars => IInv'
<1>. SUFFICES ASSUME IInv, UNCHANGED vars PROVE IInv'
  OBVIOUS
<1>1. TypeInv'
  BY TypeStep DEF IInv
<1>2. PlaceInv' /\ StagedIdsInv'
  BY DEF IInv, vars, tables, PlaceInv, PlaceOK, StagedIdsInv, LockOf, Fingerprint
<1>3. UNCHANGED tables
  BY DEF vars
<1>. QED  BY <1>1, <1>2, <1>3, TablesKept DEF IInv

LEMMA InvStep == IInv /\ [Next]_vars => IInv'
<1>. SUFFICES ASSUME IInv, [Next]_vars PROVE IInv'
  OBVIOUS
<1>1. TypeInv'
  BY TypeStep DEF IInv
<1>2. ASSUME NEW s \in Sessions, LockKey(s) PROVE IInv'
  BY <1>1, <1>2, LockKeyInv
<1>3. ASSUME NEW s \in Sessions, LockRow(s) PROVE IInv'
  BY <1>1, <1>3, LockRowInv
<1>4. ASSUME NEW s \in Sessions, NEW id \in Ids, Stage(s, id) PROVE IInv'
  BY <1>1, <1>4, StageInv
<1>5. ASSUME NEW s \in Sessions, Commit(s) PROVE IInv'
  BY <1>1, <1>5, CommitInv
<1>6. ASSUME NEW s \in Sessions,
             \/ \E r \in Requests : Begin(s, r)
             \/ KeyUnused(s) \/ FindReplay(s) \/ Answer(s) \/ CommitReplay(s)
      PROVE  IInv'
  BY <1>1, <1>6, QuietInv
<1>7. ASSUME NEW s \in Sessions,
             KeyConflict(s) \/ PaymentMissing(s) \/ Refuse(s) \/ Crash(s)
      PROVE  IInv'
  BY <1>7, RollbackInv DEF KeyConflict, PaymentMissing, Refuse, Crash
<1>8. ASSUME NEW p \in Payments, CreatePayment(p) \/ Authorize(p) PROVE IInv'
  BY <1>1, <1>8, OutsideInv
<1>9. CASE UNCHANGED vars
  BY <1>9, StutterInv
<1>. QED
  BY <1>2, <1>3, <1>4, <1>5, <1>6, <1>7, <1>8, <1>9 DEF Next, Proceed

-----------------------------------------------------------------------------
(* The theorems *)

LEMMA Invariance == Spec => []IInv
BY InvInit, InvStep, PTL DEF Spec

\* However many sessions race on a payment, its journals are those of the
\* transitions that led to its status, each posted once.
THEOREM LedgerFollowsStatus == Spec => []LedgerAgreesWithStatus
BY Invariance, PTL DEF IInv

\* The operation, journal, entry and event tables agree row by row, whatever
\* crashes and conflicts the calls meet.
THEOREM RecordsStayInAgreement == Spec => []RecordsAgree
BY Invariance, PTL DEF IInv

\* No identifier names two operations.
THEOREM IdentifiersStayUnique == Spec => []IdentifiersUnique
BY Invariance, PTL DEF IInv

\* An answer, first or replayed, is a committed row made from the caller's own
\* arguments.
THEOREM AnswersStayDurable == Spec => []AnswersAreDurable
<1>1. IInv => AnswersAreDurable
  BY DEF IInv, PlaceInv, PlaceOK, AnswersAreDurable
<1>. QED  BY <1>1, Invariance, PTL

\* The advisory lock serialises the calls that share a key, so that the unique
\* constraint has nothing left to stop, even when hashtext collides.
THEOREM AdvisoryLockSuffices == Spec => []UniqueConstraintNeverFires
<1>1. IInv => UniqueConstraintNeverFires
  BY DEF IInv, PlaceInv, PlaceOK, UniqueConstraintNeverFires
<1>. QED  BY <1>1, Invariance, PTL

\* Only Commit writes the operation table.
LEMMA OperationsStep ==
  IInv /\ [Next]_vars =>
    [\A k \in Keys : operations[k] # None => operations'[k] = operations[k]]_vars
<1>. SUFFICES ASSUME IInv, Next
              PROVE  \A k \in Keys : operations[k] # None => operations'[k] = operations[k]
  OBVIOUS
<1>1. ASSUME NEW s \in Sessions, Commit(s)
      PROVE  \A k \in Keys : operations[k] # None => operations'[k] = operations[k]
  BY <1>1 DEF IInv, TypeInv, TypeOK, Commit
<1>2. CASE operations' = operations
  BY <1>2
<1>. QED
  BY <1>1, <1>2
     DEF Next, Proceed, Begin, LockKey, LockRow, KeyUnused, FindReplay, KeyConflict,
         PaymentMissing, Refuse, Stage, CommitReplay, Answer, Crash, CreatePayment,
         Authorize, Rollback, tables

\* The row of an idempotency key never changes once it is committed.
THEOREM OperationsNeverChange == Spec => OperationsImmutable
BY Invariance, OperationsStep, PTL DEF Spec, OperationsImmutable

-----------------------------------------------------------------------------
(* PaymentOperations implements PaymentLifecycle *)

LEMMA RefinesInit == Init => Lifecycle!Init
<1>. SUFFICES ASSUME Init PROVE Lifecycle!Init
  OBVIOUS
<1>1. \A p \in Payments : Posted(p) = {}
  BY DEF Init, Posted
<1>2. Moved = [p \in Payments |-> {}]
  BY <1>1 DEF Moved
<1>3. Spent = [k \in Keys |-> None]
  BY DEF Init, Spent
<1>. QED  BY <1>2, <1>3 DEF Init, Lifecycle!Init

\* A commit is the one step that the outside sees of a call.
LEMMA CommitRefines ==
  ASSUME IInv, NEW s \in Sessions, Commit(s)
  PROVE  Lifecycle!Apply(request[s].key, Fingerprint(request[s]))
<1>. DEFINE w == row[s]
            k == request[s].key
            p == request[s].payment
            op == request[s].operation
<1>1. /\ w \in Rows /\ k \in Keys /\ p \in Payments /\ op \in Operations
      /\ w.fingerprint = Fingerprint(request[s])
      /\ w.from = From[op] /\ w.to = To[op] /\ status[p] = From[op]
      /\ operations[k] = None
      /\ op \notin Posted(p)
      /\ Posted(p)' = Posted(p) \union {op}
      /\ \A q \in Payments : q # p => Posted(q)' = Posted(q)
  BY CommitFacts
<1>2. /\ status' = [status EXCEPT ![p] = w.to]
      /\ operations' = [operations EXCEPT ![k] = w]
      /\ request' = request
  BY DEF Commit
<1>3. Fingerprint(request[s]).payment = p /\ Fingerprint(request[s]).operation = op
  BY DEF Fingerprint
<1>4. Moved' = [Moved EXCEPT ![p] = @ \union {op}]
  <2>1. \A q \in Payments :
          Posted(q)' = IF q = p THEN Posted(p) \union {op} ELSE Posted(q)
    <3>1. p' = p
      BY <1>2
    <3>. QED  BY <1>1, <3>1
  <2>. QED  BY <1>1, <2>1 DEF Moved
<1>5. Spent' = [Spent EXCEPT ![k] = Fingerprint(request[s])]
  BY <1>1, <1>2, NoneAssumption DEF Spent, IInv, TypeInv, TypeOK
<1>6. Spent[k] = None /\ Moved[p] = Posted(p)
  BY <1>1 DEF Spent, Moved
<1>7. Lifecycle!From = From /\ Lifecycle!To = To
  BY DEF Lifecycle!From, Lifecycle!To, From, To
<1>. QED
  BY <1>1, <1>2, <1>3, <1>4, <1>5, <1>6, <1>7 DEF Lifecycle!Apply

LEMMA RefinesStep == IInv /\ [Next]_vars => [Lifecycle!Next]_Lifecycle!vars
<1>. SUFFICES ASSUME IInv, [Next]_vars PROVE [Lifecycle!Next]_Lifecycle!vars
  OBVIOUS
<1>1. ASSUME operations' = operations, journals' = journals
      PROVE  Moved' = Moved /\ Spent' = Spent
  <2>1. \A p \in Payments : Posted(p)' = Posted(p)
    BY <1>1 DEF Posted
  <2>. QED  BY <1>1, <2>1 DEF Moved, Spent
<1>2. CASE UNCHANGED <<status, operations, journals>>
  BY <1>1, <1>2 DEF Lifecycle!vars
<1>3. ASSUME NEW s \in Sessions, Commit(s) PROVE Lifecycle!Next
  <2>1. request[s].key \in Keys /\ Fingerprint(request[s]) \in Fingerprints
    BY <1>3, RecordTypes DEF IInv, TypeInv, SessionOK, RequestType, Commit
  <2>. QED  BY <1>3, <2>1, CommitRefines DEF Lifecycle!Next
<1>4. ASSUME NEW p \in Payments, CreatePayment(p) PROVE Lifecycle!Next
  BY <1>1, <1>4 DEF CreatePayment, Lifecycle!Create, Lifecycle!Next
<1>5. ASSUME NEW p \in Payments, Authorize(p) PROVE Lifecycle!Next
  BY <1>1, <1>5 DEF Authorize, Lifecycle!Authorize, Lifecycle!Next
<1>. QED
  BY <1>2, <1>3, <1>4, <1>5
     DEF Next, Proceed, Begin, LockKey, LockRow, KeyUnused, FindReplay, KeyConflict,
         PaymentMissing, Refuse, Stage, CommitReplay, Answer, Crash, Rollback,
         tables, vars

\* Concurrent, crashing sessions behave as the abstract payment life: each key
\* is spent once, each transition is taken once, with its journal.
THEOREM Refinement == Spec => ImplementsLifecycle
BY Invariance, RefinesInit, RefinesStep, PTL DEF Spec, ImplementsLifecycle, Lifecycle!Spec

HIDE DEF Operations, Statuses, Places

-----------------------------------------------------------------------------
(* What the six statements find in tables that agree *)

Books == TypeOK /\ LedgerAgreesWithStatus /\ RecordsAgree /\ IdentifiersUnique

\* A stored operation is made of its payment's transition, and its journal is
\* one of those its payment must have.
LEMMA StoredRow ==
  ASSUME Books, NEW w \in Stored
  PROVE  /\ w \in Rows /\ w.fingerprint.payment \in Payments
         /\ w.fingerprint.operation \in Operations
         /\ w.from = From[w.fingerprint.operation] /\ w.to = To[w.fingerprint.operation]
         /\ w.fingerprint.operation \in JournalsFor(status[w.fingerprint.payment])
<1>1. w \in Rows
  BY DEF Books, TypeOK, Stored
<1>2. w.fingerprint.payment \in Payments /\ w.fingerprint.operation \in Operations
  BY <1>1 DEF Rows, Fingerprints
<1>3. JournalOf(w) \in journals
  BY DEF Books, RecordsAgree
<1>4. w.fingerprint.operation \in Posted(w.fingerprint.payment)
  BY <1>3 DEF Posted, JournalOf
<1>. QED  BY <1>1, <1>2, <1>4 DEF Books, RecordsAgree, LedgerAgreesWithStatus

\* The first four statements find no orphan.
LEMMA NoOrphans ==
  ASSUME Books
  PROVE  /\ OperationsWithoutPayment = {} /\ OperationsWithoutJournal = {}
         /\ OperationsWithoutOutbox = {} /\ OutboxWithoutOperation = {}
<1>1. ASSUME NEW w \in Stored PROVE status[w.fingerprint.payment] # None
  <2>1. w.fingerprint.operation \in JournalsFor(status[w.fingerprint.payment])
        /\ w.fingerprint.operation \in Operations
    BY StoredRow
  <2>2. To[w.fingerprint.operation] # None /\ None # "refunded"
    BY <2>1, TransitionTypes, NoneAssumption DEF Statuses
  <2>. QED  BY <2>1, <2>2 DEF JournalsFor
<1>2. ASSUME NEW w \in Stored PROVE \E j \in journals : j.id = w.id
  <2>1. JournalOf(w) \in journals
    BY DEF Books, RecordsAgree
  <2>. QED  BY <2>1 DEF JournalOf
<1>3. ASSUME NEW w \in Stored
      PROVE  \E e \in events : e.payment = w.fingerprint.payment /\ e.id = w.id
  <2>1. EventOf(w) \in events
    BY DEF Books, RecordsAgree
  <2>. QED  BY <2>1 DEF EventOf
<1>4. ASSUME NEW e \in events PROVE \E w \in Stored : w.id = e.id
  BY DEF Books, RecordsAgree, EventOf
<1>5. OperationsWithoutPayment = {}
  BY <1>1 DEF OperationsWithoutPayment
<1>6. OperationsWithoutJournal = {}
  BY <1>2 DEF OperationsWithoutJournal
<1>7. OperationsWithoutOutbox = {}
  BY <1>3 DEF OperationsWithoutOutbox
<1>8. OutboxWithoutOperation = {}
  BY <1>4 DEF OutboxWithoutOperation
<1>. QED  BY <1>5, <1>6, <1>7, <1>8

\* The fifth names captures whose payment was refunded since.
LEMMA MismatchIsSuperseded ==
  ASSUME Books, NEW d \in StatusMismatches
  PROVE  /\ d.kind = "payment_status_mismatch"
         /\ \E w \in Stored : w.id = d.entity /\ Superseded(w)
<1>1. PICK w \in Stored :
        /\ status[w.fingerprint.payment] \notin {None, w.to}
        /\ d = Discrepancy("payment_status_mismatch", w.id)
  BY DEF StatusMismatches
<1>2. PICK p \in Payments : p = w.fingerprint.payment
  BY StoredRow
<1>3. /\ w.to = To[w.fingerprint.operation] /\ w.fingerprint.operation \in Operations
      /\ w.fingerprint.operation \in JournalsFor(status[p])
  BY <1>2, StoredRow
<1>4. w.to = "captured" /\ status[p] = "refunded"
  <2>1. w.fingerprint.operation = "capture" /\ status[p] = "refunded"
    BY <1>1, <1>2, <1>3 DEF JournalsFor
  <2>. QED  BY <1>3, <2>1 DEF To
<1>5. "refund" \in Posted(p)
  <2>1. "refund" \in JournalsFor("refunded")
    BY DEF JournalsFor, To, Operations
  <2>. QED  BY <1>4, <2>1 DEF Books, LedgerAgreesWithStatus
<1>6. PICK j \in journals : j.payment = p /\ j.operation = "refund"
  BY <1>5 DEF Posted
<1>7. PICK v \in Stored : j = JournalOf(v)
  BY DEF Books, RecordsAgree
<1>8. v.fingerprint.payment = p /\ v.fingerprint.operation = "refund"
  BY <1>6, <1>7 DEF JournalOf
<1>9. v.from = "captured"
  BY <1>8, StoredRow DEF From
<1>10. Superseded(w)
  BY <1>2, <1>4, <1>8, <1>9 DEF Superseded
<1>. QED  BY <1>1, <1>10 DEF Discrepancy

\* The sum of the amounts of a set of entries, as the folds compute it.
AmountSum(S) ==
  LET iter == CHOOSE f : f = [s \in SUBSET S |->
                IF s = {} THEN 0
                ELSE LET x == CHOOSE y \in s : TRUE IN x.amount + f[s \ {x}]]
  IN  iter[S]

LEMMA TotalIsSum ==
  ASSUME NEW j, NEW side
  PROVE  /\ Total(j, side) = AmountSum({e \in EntriesIn(j) : e.side = side})
         /\ Total(j, side)' = AmountSum({e \in EntriesIn(j)' : e.side = side})
<1>1. Total(j, side) = AmountSum({e \in EntriesIn(j) : e.side = side})
  BY Zenon DEF Total, AmountSum, MapThenSumSet, MapThenFoldSet
<1>2. Total(j, side)' = AmountSum({e \in EntriesIn(j)' : e.side = side})
  BY Zenon DEF Total, AmountSum, MapThenSumSet, MapThenFoldSet
<1>. QED  BY <1>1, <1>2

\* The sum over a single entry is its amount.
LEMMA SumOfOne ==
  ASSUME NEW S, NEW e, S = {e}, e.amount \in Nat
  PROVE  AmountSum(S) = e.amount
<1>. DEFINE Body(f) == [s \in SUBSET S |->
                          IF s = {} THEN 0
                          ELSE LET x == CHOOSE y \in s : TRUE IN x.amount + f[s \ {x}]]
            iter == CHOOSE f : f = Body(f)
            one == [s \in SUBSET S |-> IF s = {} THEN 0 ELSE e.amount]
<1>1. AmountSum(S) = iter[S]
  BY Zenon DEF AmountSum
<1>2. one = Body(one)
  <2>. SUFFICES ASSUME NEW s \in SUBSET S PROVE one[s] = Body(one)[s]
    OBVIOUS
  <2>1. CASE s = {}
    BY <2>1
  <2>2. CASE s # {}
    <3>1. s = {e} /\ (CHOOSE y \in s : TRUE) = e /\ s \ {e} = {}
      BY <2>2
    <3>2. Body(one)[s] = e.amount + one[s \ {e}]
      BY <2>2, <3>1
    <3>3. one[s \ {e}] = 0 /\ one[s] = e.amount
      BY <2>2, <3>1
    <3>. QED  BY <3>2, <3>3
  <2>. QED  BY <2>1, <2>2
<1>3. iter = Body(iter)
  BY <1>2, Zenon
<1>. HIDE DEF iter, one
<1>4. iter[{}] = 0
  BY <1>3
<1>5. (CHOOSE y \in S : TRUE) = e /\ S \ {e} = {} /\ S # {}
  OBVIOUS
<1>6. iter[S] = e.amount + iter[S \ {e}]
  BY <1>3, <1>5
<1>. QED  BY <1>1, <1>4, <1>5, <1>6

\* The sixth finds two entries in every journal, a debit and a credit of one
\* amount.
LEMMA JournalsAreValid == ASSUME Books PROVE InvalidJournals = {}
<1>. SUFFICES ASSUME NEW j \in journals
              PROVE  ~(Cardinality(EntriesIn(j)) < 2) /\ Total(j, "debit") = Total(j, "credit")
  BY Zenon DEF InvalidJournals
<1>1. PICK w \in Stored : j = JournalOf(w)
  BY DEF Books, RecordsAgree
<1>2. w \in Rows
  BY StoredRow
<1>3. EntriesIn(j) = EntriesOf(w)
  <2>1. \A v \in Stored : v.id = w.id => v = w
    BY DEF Books, IdentifiersUnique, Stored
  <2>2. \A v \in Stored : \A e \in EntriesOf(v) : e.journal = v.id
    BY DEF EntriesOf
  <2>3. entries = UNION {EntriesOf(v) : v \in Stored} /\ j.id = w.id
    BY <1>1 DEF Books, RecordsAgree, JournalOf
  <2>. QED  BY <2>1, <2>2, <2>3 DEF EntriesIn
<1>. DEFINE leg(a, side) == [journal |-> w.id, account |-> a, side |-> side,
                             amount |-> Amount[w.fingerprint.payment]]
            debit == leg(w.fingerprint.source, "debit")
            credit == leg(w.fingerprint.destination, "credit")
<1>4. EntriesOf(w) = {debit} \union {credit} /\ debit # credit
  BY DEF EntriesOf
<1>5. Cardinality(EntriesOf(w)) = 2
  <2>1. IsFiniteSet({debit}) /\ Cardinality({debit}) = 1
    BY FS_Singleton
  <2>. HIDE DEF debit, credit
  <2>2. Cardinality({debit} \union {credit}) = Cardinality({debit}) + 1
    BY <1>4, <2>1, FS_AddElement
  <2>. QED  BY <1>4, <2>1, <2>2
<1>6. debit.amount = credit.amount /\ debit.amount \in Nat /\ credit.amount \in Nat
  BY <1>2, ConstantsAssumption DEF Rows, Fingerprints
<1>7. debit.side = "debit" /\ credit.side = "credit"
  OBVIOUS
<1>. HIDE DEF debit, credit
<1>8. /\ {e \in EntriesIn(j) : e.side = "debit"} = {debit}
      /\ {e \in EntriesIn(j) : e.side = "credit"} = {credit}
  BY <1>3, <1>4, <1>7
<1>9. Total(j, "debit") = debit.amount
  <2>1. AmountSum({e \in EntriesIn(j) : e.side = "debit"}) = debit.amount
    BY <1>6, <1>8, SumOfOne
  <2>2. Total(j, "debit") = AmountSum({e \in EntriesIn(j) : e.side = "debit"})
    BY TotalIsSum, Zenon
  <2>. QED  BY <2>1, <2>2
<1>10. Total(j, "credit") = credit.amount
  <2>1. AmountSum({e \in EntriesIn(j) : e.side = "credit"}) = credit.amount
    BY <1>6, <1>8, SumOfOne
  <2>2. Total(j, "credit") = AmountSum({e \in EntriesIn(j) : e.side = "credit"})
    BY TotalIsSum, Zenon
  <2>. QED  BY <2>1, <2>2
<1>. QED  BY <1>3, <1>5, <1>6, <1>9, <1>10

-----------------------------------------------------------------------------
(* Reconciliation: the inductive invariant *)

\* Until somebody edits them by hand the tables are as execute leaves them.
TablesOK == TypeInv /\ tampers \in Nat /\ (tampers = 0 => IInv)

ReconInv == TablesOK /\ statement \in 0..7 /\ OnlySupersededReported

-----------------------------------------------------------------------------
(* The steps of Reconciliation *)

LEMMA ReconInitInv == ReconInit => ReconInv
<1>. SUFFICES ASSUME ReconInit PROVE ReconInv
  OBVIOUS
<1>1. IInv
  BY InvInit DEF ReconInit
<1>. QED
  BY <1>1 DEF ReconInit, ReconInv, TablesOK, IInv, OnlySupersededReported

\* A statement adds to the report what it finds.
LEMMA RunStatementKeeps == ASSUME ReconInv, RunStatement PROVE ReconInv'
<1>. USE DEF ReconInv
<1>1. /\ statement \in 1..6 /\ statement' = statement + 1
      /\ report' = report \union Rowset(statement)
      /\ UNCHANGED vars /\ tampers' = tampers /\ standing' = standing
  BY DEF RunStatement
<1>2. TablesOK'
  BY <1>1, TypeStep, StutterInv DEF TablesOK
<1>3. Stored' = Stored
  BY <1>1 DEF vars, tables, Stored
<1>4. OnlySupersededReported'
  <2>. SUFFICES ASSUME tampers = 0, NEW d \in report'
                PROVE  /\ d.kind = "payment_status_mismatch"
                       /\ \E w \in Stored : w.id = d.entity /\ Superseded(w)
    BY <1>1, <1>3 DEF OnlySupersededReported, Superseded
  <2>1. CASE d \in report
    BY <2>1 DEF OnlySupersededReported
  <2>2. CASE d \in Rowset(statement)
    <3>1. Books
      BY DEF TablesOK, IInv, TypeInv, Books
    <3>2. statement = 5
      BY <1>1, <2>2, <3>1, NoOrphans, JournalsAreValid DEF Rowset
    <3>3. d \in StatusMismatches
      BY <2>2, <3>2 DEF Rowset
    <3>. QED  BY <3>1, <3>3, MismatchIsSuperseded
  <2>. QED  BY <1>1, <2>1, <2>2
<1>. QED  BY <1>1, <1>2, <1>4

LEMMA InspectKeeps ==
  ASSUME ReconInv, StartInspect \/ RunStatement \/ ReturnReport PROVE ReconInv'
<1>. USE DEF ReconInv
<1>1. ASSUME UNCHANGED <<vars, tampers>> PROVE TablesOK'
  BY <1>1, TypeStep, StutterInv DEF TablesOK
<1>2. CASE StartInspect
  BY <1>1, <1>2 DEF StartInspect, OnlySupersededReported
<1>3. CASE ReturnReport
  BY <1>1, <1>3 DEF ReturnReport, OnlySupersededReported
<1>. QED  BY <1>2, <1>3, RunStatementKeeps

\* Operations add rows, and a superseded operation stays superseded.
LEMMA OperationKeeps ==
  ASSUME ReconInv, TypeInv', tampers = 0 => IInv',
         \A k \in Keys : operations[k] # None => operations'[k] = operations[k],
         UNCHANGED <<statement, report, tampers>>
  PROVE  ReconInv'
<1>. USE DEF ReconInv
<1>1. TablesOK'
  BY DEF TablesOK
<1>2. Stored \subseteq Stored'
  BY DEF Stored
<1>3. OnlySupersededReported'
  BY <1>2 DEF OnlySupersededReported, Superseded
<1>. QED  BY <1>1, <1>3

\* An edit by hand keeps the types and nothing else.
LEMMA TamperTypes ==
  ASSUME TypeInv, Tamper
  PROVE  TypeInv'
<1>. USE DEF TypeInv
<1>1. UNCHANGED <<journals, keyLock, rowLock, pc, request, seen, row>>
  BY DEF Tamper
<1>2. SessionOK'
  BY <1>1 DEF SessionOK
<1>3. CASE \E e \in events : events' = events \ {e} /\ UNCHANGED <<status, operations, entries>>
  BY <1>1, <1>2, <1>3 DEF TypeOK
<1>4. CASE \E k \in Keys : operations' = [operations EXCEPT ![k] = None]
                             /\ UNCHANGED <<status, entries, events>>
  BY <1>1, <1>2, <1>4 DEF TypeOK
<1>5. CASE \E p \in Payments, st \in {"authorized", "captured"} :
             status' = [status EXCEPT ![p] = st] /\ UNCHANGED <<operations, entries, events>>
  <2>1. status' \in [Payments -> Statuses \union {None}]
    BY <1>5 DEF TypeOK, Statuses
  <2>. QED  BY <1>1, <1>2, <1>5, <2>1 DEF TypeOK
<1>6. CASE \E e \in entries : entries' = entries \union {[e EXCEPT !.amount = @ + 1]}
                                /\ UNCHANGED <<status, operations, events>>
  BY <1>1, <1>2, <1>6 DEF TypeOK
<1>. QED  BY <1>3, <1>4, <1>5, <1>6 DEF Tamper, TypeOK

LEMMA TamperKeeps == ASSUME ReconInv, Tamper PROVE ReconInv'
<1>. USE DEF ReconInv
<1>1. tampers' = tampers + 1 /\ UNCHANGED <<statement, report>>
  BY DEF Tamper
<1>2. TablesOK' /\ tampers' # 0
  BY <1>1, TamperTypes DEF TablesOK
<1>. QED  BY <1>1, <1>2 DEF OnlySupersededReported

LEMMA OperateKeeps == ASSUME ReconInv, Operate PROVE ReconInv'
<1>1. Next /\ UNCHANGED <<statement, report, tampers>>
  BY DEF Operate
<1>2. TypeInv'
  BY <1>1, TypeStep DEF ReconInv, TablesOK
<1>3. tampers = 0 => IInv'
  BY <1>1, InvStep DEF ReconInv, TablesOK
<1>4. ASSUME tampers = 0
      PROVE  \A k \in Keys : operations[k] # None => operations'[k] = operations[k]
  <2>1. [\A k \in Keys : operations[k] # None => operations'[k] = operations[k]]_vars
    BY <1>1, <1>4, OperationsStep DEF ReconInv, TablesOK
  <2>. QED  BY <2>1 DEF vars, tables
<1>5. CASE tampers = 0
  BY <1>1, <1>2, <1>3, <1>4, <1>5, OperationKeeps
<1>6. CASE tampers # 0
  BY <1>1, <1>2, <1>6
     DEF ReconInv, TablesOK, OnlySupersededReported
<1>. QED  BY <1>5, <1>6

LEMMA ReconStep == ReconInv /\ [ReconNext]_allVars => ReconInv'
<1>. SUFFICES ASSUME ReconInv, [ReconNext]_allVars PROVE ReconInv'
  OBVIOUS
<1>1. CASE UNCHANGED allVars
  <2>1. UNCHANGED vars /\ UNCHANGED <<statement, report, tampers, standing>>
    BY <1>1 DEF allVars, reconVars
  <2>2. Stored' = Stored
    BY <2>1 DEF vars, tables, Stored
  <2>. QED
    BY <2>1, <2>2, TypeStep, StutterInv
       DEF ReconInv, TablesOK, OnlySupersededReported, Superseded
<1>. QED
  BY <1>1, InspectKeeps, OperateKeeps, TamperKeeps DEF ReconNext

\* Beside concurrent operations, whatever their sessions do, an inspection
\* reports superseded captures and nothing else, as long as nobody edits the
\* tables by hand.
THEOREM NoFalseAlarms == ReconSpec => []OnlySupersededReported
<1>1. ReconInv => OnlySupersededReported
  BY DEF ReconInv
<1>. QED  BY <1>1, ReconInitInv, ReconStep, PTL DEF ReconSpec

-----------------------------------------------------------------------------
(* Snapshot: the inductive invariant *)

AllIdle == \A s \in Sessions : pc[s] = "idle"

Existing == {p \in Payments : status[p] # None}
FiniteTables ==
  /\ IsFiniteSet(Existing) /\ IsFiniteSet(Stored) /\ IsFiniteSet(events)
  /\ IsFiniteSet(published) /\ IsFiniteSet(observed)

\* As many operations are stored as the payments have taken steps.
With(st) == {p \in Payments : status[p] = st}
CountsAgree ==
  Cardinality(Stored) = Cardinality(With("captured")) + Cardinality(With("reversed"))
                          + 2 * Cardinality(With("refunded"))

\* A request that timed out is recorded as timed out.
ObservationsOK ==
  \A o \in observed : o.outcome = "timeout" => o.disposition = "timed_out"

Measurements ==
  [by_status : [Statuses -> Nat], operations : Nat, unpublished : Nat, poison : Nat,
   observations : Nat, timeouts : Nat, late : Nat,
   by_disposition : [{"late", "timed_out"} -> Nat], routed : Nat]

ReaderOK ==
  /\ measured \in Measurements
  /\ section \in 0..7 /\ (statement # 0 => section = 7)

\* The steps taken by the payments that the first section counts
StepsCounted ==
  measured.by_status["captured"] + measured.by_status["reversed"]
    + 2 * measured.by_status["refunded"]

\* What was measured of payments, operations and events is covered by what the
\* tables hold since, and a refund that was counted is found as a mismatch.
BooksMeasured ==
  tampers = 0 =>
    /\ section > 1 =>
         /\ StepsCounted <= Cardinality(Stored)
         /\ measured.by_status["refunded"] > 0 => With("refunded") # {}
    /\ section > 2 =>
         /\ StepsCounted <= measured.operations
         /\ measured.operations <= Cardinality(Stored)
    /\ section > 3 /\ measured.unpublished = 0 =>
         measured.operations <= Cardinality(published)
    /\ statement > 5 /\ measured.by_status["refunded"] > 0 => report # {}

\* An event that has been poison all the time still is, and was counted.
StuckOK ==
  /\ section # 0 => stuck \subseteq {e.id : e \in Poison}
  /\ section > 3 /\ stuck # {} => measured.poison > 0

\* Observations are only added.
NetworkMeasured ==
  /\ section > 4 =>
       /\ measured.observations <= Cardinality(observed)
       /\ measured.timeouts <= Cardinality(WithDisposition("timed_out"))
       /\ measured.late <= Cardinality(WithDisposition("late"))
  /\ section > 5 =>
       /\ measured.timeouts <= measured.by_disposition["timed_out"]
       /\ measured.late <= measured.by_disposition["late"]
  /\ section > 6 => measured.observations <= measured.routed

SnapshotInv ==
  /\ ReconInv /\ AllIdle /\ FiniteTables /\ (tampers = 0 => CountsAgree)
  /\ ObservationsOK /\ ReaderOK /\ BooksMeasured /\ StuckOK /\ NetworkMeasured

-----------------------------------------------------------------------------
(* A call of execute in one step *)

RowOf(r, id) ==
  [id |-> id, fingerprint |-> Fingerprint(r), from |-> From[r.operation],
   to |-> To[r.operation]]

LEMMA RowOfCall ==
  ASSUME NEW r \in Requests, NEW id \in Ids
  PROVE  /\ r \in RequestType /\ r.key \in Keys /\ r.payment \in Payments
         /\ r.operation \in Operations
         /\ RowOf(r, id) \in Rows /\ RowOf(r, id).id = id
         /\ RowOf(r, id).from = From[r.operation] /\ RowOf(r, id).to = To[r.operation]
         /\ RowOf(r, id).fingerprint.payment = r.payment
         /\ RowOf(r, id).fingerprint.operation = r.operation
         /\ RowOf(r, id).fingerprint.source = r.source
         /\ RowOf(r, id).fingerprint.destination = r.destination
<1>1. r \in RequestType
  BY ConstantsAssumption
<1>2. r.key \in Keys /\ r.payment \in Payments /\ r.operation \in Operations
  BY <1>1 DEF RequestType
<1>3. From[r.operation] \in Statuses /\ To[r.operation] \in Statuses
  BY <1>2, TransitionTypes
<1>4. Fingerprint(r) \in Fingerprints
  BY <1>1, RecordTypes
<1>5. RowOf(r, id) \in Rows
  BY <1>3, <1>4 DEF RowOf, Rows
<1>. QED  BY <1>1, <1>2, <1>5 DEF RowOf, Fingerprint

LEMMA ExecuteWrites ==
  ASSUME NEW r, NEW id, Execute(r, id)
  PROVE  /\ r.source # r.destination /\ operations[r.key] = None
         /\ status[r.payment] = From[r.operation] /\ Fresh(id)
         /\ status' = [status EXCEPT ![r.payment] = To[r.operation]]
         /\ operations' = [operations EXCEPT ![r.key] = RowOf(r, id)]
         /\ journals' = journals \union {JournalOf(RowOf(r, id))}
         /\ entries' = entries \union EntriesOf(RowOf(r, id))
         /\ events' = events \union {EventOf(RowOf(r, id))}
         /\ UNCHANGED <<keyLock, rowLock, pc, request, seen, row>>
BY DEF Execute, RowOf

\* Whatever was edited by hand before, a call keeps the types, adds one row to
\* each table, and takes no refund back.
LEMMA ExecuteTypes ==
  ASSUME TypeInv, NEW r \in Requests, NEW id \in Ids, Execute(r, id)
  PROVE  /\ TypeInv'
         /\ \A k \in Keys : operations[k] # None => operations'[k] = operations[k]
         /\ Stored' \subseteq Stored \union {RowOf(r, id)}
         /\ With("refunded") \subseteq With("refunded")'
<1>. USE DEF TypeInv
<1>. PICK w : w = RowOf(r, id)
  OBVIOUS
<1>1. w \in Rows /\ r.key \in Keys /\ r.payment \in Payments /\ r.operation \in Operations
  BY RowOfCall
<1>2. /\ operations[r.key] = None /\ status[r.payment] = From[r.operation]
      /\ status' = [status EXCEPT ![r.payment] = To[r.operation]]
      /\ operations' = [operations EXCEPT ![r.key] = w]
      /\ journals' = journals \union {JournalOf(w)}
      /\ entries' = entries \union EntriesOf(w)
      /\ events' = events \union {EventOf(w)}
      /\ UNCHANGED <<keyLock, rowLock, pc, request, seen, row>>
  BY ExecuteWrites
<1>3. TypeOK'
  <2>1. From[r.operation] \in Statuses /\ To[r.operation] \in Statuses
    BY <1>1, TransitionTypes
  <2>2. /\ status' \in [Payments -> Statuses \union {None}]
        /\ operations' \in [Keys -> Rows \union {None}]
    BY <1>1, <1>2, <2>1 DEF TypeOK
  <2>3. /\ JournalOf(w) \in [id : Ids, payment : Payments, operation : Operations]
        /\ EntriesOf(w) \subseteq [journal : Ids, account : Accounts,
                                   side : {"debit", "credit"}, amount : Nat]
        /\ EventOf(w) \in [id : Ids, payment : Payments, announces : Statuses]
    BY <1>1, RecordTypes
  <2>. QED  BY <1>2, <2>2, <2>3 DEF TypeOK
<1>4. SessionOK'
  BY <1>2 DEF SessionOK
<1>5. \A k \in Keys : operations[k] # None => operations'[k] = operations[k]
  BY <1>1, <1>2 DEF TypeOK
<1>6. Stored' \subseteq Stored \union {w}
  BY <1>1, <1>2 DEF TypeOK, Stored
<1>7. With("refunded") \subseteq With("refunded")'
  <2>1. From[r.operation] # "refunded"
    BY <1>1 DEF From, Operations
  <2>. QED  BY <1>1, <1>2, <2>1 DEF With, TypeOK
<1>. QED  BY <1>3, <1>4, <1>5, <1>6, <1>7

\* On tables nobody has edited, it keeps them in agreement.
LEMMA ExecuteKeeps ==
  ASSUME IInv, AllIdle, NEW r \in Requests, NEW id \in Ids, Execute(r, id)
  PROVE  /\ IInv' /\ AllIdle'
         /\ Stored' = Stored \union {RowOf(r, id)} /\ RowOf(r, id) \notin Stored
<1>. USE DEF IInv
<1>. PICK w : w = RowOf(r, id)
  OBVIOUS
<1>. PICK p, op : p = r.payment /\ op = r.operation
  OBVIOUS
<1>1. /\ w \in Rows /\ r.key \in Keys /\ p \in Payments /\ op \in Operations
      /\ w.id = id /\ w.from = From[op] /\ w.to = To[op]
      /\ p = w.fingerprint.payment /\ op = w.fingerprint.operation
      /\ w.fingerprint.source = r.source /\ w.fingerprint.destination = r.destination
  BY RowOfCall
<1>2. /\ r.source # r.destination /\ operations[r.key] = None
      /\ status[p] = w.from /\ Fresh(id)
      /\ status' = [status EXCEPT ![p] = w.to]
      /\ operations' = [operations EXCEPT ![r.key] = w]
      /\ journals' = journals \union {JournalOf(w)}
      /\ entries' = entries \union EntriesOf(w)
      /\ events' = events \union {EventOf(w)}
      /\ UNCHANGED <<keyLock, rowLock, pc, request, seen, row>>
  <2>1. /\ From[r.operation] = w.from /\ To[r.operation] = w.to /\ r.payment = p
        /\ RowOf(r, id) = w
    BY <1>1
  <2>2. /\ r.source # r.destination /\ operations[r.key] = None /\ Fresh(id)
        /\ status[r.payment] = From[r.operation]
        /\ status' = [status EXCEPT ![r.payment] = To[r.operation]]
        /\ operations' = [operations EXCEPT ![r.key] = RowOf(r, id)]
        /\ journals' = journals \union {JournalOf(RowOf(r, id))}
        /\ entries' = entries \union EntriesOf(RowOf(r, id))
        /\ events' = events \union {EventOf(RowOf(r, id))}
        /\ UNCHANGED <<keyLock, rowLock, pc, request, seen, row>>
    BY ExecuteWrites
  <2>. QED  BY <2>1, <2>2
<1>3. \A j \in Keys : operations[j] # None => operations[j].id # w.id
  BY <1>1, <1>2 DEF Fresh
<1>4. /\ Stored' = Stored \union {w} /\ w \notin Stored
      /\ LedgerAgreesWithStatus' /\ RecordsAgree' /\ IdentifiersUnique'
  BY <1>1, <1>2, <1>3, OperationRecorded DEF TypeInv
<1>5. AllIdle'
  BY <1>2 DEF AllIdle
<1>6. PlaceInv' /\ StagedIdsInv'
  BY <1>5 DEF AllIdle, PlaceInv, PlaceOK, StagedIdsInv
<1>7. TypeInv'
  BY ExecuteTypes
<1>. QED  BY <1>4, <1>5, <1>6, <1>7

-----------------------------------------------------------------------------
(* Counting payments and operations *)

\* A payment that takes a step leaves one status for another.
LEMMA PaymentMoves ==
  ASSUME TypeOK, IsFiniteSet(Existing), NEW p \in Payments, NEW st \in Statuses,
         status' = [status EXCEPT ![p] = st]
  PROVE  /\ IsFiniteSet(Existing')
         /\ \A x \in Statuses :
              /\ IsFiniteSet(With(x)) /\ Cardinality(With(x)) \in Nat
              /\ Cardinality(With(x)') =
                   IF x = st
                   THEN IF status[p] = x THEN Cardinality(With(x)) ELSE Cardinality(With(x)) + 1
                   ELSE IF status[p] = x THEN Cardinality(With(x)) - 1 ELSE Cardinality(With(x))
<1>1. IsFiniteSet(Existing')
  <2>1. Existing' \subseteq Existing \union {p}
    BY DEF TypeOK, Existing
  <2>. QED  BY <2>1, FS_AddElement, FS_Subset
<1>2. ASSUME NEW x \in Statuses
      PROVE  /\ IsFiniteSet(With(x)) /\ Cardinality(With(x)) \in Nat
             /\ With(x)' = IF x = st THEN With(x) \union {p} ELSE With(x) \ {p}
             /\ p \in With(x) <=> status[p] = x
  <2>1. With(x) \subseteq Existing
    BY NoneAssumption DEF With, Existing
  <2>2. IsFiniteSet(With(x)) /\ Cardinality(With(x)) \in Nat
    BY <2>1, FS_Subset, FS_CardinalityType
  <2>3. With(x)' = IF x = st THEN With(x) \union {p} ELSE With(x) \ {p}
    BY DEF With, TypeOK
  <2>. QED  BY <2>2, <2>3 DEF With
<1>3. ASSUME NEW x \in Statuses
      PROVE  Cardinality(With(x)') =
               IF x = st
               THEN IF status[p] = x THEN Cardinality(With(x)) ELSE Cardinality(With(x)) + 1
               ELSE IF status[p] = x THEN Cardinality(With(x)) - 1 ELSE Cardinality(With(x))
  <2>1. CASE x = st
    BY <1>2, <2>1, FS_AddElement
  <2>2. CASE x # st
    BY <1>2, <2>2, FS_RemoveElement
  <2>. QED  BY <2>1, <2>2
<1>. QED  BY <1>1, <1>2, <1>3

\* CreatePayment and Authorize
LEMMA PreparationWrites ==
  ASSUME TypeOK, NEW p \in Payments, CreatePayment(p) \/ Authorize(p)
  PROVE  \E st \in {"pending", "authorized"} :
           /\ status' = [status EXCEPT ![p] = st]
           /\ status[p] \in {None, "pending"}
           /\ UNCHANGED <<operations, journals, entries, events, keyLock, rowLock,
                          pc, request, seen, row>>
           /\ Next
<1>1. CASE CreatePayment(p)
  <2>1. Next
    BY <1>1 DEF Next
  <2>. QED  BY <1>1, <2>1 DEF CreatePayment
<1>2. CASE Authorize(p)
  <2>1. Next
    BY <1>2 DEF Next
  <2>. QED  BY <1>2, <2>1 DEF Authorize
<1>. QED  BY <1>1, <1>2

\* Whatever was edited before, operations keep the types, and the tables finite.
LEMMA OperationTypes ==
  ASSUME TypeInv, AllIdle, IsFiniteSet(Existing), IsFiniteSet(Stored), IsFiniteSet(events),
         Operation
  PROVE  /\ TypeInv' /\ AllIdle'
         /\ \A k \in Keys : operations[k] # None => operations'[k] = operations[k]
         /\ With("refunded") \subseteq With("refunded")'
         /\ IsFiniteSet(Existing') /\ IsFiniteSet(Stored') /\ IsFiniteSet(events')
<1>. USE DEF TypeInv
<1>1. ASSUME NEW p \in Payments, CreatePayment(p) \/ Authorize(p)
      PROVE  /\ TypeInv' /\ AllIdle'
             /\ \A k \in Keys : operations[k] # None => operations'[k] = operations[k]
             /\ With("refunded") \subseteq With("refunded")'
             /\ IsFiniteSet(Existing') /\ IsFiniteSet(Stored') /\ IsFiniteSet(events')
  <2>1. PICK st \in {"pending", "authorized"} :
          /\ status' = [status EXCEPT ![p] = st]
          /\ status[p] \in {None, "pending"}
          /\ UNCHANGED <<operations, journals, entries, events, keyLock, rowLock,
                         pc, request, seen, row>>
          /\ Next
    BY <1>1, PreparationWrites
  <2>2. st \in Statuses /\ None # "refunded"
    BY NoneAssumption DEF Statuses
  <2>3. IsFiniteSet(Existing')
    BY <2>1, <2>2, PaymentMoves
  <2>4. TypeInv'
    BY <2>1, TypeStep
  <2>5. With("refunded") \subseteq With("refunded")'
    BY <2>1, <2>2 DEF With, TypeOK
  <2>6. Stored' = Stored
    BY <2>1 DEF Stored
  <2>. QED  BY <2>1, <2>3, <2>4, <2>5, <2>6 DEF AllIdle
<1>2. ASSUME NEW r \in Requests, NEW id \in Ids, Execute(r, id)
      PROVE  /\ TypeInv' /\ AllIdle'
             /\ \A k \in Keys : operations[k] # None => operations'[k] = operations[k]
             /\ With("refunded") \subseteq With("refunded")'
             /\ IsFiniteSet(Existing') /\ IsFiniteSet(Stored') /\ IsFiniteSet(events')
  <2>1. /\ status' = [status EXCEPT ![r.payment] = To[r.operation]]
        /\ events' = events \union {EventOf(RowOf(r, id))} /\ pc' = pc
    BY <1>2, ExecuteWrites
  <2>2. r.payment \in Payments /\ To[r.operation] \in Statuses
    BY RowOfCall, TransitionTypes
  <2>3. IsFiniteSet(Existing')
    BY <2>1, <2>2, PaymentMoves
  <2>4. IsFiniteSet(Stored')
    <3>1. Stored' \subseteq Stored \union {RowOf(r, id)}
      BY <1>2, ExecuteTypes
    <3>. QED  BY <3>1, FS_AddElement, FS_Subset
  <2>5. IsFiniteSet(events')
    BY <2>1, FS_AddElement
  <2>. QED  BY <1>2, <2>1, <2>3, <2>4, <2>5, ExecuteTypes DEF AllIdle
<1>. QED  BY <1>1, <1>2 DEF Operation

\* On tables nobody has edited, operations keep the agreement and the count.
LEMMA OperationBooks ==
  ASSUME IInv, AllIdle, CountsAgree, IsFiniteSet(Existing), IsFiniteSet(Stored), Operation
  PROVE  IInv' /\ CountsAgree'
<1>. USE DEF IInv, TypeInv
<1>1. ASSUME NEW p \in Payments, CreatePayment(p) \/ Authorize(p)
      PROVE  IInv' /\ CountsAgree'
  <2>1. PICK st \in {"pending", "authorized"} :
          /\ status' = [status EXCEPT ![p] = st]
          /\ status[p] \in {None, "pending"}
          /\ UNCHANGED <<operations, journals, entries, events, keyLock, rowLock,
                         pc, request, seen, row>>
          /\ Next
    BY <1>1, PreparationWrites
  <2>2. st \in Statuses /\ \A x \in {"captured", "reversed", "refunded"} :
          x \in Statuses /\ x # st /\ status[p] # x
    BY <2>1, NoneAssumption DEF Statuses
  <2>m. TypeOK /\ IsFiniteSet(Existing) /\ st \in Statuses
    BY <2>2
  <2>n. \A x \in Statuses :
          /\ IsFiniteSet(With(x)) /\ Cardinality(With(x)) \in Nat
          /\ Cardinality(With(x)') =
               IF x = st
               THEN IF status[p] = x THEN Cardinality(With(x)) ELSE Cardinality(With(x)) + 1
               ELSE IF status[p] = x THEN Cardinality(With(x)) - 1 ELSE Cardinality(With(x))
    BY <2>1, <2>m, PaymentMoves, Zenon
  <2>3. /\ Cardinality(With("captured")') = Cardinality(With("captured"))
        /\ Cardinality(With("reversed")') = Cardinality(With("reversed"))
        /\ Cardinality(With("refunded")') = Cardinality(With("refunded"))
    BY <2>2, <2>n
  <2>4. Stored' = Stored
    BY <2>1 DEF Stored
  <2>. QED  BY <2>1, <2>3, <2>4, InvStep DEF CountsAgree
<1>2. ASSUME NEW r \in Requests, NEW id \in Ids, Execute(r, id)
      PROVE  IInv' /\ CountsAgree'
  <2>1. /\ status' = [status EXCEPT ![r.payment] = To[r.operation]]
        /\ status[r.payment] = From[r.operation]
    BY <1>2, ExecuteWrites
  <2>2. r.payment \in Payments /\ r.operation \in Operations /\ To[r.operation] \in Statuses
    BY RowOfCall, TransitionTypes
  <2>3. Cardinality(Stored') = Cardinality(Stored) + 1
    BY <1>2, ExecuteKeeps, FS_AddElement
  <2>4. ASSUME NEW x \in Statuses
        PROVE  /\ Cardinality(With(x)) \in Nat
               /\ Cardinality(With(x)') =
                    IF x = To[r.operation]
                    THEN IF From[r.operation] = x
                         THEN Cardinality(With(x)) ELSE Cardinality(With(x)) + 1
                    ELSE IF From[r.operation] = x
                         THEN Cardinality(With(x)) - 1 ELSE Cardinality(With(x))
    <3>1. TypeOK /\ IsFiniteSet(Existing) /\ status[r.payment] = From[r.operation]
      BY <2>1
    <3>2. \A y \in Statuses :
            /\ IsFiniteSet(With(y)) /\ Cardinality(With(y)) \in Nat
            /\ Cardinality(With(y)') =
                 IF y = To[r.operation]
                 THEN IF status[r.payment] = y
                      THEN Cardinality(With(y)) ELSE Cardinality(With(y)) + 1
                 ELSE IF status[r.payment] = y
                      THEN Cardinality(With(y)) - 1 ELSE Cardinality(With(y))
      BY <2>1, <2>2, <3>1, PaymentMoves, Zenon
    <3>. QED  BY <3>1, <3>2
  <2>5. {"captured", "reversed", "refunded"} \subseteq Statuses
    BY DEF Statuses
  <2>6. CASE r.operation = "capture"
    <3>1. From[r.operation] = "authorized" /\ To[r.operation] = "captured"
      BY <2>6 DEF From, To
    <3>2. /\ Cardinality(With("captured")') = Cardinality(With("captured")) + 1
          /\ Cardinality(With("reversed")') = Cardinality(With("reversed"))
          /\ Cardinality(With("refunded")') = Cardinality(With("refunded"))
      BY <2>4, <2>5, <3>1
    <3>. QED  BY <1>2, <2>3, <2>4, <2>5, <3>2, ExecuteKeeps DEF CountsAgree
  <2>7. CASE r.operation = "refund"
    <3>1. From[r.operation] = "captured" /\ To[r.operation] = "refunded"
      BY <2>7 DEF From, To
    <3>2. /\ Cardinality(With("captured")') = Cardinality(With("captured")) - 1
          /\ Cardinality(With("reversed")') = Cardinality(With("reversed"))
          /\ Cardinality(With("refunded")') = Cardinality(With("refunded")) + 1
      BY <2>4, <2>5, <3>1
    <3>. QED  BY <1>2, <2>3, <2>4, <2>5, <3>2, ExecuteKeeps DEF CountsAgree
  <2>8. CASE r.operation = "reversal"
    <3>1. From[r.operation] = "authorized" /\ To[r.operation] = "reversed"
      BY <2>8 DEF From, To
    <3>2. /\ Cardinality(With("captured")') = Cardinality(With("captured"))
          /\ Cardinality(With("reversed")') = Cardinality(With("reversed")) + 1
          /\ Cardinality(With("refunded")') = Cardinality(With("refunded"))
      BY <2>4, <2>5, <3>1
    <3>. QED  BY <1>2, <2>3, <2>4, <2>5, <3>2, ExecuteKeeps DEF CountsAgree
  <2>. QED  BY <2>2, <2>6, <2>7, <2>8 DEF Operations
<1>. QED  BY <1>1, <1>2 DEF Operation

-----------------------------------------------------------------------------
(* What happens while a snapshot is taken *)

\* The cardinalities the invariant compares are numbers.
LEMMA CountTypes ==
  ASSUME FiniteTables
  PROVE  /\ Cardinality(Stored) \in Nat /\ Cardinality(published) \in Nat
         /\ Cardinality(observed) \in Nat
         /\ Cardinality(Unpublished) \in Nat /\ Cardinality(Poison) \in Nat
         /\ IsFiniteSet(Unpublished) /\ IsFiniteSet(Poison)
         /\ \A st \in Statuses : Cardinality(With(st)) \in Nat
         /\ \A S \in SUBSET observed : Cardinality(S) \in Nat
<1>. USE DEF FiniteTables
<1>1. IsFiniteSet(Unpublished) /\ IsFiniteSet(Poison)
  <2>1. Unpublished \subseteq events /\ Poison \subseteq events
    BY DEF Unpublished, Poison
  <2>. QED  BY <2>1, FS_Subset
<1>2. ASSUME NEW st \in Statuses PROVE Cardinality(With(st)) \in Nat
  <2>1. With(st) \subseteq Existing
    BY NoneAssumption DEF With, Existing
  <2>. QED  BY <2>1, FS_Subset, FS_CardinalityType
<1>3. ASSUME NEW S \in SUBSET observed PROVE Cardinality(S) \in Nat
  BY FS_Subset, FS_CardinalityType
<1>. QED  BY <1>1, <1>2, <1>3, FS_CardinalityType

\* What the reader finished measuring stays covered while the rest of the
\* program only adds to what it counted.
LEMMA MeanwhileKeeps ==
  ASSUME SnapshotInv, ReconInv', AllIdle', FiniteTables', tampers' = 0 => CountsAgree',
         UNCHANGED <<section, measured, statement, report>>,
         tampers' = 0 => /\ tampers = 0
                         /\ Cardinality(Stored) <= Cardinality(Stored')
                         /\ With("refunded") \subseteq With("refunded")',
         published \subseteq published', observed \subseteq observed', ObservationsOK',
         stuck' = stuck \intersect {e.id : e \in Poison'}
  PROVE  SnapshotInv'
<1>1. ReaderOK'
  BY DEF SnapshotInv, ReaderOK
<1>2. StuckOK'
  BY DEF SnapshotInv, StuckOK
<1>3. BooksMeasured'
  <2>. SUFFICES ASSUME tampers' = 0 PROVE BooksMeasured'
    BY DEF BooksMeasured
  <2>1. /\ Cardinality(Stored) \in Nat /\ Cardinality(published) \in Nat
        /\ Cardinality(Stored') \in Nat /\ Cardinality(published') \in Nat
        /\ Cardinality(Stored) <= Cardinality(Stored')
    BY CountTypes, FS_CardinalityType DEF SnapshotInv, FiniteTables
  <2>2. Cardinality(published) <= Cardinality(published')
    BY FS_Subset DEF SnapshotInv, FiniteTables
  <2>3. /\ measured.operations \in Nat /\ StepsCounted \in Nat /\ StepsCounted' = StepsCounted
    BY DEF SnapshotInv, ReaderOK, Measurements, StepsCounted, Statuses
  <2>4. With("refunded") # {} => With("refunded")' # {}
    OBVIOUS
  <2>. QED  BY <2>1, <2>2, <2>3, <2>4 DEF SnapshotInv, BooksMeasured
<1>4. NetworkMeasured'
  <2>1. /\ WithDisposition("timed_out") \subseteq WithDisposition("timed_out")'
        /\ WithDisposition("late") \subseteq WithDisposition("late")'
        /\ WithDisposition("timed_out")' \subseteq observed'
        /\ WithDisposition("late")' \subseteq observed'
    BY DEF WithDisposition
  <2>2. IsFiniteSet(WithDisposition("timed_out")') /\ IsFiniteSet(WithDisposition("late")')
        /\ IsFiniteSet(observed')
    BY <2>1, FS_Subset DEF FiniteTables
  <2>3. /\ Cardinality(WithDisposition("timed_out")) <= Cardinality(WithDisposition("timed_out")')
        /\ Cardinality(WithDisposition("late")) <= Cardinality(WithDisposition("late")')
        /\ Cardinality(observed) <= Cardinality(observed')
        /\ Cardinality(WithDisposition("timed_out")) \in Nat
        /\ Cardinality(WithDisposition("late")) \in Nat /\ Cardinality(observed) \in Nat
    BY <2>1, <2>2, FS_Subset, FS_CardinalityType
  <2>4. /\ Cardinality(WithDisposition("timed_out")') \in Nat
        /\ Cardinality(WithDisposition("late")') \in Nat /\ Cardinality(observed') \in Nat
    BY <2>2, FS_CardinalityType
  <2>5. measured.observations \in Nat /\ measured.timeouts \in Nat /\ measured.late \in Nat
    BY DEF SnapshotInv, ReaderOK, Measurements
  <2>. QED  BY <2>3, <2>4, <2>5 DEF SnapshotInv, NetworkMeasured
<1>. QED  BY <1>1, <1>2, <1>3, <1>4 DEF SnapshotInv

\* An operation commits; operations after an edit by hand need only be typed.
LEMMA SnapshotOperation ==
  ASSUME SnapshotInv, Operation, UNCHANGED <<outboxVars, observed, section, measured>>,
         stuck' = stuck \intersect {e.id : e \in Poison'}
  PROVE  SnapshotInv'
<1>. USE DEF SnapshotInv, FiniteTables
<1>1. UNCHANGED <<statement, report, tampers>> /\ Meanwhile
  BY DEF Operation
<1>2. TypeInv /\ (tampers = 0 => IInv)
  BY DEF ReconInv, TablesOK
<1>3. /\ TypeInv' /\ AllIdle'
      /\ \A k \in Keys : operations[k] # None => operations'[k] = operations[k]
      /\ With("refunded") \subseteq With("refunded")'
      /\ IsFiniteSet(Existing') /\ IsFiniteSet(Stored') /\ IsFiniteSet(events')
  BY <1>2, OperationTypes
<1>4. tampers = 0 => IInv' /\ CountsAgree'
  BY <1>2, OperationBooks
<1>5. ReconInv'
  BY <1>1, <1>3, <1>4, OperationKeeps
<1>6. FiniteTables' /\ ObservationsOK'
  BY <1>3 DEF ObservationsOK, outboxVars
<1>7. Cardinality(Stored) <= Cardinality(Stored')
  <2>1. Stored \subseteq Stored'
    BY <1>3 DEF Stored
  <2>. QED  BY <1>3, <2>1, FS_Subset
<1>8. published \subseteq published' /\ observed \subseteq observed'
  BY DEF outboxVars
<1>9. UNCHANGED <<section, measured, statement, report>>
  BY <1>1
<1>10. tampers' = 0 => /\ tampers = 0
                       /\ Cardinality(Stored) <= Cardinality(Stored')
                       /\ With("refunded") \subseteq With("refunded")'
  BY <1>1, <1>3, <1>7
<1>11. tampers' = 0 => CountsAgree'
  BY <1>1, <1>4
<1>. QED
  BY <1>3, <1>5, <1>6, <1>8, <1>9, <1>10, <1>11, MeanwhileKeeps, Zenon

\* An edit by hand may take rows away, and nothing is promised of the counts.
LEMMA SnapshotTamper ==
  ASSUME SnapshotInv, Tamper, UNCHANGED <<outboxVars, observed, section, measured>>,
         stuck' = stuck \intersect {e.id : e \in Poison'}
  PROVE  SnapshotInv'
<1>. USE DEF SnapshotInv
<1>1. ReconInv'
  BY TamperKeeps
<1>2. tampers' # 0 /\ UNCHANGED <<pc, statement, report>>
  BY DEF Tamper, ReconInv, TablesOK
<1>3. AllIdle'
  BY <1>2 DEF AllIdle
<1>4. FiniteTables'
  <2>1. Existing' \subseteq Existing
    BY NoneAssumption DEF Tamper, Existing, ReconInv, TablesOK, TypeInv, TypeOK, Statuses
  <2>2. Stored' \subseteq Stored
    BY DEF Tamper, Stored, ReconInv, TablesOK, TypeInv, TypeOK
  <2>3. events' \subseteq events
    BY DEF Tamper
  <2>. QED  BY <2>1, <2>2, <2>3, FS_Subset DEF FiniteTables, outboxVars
<1>5. published \subseteq published' /\ observed \subseteq observed' /\ ObservationsOK'
  BY DEF outboxVars, ObservationsOK
<1>6. UNCHANGED <<section, measured, statement, report>>
  BY <1>2
<1>. QED  BY <1>1, <1>2, <1>3, <1>4, <1>5, <1>6, MeanwhileKeeps, Zenon

\* The worker, the operator and the network flow leave the tables of
\* Reconciliation alone.
LEMMA TablesUnread ==
  ASSUME SnapshotInv, UNCHANGED <<vars, tampers>>
  PROVE  /\ AllIdle' /\ (tampers' = 0 => CountsAgree')
         /\ Stored' = Stored /\ Existing' = Existing /\ events' = events
         /\ With("refunded")' = With("refunded")
         /\ (published' = published /\ exhausted' = exhausted => Poison' = Poison)
<1>1. UNCHANGED <<status, operations, events, pc>>
  BY DEF vars, tables
<1>2. Stored' = Stored /\ Existing' = Existing
  BY <1>1 DEF Stored, Existing
<1>3. \A st \in Statuses : With(st)' = With(st)
  BY <1>1 DEF With
<1>4. With("refunded")' = With("refunded") /\ With("captured")' = With("captured")
      /\ With("reversed")' = With("reversed")
  BY <1>1 DEF With
<1>5. CountsAgree => CountsAgree'
  BY <1>2, <1>4 DEF CountsAgree
<1>6. AllIdle'
  BY <1>1 DEF AllIdle, SnapshotInv
<1>. QED  BY <1>1, <1>2, <1>4, <1>5, <1>6 DEF SnapshotInv, Poison, Unpublished

LEMMA SnapshotOutside ==
  ASSUME SnapshotInv, PublishEvent \/ ExhaustEvent \/ ResetPoison \/ RecordObservation,
         stuck' = stuck \intersect {e.id : e \in Poison'}
  PROVE  SnapshotInv'
<1>. USE DEF SnapshotInv
<1>1. UNCHANGED <<allVars, section, measured>>
  BY DEF PublishEvent, ExhaustEvent, ResetPoison, RecordObservation
<1>2. UNCHANGED vars /\ UNCHANGED <<statement, report, tampers, standing>>
  BY <1>1 DEF allVars, reconVars
<1>3. ReconInv'
  BY <1>1, ReconStep
<1>4. /\ published \subseteq published' /\ observed \subseteq observed'
      /\ IsFiniteSet(published') /\ IsFiniteSet(observed') /\ ObservationsOK'
  <2>1. CASE PublishEvent
    <3>1. PICK e \in Unpublished : published' = published \union {e.id} /\ observed' = observed
      BY <2>1 DEF PublishEvent
    <3>. QED  BY <3>1, FS_AddElement DEF FiniteTables, ObservationsOK
  <2>2. CASE RecordObservation
    <3>1. PICK k \in Observations :
            observed' = observed \union
              {[id |-> Cardinality(observed) + 1, outcome |-> k[1], disposition |-> k[2]]}
      BY <2>2 DEF RecordObservation
    <3>2. PICK o : o = [id |-> Cardinality(observed) + 1, outcome |-> k[1], disposition |-> k[2]]
      OBVIOUS
    <3>3. o.outcome = "timeout" => o.disposition = "timed_out"
      BY <3>2 DEF Observations
    <3>4. observed' = observed \union {o}
      BY <3>1, <3>2
    <3>5. IsFiniteSet(observed') /\ ObservationsOK'
      BY <3>3, <3>4, FS_AddElement DEF FiniteTables, ObservationsOK
    <3>6. published' = published
      BY <2>2 DEF RecordObservation, outboxVars
    <3>. QED  BY <3>4, <3>5, <3>6 DEF FiniteTables
  <2>. QED
    BY <2>1, <2>2 DEF ExhaustEvent, ResetPoison, FiniteTables, ObservationsOK
<1>5. /\ AllIdle' /\ (tampers' = 0 => CountsAgree')
      /\ Stored' = Stored /\ Existing' = Existing /\ events' = events
      /\ With("refunded")' = With("refunded")
  BY <1>2, TablesUnread
<1>6. FiniteTables' /\ Cardinality(Stored) <= Cardinality(Stored')
  BY <1>4, <1>5, CountTypes DEF FiniteTables
<1>. QED  BY <1>1, <1>2, <1>3, <1>4, <1>5, <1>6, MeanwhileKeeps

LEMMA OthersKeep == ASSUME SnapshotInv, Others PROVE SnapshotInv'
<1>1. stuck' = stuck \intersect {e.id : e \in Poison'}
  BY DEF Others
<1>2. CASE Change
  BY <1>1, <1>2, SnapshotOperation, SnapshotTamper DEF Change
<1>. QED  BY <1>1, <1>2, SnapshotOutside DEF Others

-----------------------------------------------------------------------------
(* The steps of read *)

\* The reader changes nothing it reads.
LEMMA ReaderReads ==
  ASSUME SnapshotInv, UNCHANGED <<vars, tampers, outboxVars, observed>>
  PROVE  /\ AllIdle' /\ FiniteTables' /\ (tampers' = 0 => CountsAgree') /\ ObservationsOK'
         /\ Stored' = Stored /\ published' = published /\ Poison' = Poison
         /\ With("refunded")' = With("refunded")
         /\ WithDisposition("late")' = WithDisposition("late")
         /\ WithDisposition("timed_out")' = WithDisposition("timed_out")
<1>1. published' = published /\ exhausted' = exhausted /\ observed' = observed
  BY DEF outboxVars
<1>2. UNCHANGED <<vars, tampers>>
  OBVIOUS
<1>3. /\ AllIdle' /\ (tampers' = 0 => CountsAgree')
      /\ Stored' = Stored /\ Existing' = Existing /\ events' = events
      /\ With("refunded")' = With("refunded") /\ Poison' = Poison
  BY <1>1, <1>2, TablesUnread
<1>4. FiniteTables' /\ ObservationsOK'
  BY <1>1, <1>3 DEF FiniteTables, ObservationsOK, SnapshotInv
<1>5. /\ WithDisposition("late")' = WithDisposition("late")
      /\ WithDisposition("timed_out")' = WithDisposition("timed_out")
  BY <1>1 DEF WithDisposition
<1>. QED  BY <1>1, <1>3, <1>4, <1>5

\* Of tables nobody has edited: when no event is left to publish, the events of
\* all stored operations are published.
LEMMA AllPublished ==
  ASSUME IInv, FiniteTables, Unpublished = {}
  PROVE  Cardinality(Stored) <= Cardinality(published)
<1>1. ASSUME NEW w \in Stored PROVE w.id \in published
  <2>1. EventOf(w) \in events /\ EventOf(w).id = w.id
    BY DEF IInv, RecordsAgree, EventOf
  <2>. QED  BY <2>1 DEF Unpublished
<1>2. ASSUME NEW v \in Stored, NEW w \in Stored, v.id = w.id PROVE v = w
  BY <1>2 DEF IInv, IdentifiersUnique, Stored
<1>3. PICK f : f = [w \in Stored |-> w.id]
  OBVIOUS
<1>4. f \in Injection(Stored, published)
  BY <1>1, <1>2, <1>3 DEF Injection, IsInjective
<1>. QED  BY <1>4, FS_Injection DEF FiniteTables

\* The capture of a refunded payment is among the mismatches.
LEMMA RefundIsMismatch ==
  ASSUME IInv, With("refunded") # {}
  PROVE  StatusMismatches # {}
<1>1. PICK p \in Payments : status[p] = "refunded"
  BY DEF With
<1>2. "capture" \in Posted(p)
  <2>1. "capture" \in JournalsFor("refunded")
    BY DEF JournalsFor, Operations
  <2>. QED  BY <1>1, <2>1 DEF IInv, LedgerAgreesWithStatus
<1>3. PICK j \in journals : j.payment = p /\ j.operation = "capture"
  BY <1>2 DEF Posted
<1>4. PICK w \in Stored : j = JournalOf(w)
  BY DEF IInv, RecordsAgree
<1>5. w.fingerprint.payment = p /\ w.fingerprint.operation = "capture"
  BY <1>3, <1>4 DEF JournalOf
<1>6. w.to = "captured"
  BY <1>5 DEF IInv, RecordsAgree, To
<1>7. "refunded" \notin {None, "captured"}
  BY NoneAssumption DEF Statuses
<1>. QED  BY <1>1, <1>5, <1>6, <1>7 DEF StatusMismatches

LEMMA StartReadKeeps == ASSUME SnapshotInv, StartRead PROVE SnapshotInv'
<1>1. /\ section = 0 /\ section' = 1 /\ measured' = NothingMeasured
      /\ stuck' = {e.id : e \in Poison}
      /\ UNCHANGED <<allVars, outboxVars, observed>>
  BY DEF StartRead
<1>2. UNCHANGED vars /\ UNCHANGED <<statement, report, tampers, standing>>
  BY <1>1 DEF allVars, reconVars
<1>3. ReconInv'
  BY <1>1, ReconStep DEF SnapshotInv
<1>4. statement' = 0
  BY <1>1, <1>2 DEF SnapshotInv, ReaderOK, ReconInv
<1>5. measured' \in Measurements
  BY <1>1 DEF NothingMeasured, Measurements
<1>6. UNCHANGED <<vars, tampers, outboxVars, observed>>
  BY <1>1, <1>2
<1>7. /\ AllIdle' /\ FiniteTables' /\ (tampers' = 0 => CountsAgree') /\ ObservationsOK'
      /\ Poison' = Poison
  BY <1>6, ReaderReads
<1>8. ReaderOK' /\ BooksMeasured' /\ StuckOK' /\ NetworkMeasured'
  BY <1>1, <1>4, <1>5, <1>7 DEF ReaderOK, BooksMeasured, StuckOK, NetworkMeasured
<1>. QED  BY <1>3, <1>7, <1>8 DEF SnapshotInv

\* What each section measures, and that it leaves the other figures alone
LEMMA SectionWrites ==
  ASSUME SnapshotInv, RunSection
  PROVE  /\ section \in 1..6 /\ section' = section + 1 /\ stuck' = stuck
         /\ measured' \in Measurements
         /\ section = 1 =>
              measured' = [measured EXCEPT !.by_status = [st \in Statuses |-> Cardinality(With(st))]]
         /\ section = 2 => measured' = [measured EXCEPT !.operations = Cardinality(Stored)]
         /\ section = 3 =>
              measured' = [measured EXCEPT !.unpublished = Cardinality(Unpublished),
                                           !.poison = Cardinality(Poison)]
         /\ section = 4 =>
              measured' =
                [measured EXCEPT !.observations = Cardinality(observed),
                                 !.timeouts = Cardinality({o \in observed : o.outcome = "timeout"}),
                                 !.late = Cardinality(WithDisposition("late"))]
         /\ section = 5 =>
              measured' =
                [measured EXCEPT !.by_disposition =
                   [d \in {"late", "timed_out"} |-> Cardinality(WithDisposition(d))]]
         /\ section = 6 => measured' = [measured EXCEPT !.routed = Cardinality(observed)]
<1>1. /\ section \in 1..6 /\ section' = section + 1 /\ stuck' = stuck
      /\ measured' = Measure(section)
  BY DEF RunSection
<1>2. /\ Measure(1) = MeasurePayments /\ Measure(2) = MeasureOperations
      /\ Measure(3) = MeasureOutbox /\ Measure(4) = MeasureNetwork
      /\ Measure(5) = MeasureDispositions /\ Measure(6) = MeasureRoutes
  BY DEF Measure
<1>3. /\ measured \in Measurements /\ FiniteTables
      /\ DOMAIN measured.by_disposition = {"late", "timed_out"}
  BY DEF SnapshotInv, ReaderOK, Measurements
<1>4. WithDisposition("late") \in SUBSET observed
      /\ WithDisposition("timed_out") \in SUBSET observed
      /\ {o \in observed : o.outcome = "timeout"} \in SUBSET observed
  BY DEF WithDisposition
<1>5. /\ Cardinality(WithDisposition("late")) \in Nat
      /\ Cardinality(WithDisposition("timed_out")) \in Nat
      /\ Cardinality({o \in observed : o.outcome = "timeout"}) \in Nat
  BY <1>3, <1>4, CountTypes, Zenon
<1>6. /\ Cardinality(Stored) \in Nat /\ Cardinality(observed) \in Nat
      /\ Cardinality(Unpublished) \in Nat /\ Cardinality(Poison) \in Nat
  BY <1>3, CountTypes
<1>7. CASE section = 1
  <2>1. measured' = [measured EXCEPT !.by_status = [st \in Statuses |-> Cardinality(With(st))]]
    BY <1>1, <1>2, <1>7 DEF MeasurePayments, With
  <2>2. [st \in Statuses |-> Cardinality(With(st))] \in [Statuses -> Nat]
    BY <1>3, CountTypes
  <2>3. measured' \in Measurements
    BY <1>3, <2>1, <2>2 DEF Measurements
  <2>. QED  BY <1>1, <1>7, <2>1, <2>3
<1>8. CASE section = 2
  BY <1>1, <1>2, <1>3, <1>6, <1>8 DEF MeasureOperations, Measurements
<1>9. CASE section = 3
  <2>1. measured' = [measured EXCEPT !.unpublished = Cardinality(Unpublished),
                                     !.poison = Cardinality(Poison)]
    BY <1>1, <1>2, <1>9 DEF MeasureOutbox
  <2>2. measured' \in Measurements
    BY <1>3, <1>6, <2>1 DEF Measurements
  <2>. QED  BY <1>1, <1>9, <2>1, <2>2
<1>10. CASE section = 4
  <2>1. measured' =
          [measured EXCEPT !.observations = Cardinality(observed),
                           !.timeouts = Cardinality({o \in observed : o.outcome = "timeout"}),
                           !.late = Cardinality(WithDisposition("late"))]
    BY <1>1, <1>2, <1>10 DEF MeasureNetwork
  <2>2. measured' \in Measurements
    <3>. PICK t : t = Cardinality({o \in observed : o.outcome = "timeout"})
      OBVIOUS
    <3>1. t \in Nat
      BY <1>5
    <3>2. measured' = [measured EXCEPT !.observations = Cardinality(observed), !.timeouts = t,
                                       !.late = Cardinality(WithDisposition("late"))]
      BY <2>1
    <3>. QED  BY <1>3, <1>5, <1>6, <3>1, <3>2 DEF Measurements
  <2>. QED  BY <1>1, <1>10, <2>1, <2>2
<1>11. CASE section = 5
  <2>1. measured' =
          [measured EXCEPT !.by_disposition =
             [d \in {"late", "timed_out"} |-> Cardinality(WithDisposition(d))]]
    BY <1>1, <1>2, <1>3, <1>11 DEF MeasureDispositions
  <2>2. [d \in {"late", "timed_out"} |-> Cardinality(WithDisposition(d))]
          \in [{"late", "timed_out"} -> Nat]
    BY <1>5
  <2>3. measured' \in Measurements
    BY <1>3, <2>1, <2>2 DEF Measurements
  <2>. QED  BY <1>1, <1>11, <2>1, <2>3
<1>12. CASE section = 6
  BY <1>1, <1>2, <1>3, <1>6, <1>12 DEF MeasureRoutes, Measurements
<1>. QED  BY <1>1, <1>7, <1>8, <1>9, <1>10, <1>11, <1>12

LEMMA SectionKeeps ==
  ASSUME SnapshotInv, RunSection
  PROVE  /\ section > 1 => measured'.by_status = measured.by_status
         /\ section > 2 => measured'.operations = measured.operations
         /\ section > 3 => /\ measured'.unpublished = measured.unpublished
                           /\ measured'.poison = measured.poison
         /\ section > 4 => /\ measured'.observations = measured.observations
                           /\ measured'.timeouts = measured.timeouts
                           /\ measured'.late = measured.late
         /\ section > 5 => measured'.by_disposition = measured.by_disposition
<1>1. measured \in Measurements /\ section \in 1..6
  BY SectionWrites DEF SnapshotInv, ReaderOK
<1>2. CASE section = 1
  BY <1>2
<1>3. CASE section = 2
  <2>1. measured' = [measured EXCEPT !.operations = Cardinality(Stored)]
    BY <1>3, SectionWrites
  <2>. QED  BY <1>1, <1>3, <2>1 DEF Measurements
<1>4. CASE section = 3
  <2>1. measured' = [measured EXCEPT !.unpublished = Cardinality(Unpublished),
                                     !.poison = Cardinality(Poison)]
    BY <1>4, SectionWrites
  <2>. QED  BY <1>1, <1>4, <2>1 DEF Measurements
<1>5. CASE section = 4
  <2>. PICK t : t = Cardinality({o \in observed : o.outcome = "timeout"})
    OBVIOUS
  <2>1. measured' = [measured EXCEPT !.observations = Cardinality(observed), !.timeouts = t,
                                     !.late = Cardinality(WithDisposition("late"))]
    BY <1>5, SectionWrites
  <2>. QED  BY <1>1, <1>5, <2>1 DEF Measurements
<1>6. CASE section = 5
  <2>1. PICK f : measured' = [measured EXCEPT !.by_disposition = f]
    BY <1>6, SectionWrites
  <2>. QED  BY <1>1, <1>6, <2>1 DEF Measurements
<1>7. CASE section = 6
  <2>1. measured' = [measured EXCEPT !.routed = Cardinality(observed)]
    BY <1>7, SectionWrites
  <2>. QED  BY <1>1, <1>7, <2>1 DEF Measurements
<1>. QED  BY <1>1, <1>2, <1>3, <1>4, <1>5, <1>6, <1>7

\* A section covers the ones before it: the tables hold what those counted.
LEMMA SectionCovers ==
  ASSUME SnapshotInv, RunSection, statement' = 0,
         Stored' = Stored, published' = published, observed' = observed, Poison' = Poison,
         tampers' = tampers,
         With("refunded")' = With("refunded"),
         WithDisposition("late")' = WithDisposition("late"),
         WithDisposition("timed_out")' = WithDisposition("timed_out")
  PROVE  BooksMeasured' /\ StuckOK' /\ NetworkMeasured'
<1>. USE DEF SnapshotInv
<1>1. PICK mp : mp = measured'
  OBVIOUS
<1>2. PICK n : n = section
  OBVIOUS
<1>3. /\ n \in 1..6 /\ section' = n + 1 /\ stuck' = stuck
      /\ mp \in Measurements /\ measured \in Measurements
  BY <1>1, <1>2, SectionWrites DEF ReaderOK
<1>4. n = 1 => mp = [measured EXCEPT !.by_status = [st \in Statuses |-> Cardinality(With(st))]]
  BY <1>1, <1>2, SectionWrites
<1>5. n = 2 => mp = [measured EXCEPT !.operations = Cardinality(Stored)]
  BY <1>1, <1>2, SectionWrites
<1>6. n = 3 => mp = [measured EXCEPT !.unpublished = Cardinality(Unpublished),
                                     !.poison = Cardinality(Poison)]
  BY <1>1, <1>2, SectionWrites
<1>7. n = 4 =>
        mp = [measured EXCEPT !.observations = Cardinality(observed),
                              !.timeouts = Cardinality({o \in observed : o.outcome = "timeout"}),
                              !.late = Cardinality(WithDisposition("late"))]
  BY <1>1, <1>2, SectionWrites
<1>8. n = 5 =>
        mp = [measured EXCEPT !.by_disposition =
                [d \in {"late", "timed_out"} |-> Cardinality(WithDisposition(d))]]
  BY <1>1, <1>2, SectionWrites
<1>9. n = 6 => mp = [measured EXCEPT !.routed = Cardinality(observed)]
  BY <1>1, <1>2, SectionWrites
<1>10. /\ Cardinality(Stored) \in Nat /\ Cardinality(published) \in Nat
       /\ Cardinality(observed) \in Nat
       /\ Cardinality(With("captured")) \in Nat /\ Cardinality(With("reversed")) \in Nat
       /\ Cardinality(With("refunded")) \in Nat
  BY CountTypes DEF Statuses
<1>11. {"captured", "reversed", "refunded"} \subseteq Statuses
  BY DEF Statuses
<1>12. BooksMeasured'
  <2>. SUFFICES ASSUME tampers = 0 PROVE BooksMeasured'
    BY DEF BooksMeasured
  <2>. DEFINE Steps == mp.by_status["captured"] + mp.by_status["reversed"]
                         + 2 * mp.by_status["refunded"]
  <2>1. IInv /\ CountsAgree
    BY DEF ReconInv, TablesOK
  <2>2. n = 1 => /\ Steps <= Cardinality(Stored)
                 /\ mp.by_status["refunded"] > 0 => With("refunded") # {}
    <3>1. ASSUME n = 1
          PROVE  /\ mp.by_status["captured"] = Cardinality(With("captured"))
                 /\ mp.by_status["reversed"] = Cardinality(With("reversed"))
                 /\ mp.by_status["refunded"] = Cardinality(With("refunded"))
      BY <1>3, <1>4, <1>11, <3>1 DEF Measurements
    <3>2. With("refunded") = {} => Cardinality(With("refunded")) = 0
      BY FS_EmptySet
    <3>. QED  BY <1>10, <2>1, <3>1, <3>2 DEF CountsAgree
  <2>3. n > 1 => /\ mp.by_status = measured.by_status
                 /\ Steps <= Cardinality(Stored)
                 /\ mp.by_status["refunded"] > 0 => With("refunded") # {}
    <3>1. n > 1 => mp.by_status = measured.by_status
      BY <1>1, <1>2, SectionKeeps
    <3>. QED  BY <1>2, <3>1 DEF BooksMeasured, StepsCounted
  <2>4. n = 2 => mp.operations = Cardinality(Stored)
    BY <1>3, <1>5 DEF Measurements
  <2>5. n > 2 => mp.operations = measured.operations
    BY <1>1, <1>2, SectionKeeps
  <2>6. n > 1 => Steps <= mp.operations /\ mp.operations <= Cardinality(Stored)
    BY <1>2, <1>3, <1>10, <2>3, <2>4, <2>5 DEF BooksMeasured, StepsCounted
  <2>7. n = 3 /\ mp.unpublished = 0 => mp.operations <= Cardinality(published)
    <3>1. ASSUME n = 3, mp.unpublished = 0 PROVE Cardinality(Stored) <= Cardinality(published)
      <4>1. Cardinality(Unpublished) = 0
        BY <1>3, <1>6, <3>1 DEF Measurements
      <4>2. Unpublished = {}
        BY <4>1, CountTypes, FS_EmptySet
      <4>. QED  BY <2>1, <4>2, AllPublished
    <3>2. n = 3 => mp.operations \in Nat /\ mp.operations <= Cardinality(Stored)
      BY <1>3, <2>6 DEF Measurements
    <3>. QED  BY <1>10, <3>1, <3>2
  <2>8. n > 3 /\ mp.unpublished = 0 => mp.operations <= Cardinality(published)
    <3>1. n > 3 => mp.unpublished = measured.unpublished
      BY <1>1, <1>2, SectionKeeps
    <3>. QED  BY <1>2, <1>3, <2>5, <3>1 DEF BooksMeasured
  <2>9. StepsCounted' = Steps
    BY <1>1 DEF StepsCounted
  <2>. QED  BY <1>1, <1>3, <2>2, <2>3, <2>6, <2>7, <2>8, <2>9 DEF BooksMeasured
<1>13. StuckOK'
  <2>1. stuck \subseteq {e.id : e \in Poison}
    BY <1>2, <1>3 DEF StuckOK
  <2>2. n = 3 /\ stuck # {} => mp.poison > 0
    <3>1. stuck # {} => Poison # {}
      BY <2>1
    <3>2. stuck # {} => Cardinality(Poison) \in Nat /\ Cardinality(Poison) # 0
      BY <3>1, CountTypes, FS_EmptySet
    <3>3. n = 3 => mp.poison = Cardinality(Poison)
      BY <1>3, <1>6 DEF Measurements
    <3>. QED  BY <3>2, <3>3
  <2>3. n > 3 => mp.poison = measured.poison
    BY <1>1, <1>2, SectionKeeps
  <2>. QED  BY <1>1, <1>2, <1>3, <2>1, <2>2, <2>3 DEF StuckOK
<1>14. NetworkMeasured'
  <2>1. n = 4 => /\ mp.observations = Cardinality(observed)
                 /\ mp.timeouts <= Cardinality(WithDisposition("timed_out"))
                 /\ mp.late = Cardinality(WithDisposition("late"))
    <3>1. {o \in observed : o.outcome = "timeout"} \subseteq WithDisposition("timed_out")
      BY DEF ObservationsOK, WithDisposition
    <3>2. WithDisposition("timed_out") \subseteq observed
      BY DEF WithDisposition
    <3>3. Cardinality({o \in observed : o.outcome = "timeout"})
            <= Cardinality(WithDisposition("timed_out"))
      BY <3>1, <3>2, FS_Subset DEF FiniteTables
    <3>4. PICK t : t = Cardinality({o \in observed : o.outcome = "timeout"})
      OBVIOUS
    <3>5. n = 4 => mp = [measured EXCEPT !.observations = Cardinality(observed), !.timeouts = t,
                                         !.late = Cardinality(WithDisposition("late"))]
      BY <1>7, <3>4
    <3>6. n = 4 => /\ mp.observations = Cardinality(observed) /\ mp.timeouts = t
                   /\ mp.late = Cardinality(WithDisposition("late"))
      BY <1>3, <3>5 DEF Measurements
    <3>. QED  BY <3>3, <3>4, <3>6
  <2>2. n > 4 => /\ mp.observations = measured.observations
                 /\ mp.timeouts = measured.timeouts /\ mp.late = measured.late
    BY <1>1, <1>2, SectionKeeps
  <2>3. n = 5 => /\ mp.by_disposition["late"] = Cardinality(WithDisposition("late"))
                 /\ mp.by_disposition["timed_out"] = Cardinality(WithDisposition("timed_out"))
    BY <1>3, <1>8 DEF Measurements
  <2>4. n = 6 => /\ mp.by_disposition = measured.by_disposition
                 /\ mp.routed = Cardinality(observed)
    BY <1>1, <1>2, <1>3, <1>9, SectionKeeps DEF Measurements
  <2>5. n > 4 => /\ mp.observations <= Cardinality(observed)
                 /\ mp.timeouts <= Cardinality(WithDisposition("timed_out"))
                 /\ mp.late <= Cardinality(WithDisposition("late"))
    BY <1>2, <2>2 DEF NetworkMeasured
  <2>6. WithDisposition("late") \in SUBSET observed
        /\ WithDisposition("timed_out") \in SUBSET observed
    BY DEF WithDisposition
  <2>7. /\ Cardinality(WithDisposition("late")) \in Nat
        /\ Cardinality(WithDisposition("timed_out")) \in Nat
    BY <2>6, CountTypes
  <2>8. mp.observations \in Nat /\ mp.timeouts \in Nat /\ mp.late \in Nat
    BY <1>3 DEF Measurements
  <2>9. n > 3 => /\ mp.observations <= Cardinality(observed)
                 /\ mp.timeouts <= Cardinality(WithDisposition("timed_out"))
                 /\ mp.late <= Cardinality(WithDisposition("late"))
    BY <1>3, <1>10, <2>1, <2>5, <2>7, <2>8
  <2>10. n > 4 => /\ mp.timeouts <= mp.by_disposition["timed_out"]
                  /\ mp.late <= mp.by_disposition["late"]
    BY <1>2, <1>3, <2>2, <2>3, <2>4, <2>5 DEF NetworkMeasured
  <2>11. n > 5 => mp.observations <= mp.routed
    BY <1>3, <2>4, <2>5
  <2>. QED  BY <1>1, <1>3, <2>9, <2>10, <2>11 DEF NetworkMeasured
<1>. QED  BY <1>12, <1>13, <1>14

LEMMA RunSectionKeeps == ASSUME SnapshotInv, RunSection PROVE SnapshotInv'
<1>1. /\ section \in 1..6 /\ section' = section + 1
      /\ UNCHANGED <<allVars, outboxVars, observed>>
  BY DEF RunSection
<1>2. UNCHANGED vars /\ UNCHANGED <<statement, report, tampers, standing>>
  BY <1>1 DEF allVars, reconVars
<1>3. ReconInv'
  BY <1>1, ReconStep DEF SnapshotInv
<1>4. statement' = 0
  BY <1>1, <1>2 DEF SnapshotInv, ReaderOK, ReconInv
<1>5. UNCHANGED <<vars, tampers, outboxVars, observed>>
  BY <1>1, <1>2
<1>6. /\ AllIdle' /\ FiniteTables' /\ (tampers' = 0 => CountsAgree') /\ ObservationsOK'
      /\ Stored' = Stored /\ published' = published /\ Poison' = Poison
      /\ With("refunded")' = With("refunded")
      /\ WithDisposition("late")' = WithDisposition("late")
      /\ WithDisposition("timed_out")' = WithDisposition("timed_out")
  BY <1>5, ReaderReads
<1>7. BooksMeasured' /\ StuckOK' /\ NetworkMeasured'
  BY <1>1, <1>2, <1>4, <1>6, SectionCovers
<1>8. ReaderOK'
  BY <1>1, <1>4, SectionWrites DEF ReaderOK
<1>. QED  BY <1>3, <1>6, <1>7, <1>8 DEF SnapshotInv

\* self._reconciler.inspect(): its fifth statement finds the refunds that the
\* first section counted.
LEMMA SnapshotInspect ==
  ASSUME SnapshotInv, Inspect \/ ReturnSnapshot
  PROVE  SnapshotInv'
<1>. USE DEF SnapshotInv
<1>1. /\ StartInspect \/ RunStatement \/ ReturnReport
      /\ UNCHANGED <<outboxVars, observed>> /\ section = 7
  BY DEF Inspect, ReturnSnapshot, snapshotVars
<1>2. UNCHANGED <<vars, tampers, outboxVars, observed>>
  BY <1>1 DEF StartInspect, RunStatement, ReturnReport
<1>3. ReconInv'
  BY <1>1, InspectKeeps
<1>4. /\ AllIdle' /\ FiniteTables' /\ (tampers' = 0 => CountsAgree') /\ ObservationsOK'
      /\ Stored' = Stored /\ published' = published /\ Poison' = Poison
      /\ With("refunded")' = With("refunded")
      /\ WithDisposition("late")' = WithDisposition("late")
      /\ WithDisposition("timed_out")' = WithDisposition("timed_out")
  BY <1>2, ReaderReads
<1>5. CASE Inspect
  <2>1. /\ statement \in 0..6 /\ (StartInspect \/ RunStatement)
        /\ section' = 7 /\ measured' = measured /\ stuck' = stuck /\ observed' = observed
    BY <1>1, <1>5 DEF Inspect, snapshotVars
  <2>2. ReaderOK' /\ StuckOK' /\ NetworkMeasured'
    BY <1>1, <1>4, <2>1 DEF ReaderOK, StuckOK, NetworkMeasured
  <2>3. ASSUME tampers = 0, statement' > 5, measured.by_status["refunded"] > 0
        PROVE  report' # {}
    <3>1. RunStatement /\ statement' = statement + 1 /\ statement \in 1..6
      BY <2>1, <2>3 DEF StartInspect, RunStatement
    <3>2. report' = report \union Rowset(statement)
      BY <3>1 DEF RunStatement
    <3>3. CASE statement = 5
      <4>1. IInv /\ With("refunded") # {}
        BY <1>1, <2>3 DEF ReconInv, TablesOK, BooksMeasured
      <4>2. StatusMismatches # {}
        BY <4>1, RefundIsMismatch
      <4>. QED  BY <3>2, <3>3, <4>2 DEF Rowset
    <3>4. CASE statement = 6
      BY <2>3, <3>2, <3>4 DEF BooksMeasured
    <3>. QED  BY <2>3, <3>1, <3>3, <3>4
  <2>4. BooksMeasured'
    <3>1. tampers' = tampers /\ StepsCounted' = StepsCounted
      BY <1>2, <2>1 DEF StepsCounted
    <3>. QED  BY <1>1, <1>4, <2>1, <2>3, <3>1 DEF BooksMeasured
  <2>. QED  BY <1>3, <1>4, <2>2, <2>4
<1>6. CASE ReturnSnapshot
  <2>1. /\ section' = 0 /\ statement' = 0 /\ measured' = NothingMeasured /\ stuck' = {}
    BY <1>6 DEF ReturnSnapshot, ReturnReport
  <2>2. measured' \in Measurements
    BY <2>1 DEF NothingMeasured, Measurements
  <2>3. ReaderOK' /\ BooksMeasured' /\ StuckOK' /\ NetworkMeasured'
    BY <2>1, <2>2 DEF ReaderOK, BooksMeasured, StuckOK, NetworkMeasured
  <2>. QED  BY <1>3, <1>4, <2>3
<1>. QED  BY <1>5, <1>6

LEMMA SnapshotInitInv == SnapshotInit => SnapshotInv
<1>. SUFFICES ASSUME SnapshotInit PROVE SnapshotInv
  OBVIOUS
<1>1. /\ ReconInit /\ published = {} /\ exhausted = {} /\ stuck = {} /\ observed = {}
      /\ section = 0 /\ measured = NothingMeasured
  BY DEF SnapshotInit
<1>2. ReconInv
  BY <1>1, ReconInitInv
<1>3. /\ status = [p \in Payments |-> None] /\ operations = [k \in Keys |-> None]
      /\ events = {} /\ pc = [s \in Sessions |-> "idle"] /\ statement = 0
  BY <1>1 DEF ReconInit, Init
<1>4. Existing = {} /\ Stored = {}
  BY <1>3 DEF Existing, Stored
<1>5. \A st \in Statuses : With(st) = {}
  BY <1>3, NoneAssumption DEF With
<1>6. With("captured") = {} /\ With("reversed") = {} /\ With("refunded") = {}
  BY <1>5 DEF Statuses
<1>7. CountsAgree
  BY <1>4, <1>6, FS_EmptySet DEF CountsAgree
<1>8. FiniteTables /\ ObservationsOK
  BY <1>1, <1>3, <1>4, FS_EmptySet DEF FiniteTables, ObservationsOK
<1>9. measured \in Measurements
  BY <1>1 DEF NothingMeasured, Measurements
<1>10. AllIdle /\ ReaderOK /\ BooksMeasured /\ StuckOK /\ NetworkMeasured
  BY <1>1, <1>3, <1>9 DEF AllIdle, ReaderOK, BooksMeasured, StuckOK, NetworkMeasured
<1>. QED  BY <1>2, <1>7, <1>8, <1>10 DEF SnapshotInv

LEMMA SnapshotStep == SnapshotInv /\ [SnapshotNext]_<<allVars, snapshotVars>> => SnapshotInv'
<1>. SUFFICES ASSUME SnapshotInv, [SnapshotNext]_<<allVars, snapshotVars>> PROVE SnapshotInv'
  OBVIOUS
<1>1. CASE UNCHANGED <<allVars, snapshotVars>>
  <2>1. UNCHANGED allVars /\ UNCHANGED <<outboxVars, observed, section, measured, stuck>>
    BY <1>1 DEF snapshotVars
  <2>2. UNCHANGED vars /\ UNCHANGED <<statement, report, tampers, standing>>
    BY <2>1 DEF allVars, reconVars
  <2>3. ReconInv'
    BY <2>1, ReconStep DEF SnapshotInv
  <2>4. UNCHANGED <<vars, tampers, outboxVars, observed>>
    BY <2>1, <2>2
  <2>5. /\ AllIdle' /\ FiniteTables' /\ (tampers' = 0 => CountsAgree') /\ ObservationsOK'
        /\ Stored' = Stored /\ published' = published /\ Poison' = Poison
        /\ With("refunded")' = With("refunded")
        /\ WithDisposition("late")' = WithDisposition("late")
        /\ WithDisposition("timed_out")' = WithDisposition("timed_out")
    BY <2>4, ReaderReads
  <2>6. ReaderOK' /\ StuckOK' /\ NetworkMeasured'
    BY <2>1, <2>2, <2>5 DEF SnapshotInv, ReaderOK, StuckOK, NetworkMeasured
  <2>7. BooksMeasured'
    BY <2>1, <2>2, <2>5 DEF SnapshotInv, BooksMeasured, StepsCounted
  <2>. QED  BY <2>3, <2>5, <2>6, <2>7 DEF SnapshotInv
<1>. QED
  BY <1>1, StartReadKeeps, RunSectionKeeps, SnapshotInspect, OthersKeep DEF SnapshotNext

LEMMA SnapshotInvariance == SnapshotSpec => []SnapshotInv
BY SnapshotInitInv, SnapshotStep, PTL DEF SnapshotSpec

-----------------------------------------------------------------------------
(* Lasting trouble: the inductive invariant *)

\* What ties an operation to its payment and its event, whatever is edited by
\* hand: rows are deleted but never given another identifier, and a deleted
\* identifier is not drawn again.
RowsLinked ==
  /\ \A w \in Stored :
       /\ w.to = To[w.fingerprint.operation]
       /\ status[w.fingerprint.payment] # None
  /\ \A e \in events : \E j \in journals : j.id = e.id
  /\ \A e \in events, w \in Stored : e.id = w.id => e = EventOf(w)

\* The statement that looks for a kind of trouble
StatementOf ==
  [operation_without_outbox |-> 3, outbox_without_operation |-> 4,
   payment_status_mismatch |-> 5]

\* Trouble that has lasted since the inspection began is still there, and is in
\* the report unless the statement that looks for it is yet to run.
StandingOK ==
  /\ statement = 0 => standing = {}
  /\ \A d \in standing :
       d.kind # "journal_unbalanced" =>
         /\ d \in RowTroubles
         /\ d \in report \/ statement <= StatementOf[d.kind]

LastingInv == RowsLinked /\ StandingOK

LEMMA TroubleKinds ==
  /\ \A d \in RowTroubles : d.kind \in {"operation_without_outbox",
                                         "outbox_without_operation",
                                         "payment_status_mismatch"}
  /\ \A d \in Troubles : d.kind # "journal_unbalanced" => d \in RowTroubles
  /\ RowTroubles \subseteq Troubles
BY DEF RowTroubles, Troubles, Discrepancy

\* The third, fourth and fifth statement find the trouble with the rows.
LEMMA TroubleIsFound ==
  ASSUME RowsLinked, TypeOK, NEW d \in RowTroubles
  PROVE  d \in Rowset(StatementOf[d.kind])
<1>1. ASSUME NEW w \in Stored, EventOf(w) \notin events
      PROVE  \A e \in events : e.id # w.id
  BY <1>1 DEF RowsLinked
<1>2. ASSUME NEW e \in events, \A w \in Stored : EventOf(w) # e
      PROVE  \A w \in Stored : w.id # e.id
  BY <1>2 DEF RowsLinked
<1>3. ASSUME NEW w \in Stored,
             w.fingerprint.operation \notin JournalsFor(status[w.fingerprint.payment])
      PROVE  status[w.fingerprint.payment] \notin {None, w.to}
  <2>1. w \in Rows
    BY DEF TypeOK, Stored
  <2>2. w.fingerprint.operation \in Operations
    BY <2>1 DEF Rows, Fingerprints
  <2>. QED  BY <1>3, <2>2 DEF RowsLinked, JournalsFor
<1>4. CASE d \in {Discrepancy("operation_without_outbox", w.id) :
                    w \in {x \in Stored : EventOf(x) \notin events}}
  <2>1. PICK w \in Stored : EventOf(w) \notin events
                            /\ d = Discrepancy("operation_without_outbox", w.id)
    BY <1>4
  <2>2. d \in OperationsWithoutOutbox
    BY <1>1, <2>1 DEF OperationsWithoutOutbox
  <2>3. d.kind = "operation_without_outbox"
    BY <2>1 DEF Discrepancy
  <2>. QED  BY <2>2, <2>3 DEF Rowset, StatementOf
<1>5. CASE d \in {Discrepancy("outbox_without_operation", e.id) :
                    e \in {x \in events : \A w \in Stored : EventOf(w) # x}}
  <2>1. PICK e \in events : (\A w \in Stored : EventOf(w) # e)
                            /\ d = Discrepancy("outbox_without_operation", e.id)
    BY <1>5
  <2>2. d \in OutboxWithoutOperation
    BY <1>2, <2>1 DEF OutboxWithoutOperation
  <2>3. d.kind = "outbox_without_operation"
    BY <2>1 DEF Discrepancy
  <2>. QED  BY <2>2, <2>3 DEF Rowset, StatementOf
<1>6. CASE d \in {Discrepancy("payment_status_mismatch", w.id) :
                    w \in {x \in Stored :
                             x.fingerprint.operation \notin
                               JournalsFor(status[x.fingerprint.payment])}}
  <2>1. PICK w \in Stored :
          /\ w.fingerprint.operation \notin JournalsFor(status[w.fingerprint.payment])
          /\ d = Discrepancy("payment_status_mismatch", w.id)
    BY <1>6
  <2>2. d \in StatusMismatches
    BY <1>3, <2>1 DEF StatusMismatches
  <2>3. d.kind = "payment_status_mismatch"
    BY <2>1 DEF Discrepancy
  <2>. QED  BY <2>2, <2>3 DEF Rowset, StatementOf
<1>. QED  BY <1>4, <1>5, <1>6, Zenon DEF RowTroubles

\* The links and the trouble depend on the rows alone.
LEMMA SameRows ==
  ASSUME UNCHANGED vars
  PROVE  RowTroubles' = RowTroubles /\ (RowsLinked => RowsLinked')
<1>1. status' = status /\ operations' = operations /\ journals' = journals /\ events' = events
  BY DEF vars, tables
<1>2. Stored' = Stored
  BY <1>1 DEF Stored
<1>3. RowTroubles' = RowTroubles
  BY <1>1, <1>2 DEF RowTroubles
<1>. QED  BY <1>1, <1>2, <1>3 DEF RowsLinked

LEMMA LastingInspect ==
  ASSUME LastingInv, ReconInv, UNCHANGED vars,
         \/ StartInspect \/ RunStatement \/ ReturnReport
         \/ UNCHANGED <<statement, report, standing>>
  PROVE  LastingInv'
<1>. USE DEF LastingInv
<1>1. RowTroubles' = RowTroubles /\ RowsLinked'
  BY SameRows
<1>2. \A d \in RowTroubles : StatementOf[d.kind] \in 1..6
  BY TroubleKinds DEF StatementOf
<1>3. CASE StartInspect
  <2>1. statement' = 1 /\ standing' = Troubles
    BY <1>3 DEF StartInspect
  <2>2. ASSUME NEW d \in standing', d.kind # "journal_unbalanced"
        PROVE  d \in RowTroubles /\ statement' <= StatementOf[d.kind]
    <3>1. d \in RowTroubles
      BY <2>1, <2>2, TroubleKinds
    <3>. QED  BY <1>2, <2>1, <3>1
  <2>. QED  BY <1>1, <2>1, <2>2 DEF StandingOK
<1>4. CASE RunStatement
  <2>1. /\ statement \in 1..6 /\ statement' = statement + 1 /\ standing' = standing
        /\ report' = report \union Rowset(statement)
    BY <1>4 DEF RunStatement
  <2>2. ASSUME NEW d \in standing', d.kind # "journal_unbalanced"
        PROVE  d \in RowTroubles /\ (d \in report' \/ statement' <= StatementOf[d.kind])
    <3>1. d \in RowTroubles /\ (d \in report \/ statement <= StatementOf[d.kind])
      BY <2>1, <2>2 DEF StandingOK
    <3>2. d \in Rowset(StatementOf[d.kind])
      BY <3>1, TroubleIsFound DEF ReconInv, TablesOK, TypeInv
    <3>3. CASE statement = StatementOf[d.kind]
      BY <2>1, <3>1, <3>2, <3>3
    <3>4. CASE statement # StatementOf[d.kind]
      BY <1>2, <2>1, <3>1, <3>4
    <3>. QED  BY <3>3, <3>4
  <2>. QED  BY <1>1, <2>1, <2>2 DEF StandingOK
<1>5. CASE ReturnReport
  BY <1>1, <1>5 DEF ReturnReport, StandingOK
<1>6. CASE UNCHANGED <<statement, report, standing>>
  BY <1>1, <1>6 DEF StandingOK
<1>. QED  BY <1>3, <1>4, <1>5, <1>6

\* Trouble stands as long as every change leaves it.
LEMMA LastingMeanwhile ==
  ASSUME LastingInv, RowsLinked', Meanwhile, UNCHANGED <<statement, report>>
  PROVE  LastingInv'
<1>1. \A d \in Troubles' : d.kind # "journal_unbalanced" => d \in RowTroubles'
  BY DEF RowTroubles, Troubles, Discrepancy
<1>. QED  BY <1>1 DEF LastingInv, StandingOK, Meanwhile

LEMMA OperationLinks == ASSUME RowsLinked, TypeOK, Operation PROVE RowsLinked'
<1>1. CASE \E p \in Payments : CreatePayment(p) \/ Authorize(p)
  <2>1. PICK p \in Payments : CreatePayment(p) \/ Authorize(p)
    BY <1>1
  <2>2. UNCHANGED <<operations, journals, events>>
    BY <2>1 DEF CreatePayment, Authorize
  <2>3. Stored' = Stored
    BY <2>2 DEF Stored
  <2>4. PICK st : st \in Statuses /\ status' = [status EXCEPT ![p] = st]
    BY <2>1 DEF CreatePayment, Authorize, Statuses
  <2>5. \A q : status[q] # None => status'[q] # None
    <3>1. \A q \in Payments : status[q] # None => status'[q] # None
      BY <2>4, NoneAssumption DEF TypeOK
    <3>2. \A w \in Stored : w.fingerprint.payment \in Payments
      BY DEF TypeOK, Stored, Rows, Fingerprints
    <3>. QED  BY <2>4, <3>1 DEF TypeOK
  <2>. QED  BY <2>2, <2>3, <2>5 DEF RowsLinked
<1>2. CASE \E r \in Requests, id \in Ids : Execute(r, id)
  <2>1. PICK r \in Requests, id \in Ids : Execute(r, id)
    BY <1>2
  <2>. DEFINE w == RowOf(r, id)
  <2>2. /\ operations[r.key] = None /\ Fresh(id)
        /\ status' = [status EXCEPT ![r.payment] = w.to]
        /\ operations' = [operations EXCEPT ![r.key] = w]
        /\ journals' = journals \union {JournalOf(w)}
        /\ events' = events \union {EventOf(w)}
    BY <2>1 DEF Execute, RowOf
  <2>3. /\ r.key \in Keys /\ r.payment \in Payments /\ w.id = id
        /\ w.fingerprint.payment = r.payment /\ w.fingerprint.operation = r.operation
        /\ w.to = To[w.fingerprint.operation] /\ w \in Rows
    BY RowOfCall
  <2>. HIDE DEF w
  <2>4. Stored' \subseteq Stored \union {w}
    BY <2>2, <2>3 DEF Stored, TypeOK
  <2>5. \A q \in Payments : status[q] # None => status'[q] # None
    BY <2>2, <2>3, NoneAssumption DEF TypeOK, Rows
  <2>6. \A v \in Stored : v.id # id /\ v.fingerprint.payment \in Payments
    BY <2>2 DEF Fresh, Stored, TypeOK, Rows, Fingerprints
  <2>7. \A e \in events : e.id # id
    BY <2>2 DEF Fresh, RowsLinked
  <2>8. status'[r.payment] # None
    BY <2>2, <2>3, NoneAssumption DEF TypeOK, Rows
  <2>9. EventOf(w).id = id /\ JournalOf(w).id = id
    BY <2>3 DEF EventOf, JournalOf
  <2>10. \A v \in Stored' : v.to = To[v.fingerprint.operation]
                            /\ status'[v.fingerprint.payment] # None
    BY <2>3, <2>4, <2>5, <2>6, <2>8 DEF RowsLinked
  <2>11. \A e \in events' : \E j \in journals' : j.id = e.id
    BY <2>2, <2>9 DEF RowsLinked
  <2>12. \A e \in events', v \in Stored' : e.id = v.id => e = EventOf(v)
    BY <2>2, <2>3, <2>4, <2>6, <2>7, <2>9 DEF RowsLinked
  <2>. QED  BY <2>10, <2>11, <2>12 DEF RowsLinked, EventOf
<1>. QED  BY <1>1, <1>2 DEF Operation

LEMMA TamperLinks == ASSUME RowsLinked, TypeOK, Tamper PROVE RowsLinked'
<1>1. journals' = journals /\ events' \subseteq events
  BY DEF Tamper
<1>2. Stored' \subseteq Stored
  BY DEF Tamper, Stored, TypeOK
<1>3. \A q \in Payments : status[q] # None => status'[q] # None
  BY NoneAssumption DEF Tamper, TypeOK, Statuses
<1>4. \A w \in Stored : w.fingerprint.payment \in Payments
  BY DEF TypeOK, Stored, Rows, Fingerprints
<1>5. \A w \in Stored' : w.to = To[w.fingerprint.operation]
                         /\ status'[w.fingerprint.payment] # None
  BY <1>2, <1>3, <1>4 DEF RowsLinked
<1>6. \A e \in events', w \in Stored' : e.id = w.id => e = EventOf(w)
  BY <1>1, <1>2 DEF RowsLinked
<1>. QED  BY <1>1, <1>5, <1>6 DEF RowsLinked, EventOf

LEMMA LastingInit == SnapshotInit => LastingInv
BY DEF SnapshotInit, ReconInit, Init, LastingInv, RowsLinked, StandingOK, Stored

LEMMA LastingStep ==
  SnapshotInv /\ LastingInv /\ [SnapshotNext]_<<allVars, snapshotVars>> => LastingInv'
<1>. SUFFICES ASSUME SnapshotInv, LastingInv, [SnapshotNext]_<<allVars, snapshotVars>>
              PROVE  LastingInv'
  OBVIOUS
<1>1. ReconInv /\ TypeOK
  BY DEF SnapshotInv, ReconInv, TablesOK, TypeInv
<1>2. CASE UNCHANGED allVars
  <2>1. UNCHANGED vars /\ UNCHANGED <<statement, report, standing>>
    BY <1>2 DEF allVars, reconVars
  <2>. QED  BY <1>1, <2>1, LastingInspect
<1>3. CASE Inspect \/ ReturnSnapshot
  <2>1. StartInspect \/ RunStatement \/ ReturnReport
    BY <1>3 DEF Inspect, ReturnSnapshot
  <2>2. UNCHANGED vars
    BY <2>1 DEF StartInspect, RunStatement, ReturnReport
  <2>. QED  BY <1>1, <2>1, <2>2, LastingInspect
<1>4. CASE Change
  <2>1. Operation \/ Tamper
    BY <1>4 DEF Change
  <2>2. Meanwhile /\ UNCHANGED <<statement, report>>
    BY <2>1 DEF Operation, Tamper
  <2>3. RowsLinked'
    BY <1>1, <2>1, OperationLinks, TamperLinks DEF LastingInv
  <2>. QED  BY <2>2, <2>3, LastingMeanwhile
<1>5. UNCHANGED <<allVars, snapshotVars>> => UNCHANGED allVars
  OBVIOUS
<1>. QED
  BY <1>2, <1>3, <1>4, <1>5
     DEF SnapshotNext, StartRead, RunSection, Others, PublishEvent, ExhaustEvent,
         ResetPoison, RecordObservation

LEMMA LastingInvariance == SnapshotSpec => [](SnapshotInv /\ LastingInv)
BY SnapshotInvariance, LastingInit, LastingStep, PTL DEF SnapshotSpec

-----------------------------------------------------------------------------
(* What a snapshot says *)

\* The inspection inside a snapshot, too, names superseded captures only.
THEOREM NoFalseAlarmsInSnapshots == SnapshotSpec => []OnlySupersededReported
<1>1. SnapshotInv => OnlySupersededReported
  BY DEF SnapshotInv, ReconInv
<1>. QED  BY <1>1, SnapshotInvariance, PTL

\* A snapshot called healthy is settled: every operation it counts has its
\* event published, every step of its payments its operation, and no payment of
\* it is refunded, although its sections belong to different moments.
THEOREM HealthyMeansSettled == SnapshotSpec => []HealthyIsSettled
<1>1. SnapshotInv => HealthyIsSettled
  <2>. SUFFICES ASSUME SnapshotInv, statement = 7, Health = "healthy", tampers = 0
                PROVE  /\ measured.operations <= Cardinality(published)
                       /\ measured.by_status["captured"] + measured.by_status["reversed"]
                            <= measured.operations
                       /\ measured.by_status["refunded"] = 0
    BY DEF HealthyIsSettled, Returning
  <2>1. section = 7
    BY DEF SnapshotInv, ReaderOK
  <2>2. /\ measured.unpublished \in Nat /\ measured.poison \in Nat
        /\ measured.by_status["captured"] \in Nat /\ measured.by_status["reversed"] \in Nat
        /\ measured.by_status["refunded"] \in Nat
    BY DEF SnapshotInv, ReaderOK, Measurements, Statuses
  <2>3. report = {} /\ measured.unpublished = 0
    BY <2>2 DEF Health
  <2>4. measured.by_status["refunded"] = 0
    BY <2>1, <2>2, <2>3 DEF SnapshotInv, BooksMeasured
  <2>. QED
    BY <2>1, <2>2, <2>3, <2>4 DEF SnapshotInv, BooksMeasured, StepsCounted
<1>. QED  BY <1>1, SnapshotInvariance, PTL

\* What stays wrong with the rows through an inspection, judged by what execute
\* writes and not by the statements, is in the report, and it or an event that
\* stays poison makes the snapshot critical.
THEOREM LastingRowTroubleIsFound == SnapshotSpec => []LastingRowTroubleIsReported
<1>1. SnapshotInv /\ LastingInv => LastingRowTroubleIsReported
  <2>. DEFINE lasting == {d \in standing : d.kind # "journal_unbalanced"}
  <2>. SUFFICES ASSUME SnapshotInv, LastingInv, statement = 7
                PROVE  /\ lasting \subseteq report
                       /\ lasting # {} \/ stuck # {} => Health = "critical"
    BY DEF LastingRowTroubleIsReported, Returning
  <2>1. section = 7
    BY DEF SnapshotInv, ReaderOK
  <2>2. ASSUME NEW d \in lasting PROVE d \in report
    <3>1. d \in RowTroubles /\ (d \in report \/ 7 <= StatementOf[d.kind])
      BY DEF LastingInv, StandingOK
    <3>2. StatementOf[d.kind] \in 3..5
      BY <3>1, TroubleKinds DEF StatementOf
    <3>. QED  BY <3>1, <3>2
  <2>3. stuck # {} => measured.poison > 0
    BY <2>1 DEF SnapshotInv, StuckOK
  <2>4. report # {} \/ measured.poison > 0 => Health = "critical"
    <3>1. measured.poison \in Nat
      BY DEF SnapshotInv, ReaderOK, Measurements
    <3>. QED  BY <3>1 DEF Health
  <2>. QED  BY <2>2, <2>3, <2>4
<1>. QED  BY <1>1, LastingInvariance, PTL

\* Whatever commits between two sections, the later one covers the earlier.
THEOREM SectionsCover == SnapshotSpec => []LaterSectionsCoverEarlier
<1>1. SnapshotInv => LaterSectionsCoverEarlier
  <2>. SUFFICES ASSUME SnapshotInv PROVE LaterSectionsCoverEarlier
    OBVIOUS
  <2>1. statement = 7 => section = 7
    BY DEF SnapshotInv, ReaderOK
  <2>2. /\ measured.operations \in Nat /\ measured.by_status["captured"] \in Nat
        /\ measured.by_status["reversed"] \in Nat /\ measured.by_status["refunded"] \in Nat
    BY <2>1 DEF SnapshotInv, ReaderOK, Measurements, Statuses
  <2>. QED
    BY <2>1, <2>2
       DEF SnapshotInv, BooksMeasured, StepsCounted, NetworkMeasured,
           LaterSectionsCoverEarlier, Returning
<1>. QED  BY <1>1, SnapshotInvariance, PTL
============================================================================
