------------------------- MODULE PaymentOperations -------------------------
(***************************************************************************)
(* PostgresPaymentOperations.execute (app/payment_operations.py): capture, *)
(* refund and reversal of a payment under an idempotency key, run by       *)
(* concurrent database sessions.                                           *)
(*                                                                         *)
(* PostgreSQL is modelled at READ COMMITTED, psycopg's default: a          *)
(* statement reads the rows committed when it starts, SELECT ... FOR       *)
(* UPDATE waits for the row's lock and then reads its newest version, the  *)
(* writes of a transaction become visible together when it commits, and    *)
(* its advisory and row locks go when it ends.  The six statements that    *)
(* write are therefore one step (Stage) whose effect appears in Commit.    *)
(*                                                                         *)
(* Data abstraction: one serial number stands for the operation, journal   *)
(* and event identifiers, which the code draws together from uuid4; the    *)
(* SHA-256 fingerprint is the tuple it hashes; an event is the operation   *)
(* and the status it announces.                                            *)
(***************************************************************************)
EXTENDS Integers

CONSTANTS
  Payments, Accounts, Keys, Sessions,
  Ids,              \* the identifiers uuid4 may draw
  Requests,         \* arguments the callers pass to execute
  Amount,           \* the amount of each payment
  PaymentCurrency,  \* the currency of each payment
  AccountCurrency,  \* the currency of each ledger account, None if absent
  LockIds, HashText,\* hashtext: 32-bit advisory lock numbers, collisions allowed
  None

Operations == {"capture", "refund", "reversal"}
Statuses == {"pending", "authorized", "captured", "refunded", "reversed"}

\* The arguments of execute that its fingerprint covers.
Fingerprints ==
  [payment : Payments, operation : Operations, source : Accounts, destination : Accounts]

RequestType ==
  [key : Keys, payment : Payments, operation : Operations,
   source : Accounts, destination : Accounts]

\* A row of payment_operations: its id, request_fingerprint, from_status and
\* to_status; the key indexes the table.
Rows == [id : Ids, fingerprint : Fingerprints, from : Statuses, to : Statuses]

ASSUME ConstantsAssumption ==
  /\ Requests \subseteq RequestType
  /\ Amount \in [Payments -> Nat \ {0}]
  /\ HashText \in [Keys -> LockIds]

ASSUME NoneAssumption ==
  /\ None \notin Sessions /\ None \notin Statuses
  /\ None \notin RequestType /\ None \notin Fingerprints /\ None \notin Rows

VARIABLES
  status,      \* payments.status, None while the payment does not exist
  operations,  \* payment_operations: the row of each idempotency key
  journals,    \* ledger_transactions
  entries,     \* ledger_entries
  events,      \* outbox_events
  keyLock,     \* holder of each advisory transaction lock
  rowLock,     \* holder of each payment's row lock
  pc,          \* where in execute each session is
  request,     \* the arguments of the session's call
  seen,        \* current_status: what the session read under the row lock
  row          \* the operation row the session wrote, or read for a replay

tables == <<status, operations, journals, entries, events>>
vars == <<tables, keyLock, rowLock, pc, request, seen, row>>

Places == {"idle", "waitKey", "keyed", "waitRow", "locked", "staged", "replay", "answer"}

TypeOK ==
  /\ status \in [Payments -> Statuses \union {None}]
  /\ operations \in [Keys -> Rows \union {None}]
  /\ journals \subseteq [id : Ids, payment : Payments, operation : Operations]
  /\ entries \subseteq [journal : Ids, account : Accounts, side : {"debit", "credit"},
                        amount : Nat]
  /\ events \subseteq [id : Ids, payment : Payments, announces : Statuses]
  /\ keyLock \in [LockIds -> Sessions \union {None}]
  /\ rowLock \in [Payments -> Sessions \union {None}]
  /\ pc \in [Sessions -> Places]
  /\ request \in [Sessions -> RequestType \union {None}]
  /\ seen \in [Sessions -> Statuses \union {None}]
  /\ row \in [Sessions -> Rows \union {None}]

Init ==
  /\ status = [p \in Payments |-> None]
  /\ operations = [k \in Keys |-> None]
  /\ journals = {} /\ entries = {} /\ events = {}
  /\ keyLock = [l \in LockIds |-> None]
  /\ rowLock = [p \in Payments |-> None]
  /\ pc = [s \in Sessions |-> "idle"]
  /\ request = [s \in Sessions |-> None]
  /\ seen = [s \in Sessions |-> None]
  /\ row = [s \in Sessions |-> None]

-----------------------------------------------------------------------------
(* Helpers *)

\* _TRANSITIONS: the status an operation requires, and the one it leads to.
From == [capture |-> "authorized", refund |-> "captured", reversal |-> "authorized"]
To == [capture |-> "captured", refund |-> "refunded", reversal |-> "reversed"]

Fingerprint(r) ==
  [payment |-> r.payment, operation |-> r.operation,
   source |-> r.source, destination |-> r.destination]

LockOf(s) == HashText[request[s].key]

BugKeyLockShared(s) == TRUE
KeyAvailable(s) == keyLock[LockOf(s)] = None

BugRowReadUnlocked(s) == TRUE
RowAvailable(s) == rowLock[request[s].payment] = None

BugFingerprintIgnored(existing, r) == TRUE
SameRequest(existing, r) == existing.fingerprint = Fingerprint(r)

\* ledger_entries(account_id, currency) REFERENCES ledger_accounts(id, currency)
AccountsAccept(r) ==
  \A a \in {r.source, r.destination} : AccountCurrency[a] = PaymentCurrency[r.payment]

BugTransitionUnchecked(s) == TRUE
TransitionAllowed(s) == seen[s] = From[request[s].operation]

\* uuid4 draws an identifier that is neither stored nor about to be.
Fresh(id) ==
  /\ \A k \in Keys : operations[k] # None => operations[k].id # id
  /\ \A j \in journals : j.id # id
  /\ \A t \in Sessions : row[t] # None => row[t].id # id

BugStoresOperationAsStatus(s, id) ==
  [id |-> id, fingerprint |-> Fingerprint(request[s]),
   from |-> seen[s], to |-> request[s].operation]
NewRow(s, id) ==
  [id |-> id, fingerprint |-> Fingerprint(request[s]),
   from |-> seen[s], to |-> To[request[s].operation]]

BugOneLeg(w) ==
  {[journal |-> w.id, account |-> w.fingerprint.source, side |-> "debit",
    amount |-> Amount[w.fingerprint.payment]]}
EntriesOf(w) ==
  {[journal |-> w.id, account |-> leg[1], side |-> leg[2],
    amount |-> Amount[w.fingerprint.payment]] :
     leg \in {<<w.fingerprint.source, "debit">>, <<w.fingerprint.destination, "credit">>}}

JournalOf(w) ==
  [id |-> w.id, payment |-> w.fingerprint.payment, operation |-> w.fingerprint.operation]

EventOf(w) ==
  [id |-> w.id, payment |-> w.fingerprint.payment, announces |-> w.to]

\* The end of a transaction, by commit or rollback, gives up its locks.
BugKeepsKeyLock(s) ==
  /\ keyLock' = keyLock
  /\ rowLock' = [p \in Payments |-> IF rowLock[p] = s THEN None ELSE rowLock[p]]
ReleaseLocks(s) ==
  /\ keyLock' = [l \in LockIds |-> IF keyLock[l] = s THEN None ELSE keyLock[l]]
  /\ rowLock' = [p \in Payments |-> IF rowLock[p] = s THEN None ELSE rowLock[p]]

Idle(s) ==
  /\ pc' = [pc EXCEPT ![s] = "idle"]
  /\ request' = [request EXCEPT ![s] = None]
  /\ seen' = [seen EXCEPT ![s] = None]
  /\ row' = [row EXCEPT ![s] = None]

\* An exception inside the with block, or a lost connection.
Rollback(s) == ReleaseLocks(s) /\ Idle(s) /\ UNCHANGED tables

Goto(s, place) == pc' = [pc EXCEPT ![s] = place]

-----------------------------------------------------------------------------
(* execute *)

\* The call, its two argument checks, and the connection.
Begin(s, r) ==
  /\ pc[s] = "idle"
  /\ r.source # r.destination
  /\ Goto(s, "waitKey")
  /\ request' = [request EXCEPT ![s] = r]
  /\ UNCHANGED <<tables, keyLock, rowLock, seen, row>>

\* SELECT pg_advisory_xact_lock(hashtext(key))
LockKey(s) ==
  /\ pc[s] = "waitKey"
  /\ KeyAvailable(s)
  /\ keyLock' = [keyLock EXCEPT ![LockOf(s)] = s]
  /\ Goto(s, "keyed")
  /\ UNCHANGED <<tables, rowLock, request, seen, row>>

\* SELECT ... FROM payment_operations WHERE idempotency_key = key: no row
KeyUnused(s) ==
  /\ pc[s] = "keyed"
  /\ operations[request[s].key] = None
  /\ Goto(s, "waitRow")
  /\ UNCHANGED <<tables, keyLock, rowLock, request, seen, row>>

\* ... a row with the same fingerprint: return it as a replay
FindReplay(s) ==
  /\ pc[s] = "keyed"
  /\ LET existing == operations[request[s].key]
     IN  /\ existing # None
         /\ SameRequest(existing, request[s])
         /\ row' = [row EXCEPT ![s] = existing]
  /\ Goto(s, "replay")
  /\ UNCHANGED <<tables, keyLock, rowLock, request, seen>>

\* ... a row with another fingerprint: OperationIdempotencyConflictError
KeyConflict(s) ==
  /\ pc[s] = "keyed"
  /\ LET existing == operations[request[s].key]
     IN  existing # None /\ ~SameRequest(existing, request[s])
  /\ Rollback(s)

\* SELECT ... FROM payments WHERE id = payment FOR UPDATE
LockRow(s) ==
  /\ pc[s] = "waitRow"
  /\ status[request[s].payment] # None
  /\ RowAvailable(s)
  /\ rowLock' = [rowLock EXCEPT ![request[s].payment] = s]
  /\ seen' = [seen EXCEPT ![s] = status[request[s].payment]]
  /\ Goto(s, "locked")
  /\ UNCHANGED <<tables, keyLock, request, row>>

\* PaymentOperationError: the payment does not exist
PaymentMissing(s) ==
  /\ pc[s] = "waitRow"
  /\ status[request[s].payment] = None
  /\ Rollback(s)

\* InvalidPaymentTransitionError, or a foreign key of ledger_entries fails
Refuse(s) ==
  /\ pc[s] = "locked"
  /\ ~(TransitionAllowed(s) /\ AccountsAccept(request[s]))
  /\ Rollback(s)

\* The six writes, not yet visible to the other sessions
Stage(s, id) ==
  /\ pc[s] = "locked"
  /\ TransitionAllowed(s)
  /\ AccountsAccept(request[s])
  /\ Fresh(id)
  /\ row' = [row EXCEPT ![s] = NewRow(s, id)]
  /\ Goto(s, "staged")
  /\ UNCHANGED <<tables, keyLock, rowLock, request, seen>>

\* The with block ends: the transaction commits.  UNIQUE (idempotency_key)
\* holds back a second row of the key; its transaction can only be rolled back.
Commit(s) ==
  /\ pc[s] = "staged"
  /\ operations[request[s].key] = None
  /\ status' = [status EXCEPT ![request[s].payment] = row[s].to]
  /\ operations' = [operations EXCEPT ![request[s].key] = row[s]]
  /\ journals' = journals \union {JournalOf(row[s])}
  /\ entries' = entries \union EntriesOf(row[s])
  /\ events' = events \union {EventOf(row[s])}
  /\ ReleaseLocks(s)
  /\ Goto(s, "answer")
  /\ UNCHANGED <<request, seen, row>>

\* A replay leaves the with block too, having written nothing
CommitReplay(s) ==
  /\ pc[s] = "replay"
  /\ ReleaseLocks(s)
  /\ Goto(s, "answer")
  /\ UNCHANGED <<tables, request, seen, row>>

\* execute returns its OperationResult
Answer(s) ==
  /\ pc[s] = "answer"
  /\ Idle(s)
  /\ UNCHANGED <<tables, keyLock, rowLock>>

\* The process or its connection dies: PostgreSQL rolls the transaction back;
\* after the commit only the answer is lost.
Crash(s) == pc[s] # "idle" /\ Rollback(s)

-----------------------------------------------------------------------------
(* The rest of the program, as far as payments.status is concerned *)

\* create_payment inserts a pending payment (see PaymentRepository)
CreatePayment(p) ==
  /\ status[p] = None
  /\ status' = [status EXCEPT ![p] = "pending"]
  /\ UNCHANGED <<operations, journals, entries, events, keyLock, rowLock,
                 pc, request, seen, row>>

\* No code in the repository authorizes a payment; an UPDATE from outside
\* does, and an UPDATE waits for the row lock.
Authorize(p) ==
  /\ status[p] = "pending"
  /\ rowLock[p] = None
  /\ status' = [status EXCEPT ![p] = "authorized"]
  /\ UNCHANGED <<operations, journals, entries, events, keyLock, rowLock,
                 pc, request, seen, row>>

-----------------------------------------------------------------------------

Proceed(s) ==
  \/ KeyUnused(s) \/ FindReplay(s) \/ KeyConflict(s)
  \/ PaymentMissing(s) \/ Refuse(s) \/ \E id \in Ids : Stage(s, id)
  \/ Commit(s) \/ CommitReplay(s) \/ Answer(s)

Next ==
  \/ \E s \in Sessions :
       \/ \E r \in Requests : Begin(s, r)
       \/ LockKey(s) \/ LockRow(s) \/ Proceed(s) \/ Crash(s)
  \/ \E p \in Payments : CreatePayment(p) \/ Authorize(p)

Spec == Init /\ [][Next]_vars

\* A session keeps running until its call ends or its process dies, and
\* PostgreSQL grants a lock to its waiters in the order of their queue.
Fairness ==
  \A s \in Sessions :
    WF_vars(Proceed(s)) /\ SF_vars(LockKey(s)) /\ SF_vars(LockRow(s))

FairSpec == Spec /\ Fairness

-----------------------------------------------------------------------------
(* Properties *)

\* The journals a payment must have, given its status: that of the operation
\* that led to it, and under a refund that of the capture.
JournalsFor(st) ==
  {op \in Operations : To[op] = st \/ (op = "capture" /\ st = "refunded")}

\* The operations whose journals a payment has.
Posted(p) == {j.operation : j \in {i \in journals : i.payment = p}}

\* A payment's status and its journals tell the same story: money moved once
\* for each transition on the way to the status and for nothing else, so two
\* sessions never both capture, refund or reverse it, nor capture and reverse.
LedgerAgreesWithStatus ==
  \A p \in Payments :
    /\ Posted(p) = JournalsFor(status[p])
    /\ \A i, j \in journals :
         i.payment = p /\ j.payment = p /\ i.operation = j.operation => i = j

\* The rows of payment_operations.
Stored == {operations[k] : k \in {x \in Keys : operations[x] # None}}

\* The four tables an operation writes agree row by row: every operation has
\* its journal, a debit and a credit of one amount on two accounts, and an event
\* that announces its status; nothing is stored without its operation.
RecordsAgree ==
  /\ journals = {JournalOf(w) : w \in Stored}
  /\ entries = UNION {EntriesOf(w) : w \in Stored}
  /\ events = {EventOf(w) : w \in Stored}
  /\ \A w \in Stored :
       /\ w.from = From[w.fingerprint.operation]
       /\ w.to = To[w.fingerprint.operation]
       /\ \E debit, credit \in EntriesOf(w) :
            /\ debit.side = "debit" /\ credit.side = "credit"
            /\ debit.account # credit.account
            /\ debit.amount = credit.amount

\* No two operations share an identifier, so a journal, an event or an answer
\* names one operation.
IdentifiersUnique ==
  \A j, k \in Keys :
    operations[j] # None /\ operations[k] # None /\ operations[j].id = operations[k].id
      => j = k

\* Whatever execute returns, first answer or replay, is the committed row of
\* the caller's key and was made by a call with the caller's arguments.
AnswersAreDurable ==
  \A s \in Sessions :
    pc[s] = "answer" =>
      /\ row[s] = operations[request[s].key]
      /\ row[s].fingerprint = Fingerprint(request[s])

\* The advisory lock alone serialises the calls that share a key: UNIQUE
\* (idempotency_key) is never what stops the second one.
UniqueConstraintNeverFires ==
  \A s \in Sessions : pc[s] = "staged" => operations[request[s].key] = None

\* The answer a caller was given stays the answer: an operation's row is never
\* changed or removed.
OperationsImmutable ==
  [][\A k \in Keys : operations[k] # None => operations'[k] = operations[k]]_vars

\* A call ends, by an answer, an error or its process's death: the advisory
\* lock taken before the row lock gives no deadlock and no lock is left behind.
EveryCallEnds ==
  \A s \in Sessions : pc[s] # "idle" ~> pc[s] = "idle"

\* The abstract specification, with each key spent on its row's fingerprint.
Moved == [p \in Payments |-> Posted(p)]
Spent == [k \in Keys |->
            IF operations[k] = None THEN None ELSE operations[k].fingerprint]

Lifecycle == INSTANCE PaymentLifecycle WITH moved <- Moved, spent <- Spent

\* Every step of every session is one legal, once-only step of the payment's
\* life or changes nothing the outside can see.
ImplementsLifecycle == Lifecycle!Spec
=============================================================================
