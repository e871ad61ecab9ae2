--------------------------- MODULE Reconciliation ---------------------------
(***************************************************************************)
(* PostgresReconciler.inspect (app/reconciliation.py) over the tables that *)
(* PaymentOperations writes.  inspect runs six SELECT statements in one    *)
(* READ COMMITTED transaction, so each reads a snapshot of its own while   *)
(* operations go on committing in between.                                 *)
(*                                                                         *)
(* Tampering stands for the edits by hand that the report is there to      *)
(* find: the schema lets an outbox event or an operation row be deleted, a *)
(* status be overwritten and an entry be added to a posted journal, while  *)
(* its triggers and foreign keys keep journals and payments in place.      *)
(***************************************************************************)
EXTENDS PaymentOperations, FiniteSetsExt

CONSTANT MaxTampers   \* bound on edits by hand

VARIABLES
  statement,  \* the SELECT that inspect runs next, 0 when it is not running
  report,     \* the discrepancies collected so far
  tampers,    \* how many edits by hand were made
  standing    \* history: troubles present at every moment of the inspection

reconVars == <<statement, report, tampers, standing>>
allVars == <<vars, reconVars>>

Kinds ==
  {"operation_without_payment", "operation_without_journal", "operation_without_outbox",
   "outbox_without_operation", "payment_status_mismatch",
   "journal_entry_count_invalid", "journal_unbalanced"}

Discrepancy(kind, id) == [kind |-> kind, entity |-> id]

-----------------------------------------------------------------------------
(* The six statements, each evaluated on one snapshot of the tables *)

OperationsWithoutPayment ==
  {Discrepancy("operation_without_payment", w.id) :
     w \in {x \in Stored : status[x.fingerprint.payment] = None}}

OperationsWithoutJournal ==
  {Discrepancy("operation_without_journal", w.id) :
     w \in {x \in Stored : \A j \in journals : j.id # x.id}}

OperationsWithoutOutbox ==
  {Discrepancy("operation_without_outbox", w.id) :
     w \in {x \in Stored : \A e \in events :
              ~(e.payment = x.fingerprint.payment /\ e.id = x.id)}}

OutboxWithoutOperation ==
  {Discrepancy("outbox_without_operation", e.id) :
     e \in {x \in events : \A w \in Stored : w.id # x.id}}

BugComparesFromStatus ==
  {Discrepancy("payment_status_mismatch", w.id) :
     w \in {x \in Stored : status[x.fingerprint.payment] \notin {None, x.from}}}
StatusMismatches ==
  {Discrepancy("payment_status_mismatch", w.id) :
     w \in {x \in Stored : status[x.fingerprint.payment] \notin {None, x.to}}}

EntriesIn(j) == {e \in entries : e.journal = j.id}
Total(j, side) ==
  MapThenSumSet(LAMBDA e : e.amount, {e \in EntriesIn(j) : e.side = side})

BugCountsEntriesOnly ==
  {Discrepancy("journal_entry_count_invalid", j.id) :
     j \in {x \in journals : Cardinality(EntriesIn(x)) < 2}}
InvalidJournals ==
  {Discrepancy("journal_entry_count_invalid", j.id) :
     j \in {x \in journals : Cardinality(EntriesIn(x)) < 2}}
  \union
  {Discrepancy("journal_unbalanced", j.id) :
     j \in {x \in journals : Total(x, "debit") # Total(x, "credit")}}

Rowset(n) ==
  <<OperationsWithoutPayment, OperationsWithoutJournal, OperationsWithoutOutbox,
    OutboxWithoutOperation, StatusMismatches, InvalidJournals>>[n]

-----------------------------------------------------------------------------
(* What is wrong with the tables, told from what execute writes and from the  *)
(* payments' life, and not from the statements that look for it               *)

\* An operation without the event it published, an event no stored operation
\* published, and an operation the status of its payment denies.
RowTroubles ==
  {Discrepancy("operation_without_outbox", w.id) :
     w \in {x \in Stored : EventOf(x) \notin events}}
  \union
  {Discrepancy("outbox_without_operation", e.id) :
     e \in {x \in events : \A w \in Stored : EventOf(w) # x}}
  \union
  {Discrepancy("payment_status_mismatch", w.id) :
     w \in {x \in Stored :
              x.fingerprint.operation \notin JournalsFor(status[x.fingerprint.payment])}}

\* What a journal adds to all accounts together, nothing when it balances
Net(j) ==
  MapThenSumSet(LAMBDA e : IF e.side = "debit" THEN e.amount ELSE -e.amount,
                {e \in entries : e.journal = j.id})

Troubles ==
  RowTroubles
    \union {Discrepancy("journal_unbalanced", j.id) : j \in {x \in journals : Net(x) # 0}}

-----------------------------------------------------------------------------
(* Actions *)

StartInspect ==
  /\ statement = 0
  /\ statement' = 1
  /\ report' = {}
  /\ standing' = Troubles
  /\ UNCHANGED <<vars, tampers>>

RunStatement ==
  /\ statement \in 1..6
  /\ report' = report \union Rowset(statement)
  /\ statement' = statement + 1
  /\ UNCHANGED <<vars, tampers, standing>>

\* inspect returns its ReconciliationReport.
ReturnReport ==
  /\ statement = 7
  /\ statement' = 0
  /\ report' = {}
  /\ standing' = {}
  /\ UNCHANGED <<vars, tampers>>

\* The tables change while inspect is between two statements, or idle.
Meanwhile == standing' = standing \intersect Troubles'

Operate == Next /\ UNCHANGED <<statement, report, tampers>> /\ Meanwhile

Tamper ==
  /\ tampers < MaxTampers
  /\ tampers' = tampers + 1
  /\ \/ \E e \in events :
          /\ events' = events \ {e}
          /\ UNCHANGED <<status, operations, entries>>
     \/ \E k \in Keys :
          /\ operations[k] # None
          /\ operations' = [operations EXCEPT ![k] = None]
          /\ UNCHANGED <<status, entries, events>>
     \/ \E p \in Payments, st \in {"authorized", "captured"} :
          /\ status[p] \notin {None, st} /\ rowLock[p] = None
          /\ status' = [status EXCEPT ![p] = st]
          /\ UNCHANGED <<operations, entries, events>>
     \/ \E e \in entries :
          /\ entries' = entries \union {[e EXCEPT !.amount = @ + 1]}
          /\ UNCHANGED <<status, operations, events>>
  /\ UNCHANGED <<journals, keyLock, rowLock, pc, request, seen, row, statement, report>>
  /\ Meanwhile

ReconInit ==
  /\ Init
  /\ statement = 0 /\ report = {} /\ tampers = 0 /\ standing = {}

ReconNext == StartInspect \/ RunStatement \/ ReturnReport \/ Operate \/ Tamper

ReconSpec == ReconInit /\ [][ReconNext]_allVars

-----------------------------------------------------------------------------
(* Properties *)

\* w is a capture whose payment has since been refunded.
Superseded(w) ==
  /\ w.to = "captured"
  /\ \E v \in Stored : v.fingerprint.payment = w.fingerprint.payment /\ v.from = w.to

\* While nobody edits the tables by hand, an inspection that runs between the
\* commits of concurrent operations reports no orphan row and no bad journal,
\* although its statements see different snapshots: it names superseded
\* operations and nothing else.
OnlySupersededReported ==
  tampers = 0 =>
    \A d \in report :
      /\ d.kind = "payment_status_mismatch"
      /\ \E w \in Stored : w.id = d.entity /\ Superseded(w)

\* tests/test_reconciliation.py, test_clean_operation_has_no_reconciliation_
\* discrepancies: operations that ran through execute leave a clean report.
CleanOperationsAreClean == tampers = 0 => report = {}
=============================================================================
