-------------------------------- MODULE Ledger --------------------------------
(***************************************************************************)
(* PostgresLedger (app/ledger.py) on the schema of                         *)
(* migrations/002_double_entry_ledger.sql: accounts, and journals posted   *)
(* by concurrent sessions.  post checks its postings before it opens a     *)
(* transaction; an alternate writer is SQL that does not, and may also add *)
(* entries to a journal that is posted already.  What stops either is the  *)
(* schema: keys, CHECKs, foreign keys, and the deferred trigger that       *)
(* balances each inserted journal when its transaction commits.            *)
(*                                                                         *)
(* UPDATE and DELETE of journals and entries always raise, so no action    *)
(* stands for them.  The other writer of the ledger is PaymentOperations.  *)
(***************************************************************************)
EXTENDS Integers, FiniteSets, SequencesExt

CONSTANTS
  Journals, Accounts, Currencies, Sessions,
  Offers,      \* rows create_account is called with: account and currency
  Requests,    \* journals to post, or to add to
  MaxAppends,  \* bound on additions to posted journals
  None

Posting == [account : Accounts, side : {"debit", "credit"}, amount : Int]

ASSUME RequestsAssumption ==
  /\ \A r \in Requests :
       /\ r.journal \in Journals /\ r.currency \in Currencies
       /\ r.checked \in BOOLEAN
       /\ r.postings \in Seq(Posting) /\ r.postings # None
  /\ Offers \subseteq Accounts \X Currencies
  /\ IsFiniteSet(Sessions) /\ MaxAppends \in Nat
  /\ None \notin Currencies /\ None \notin Sessions /\ None \notin Requests

VARIABLES
  accounts,   \* ledger_accounts: the currency of each account
  journals,   \* ledger_transactions: the currency of each journal
  entries,    \* ledger_entries: the entries of each journal
  holder,     \* session whose uncommitted insert of the journal is pending
  draft,      \* the request of the session's transaction
  written,    \* the entries it has inserted
  pc,
  intent,     \* history: what the transaction that posted a journal was to write
  appended    \* history: how often each journal was added to afterwards

tables == <<accounts, journals, entries>>
history == <<intent, appended>>
vars == <<tables, holder, draft, written, pc, history>>

TypeOK ==
  /\ accounts \in [Accounts -> Currencies \union {None}]
  /\ journals \in [Journals -> Currencies \union {None}]
  /\ entries \in [Journals -> Seq(Posting)]
  /\ holder \in [Journals -> Sessions \union {None}]
  /\ draft \in [Sessions -> Requests \union {None}]
  /\ written \in [Sessions -> Seq(Posting)]
  /\ pc \in [Sessions -> {"idle", "journal", "entries", "append"}]
  /\ intent \in [Journals -> {None} \union Seq(Posting)]
  /\ appended \in [Journals -> 0..MaxAppends]

Init ==
  /\ accounts = [a \in Accounts |-> None]
  /\ journals = [j \in Journals |-> None]
  /\ entries = [j \in Journals |-> <<>>]
  /\ holder = [j \in Journals |-> None]
  /\ draft = [s \in Sessions |-> None]
  /\ written = [s \in Sessions |-> <<>>]
  /\ pc = [s \in Sessions |-> "idle"]
  /\ intent = [j \in Journals |-> None]
  /\ appended = [j \in Journals |-> 0]

-----------------------------------------------------------------------------
(* Helpers *)

Signed(e) == IF e.side = "debit" THEN e.amount ELSE -e.amount

Total(side, es) ==
  SumFunction([n \in DOMAIN es |-> IF es[n].side = side THEN es[n].amount ELSE 0])

\* _validate_postings
Validated(ps) ==
  /\ Len(ps) >= 2
  /\ \A n \in DOMAIN ps : ps[n].amount > 0
  /\ Total("debit", ps) = Total("credit", ps)

\* assert_ledger_transaction_balanced, on the entries the transaction sees
TriggerAccepts(es) ==
  /\ Len(es) >= 2
  /\ Total("debit", es) # 0 /\ Total("credit", es) # 0
  /\ Total("debit", es) = Total("credit", es)

\* CHECK (amount > 0) and the foreign keys, which cover the currency
BugAccountKeyWithoutCurrency(s, e) ==
  e.amount > 0 /\ accounts[e.account] # None
EntryAccepted(s, e) ==
  e.amount > 0 /\ accounts[e.account] = draft[s].currency

NextPosting(s) == draft[s].postings[Len(written[s]) + 1]
AllWritten(s) == Len(written[s]) = Len(draft[s].postings)

\* The end of a transaction.
Close(s) ==
  /\ holder' = [j \in Journals |-> IF holder[j] = s THEN None ELSE holder[j]]
  /\ draft' = [draft EXCEPT ![s] = None]
  /\ written' = [written EXCEPT ![s] = <<>>]
  /\ pc' = [pc EXCEPT ![s] = "idle"]

BugKeepsWritten(s) ==
  /\ entries' = [entries EXCEPT ![draft[s].journal] = @ \o written[s]]
  /\ Close(s)
  /\ UNCHANGED <<accounts, journals, history>>
Rollback(s) == Close(s) /\ UNCHANGED <<tables, history>>

-----------------------------------------------------------------------------
(* create_account *)

CreateAccount(a, c) ==
  /\ accounts[a] = None
  /\ accounts' = [accounts EXCEPT ![a] = c]
  /\ UNCHANGED <<journals, entries, holder, draft, written, pc, history>>

-----------------------------------------------------------------------------
(* post, and SQL that does the same without its checks *)

Post(s, r) ==
  /\ pc[s] = "idle"
  /\ r.checked => Validated(r.postings)
  /\ draft' = [draft EXCEPT ![s] = r]
  /\ pc' = [pc EXCEPT ![s] = "journal"]
  /\ UNCHANGED <<tables, holder, written, history>>

\* INSERT INTO ledger_transactions waits for another insert of the same id.
InsertJournal(s) ==
  LET j == draft[s].journal
  IN  /\ pc[s] = "journal"
      /\ holder[j] = None
      /\ IF journals[j] = None
         THEN /\ holder' = [holder EXCEPT ![j] = s]
              /\ pc' = [pc EXCEPT ![s] = "entries"]
              /\ UNCHANGED <<tables, draft, written, history>>
         ELSE Rollback(s)

\* SQL adds entries to a journal that is posted.
AddTo(s, r) ==
  /\ pc[s] = "idle"
  /\ ~r.checked
  /\ appended[r.journal] + Cardinality({t \in Sessions : pc[t] = "append"}) < MaxAppends
  /\ journals[r.journal] = r.currency
  /\ draft' = [draft EXCEPT ![s] = r]
  /\ pc' = [pc EXCEPT ![s] = "append"]
  /\ UNCHANGED <<tables, holder, written, history>>

InsertEntry(s) ==
  /\ pc[s] \in {"entries", "append"}
  /\ ~AllWritten(s)
  /\ EntryAccepted(s, NextPosting(s))
  /\ written' = [written EXCEPT ![s] = Append(@, NextPosting(s))]
  /\ UNCHANGED <<tables, holder, draft, pc, history>>

RefuseEntry(s) ==
  /\ pc[s] \in {"entries", "append"}
  /\ ~AllWritten(s)
  /\ ~EntryAccepted(s, NextPosting(s))
  /\ Rollback(s)

\* The trigger runs for the journals the transaction has inserted.
CommitPost(s) ==
  LET j == draft[s].journal
  IN  /\ pc[s] = "entries"
      /\ AllWritten(s)
      /\ TriggerAccepts(written[s])
      /\ journals' = [journals EXCEPT ![j] = draft[s].currency]
      /\ entries' = [entries EXCEPT ![j] = @ \o written[s]]
      /\ intent' = [intent EXCEPT ![j] = draft[s].postings]
      /\ Close(s)
      /\ UNCHANGED <<accounts, appended>>

RefuseCommit(s) ==
  /\ pc[s] = "entries"
  /\ AllWritten(s)
  /\ ~TriggerAccepts(written[s])
  /\ Rollback(s)

CommitAppend(s) ==
  LET j == draft[s].journal
  IN  /\ pc[s] = "append"
      /\ AllWritten(s)
      /\ entries' = [entries EXCEPT ![j] = @ \o written[s]]
      /\ appended' = [appended EXCEPT ![j] = @ + 1]
      /\ Close(s)
      /\ UNCHANGED <<accounts, journals, intent>>

\* The session's process or connection dies.
Crash(s) == pc[s] # "idle" /\ Rollback(s)

-----------------------------------------------------------------------------

Next ==
  \/ \E offer \in Offers : CreateAccount(offer[1], offer[2])
  \/ \E s \in Sessions :
       \/ \E r \in Requests : Post(s, r) \/ AddTo(s, r)
       \/ InsertJournal(s) \/ InsertEntry(s) \/ RefuseEntry(s)
       \/ CommitPost(s) \/ RefuseCommit(s) \/ CommitAppend(s) \/ Crash(s)

Spec == Init /\ [][Next]_vars

-----------------------------------------------------------------------------
(* Properties *)

\* account_balance, over the entries of some journals
AccountSum(a, es) ==
  SumFunction([n \in DOMAIN es |-> IF es[n].account = a THEN Signed(es[n]) ELSE 0])
Balance(a, js) == SumFunction([j \in js |-> AccountSum(a, entries[j])])

\* A journal and all its postings are committed together or not at all, whoever
\* writes them, and whichever posting is refused or writer dies half-way.
PostedWhole ==
  \A j \in Journals :
    IF journals[j] = None
    THEN entries[j] = <<>>
    ELSE intent[j] # None /\ IsPrefix(intent[j], entries[j])
           /\ (appended[j] = 0 => entries[j] = intent[j])

\* Debits and credits cancel in each currency over the accounts of that
\* currency, as long as nobody adds to posted journals: alternate writers
\* cannot get an unbalanced or a mixed-currency journal past the schema.
BalancesCancel ==
  \A c \in Currencies :
    LET untouched == {j \in Journals : journals[j] # None /\ appended[j] = 0}
        held == {a \in Accounts : accounts[a] = c}
    IN  SumFunction([a \in held |-> Balance(a, untouched)]) = 0
=============================================================================
