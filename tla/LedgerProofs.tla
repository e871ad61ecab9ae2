---------------------------- MODULE LedgerProofs ----------------------------
(***************************************************************************)
(* Theorems about Ledger, for every set of sessions, journals, accounts,   *)
(* currencies and requests, and every number of additions.                 *)
(***************************************************************************)
EXTENDS Ledger, FiniteSetTheorems, TLAPS

-----------------------------------------------------------------------------
(* The inductive invariant *)

Appenders(j) == {s \in Sessions : pc[s] = "append" /\ draft[s].journal = j}

\* What a session's place says of its transaction.  The foreign keys have
\* accepted every entry it has written.
SessionOK(s) ==
  /\ pc[s] \in {"idle", "journal"} => written[s] = <<>>
  /\ pc[s] # "idle" =>
       /\ draft[s] \in Requests
       /\ Len(written[s]) <= Len(draft[s].postings)
       /\ \A n \in 1..Len(written[s]) :
            written[s][n] = draft[s].postings[n] /\ EntryAccepted(s, written[s][n])
  /\ pc[s] = "entries" => holder[draft[s].journal] = s
  /\ pc[s] = "append" => journals[draft[s].journal] = draft[s].currency

\* A pending insert belongs to a session that is writing its entries, and no
\* such journal is posted.
HoldersOK ==
  \A j \in Journals : holder[j] # None =>
    pc[holder[j]] = "entries" /\ draft[holder[j]].journal = j /\ journals[j] = None

AppendsBounded ==
  \A j \in Journals : appended[j] + Cardinality(Appenders(j)) <= MaxAppends

\* What the schema promises of each journal, which BalancesCancel sums up: the
\* deferred trigger has accepted every posted journal that nobody has added to.
JournalsBalance ==
  \A j \in Journals :
    journals[j] # None /\ appended[j] = 0 => TriggerAccepts(entries[j])

\* Every entry, of whichever writer, is of a positive amount in an account of
\* its journal's currency.
EntriesInCurrency ==
  \A j \in Journals : \A n \in 1..Len(entries[j]) :
    /\ entries[j][n].amount > 0
    /\ journals[j] # None /\ accounts[entries[j][n].account] = journals[j]

IInv ==
  /\ TypeOK /\ \A s \in Sessions : SessionOK(s)
  /\ HoldersOK /\ AppendsBounded
  /\ PostedWhole /\ JournalsBalance /\ EntriesInCurrency

-----------------------------------------------------------------------------
(* Facts that several steps need *)

LEMMA InitInvariant == Init => IInv
<1>. SUFFICES ASSUME Init PROVE IInv
  OBVIOUS
<1>1. TypeOK
  BY RequestsAssumption DEF Init, TypeOK
<1>2. (\A s \in Sessions : SessionOK(s)) /\ HoldersOK
  BY DEF Init, SessionOK, HoldersOK
<1>3. AppendsBounded
  <2>1. ASSUME NEW j \in Journals PROVE Appenders(j) = {} /\ appended[j] = 0
    BY DEF Init, Appenders
  <2>2. MaxAppends \in Nat
    BY RequestsAssumption
  <2>3. Cardinality({}) = 0
    BY FS_EmptySet
  <2>4. ASSUME NEW j \in Journals
        PROVE  appended[j] + Cardinality(Appenders(j)) <= MaxAppends
    <3>1. appended[j] = 0 /\ Cardinality(Appenders(j)) = 0
      BY <2>1, <2>3, Zenon
    <3>. QED BY <2>2, <3>1
  <2>. QED BY <2>4 DEF AppendsBounded
<1>4. PostedWhole /\ JournalsBalance /\ EntriesInCurrency
  BY DEF Init, PostedWhole, JournalsBalance, EntriesInCurrency
<1>. QED BY <1>1, <1>2, <1>3, <1>4 DEF IInv

LEMMA RequestTypes ==
  ASSUME NEW r \in Requests
  PROVE  /\ r.journal \in Journals /\ r.currency \in Currencies /\ r.currency # None
         /\ r.postings \in Seq(Posting) /\ r.postings # None
BY RequestsAssumption

\* A posting list is a prefix of itself, with whatever is added to it.
LEMMA PrefixKept ==
  ASSUME NEW S, NEW p \in Seq(S), NEW e \in Seq(S), NEW w \in Seq(S), IsPrefix(p, e)
  PROVE  IsPrefix(p, e \o w)
<1>. DEFINE n == Len(p)
<1>1. n <= Len(e) /\ n \in Nat /\ SubSeq(p, 1, n) = SubSeq(e, 1, n)
  BY DEF IsPrefix
<1>2. Len(e \o w) = Len(e) + Len(w) /\ Len(e) \in Nat /\ Len(w) \in Nat
  OBVIOUS
<1>3. SubSeq(e \o w, 1, n) = SubSeq(e, 1, n)
  BY <1>1, <1>2
<1>. QED BY <1>1, <1>2, <1>3 DEF IsPrefix

\* Each element of a concatenation is one of the two sequences'.
LEMMA Concatenated ==
  ASSUME NEW S, NEW a \in Seq(S), NEW b \in Seq(S), NEW n \in 1..Len(a \o b)
  PROVE  /\ n \in 1..Len(a) => (a \o b)[n] = a[n]
         /\ n \notin 1..Len(a) => \E m \in 1..Len(b) : (a \o b)[n] = b[m]
<1>1. Len(a \o b) = Len(a) + Len(b) /\ Len(a) \in Nat /\ Len(b) \in Nat
  OBVIOUS
<1>2. CASE n \in 1..Len(a)
  BY <1>1, <1>2
<1>3. CASE n \notin 1..Len(a)
  <2>1. n - Len(a) \in 1..Len(b) /\ (a \o b)[n] = b[n - Len(a)]
    BY <1>1, <1>3
  <2>. QED BY <1>3, <2>1
<1>. QED BY <1>2, <1>3

\* A session that a step leaves alone stays as it should be when the step takes
\* neither its pending insert, nor a journal, nor an account away.
LEMMA SessionKept ==
  ASSUME NEW t \in Sessions, TypeOK, SessionOK(t),
         pc'[t] = pc[t], draft'[t] = draft[t], written'[t] = written[t],
         \A j \in Journals : holder[j] = t => holder'[j] = t,
         \A j \in Journals : journals[j] # None => journals'[j] = journals[j],
         \A a \in Accounts : accounts[a] # None => accounts'[a] = accounts[a]
  PROVE  SessionOK(t)'
<1>1. written[t] \in Seq(Posting)
  BY DEF TypeOK
<1>2. CASE pc[t] = "idle"
  BY <1>2 DEF SessionOK
<1>3. CASE pc[t] # "idle"
  <2>1. draft[t] \in Requests
    BY <1>3 DEF SessionOK
  <2>2. ASSUME NEW n \in 1..Len(written[t])
        PROVE  EntryAccepted(t, written[t][n])'
    <3>1. written[t][n] \in Posting /\ EntryAccepted(t, written[t][n])
      BY <1>1, <1>3 DEF SessionOK
    <3>2. written[t][n].account \in Accounts
      BY <3>1 DEF Posting
    <3>. QED BY <2>1, <3>1, <3>2, RequestTypes DEF EntryAccepted
  <2>. QED BY <1>3, <2>1, <2>2, RequestTypes DEF SessionOK
<1>. QED BY <1>2, <1>3

\* What the end of a transaction changes, session by session and key by key.
LEMMA Closed ==
  ASSUME NEW s \in Sessions, TypeOK, Close(s)
  PROVE  /\ pc'[s] = "idle" /\ written'[s] = <<>> /\ draft'[s] = None
         /\ \A t \in Sessions \ {s} :
              pc'[t] = pc[t] /\ draft'[t] = draft[t] /\ written'[t] = written[t]
         /\ \A j \in Journals : holder'[j] = IF holder[j] = s THEN None ELSE holder[j]
         /\ holder' \in [Journals -> Sessions \union {None}]
         /\ draft' \in [Sessions -> Requests \union {None}]
         /\ written' \in [Sessions -> Seq(Posting)]
         /\ pc' \in [Sessions -> {"idle", "journal", "entries", "append"}]
BY DEF Close, TypeOK

\* The sessions that add to a journal are finitely many; when none joins them
\* the bound on additions holds on.
LEMMA AppendersFinite ==
  ASSUME NEW j PROVE IsFiniteSet(Appenders(j)) /\ Cardinality(Appenders(j)) \in Nat
<1>1. IsFiniteSet(Sessions) /\ Appenders(j) \subseteq Sessions
  BY RequestsAssumption DEF Appenders
<1>. QED BY <1>1, FS_Subset, FS_CardinalityType

LEMMA FewerAppenders ==
  ASSUME AppendsBounded, TypeOK, appended' = appended,
         \A j \in Journals : Appenders(j)' \subseteq Appenders(j)
  PROVE  AppendsBounded'
<1>. SUFFICES ASSUME NEW j \in Journals
              PROVE  appended[j] + Cardinality(Appenders(j)') <= MaxAppends
  BY DEF AppendsBounded
<1>1. Cardinality(Appenders(j)') <= Cardinality(Appenders(j))
  BY AppendersFinite, FS_Subset
<1>2. IsFiniteSet(Appenders(j)')
  BY AppendersFinite, FS_Subset
<1>3. Cardinality(Appenders(j)') \in Nat /\ Cardinality(Appenders(j)) \in Nat
  BY <1>2, AppendersFinite, FS_CardinalityType
<1>4. appended[j] \in Nat /\ appended[j] + Cardinality(Appenders(j)) <= MaxAppends
  BY DEF AppendsBounded, TypeOK
<1>5. MaxAppends \in Nat
  BY RequestsAssumption
<1>. QED BY <1>1, <1>3, <1>4, <1>5

\* Opening accounts and beginning transactions leave the posted journals alone.
LEMMA JournalsKept ==
  ASSUME TypeOK, PostedWhole, JournalsBalance, EntriesInCurrency,
         UNCHANGED <<journals, entries, intent, appended>>,
         \A a \in Accounts : accounts[a] # None => accounts'[a] = accounts[a]
  PROVE  PostedWhole' /\ JournalsBalance' /\ EntriesInCurrency'
<1>1. PostedWhole' /\ JournalsBalance'
  BY DEF PostedWhole, JournalsBalance
<1>2. ASSUME NEW j \in Journals, NEW n \in 1..Len(entries[j])
      PROVE  /\ entries[j][n].amount > 0
             /\ journals[j] # None /\ accounts'[entries[j][n].account] = journals[j]
  <2>1. entries[j][n] \in Posting
    BY DEF TypeOK
  <2>2. entries[j][n].account \in Accounts
    BY <2>1 DEF Posting
  <2>. QED BY <2>2 DEF EntriesInCurrency
<1>. QED BY <1>1, <1>2 DEF EntriesInCurrency

-----------------------------------------------------------------------------
(* The steps *)

LEMMA RollbackKeeps == ASSUME IInv, NEW s \in Sessions, Rollback(s) PROVE IInv'
<1>. USE DEF IInv
<1>1. Close(s) /\ UNCHANGED <<accounts, journals, entries, intent, appended>>
  BY DEF Rollback, tables, history
<1>2. TypeOK'
  BY <1>1, Closed DEF TypeOK
<1>3. ASSUME NEW t \in Sessions PROVE SessionOK(t)'
  <2>1. CASE t = s
    BY <1>1, <2>1, Closed DEF SessionOK
  <2>2. CASE t # s
    BY <1>1, <2>2, Closed, SessionKept
  <2>. QED BY <2>1, <2>2
<1>4. HoldersOK'
  <2>. SUFFICES ASSUME NEW j \in Journals, holder'[j] # None
                PROVE  /\ pc'[holder'[j]] = "entries" /\ draft'[holder'[j]].journal = j
                       /\ journals'[j] = None
    BY DEF HoldersOK
  <2>1. holder[j] # s /\ holder'[j] = holder[j]
    BY <1>1, Closed
  <2>2. holder[j] \in Sessions \ {s}
    BY <2>1 DEF TypeOK
  <2>. QED BY <1>1, <2>1, <2>2, Closed DEF HoldersOK
<1>5. AppendsBounded'
  <2>1. ASSUME NEW j \in Journals PROVE Appenders(j)' \subseteq Appenders(j)
    BY <1>1, Closed DEF Appenders
  <2>. QED BY <1>1, <2>1, FewerAppenders
<1>6. PostedWhole' /\ JournalsBalance' /\ EntriesInCurrency'
  BY <1>1, JournalsKept
<1>. QED BY <1>2, <1>3, <1>4, <1>5, <1>6

LEMMA CreateAccountKeeps ==
  ASSUME IInv, NEW offer \in Offers, CreateAccount(offer[1], offer[2]) PROVE IInv'
<1>. USE DEF IInv
<1>. DEFINE a == offer[1]
            c == offer[2]
<1>1. a \in Accounts /\ c \in Currencies
  BY RequestsAssumption
<1>2. /\ accounts[a] = None /\ accounts' = [accounts EXCEPT ![a] = c]
      /\ UNCHANGED <<journals, entries, holder, draft, written, pc, intent, appended>>
  BY DEF CreateAccount, history
<1>. HIDE DEF a, c
<1>3. \A b \in Accounts : accounts[b] # None => accounts'[b] = accounts[b]
  BY <1>2 DEF TypeOK
<1>4. TypeOK'
  BY <1>1, <1>2 DEF TypeOK
<1>5. \A t \in Sessions : SessionOK(t)'
  BY <1>2, <1>3, SessionKept
<1>6. HoldersOK'
  BY <1>2 DEF HoldersOK
<1>7. AppendsBounded'
  <2>1. \A j \in Journals : Appenders(j)' \subseteq Appenders(j)
    BY <1>2 DEF Appenders
  <2>. QED BY <1>2, <2>1, FewerAppenders
<1>8. PostedWhole' /\ JournalsBalance' /\ EntriesInCurrency'
  BY <1>2, <1>3, JournalsKept
<1>. QED BY <1>4, <1>5, <1>6, <1>7, <1>8

\* A session begins: to post a journal, or to add to one.
LEMMA BeginKeeps ==
  ASSUME IInv, NEW s \in Sessions, NEW r \in Requests, NEW p \in {"journal", "append"},
         pc[s] = "idle", draft' = [draft EXCEPT ![s] = r], pc' = [pc EXCEPT ![s] = p],
         UNCHANGED <<tables, holder, written, history>>,
         p = "append" => journals[r.journal] = r.currency,
         AppendsBounded'
  PROVE  IInv'
<1>. USE DEF IInv
<1>1. UNCHANGED <<accounts, journals, entries, holder, written, intent, appended>>
  BY DEF tables, history
<1>2. TypeOK'
  BY <1>1 DEF TypeOK
<1>3. ASSUME NEW t \in Sessions PROVE SessionOK(t)'
  <2>1. CASE t = s
    <3>1. written[s] = <<>> /\ draft'[s] = r /\ pc'[s] = p /\ written'[s] = <<>>
      BY <1>1 DEF SessionOK, TypeOK
    <3>2. Len(r.postings) \in Nat
      BY RequestTypes
    <3>. QED BY <1>1, <2>1, <3>1, <3>2 DEF SessionOK
  <2>2. CASE t # s
    BY <1>1, <2>2, SessionKept DEF TypeOK
  <2>. QED BY <2>1, <2>2
<1>4. HoldersOK'
  BY <1>1 DEF HoldersOK, TypeOK
<1>5. PostedWhole' /\ JournalsBalance' /\ EntriesInCurrency'
  BY <1>1, JournalsKept
<1>. QED BY <1>2, <1>3, <1>4, <1>5

LEMMA PostKeeps ==
  ASSUME IInv, NEW s \in Sessions, NEW r \in Requests, Post(s, r) PROVE IInv'
<1>1. /\ pc[s] = "idle" /\ draft' = [draft EXCEPT ![s] = r]
      /\ pc' = [pc EXCEPT ![s] = "journal"]
      /\ UNCHANGED <<tables, holder, written, history>>
  BY DEF Post
<1>2. AppendsBounded'
  <2>1. \A j \in Journals : Appenders(j)' \subseteq Appenders(j)
    BY <1>1 DEF Appenders, IInv, TypeOK
  <2>. QED BY <1>1, <2>1, FewerAppenders DEF IInv, history
<1>. QED BY <1>1, <1>2, BeginKeeps

LEMMA AddToKeeps ==
  ASSUME IInv, NEW s \in Sessions, NEW r \in Requests, AddTo(s, r) PROVE IInv'
<1>1. /\ pc[s] = "idle" /\ draft' = [draft EXCEPT ![s] = r]
      /\ pc' = [pc EXCEPT ![s] = "append"]
      /\ journals[r.journal] = r.currency
      /\ UNCHANGED <<tables, holder, written, history>>
  BY DEF AddTo
<1>2. AppendsBounded'
  <2>. SUFFICES ASSUME NEW j \in Journals
                PROVE  appended[j] + Cardinality(Appenders(j)') <= MaxAppends
    BY <1>1 DEF AppendsBounded, history
  <2>. DEFINE All == {t \in Sessions : pc[t] = "append"}
  <2>1. /\ appended[j] \in Nat /\ MaxAppends \in Nat
        /\ Cardinality(Appenders(j)) \in Nat
        /\ appended[j] + Cardinality(Appenders(j)) <= MaxAppends
    BY AppendersFinite, RequestsAssumption DEF IInv, TypeOK, AppendsBounded
  <2>2. CASE j # r.journal
    <3>1. Appenders(j)' = Appenders(j)
      BY <1>1, <2>2 DEF Appenders, IInv, TypeOK
    <3>. QED BY <2>1, <3>1
  <2>3. CASE j = r.journal
    <3>1. Appenders(j)' = Appenders(j) \union {s} /\ s \notin Appenders(j)
      BY <1>1, <2>3 DEF Appenders, IInv, TypeOK
    <3>2. Cardinality(Appenders(j)') = Cardinality(Appenders(j)) + 1
      BY <3>1, AppendersFinite, FS_AddElement
    <3>3. IsFiniteSet(All) /\ Appenders(j) \subseteq All
      BY RequestsAssumption, FS_Subset DEF Appenders
    <3>4. Cardinality(Appenders(j)) <= Cardinality(All) /\ Cardinality(All) \in Nat
      BY <3>3, FS_Subset, FS_CardinalityType
    <3>5. appended[j] + Cardinality(All) < MaxAppends
      BY <2>3 DEF AddTo
    <3>. HIDE DEF All
    <3>. QED BY <2>1, <3>2, <3>4, <3>5
  <2>. QED BY <2>2, <2>3
<1>. QED BY <1>1, <1>2, BeginKeeps

LEMMA InsertJournalKeeps ==
  ASSUME IInv, NEW s \in Sessions, InsertJournal(s) PROVE IInv'
<1>. DEFINE j == draft[s].journal
<1>1. pc[s] = "journal" /\ holder[j] = None
  BY DEF InsertJournal
<1>2. CASE journals[j] # None
  BY <1>2, RollbackKeeps DEF InsertJournal
<1>3. CASE journals[j] = None
  <2>. USE DEF IInv
  <2>1. /\ holder' = [holder EXCEPT ![j] = s] /\ pc' = [pc EXCEPT ![s] = "entries"]
        /\ UNCHANGED <<accounts, journals, entries, draft, written, intent, appended>>
    BY <1>3 DEF InsertJournal, tables, history
  <2>2. j \in Journals /\ draft[s] \in Requests /\ written[s] = <<>>
    BY <1>1, RequestTypes DEF SessionOK
  <2>. HIDE DEF j
  <2>3. TypeOK'
    BY <2>1, <2>2 DEF TypeOK
  <2>4. ASSUME NEW t \in Sessions PROVE SessionOK(t)'
    <3>1. CASE t = s
      <4>1. pc'[s] = "entries" /\ holder'[j] = s
        BY <2>1, <2>2 DEF TypeOK
      <4>2. Len(draft[s].postings) \in Nat
        BY <2>2, RequestTypes
      <4>. QED BY <2>1, <2>2, <3>1, <4>1, <4>2 DEF SessionOK, j
    <3>2. CASE t # s
      <4>1. \A k \in Journals : holder[k] = t => holder'[k] = t
        BY <1>1, <2>1, RequestsAssumption DEF TypeOK
      <4>. QED BY <2>1, <3>2, <4>1, SessionKept DEF TypeOK
    <3>. QED BY <3>1, <3>2
  <2>5. HoldersOK'
    BY <1>1, <1>3, <2>1, <2>2 DEF HoldersOK, TypeOK, j
  <2>6. AppendsBounded'
    <3>1. \A k \in Journals : Appenders(k)' \subseteq Appenders(k)
      BY <2>1 DEF Appenders, TypeOK
    <3>. QED BY <2>1, <3>1, FewerAppenders
  <2>7. PostedWhole' /\ JournalsBalance' /\ EntriesInCurrency'
    BY <2>1, JournalsKept
  <2>. QED BY <2>3, <2>4, <2>5, <2>6, <2>7
<1>. QED BY <1>2, <1>3

LEMMA InsertEntryKeeps ==
  ASSUME IInv, NEW s \in Sessions, InsertEntry(s) PROVE IInv'
<1>. USE DEF IInv
<1>. DEFINE p == NextPosting(s)
            l == Len(written[s])
<1>1. /\ pc[s] \in {"entries", "append"} /\ l # Len(draft[s].postings)
      /\ EntryAccepted(s, p) /\ written' = [written EXCEPT ![s] = Append(written[s], p)]
      /\ UNCHANGED <<accounts, journals, entries, holder, draft, pc, intent, appended>>
  BY DEF InsertEntry, AllWritten, tables, history
<1>2. draft[s] \in Requests /\ draft[s].postings \in Seq(Posting)
  BY <1>1, RequestTypes DEF SessionOK
<1>3. /\ written[s] \in Seq(Posting) /\ l \in Nat /\ l + 1 <= Len(draft[s].postings)
      /\ p = draft[s].postings[l + 1]
  BY <1>1, <1>2 DEF SessionOK, NextPosting, TypeOK
<1>4. p \in Posting
  BY <1>2, <1>3
<1>. HIDE DEF p
<1>5. /\ written'[s] = Append(written[s], p) /\ Len(written'[s]) = l + 1
      /\ written'[s] \in Seq(Posting) /\ written'[s][l + 1] = p
      /\ \A n \in 1..l : written'[s][n] = written[s][n]
  BY <1>1, <1>3, <1>4 DEF TypeOK
<1>6. TypeOK'
  BY <1>1, <1>5 DEF TypeOK
<1>7. ASSUME NEW t \in Sessions PROVE SessionOK(t)'
  <2>1. CASE t = s
    <3>1. ASSUME NEW n \in 1..(l + 1)
          PROVE  written'[s][n] = draft[s].postings[n] /\ EntryAccepted(s, written'[s][n])
      BY <1>1, <1>3, <1>5 DEF SessionOK
    <3>2. \A n : EntryAccepted(s, written'[s][n]) => EntryAccepted(s, written[s][n])'
      BY <1>1 DEF EntryAccepted
    <3>. QED BY <1>1, <1>2, <1>3, <1>5, <2>1, <3>1, <3>2 DEF SessionOK
  <2>2. CASE t # s
    BY <1>1, <2>2, SessionKept DEF TypeOK
  <2>. QED BY <2>1, <2>2
<1>8. HoldersOK'
  BY <1>1 DEF HoldersOK
<1>9. AppendsBounded'
  <2>1. \A k \in Journals : Appenders(k)' \subseteq Appenders(k)
    BY <1>1 DEF Appenders
  <2>. QED BY <1>1, <2>1, FewerAppenders
<1>10. PostedWhole' /\ JournalsBalance' /\ EntriesInCurrency'
  BY <1>1, JournalsKept
<1>. QED BY <1>6, <1>7, <1>8, <1>9, <1>10

\* The entries that are committed are those of the request.
LEMMA WrittenIsAsked ==
  ASSUME IInv, NEW s \in Sessions, pc[s] \in {"entries", "append"}, AllWritten(s)
  PROVE  /\ draft[s] \in Requests /\ draft[s].journal \in Journals
         /\ written[s] = draft[s].postings
<1>1. draft[s] \in Requests /\ draft[s].journal \in Journals
      /\ draft[s].postings \in Seq(Posting)
  BY RequestTypes DEF IInv, SessionOK
<1>2. written[s] \in Seq(Posting)
  BY DEF IInv, TypeOK
<1>3. Len(written[s]) = Len(draft[s].postings)
      /\ \A n \in 1..Len(written[s]) : written[s][n] = draft[s].postings[n]
  BY DEF AllWritten, IInv, SessionOK
<1>. QED BY <1>1, <1>2, <1>3

\* A commit posts what its request asked for, which the trigger has accepted.
LEMMA CommitPostKeeps == ASSUME IInv, NEW s \in Sessions, CommitPost(s) PROVE IInv'
<1>. USE DEF IInv
<1>. DEFINE j == draft[s].journal
            es == written[s]
<1>1. /\ pc[s] = "entries" /\ AllWritten(s) /\ TriggerAccepts(es) /\ Close(s)
      /\ journals' = [journals EXCEPT ![j] = draft[s].currency]
      /\ entries' = [entries EXCEPT ![j] = entries[j] \o es]
      /\ intent' = [intent EXCEPT ![j] = draft[s].postings]
      /\ accounts' = accounts /\ appended' = appended
  BY DEF CommitPost
<1>2. /\ draft[s] \in Requests /\ j \in Journals /\ es = draft[s].postings
      /\ es \in Seq(Posting) /\ es # None
      /\ draft[s].currency \in Currencies /\ draft[s].currency # None
  BY <1>1, WrittenIsAsked, RequestTypes
<1>3. holder[j] = s /\ journals[j] = None
  BY <1>1, <1>2, RequestsAssumption DEF SessionOK, HoldersOK
<1>4. entries[j] \o es = es
  <2>1. entries[j] = <<>>
    BY <1>2, <1>3 DEF PostedWhole
  <2>. QED BY <1>2, <2>1
<1>. HIDE DEF j
<1>5. /\ journals'[j] = draft[s].currency /\ entries'[j] = es /\ intent'[j] = es
      /\ \A k \in Journals \ {j} :
           journals'[k] = journals[k] /\ entries'[k] = entries[k] /\ intent'[k] = intent[k]
  BY <1>1, <1>2, <1>4 DEF TypeOK
<1>6. TypeOK'
  <2>1. /\ journals' \in [Journals -> Currencies \union {None}]
        /\ entries' \in [Journals -> Seq(Posting)]
        /\ intent' \in [Journals -> {None} \union Seq(Posting)]
    BY <1>1, <1>2, <1>4 DEF TypeOK
  <2>. QED BY <1>1, <2>1, Closed DEF TypeOK
<1>7. ASSUME NEW t \in Sessions PROVE SessionOK(t)'
  <2>1. CASE t = s
    BY <1>1, <2>1, Closed DEF SessionOK
  <2>2. CASE t # s
    <3>1. \A k \in Journals : holder[k] = t => holder'[k] = t
      BY <1>1, <2>2, Closed
    <3>2. \A k \in Journals : journals[k] # None => journals'[k] = journals[k]
      BY <1>3, <1>5
    <3>. QED BY <1>1, <2>2, <3>1, <3>2, Closed, SessionKept
  <2>. QED BY <2>1, <2>2
<1>8. HoldersOK'
  <2>. SUFFICES ASSUME NEW k \in Journals, holder'[k] # None
                PROVE  /\ pc'[holder'[k]] = "entries" /\ draft'[holder'[k]].journal = k
                       /\ journals'[k] = None
    BY DEF HoldersOK
  <2>1. holder[k] # s /\ holder'[k] = holder[k]
    BY <1>1, Closed
  <2>2. holder[k] \in Sessions \ {s} /\ k # j
    BY <1>3, <2>1 DEF TypeOK
  <2>. QED BY <1>1, <1>5, <2>1, <2>2, Closed DEF HoldersOK
<1>9. AppendsBounded'
  <2>1. \A k \in Journals : Appenders(k)' \subseteq Appenders(k)
    BY <1>1, Closed DEF Appenders
  <2>. QED BY <1>1, <2>1, FewerAppenders
<1>10. PostedWhole'
  <2>. SUFFICES ASSUME NEW k \in Journals
                PROVE  IF journals'[k] = None
                       THEN entries'[k] = <<>>
                       ELSE intent'[k] # None /\ IsPrefix(intent'[k], entries'[k])
                              /\ (appended'[k] = 0 => entries'[k] = intent'[k])
    BY DEF PostedWhole
  <2>1. IsPrefix(es, es)
    BY <1>2 DEF IsPrefix
  <2>. QED BY <1>1, <1>2, <1>5, <2>1 DEF PostedWhole
<1>11. JournalsBalance'
  <2>1. \A k \in Journals : TriggerAccepts(entries'[k]) => TriggerAccepts(entries[k])'
    OBVIOUS
  <2>. QED BY <1>1, <1>5, <2>1 DEF JournalsBalance
<1>12. EntriesInCurrency'
  <2>1. \A n \in 1..Len(es) : es[n].amount > 0 /\ accounts[es[n].account] = draft[s].currency
    BY <1>1 DEF SessionOK, EntryAccepted
  <2>. SUFFICES ASSUME NEW k \in Journals, NEW n \in 1..Len(entries'[k])
                PROVE  /\ entries'[k][n].amount > 0
                       /\ journals'[k] # None
                       /\ accounts'[entries'[k][n].account] = journals'[k]
    BY DEF EntriesInCurrency
  <2>2. CASE k = j
    <3>1. entries'[k] = es /\ journals'[k] = draft[s].currency /\ n \in 1..Len(es)
      BY <1>5, <2>2
    <3>. QED BY <1>1, <1>2, <2>1, <3>1
  <2>3. CASE k # j
    BY <1>1, <1>5, <2>3 DEF EntriesInCurrency
  <2>. QED BY <2>2, <2>3
<1>. QED BY <1>6, <1>7, <1>8, <1>9, <1>10, <1>11, <1>12

LEMMA CommitAppendKeeps == ASSUME IInv, NEW s \in Sessions, CommitAppend(s) PROVE IInv'
<1>. USE DEF IInv
<1>. DEFINE j == draft[s].journal
            es == written[s]
<1>1. /\ pc[s] = "append" /\ AllWritten(s) /\ Close(s)
      /\ entries' = [entries EXCEPT ![j] = entries[j] \o es]
      /\ appended' = [appended EXCEPT ![j] = appended[j] + 1]
      /\ accounts' = accounts /\ journals' = journals /\ intent' = intent
  BY DEF CommitAppend
<1>2. /\ draft[s] \in Requests /\ j \in Journals /\ es = draft[s].postings
      /\ es \in Seq(Posting) /\ entries[j] \in Seq(Posting)
      /\ draft[s].currency \in Currencies /\ draft[s].currency # None
  BY <1>1, WrittenIsAsked, RequestTypes DEF TypeOK
<1>3. journals[j] = draft[s].currency
  BY <1>1 DEF SessionOK
<1>4. s \in Appenders(j)
  BY <1>1 DEF Appenders
<1>. HIDE DEF j
<1>5. /\ entries'[j] = entries[j] \o es /\ appended'[j] = appended[j] + 1
      /\ \A k \in Journals \ {j} : entries'[k] = entries[k] /\ appended'[k] = appended[k]
  BY <1>1, <1>2 DEF TypeOK
<1>6. AppendsBounded' /\ appended' \in [Journals -> 0..MaxAppends]
  <2>1. ASSUME NEW k \in Journals
        PROVE  /\ appended'[k] + Cardinality(Appenders(k)') <= MaxAppends
               /\ appended'[k] \in 0..MaxAppends
    <3>1. /\ appended[k] \in 0..MaxAppends /\ MaxAppends \in Nat
          /\ Cardinality(Appenders(k)) \in Nat
          /\ appended[k] + Cardinality(Appenders(k)) <= MaxAppends
      BY AppendersFinite, RequestsAssumption DEF TypeOK, AppendsBounded
    <3>2. CASE k # j
      <4>1. Appenders(k)' = Appenders(k)
        BY <1>1, <3>2, Closed DEF Appenders, j
      <4>. QED BY <1>5, <3>1, <3>2, <4>1
    <3>3. CASE k = j
      <4>1. Appenders(k)' = Appenders(k) \ {s}
        BY <1>1, <3>3, Closed DEF Appenders
      <4>2. /\ Cardinality(Appenders(k)') = Cardinality(Appenders(k)) - 1
            /\ Cardinality(Appenders(k)') \in Nat
        BY <1>4, <3>3, <4>1, AppendersFinite, FS_RemoveElement, FS_CardinalityType
      <4>. QED BY <1>5, <3>1, <3>3, <4>2
    <3>. QED BY <3>2, <3>3
  <2>2. AppendsBounded'
    BY <2>1 DEF AppendsBounded
  <2>3. appended' \in [Journals -> 0..MaxAppends]
    BY <1>1, <2>1 DEF TypeOK
  <2>. QED BY <2>2, <2>3
<1>7. TypeOK'
  <2>1. entries' \in [Journals -> Seq(Posting)]
    BY <1>1, <1>2 DEF TypeOK
  <2>. QED BY <1>1, <1>6, <2>1, Closed DEF TypeOK
<1>8. ASSUME NEW t \in Sessions PROVE SessionOK(t)'
  <2>1. CASE t = s
    BY <1>1, <2>1, Closed DEF SessionOK
  <2>2. CASE t # s
    <3>1. \A k \in Journals : holder[k] = t => holder'[k] = t
      BY <1>1, <2>2, Closed
    <3>. QED BY <1>1, <2>2, <3>1, Closed, SessionKept
  <2>. QED BY <2>1, <2>2
<1>9. HoldersOK'
  <2>. SUFFICES ASSUME NEW k \in Journals, holder'[k] # None
                PROVE  /\ pc'[holder'[k]] = "entries" /\ draft'[holder'[k]].journal = k
                       /\ journals'[k] = None
    BY DEF HoldersOK
  <2>1. holder[k] # s /\ holder'[k] = holder[k]
    BY <1>1, Closed
  <2>2. holder[k] \in Sessions \ {s}
    BY <2>1 DEF TypeOK
  <2>3. /\ pc[holder[k]] = "entries" /\ draft[holder[k]].journal = k
        /\ journals[k] = None
    BY <2>1 DEF HoldersOK
  <2>4. pc'[holder[k]] = pc[holder[k]] /\ draft'[holder[k]] = draft[holder[k]]
    BY <1>1, <2>2, Closed
  <2>. QED BY <1>1, <2>1, <2>3, <2>4
<1>10. PostedWhole'
  <2>. SUFFICES ASSUME NEW k \in Journals
                PROVE  IF journals[k] = None
                       THEN entries'[k] = <<>>
                       ELSE intent[k] # None /\ IsPrefix(intent[k], entries'[k])
                              /\ (appended'[k] = 0 => entries'[k] = intent[k])
    BY <1>1 DEF PostedWhole, IsPrefix
  <2>1. CASE k # j
    BY <1>5, <2>1 DEF PostedWhole
  <2>2. CASE k = j
    <3>1. journals[k] # None /\ intent[k] # None /\ IsPrefix(intent[k], entries[k])
      BY <1>2, <1>3, <2>2 DEF PostedWhole
    <3>2. intent[k] \in Seq(Posting)
      BY <3>1 DEF TypeOK
    <3>3. IsPrefix(intent[k], entries'[k])
      BY <1>2, <1>5, <2>2, <3>1, <3>2, PrefixKept
    <3>4. appended'[k] # 0
      BY <1>5, <2>2 DEF TypeOK
    <3>. QED BY <3>1, <3>3, <3>4
  <2>. QED BY <2>1, <2>2
<1>11. JournalsBalance'
  <2>1. \A k \in Journals : TriggerAccepts(entries'[k]) => TriggerAccepts(entries[k])'
    OBVIOUS
  <2>2. appended'[j] # 0
    BY <1>2, <1>5 DEF TypeOK
  <2>. QED BY <1>1, <1>5, <2>1, <2>2 DEF JournalsBalance
<1>12. EntriesInCurrency'
  <2>1. \A n \in 1..Len(es) : es[n].amount > 0 /\ accounts[es[n].account] = journals[j]
    BY <1>1, <1>3 DEF SessionOK, EntryAccepted
  <2>2. ASSUME NEW n \in 1..Len(entries'[j])
        PROVE  entries'[j][n].amount > 0 /\ accounts[entries'[j][n].account] = journals[j]
    <3>1. CASE n \in 1..Len(entries[j])
      <4>1. entries'[j][n] = entries[j][n]
        BY <1>2, <1>5, <3>1, Concatenated
      <4>. QED BY <1>2, <3>1, <4>1 DEF EntriesInCurrency
    <3>2. CASE n \notin 1..Len(entries[j])
      <4>1. PICK m \in 1..Len(es) : entries'[j][n] = es[m]
        <5>. HIDE DEF es
        <5>1. n \in 1..Len(entries[j] \o es) /\ entries'[j][n] = (entries[j] \o es)[n]
          BY <1>5
        <5>2. entries[j] \in Seq(Posting) /\ es \in Seq(Posting)
          BY <1>2
        <5>3. \E m \in 1..Len(es) : (entries[j] \o es)[n] = es[m]
          BY <3>2, <5>1, <5>2, Concatenated
        <5>. QED BY <5>1, <5>3
      <4>. QED BY <2>1, <4>1
    <3>. QED BY <3>1, <3>2
  <2>. SUFFICES ASSUME NEW k \in Journals, NEW n \in 1..Len(entries'[k])
                PROVE  /\ entries'[k][n].amount > 0
                       /\ journals[k] # None
                       /\ accounts[entries'[k][n].account] = journals[k]
    BY <1>1 DEF EntriesInCurrency
  <2>3. CASE k = j
    BY <1>2, <1>3, <2>2, <2>3
  <2>4. CASE k # j
    BY <1>5, <2>4 DEF EntriesInCurrency
  <2>. QED BY <2>3, <2>4
<1>. QED BY <1>6, <1>7, <1>8, <1>9, <1>10, <1>11, <1>12

LEMMA NextInvariant == ASSUME IInv, [Next]_vars PROVE IInv'
<1>1. CASE UNCHANGED vars
  BY <1>1 DEF vars, tables, history, IInv, TypeOK, SessionOK, EntryAccepted, HoldersOK,
     AppendsBounded, Appenders, PostedWhole, JournalsBalance, EntriesInCurrency
<1>2. ASSUME NEW offer \in Offers, CreateAccount(offer[1], offer[2]) PROVE IInv'
  BY <1>2, CreateAccountKeeps
<1>3. ASSUME NEW s \in Sessions, NEW r \in Requests, Post(s, r) PROVE IInv'
  BY <1>3, PostKeeps
<1>4. ASSUME NEW s \in Sessions, NEW r \in Requests, AddTo(s, r) PROVE IInv'
  BY <1>4, AddToKeeps
<1>5. ASSUME NEW s \in Sessions, InsertJournal(s) PROVE IInv'
  BY <1>5, InsertJournalKeeps
<1>6. ASSUME NEW s \in Sessions, InsertEntry(s) PROVE IInv'
  BY <1>6, InsertEntryKeeps
<1>7. ASSUME NEW s \in Sessions, RefuseEntry(s) \/ RefuseCommit(s) \/ Crash(s) PROVE IInv'
  BY <1>7, RollbackKeeps DEF RefuseEntry, RefuseCommit, Crash
<1>8. ASSUME NEW s \in Sessions, CommitPost(s) PROVE IInv'
  BY <1>8, CommitPostKeeps
<1>9. ASSUME NEW s \in Sessions, CommitAppend(s) PROVE IInv'
  BY <1>9, CommitAppendKeeps
<1>. QED BY <1>1, <1>2, <1>3, <1>4, <1>5, <1>6, <1>7, <1>8, <1>9 DEF Next

LEMMA Invariance == Spec => []IInv
BY InitInvariant, NextInvariant, PTL DEF Spec

-----------------------------------------------------------------------------
(* Sums over finite sets *)

\* The element that a fold takes out of a set first
First(s) == CHOOSE x \in s : TRUE

SumOver(f, S) == SumFunctionOnSet(f, S)

\* g[s] is the sum of f over s, for each subset s of S, as SumFunctionOnSet computes it.
IsSum(g, f, S) ==
  g = [s \in SUBSET S |-> IF s = {} THEN 0 ELSE f[First(s)] + g[s \ {First(s)}]]

\* What is computed for a set is that for the set without its first element, and
\* that element's value.
SumsStep(f, S) ==
  \A s \in SUBSET S :
    SumOver(f, s) = IF s = {} THEN 0 ELSE f[First(s)] + SumOver(f, s \ {First(s)})

LEMMA FirstOf == \A s : s # {} => First(s) \in s
BY DEF First

\* Among subsets of a finite set one is smallest.
LEMMA SmallestSubset ==
  ASSUME NEW S, IsFiniteSet(S), NEW D \in SUBSET (SUBSET S), D # {}
  PROVE  \E m \in D : \A s \in D : ~(s \subseteq m /\ s # m)
<1>1. IsWellFoundedOn(StrictSubsetOrdering(S), SUBSET S)
  BY FS_StrictSubsetOrderingWellFounded, FS_FiniteSubsetsOfFinite
<1>2. PICK m \in D : \A s \in D : ~(<<s, m>> \in StrictSubsetOrdering(S))
  BY <1>1, WFMin
<1>. QED  BY <1>2 DEF StrictSubsetOrdering

\* Two such functions agree where both are defined.
LEMMA SumsAgree ==
  ASSUME NEW S, IsFiniteSet(S), NEW T \in SUBSET S, NEW f,
         NEW g, NEW h, IsSum(g, f, S), IsSum(h, f, T)
  PROVE  \A s \in SUBSET T : g[s] = h[s]
<1>. DEFINE D == {s \in SUBSET T : g[s] # h[s]}
<1>. SUFFICES ASSUME D # {} PROVE FALSE
  OBVIOUS
<1>1. PICK m \in D : \A s \in D : ~(s \subseteq m /\ s # m)
  <2>1. D \in SUBSET (SUBSET S)
    OBVIOUS
  <2>. HIDE DEF D
  <2>. QED  BY <2>1, SmallestSubset
<1>2. \A s \in SUBSET S : g[s] = IF s = {} THEN 0 ELSE f[First(s)] + g[s \ {First(s)}]
  BY DEF IsSum
<1>3. \A s \in SUBSET T : h[s] = IF s = {} THEN 0 ELSE f[First(s)] + h[s \ {First(s)}]
  BY DEF IsSum
<1>4. m # {}
  BY <1>2, <1>3
<1>5. First(m) \in m
  BY <1>4, FirstOf
<1>6. m \ {First(m)} \in SUBSET T /\ m \ {First(m)} # m /\ m \ {First(m)} \subseteq m
  BY <1>5
<1>7. g[m \ {First(m)}] = h[m \ {First(m)}]
  BY <1>1, <1>6
<1>. QED  BY <1>2, <1>3, <1>4, <1>7

\* There is one.
LEMMA SumExists ==
  ASSUME NEW S, IsFiniteSet(S), NEW f
  PROVE  \E g : IsSum(g, f, S)
<1>. DEFINE Has(s) == \E g : IsSum(g, f, s)
            D == {s \in SUBSET S : ~Has(s)}
<1>. SUFFICES ASSUME D # {} PROVE FALSE
  OBVIOUS
<1>1. PICK m \in D : \A s \in D : ~(s \subseteq m /\ s # m)
  <2>1. D \in SUBSET (SUBSET S)
    OBVIOUS
  <2>. HIDE DEF D
  <2>. QED  BY <2>1, SmallestSubset
<1>. DEFINE part(s) == CHOOSE g : IsSum(g, f, s)
            below(s) == IF s = {} THEN 0 ELSE f[First(s)] + part(s \ {First(s)})[s \ {First(s)}]
            whole == [s \in SUBSET m |-> below(s)]
<1>2. ASSUME NEW s \in SUBSET m, s # m PROVE IsSum(part(s), f, s)
  <2>1. Has(s)
    BY <1>1, <1>2
  <2>. QED  BY <2>1
<1>3. \A s \in SUBSET m : IsFiniteSet(s)
  BY FS_Subset
<1>4. ASSUME NEW s \in SUBSET m, s # m PROVE part(s)[s] = below(s)
  <2>1. part(s)[s] = IF s = {} THEN 0 ELSE f[First(s)] + part(s)[s \ {First(s)}]
    <3>1. PICK g : g = part(s)
      OBVIOUS
    <3>2. IsSum(g, f, s)
      BY <1>2, <1>4, <3>1
    <3>3. s \in SUBSET s
      OBVIOUS
    <3>. HIDE DEF part
    <3>4. g[s] = IF s = {} THEN 0 ELSE f[First(s)] + g[s \ {First(s)}]
      BY <3>2, <3>3 DEF IsSum
    <3>. QED  BY <3>1, <3>4
  <2>2. CASE s # {}
    <3>1. First(s) \in s
      BY <1>3, <2>2, FirstOf
    <3>. DEFINE t == s \ {First(s)}
    <3>2. t \in SUBSET s /\ t \in SUBSET m /\ t # m
      BY <1>4, <3>1
    <3>3. IsSum(part(t), f, t) /\ IsSum(part(s), f, s)
      BY <1>2, <1>4, <3>2
    <3>4. part(s)[t] = part(t)[t]
      <4>. HIDE DEF part, t
      <4>1. t \in SUBSET t
        OBVIOUS
      <4>. QED  BY <1>3, <3>2, <3>3, <4>1, SumsAgree
    <3>. QED  BY <2>1, <2>2, <3>4
  <2>. QED  BY <2>1, <2>2
<1>5. IsSum(whole, f, m)
  <2>1. ASSUME NEW s \in SUBSET m, s # {}
        PROVE  below(s) = f[First(s)] + whole[s \ {First(s)}]
    <3>1. First(s) \in s
      BY <1>3, <2>1, FirstOf
    <3>2. s \ {First(s)} \in SUBSET m /\ s \ {First(s)} # m
      BY <3>1
    <3>3. part(s \ {First(s)})[s \ {First(s)}] = below(s \ {First(s)})
      <4>. HIDE DEF part, below
      <4>. QED  BY <1>4, <3>2
    <3>4. whole[s \ {First(s)}] = below(s \ {First(s)})
      <4>. HIDE DEF below
      <4>. QED  BY <3>2
    <3>5. below(s) = f[First(s)] + part(s \ {First(s)})[s \ {First(s)}]
      <4>. HIDE DEF part
      <4>. QED  BY <2>1
    <3>. HIDE DEF part, below, whole
    <3>. QED  BY <3>3, <3>4, <3>5
  <2>2. below({}) = 0
    OBVIOUS
  <2>3. whole = [s \in SUBSET m |-> IF s = {} THEN 0 ELSE f[First(s)] + whole[s \ {First(s)}]]
    <3>. SUFFICES ASSUME NEW s \in SUBSET m
                  PROVE  below(s) = IF s = {} THEN 0 ELSE f[First(s)] + whole[s \ {First(s)}]
      <4>. HIDE DEF below
      <4>. QED  OBVIOUS
    <3>. HIDE DEF below, whole
    <3>. QED  BY <2>1, <2>2
  <2>. QED  BY <2>3 DEF IsSum
<1>. QED  BY <1>1, <1>5

LEMMA SumIs ==
  ASSUME NEW S, IsFiniteSet(S), NEW f, NEW g, IsSum(g, f, S)
  PROVE  SumOver(f, S) = g[S]
<1>1. SumOver(f, S) = (CHOOSE k : k = [s \in SUBSET S |->
                         IF s = {} THEN 0 ELSE f[First(s)] + k[s \ {First(s)}]])[S]
  BY Zenon DEF SumOver, SumFunctionOnSet, FoldFunctionOnSet, MapThenFoldSet, First
<1>2. PICK h : h = CHOOSE k : k = [s \in SUBSET S |->
                         IF s = {} THEN 0 ELSE f[First(s)] + k[s \ {First(s)}]]
  OBVIOUS
<1>3. IsSum(h, f, S)
  BY <1>2, Zenon DEF IsSum
<1>4. S \in SUBSET S
  OBVIOUS
<1>5. h[S] = g[S]
  BY <1>3, <1>4, SumsAgree
<1>. QED  BY <1>1, <1>2, <1>5

\* A sum is 0 over no element; else it is what comes first and the sum of the rest.
LEMMA SumStep ==
  ASSUME NEW S, IsFiniteSet(S), NEW f
  PROVE  SumsStep(f, S)
<1>. SUFFICES ASSUME NEW s \in SUBSET S
              PROVE  SumOver(f, s) =
                       IF s = {} THEN 0 ELSE f[First(s)] + SumOver(f, s \ {First(s)})
  BY DEF SumsStep
<1>1. IsFiniteSet(s) /\ IsFiniteSet(s \ {First(s)})
  BY FS_Subset
<1>2. PICK g : IsSum(g, f, s)
  BY <1>1, SumExists
<1>3. PICK t : t = s \ {First(s)}
  OBVIOUS
<1>4. PICK h : IsSum(h, f, t)
  BY <1>1, <1>3, SumExists
<1>5. SumOver(f, s) = g[s] /\ SumOver(f, t) = h[t]
  BY <1>1, <1>2, <1>3, <1>4, SumIs
<1>6. g[t] = h[t]
  <2>1. t \in SUBSET s /\ t \in SUBSET t
    BY <1>3
  <2>. QED  BY <1>1, <1>2, <1>3, <1>4, <2>1, SumsAgree
<1>7. g[s] = IF s = {} THEN 0 ELSE f[First(s)] + g[t]
  <2>1. s \in SUBSET s
    OBVIOUS
  <2>. QED  BY <1>2, <1>3, <2>1 DEF IsSum
<1>. QED  BY <1>3, <1>5, <1>6, <1>7

\* Sums of integers are integers, and only the values over the set count.
LEMMA SumType ==
  ASSUME NEW S, IsFiniteSet(S), NEW f, \A x \in S : f[x] \in Int
  PROVE  \A s \in SUBSET S : SumOver(f, s) \in Int
<1>. DEFINE D == {s \in SUBSET S : SumOver(f, s) \notin Int}
<1>. SUFFICES ASSUME D # {} PROVE FALSE
  OBVIOUS
<1>1. PICK m \in D : \A s \in D : ~(s \subseteq m /\ s # m)
  <2>1. D \in SUBSET (SUBSET S)
    OBVIOUS
  <2>. HIDE DEF D
  <2>. QED  BY <2>1, SmallestSubset
<1>2. SumOver(f, m) = IF m = {} THEN 0 ELSE f[First(m)] + SumOver(f, m \ {First(m)})
  <2>1. SumsStep(f, S)
    BY SumStep
  <2>. QED  BY <2>1 DEF SumsStep
<1>3. m # {}
  BY <1>2
<1>4. First(m) \in m
  BY <1>3, FirstOf
<1>5. SumOver(f, m \ {First(m)}) \in Int
  <2>1. m \ {First(m)} \in SUBSET S /\ m \ {First(m)} \subseteq m /\ m \ {First(m)} # m
    BY <1>4
  <2>. QED  BY <1>1, <2>1
<1>. QED  BY <1>2, <1>3, <1>4, <1>5

\* The sum of two functions is the sum of their sums.
LEMMA SumOfSums ==
  ASSUME NEW S, IsFiniteSet(S), NEW f, NEW g, NEW h,
         \A x \in S : f[x] \in Int /\ g[x] \in Int /\ h[x] = f[x] + g[x]
  PROVE  \A s \in SUBSET S : SumOver(h, s) = SumOver(f, s) + SumOver(g, s)
<1>. DEFINE D == {s \in SUBSET S : SumOver(h, s) # SumOver(f, s) + SumOver(g, s)}
<1>. SUFFICES ASSUME D # {} PROVE FALSE
  OBVIOUS
<1>1. PICK m \in D : \A s \in D : ~(s \subseteq m /\ s # m)
  <2>1. D \in SUBSET (SUBSET S)
    OBVIOUS
  <2>. HIDE DEF D
  <2>. QED  BY <2>1, SmallestSubset
<1>. DEFINE t == m \ {First(m)}
<1>2. /\ SumOver(f, m) = IF m = {} THEN 0 ELSE f[First(m)] + SumOver(f, t)
      /\ SumOver(g, m) = IF m = {} THEN 0 ELSE g[First(m)] + SumOver(g, t)
      /\ SumOver(h, m) = IF m = {} THEN 0 ELSE h[First(m)] + SumOver(h, t)
  <2>1. SumsStep(f, S)
    BY SumStep
  <2>2. SumsStep(g, S)
    BY SumStep
  <2>3. SumsStep(h, S)
    BY SumStep
  <2>. QED  BY <2>1, <2>2, <2>3 DEF SumsStep
<1>3. m # {}
  BY <1>2
<1>4. First(m) \in m
  BY <1>3, FirstOf
<1>5. t \in SUBSET S /\ t \subseteq m /\ t # m
  BY <1>4
<1>6. SumOver(h, t) = SumOver(f, t) + SumOver(g, t)
  BY <1>1, <1>5
<1>7. SumOver(f, t) \in Int /\ SumOver(g, t) \in Int
  BY <1>5, SumType
<1>8. f[First(m)] \in Int /\ g[First(m)] \in Int /\ h[First(m)] = f[First(m)] + g[First(m)]
  BY <1>4
<1>. HIDE DEF t
<1>. QED  BY <1>2, <1>3, <1>6, <1>7, <1>8

LEMMA SumOfZeros ==
  ASSUME NEW S, IsFiniteSet(S), NEW f, \A x \in S : f[x] = 0
  PROVE  \A s \in SUBSET S : SumOver(f, s) = 0
<1>1. \A s \in SUBSET S : SumOver(f, s) = SumOver(f, s) + SumOver(f, s)
  BY SumOfSums
<1>2. \A s \in SUBSET S : SumOver(f, s) \in Int
  BY SumType
<1>. QED  BY <1>1, <1>2

\* Any element may be taken out first.
LEMMA SumTakesAny ==
  ASSUME NEW S, IsFiniteSet(S), NEW f, \A x \in S : f[x] \in Int
  PROVE  \A s \in SUBSET S : \A x \in s : SumOver(f, s) = f[x] + SumOver(f, s \ {x})
<1>. DEFINE D == {s \in SUBSET S :
                    \E x \in s : SumOver(f, s) # f[x] + SumOver(f, s \ {x})}
<1>. SUFFICES ASSUME D # {} PROVE FALSE
  OBVIOUS
<1>1. PICK m \in D : \A s \in D : ~(s \subseteq m /\ s # m)
  <2>1. D \in SUBSET (SUBSET S)
    OBVIOUS
  <2>. HIDE DEF D
  <2>. QED  BY <2>1, SmallestSubset
<1>2. PICK x \in m : SumOver(f, m) # f[x] + SumOver(f, m \ {x})
  OBVIOUS
<1>3. PICK p : p = First(m)
  OBVIOUS
<1>4. p \in m /\ SumOver(f, m) = f[p] + SumOver(f, m \ {p})
  <2>1. SumsStep(f, S)
    BY SumStep
  <2>. QED  BY <1>3, <2>1, FirstOf DEF SumsStep
<1>5. x # p
  BY <1>2, <1>4
<1>6. SumOver(f, m \ {p}) = f[x] + SumOver(f, (m \ {p}) \ {x})
  <2>1. m \ {p} \in SUBSET S /\ m \ {p} \subseteq m /\ m \ {p} # m /\ x \in m \ {p}
    BY <1>4, <1>5
  <2>. QED  BY <1>1, <2>1
<1>7. SumOver(f, m \ {x}) = f[p] + SumOver(f, (m \ {x}) \ {p})
  <2>1. m \ {x} \in SUBSET S /\ m \ {x} \subseteq m /\ m \ {x} # m /\ p \in m \ {x}
    BY <1>4, <1>5
  <2>. QED  BY <1>1, <2>1
<1>8. (m \ {x}) \ {p} = (m \ {p}) \ {x}
  OBVIOUS
<1>9. f[p] \in Int /\ f[x] \in Int /\ SumOver(f, (m \ {p}) \ {x}) \in Int
  BY <1>4, SumType
<1>. QED  BY <1>2, <1>4, <1>6, <1>7, <1>8, <1>9

\* Two functions that agree on no element, and on a subset as soon as they agree on
\* it without its first element, agree on all subsets.
InStep(g, h, S) ==
  /\ g[{}] = h[{}]
  /\ \A s \in SUBSET S : s # {} /\ g[s \ {First(s)}] = h[s \ {First(s)}] => g[s] = h[s]

LEMMA SubsetsAgree ==
  ASSUME NEW S, IsFiniteSet(S), NEW g, NEW h, InStep(g, h, S)
  PROVE  \A s \in SUBSET S : g[s] = h[s]
<1>. DEFINE D == {s \in SUBSET S : g[s] # h[s]}
<1>. SUFFICES ASSUME D # {} PROVE FALSE
  OBVIOUS
<1>1. PICK m \in D : \A s \in D : ~(s \subseteq m /\ s # m)
  <2>1. D \in SUBSET (SUBSET S)
    OBVIOUS
  <2>. HIDE DEF D
  <2>. QED  BY <2>1, SmallestSubset
<1>2. m # {}
  BY DEF InStep
<1>3. First(m) \in m
  BY <1>2, FirstOf
<1>4. m \ {First(m)} \in SUBSET S /\ m \ {First(m)} # m /\ m \ {First(m)} \subseteq m
  BY <1>3
<1>5. g[m \ {First(m)}] = h[m \ {First(m)}]
  BY <1>1, <1>4
<1>. QED  BY <1>2, <1>5 DEF InStep

\* A sum depends on the values over its set only.
LEMMA SumsEqual ==
  ASSUME NEW S, IsFiniteSet(S), NEW f, NEW g,
         \A x \in S : f[x] \in Int /\ f[x] = g[x]
  PROVE  SumOver(f, S) = SumOver(g, S)
<1>. DEFINE z == [x \in S |-> 0]
<1>1. \A x \in S : g[x] \in Int /\ z[x] \in Int /\ z[x] = 0 /\ f[x] = g[x] + z[x]
  OBVIOUS
<1>. HIDE DEF z
<1>2. SumOver(f, S) = SumOver(g, S) + SumOver(z, S)
  BY <1>1, SumOfSums
<1>3. SumOver(z, S) = 0 /\ SumOver(g, S) \in Int
  BY <1>1, SumOfZeros, SumType
<1>. QED  BY <1>2, <1>3

\* Where all other values are 0, the sum is the one that is left.
LEMMA SumOfOne ==
  ASSUME NEW S, IsFiniteSet(S), NEW f, NEW x \in S, f[x] \in Int,
         \A y \in S \ {x} : f[y] = 0
  PROVE  SumOver(f, S) = f[x]
<1>1. \A y \in S : f[y] \in Int
  OBVIOUS
<1>2. SumOver(f, S) = f[x] + SumOver(f, S \ {x})
  BY <1>1, SumTakesAny
<1>3. PICK T : T = S \ {x}
  OBVIOUS
<1>4. IsFiniteSet(T)
  BY <1>3, FS_Subset
<1>5. SumOver(f, T) = 0
  BY <1>3, <1>4, SumOfZeros
<1>. QED  BY <1>2, <1>3, <1>5

\* The sum of the rows of a table is the sum of its columns.
Rows(m, S, T) == [x \in S |-> SumOver(m[x], T)]
Columns(m, S, T) == [y \in T |-> SumOver([x \in S |-> m[x][y]], S)]

LEMMA SumsExchange ==
  ASSUME NEW S, IsFiniteSet(S), NEW T, IsFiniteSet(T),
         NEW m, \A x \in S, y \in T : m[x][y] \in Int
  PROVE  SumOver(Rows(m, S, T), S) = SumOver(Columns(m, S, T), T)
<1>. DEFINE rows == Rows(m, S, T)
            col(y) == [x \in S |-> m[x][y]]
            part(s) == [y \in T |-> SumOver(col(y), s)]
            g == [s \in SUBSET S |-> SumOver(rows, s)]
            h == [s \in SUBSET S |-> SumOver(part(s), T)]
<1>1. ASSUME NEW x \in S PROVE rows[x] = SumOver(m[x], T) /\ rows[x] \in Int
  <2>1. SumOver(m[x], T) \in Int
    BY SumType
  <2>. QED  BY <2>1 DEF Rows
<1>2. ASSUME NEW y \in T, NEW s \in SUBSET S
      PROVE  /\ SumOver(col(y), s) \in Int
             /\ SumOver(col(y), s) =
                  IF s = {} THEN 0 ELSE m[First(s)][y] + SumOver(col(y), s \ {First(s)})
  <2>1. \A x \in S : col(y)[x] = m[x][y] /\ col(y)[x] \in Int
    OBVIOUS
  <2>. HIDE DEF col
  <2>2. SumsStep(col(y), S)
    BY SumStep
  <2>3. SumOver(col(y), s) \in Int
    BY <2>1, SumType
  <2>4. s # {} => First(s) \in S
    BY FirstOf
  <2>. QED  BY <2>1, <2>2, <2>3, <2>4 DEF SumsStep
<1>3. SumsStep(rows, S)
  <2>. HIDE DEF rows
  <2>. QED  BY SumStep
<1>. HIDE DEF col, rows
<1>4. g[{}] = h[{}]
  <2>1. {} \in SUBSET S
    OBVIOUS
  <2>2. g[{}] = 0
    BY <1>3, <2>1 DEF SumsStep
  <2>3. \A y \in T : part({})[y] = 0
    BY <1>2, <2>1
  <2>4. T \in SUBSET T
    OBVIOUS
  <2>5. SumOver(part({}), T) = 0
    <3>. HIDE DEF part
    <3>. QED  BY <2>3, <2>4, SumOfZeros
  <2>. QED  BY <2>1, <2>2, <2>5
<1>5. ASSUME NEW s \in SUBSET S, s # {}, g[s \ {First(s)}] = h[s \ {First(s)}]
      PROVE  g[s] = h[s]
  <2>1. PICK p : p = First(s)
    OBVIOUS
  <2>2. PICK t : t = s \ {p}
    OBVIOUS
  <2>3. p \in S /\ t \in SUBSET S
    BY <1>5, <2>1, <2>2, FirstOf
  <2>4. g[s] = rows[p] + g[t]
    BY <1>3, <1>5, <2>1, <2>2, <2>3 DEF SumsStep
  <2>5. \A y \in T : m[p][y] \in Int /\ part(t)[y] \in Int /\ part(s)[y] = m[p][y] + part(t)[y]
    BY <1>2, <1>5, <2>1, <2>2, <2>3
  <2>6. SumOver(part(s), T) = SumOver(m[p], T) + SumOver(part(t), T)
    <3>1. PICK u, v, w : u = part(s) /\ v = m[p] /\ w = part(t)
      OBVIOUS
    <3>2. \A y \in T : v[y] \in Int /\ w[y] \in Int /\ u[y] = v[y] + w[y]
      BY <2>5, <3>1
    <3>3. T \in SUBSET T
      OBVIOUS
    <3>4. \A q \in SUBSET T : SumOver(u, q) = SumOver(v, q) + SumOver(w, q)
      BY <3>2, SumOfSums
    <3>. QED  BY <3>1, <3>3, <3>4
  <2>7. h[s] = rows[p] + h[t]
    BY <1>1, <2>3, <2>6
  <2>. QED  BY <1>5, <2>1, <2>2, <2>4, <2>7
<1>6. S \in SUBSET S
  OBVIOUS
<1>7. g[S] = h[S]
  <2>. HIDE DEF g, h
  <2>1. InStep(g, h, S)
    BY <1>4, <1>5 DEF InStep
  <2>2. \A s \in SUBSET S : g[s] = h[s]
    BY <2>1, SubsetsAgree
  <2>. QED  BY <1>6, <2>2
<1>8. part(S) = Columns(m, S, T)
  BY DEF Columns, col
<1>. QED  BY <1>6, <1>7, <1>8 DEF rows

-----------------------------------------------------------------------------
(* The accounts of a currency cancel out *)

\* What each entry adds to the total of a side, to an account, and in all
Legs(side, es) == [n \in DOMAIN es |-> IF es[n].side = side THEN es[n].amount ELSE 0]
Shares(a, es) == [n \in DOMAIN es |-> IF es[n].account = a THEN Signed(es[n]) ELSE 0]
Values(es) == [n \in DOMAIN es |-> Signed(es[n])]

\* What entries add is an integer, and nothing to the accounts they are not in.
LEMMA EntryAdds ==
  ASSUME NEW es \in Seq(Posting), NEW n \in DOMAIN es
  PROVE  /\ es[n].account \in Accounts
         /\ Values(es)[n] \in Int
         /\ \A side : Legs(side, es)[n] \in Int
         /\ Legs("debit", es)[n] = Values(es)[n] + Legs("credit", es)[n]
         /\ \A a : /\ Shares(a, es)[n] \in Int
                   /\ Shares(a, es)[n] = IF es[n].account = a THEN Values(es)[n] ELSE 0
<1>1. es[n] \in Posting
  OBVIOUS
<1>2. /\ es[n].account \in Accounts /\ es[n].amount \in Int
      /\ es[n].side \in {"debit", "credit"}
  BY <1>1 DEF Posting
<1>3. Values(es)[n] \in Int /\ Values(es)[n] = Signed(es[n])
  BY <1>2 DEF Values, Signed
<1>4. \A side : Legs(side, es)[n] = IF es[n].side = side THEN es[n].amount ELSE 0
  BY DEF Legs
<1>5. Legs("debit", es)[n] = Values(es)[n] + Legs("credit", es)[n]
  BY <1>2, <1>3, <1>4 DEF Signed
<1>6. \A a : Shares(a, es)[n] = IF es[n].account = a THEN Signed(es[n]) ELSE 0
  BY DEF Shares
<1>. QED  BY <1>2, <1>3, <1>4, <1>5, <1>6

LEMMA SumsOfEntries ==
  ASSUME NEW es \in Seq(Posting)
  PROVE  /\ IsFiniteSet(DOMAIN es)
         /\ \A side : Total(side, es) = SumOver(Legs(side, es), DOMAIN es)
         /\ \A a : /\ AccountSum(a, es) = SumOver(Shares(a, es), DOMAIN es)
                   /\ AccountSum(a, es) \in Int
<1>1. IsFiniteSet(DOMAIN es)
  <2>1. DOMAIN es = 1..Len(es) /\ Len(es) \in Nat
    OBVIOUS
  <2>. QED  BY <2>1, FS_Interval
<1>2. ASSUME NEW side PROVE Total(side, es) = SumOver(Legs(side, es), DOMAIN es)
  <2>1. DOMAIN Legs(side, es) = DOMAIN es
    BY DEF Legs
  <2>. QED  BY <2>1, Zenon DEF Total, SumFunction, SumOver, Legs
<1>3. ASSUME NEW a
      PROVE  /\ AccountSum(a, es) = SumOver(Shares(a, es), DOMAIN es)
             /\ AccountSum(a, es) \in Int
  <2>1. DOMAIN Shares(a, es) = DOMAIN es
    BY DEF Shares
  <2>2. AccountSum(a, es) = SumOver(Shares(a, es), DOMAIN es)
    BY <2>1, Zenon DEF AccountSum, SumFunction, SumOver, Shares
  <2>3. PICK S, f : S = DOMAIN es /\ f = Shares(a, es)
    OBVIOUS
  <2>4. IsFiniteSet(S) /\ \A n \in S : f[n] \in Int
    BY <1>1, <2>3, EntryAdds
  <2>5. \A s \in SUBSET S : SumOver(f, s) \in Int
    BY <2>4, SumType
  <2>6. S \in SUBSET S
    OBVIOUS
  <2>. QED  BY <2>2, <2>3, <2>5, <2>6
<1>. QED  BY <1>1, <1>2, <1>3

\* What a journal that the trigger has accepted adds to some accounts cancels out,
\* when these hold either all its entries or none.
LEMMA JournalCancels ==
  ASSUME NEW es \in Seq(Posting), TriggerAccepts(es), NEW A, IsFiniteSet(A),
         \/ \A n \in DOMAIN es : es[n].account \in A
         \/ \A n \in DOMAIN es : es[n].account \notin A
  PROVE  SumOver([a \in A |-> AccountSum(a, es)], A) = 0
<1>1. PICK D : D = DOMAIN es
  OBVIOUS
<1>2. PICK m : m = [a \in A |-> Shares(a, es)]
  OBVIOUS
<1>3. PICK v : v = Values(es)
  OBVIOUS
<1>4. IsFiniteSet(D) /\ \A n \in D : v[n] \in Int
  BY <1>1, <1>3, SumsOfEntries, EntryAdds
<1>5. \A a \in A, n \in D :
        m[a][n] \in Int /\ m[a][n] = IF es[n].account = a THEN v[n] ELSE 0
  BY <1>1, <1>2, <1>3, EntryAdds
<1>6. [a \in A |-> AccountSum(a, es)] = Rows(m, A, D)
  <2>1. \A a \in A : AccountSum(a, es) = SumOver(m[a], D)
    BY <1>1, <1>2, SumsOfEntries
  <2>. QED  BY <2>1 DEF Rows
<1>7. SumOver(Rows(m, A, D), A) = SumOver(Columns(m, A, D), D)
  BY <1>4, <1>5, SumsExchange
<1>8. ASSUME NEW n \in D
      PROVE  Columns(m, A, D)[n] = IF es[n].account \in A THEN v[n] ELSE 0
  <2>1. PICK col : col = [a \in A |-> m[a][n]]
    OBVIOUS
  <2>2. Columns(m, A, D)[n] = SumOver(col, A)
    BY <2>1 DEF Columns
  <2>3. \A a \in A : col[a] = IF es[n].account = a THEN v[n] ELSE 0
    BY <1>5, <2>1
  <2>4. CASE es[n].account \in A
    <3>1. PICK x \in A : x = es[n].account
      BY <2>4
    <3>2. col[x] = v[n] /\ col[x] \in Int /\ \A y \in A \ {x} : col[y] = 0
      BY <1>4, <2>3, <3>1
    <3>3. SumOver(col, A) = col[x]
      BY <3>2, SumOfOne
    <3>. QED  BY <2>2, <2>4, <3>2, <3>3
  <2>5. CASE es[n].account \notin A
    <3>1. \A a \in A : col[a] = 0
      BY <2>3, <2>5
    <3>2. \A s \in SUBSET A : SumOver(col, s) = 0
      BY <3>1, SumOfZeros
    <3>. QED  BY <2>2, <2>5, <3>2
  <2>. QED  BY <2>4, <2>5
<1>9. PICK c : c = Columns(m, A, D)
  OBVIOUS
<1>10. CASE \A n \in D : es[n].account \in A
  <2>1. \A n \in D : v[n] \in Int /\ v[n] = c[n]
    BY <1>4, <1>8, <1>9, <1>10
  <2>2. SumOver(v, D) = SumOver(c, D)
    BY <1>4, <2>1, SumsEqual
  <2>3. PICK d, k : d = Legs("debit", es) /\ k = Legs("credit", es)
    OBVIOUS
  <2>4. \A n \in D : v[n] \in Int /\ k[n] \in Int /\ d[n] = v[n] + k[n]
    BY <1>1, <1>3, <2>3, EntryAdds
  <2>5. \A s \in SUBSET D : SumOver(d, s) = SumOver(v, s) + SumOver(k, s)
    BY <1>4, <2>4, SumOfSums
  <2>6. \A s \in SUBSET D : SumOver(v, s) \in Int /\ SumOver(k, s) \in Int
    BY <1>4, <2>4, SumType
  <2>7. SumOver(d, D) = SumOver(k, D)
    BY <1>1, <2>3, SumsOfEntries DEF TriggerAccepts
  <2>8. D \in SUBSET D
    OBVIOUS
  <2>9. SumOver(v, D) = 0
    BY <2>5, <2>6, <2>7, <2>8
  <2>. QED  BY <1>6, <1>7, <1>9, <2>2, <2>9
<1>11. CASE \A n \in D : es[n].account \notin A
  <2>1. \A n \in D : c[n] = 0
    BY <1>8, <1>9, <1>11
  <2>2. \A s \in SUBSET D : SumOver(c, s) = 0
    BY <1>4, <2>1, SumOfZeros
  <2>. QED  BY <1>6, <1>7, <1>9, <2>2
<1>. QED  BY <1>1, <1>10, <1>11

\* There are finitely many accounts and posted journals, since each takes a step.
TablesFinite ==
  /\ IsFiniteSet({a \in Accounts : accounts[a] # None})
  /\ IsFiniteSet({j \in Journals : journals[j] # None})

LEMMA TablesStayFinite == IInv /\ [Next]_vars /\ TablesFinite => TablesFinite'
<1>. SUFFICES ASSUME IInv, [Next]_vars, TablesFinite PROVE TablesFinite'
  OBVIOUS
<1>. DEFINE open == {a \in Accounts : accounts[a] # None}
            posted == {j \in Journals : journals[j] # None}
<1>1. CASE UNCHANGED <<accounts, journals>>
  BY <1>1 DEF TablesFinite
<1>2. ASSUME NEW offer \in Offers, CreateAccount(offer[1], offer[2]) PROVE TablesFinite'
  <2>1. open' \subseteq open \union {offer[1]}
    BY <1>2 DEF CreateAccount, IInv, TypeOK
  <2>2. IsFiniteSet(open \union {offer[1]})
    BY FS_AddElement DEF TablesFinite
  <2>3. IsFiniteSet(open')
    BY <2>1, <2>2, FS_Subset
  <2>4. posted' = posted
    BY <1>2 DEF CreateAccount
  <2>. QED  BY <2>3, <2>4 DEF TablesFinite
<1>3. ASSUME NEW s \in Sessions, CommitPost(s) PROVE TablesFinite'
  <2>1. PICK j : j = draft[s].journal
    OBVIOUS
  <2>2. posted' \subseteq posted \union {j}
    BY <1>3, <2>1 DEF CommitPost, IInv, TypeOK
  <2>3. IsFiniteSet(posted \union {j})
    BY FS_AddElement DEF TablesFinite
  <2>4. IsFiniteSet(posted')
    BY <2>2, <2>3, FS_Subset
  <2>5. open' = open
    BY <1>3 DEF CommitPost
  <2>. QED  BY <2>4, <2>5 DEF TablesFinite
<1>. QED
  BY <1>1, <1>2, <1>3 DEF Next, Post, AddTo, InsertJournal, InsertEntry, RefuseEntry,
     RefuseCommit, CommitAppend, Crash, Rollback, vars, tables

LEMMA TablesAreFinite == Spec => []TablesFinite
<1>1. Init => TablesFinite
  <2>. SUFFICES ASSUME Init PROVE TablesFinite
    OBVIOUS
  <2>1. /\ {a \in Accounts : accounts[a] # None} = {}
        /\ {j \in Journals : journals[j] # None} = {}
    BY DEF Init
  <2>. QED  BY <2>1, FS_EmptySet DEF TablesFinite
<1>. QED  BY <1>1, TablesStayFinite, Invariance, PTL DEF Spec

-----------------------------------------------------------------------------
(* Theorems *)

\* Every table and transaction is of its type in every reachable state.
THEOREM LedgerTypes == Spec => []TypeOK
<1>1. IInv => TypeOK
  BY DEF IInv
<1>. QED BY <1>1, Invariance, PTL

\* A journal and all its postings are committed together or not at all, whoever
\* writes them, and whichever posting is refused or writer dies half-way.
THEOREM JournalsAreWhole == Spec => []PostedWhole
<1>1. IInv => PostedWhole
  BY DEF IInv
<1>. QED BY <1>1, Invariance, PTL

\* No writer gets an unbalanced journal past the deferred trigger, nor an entry
\* of another currency, or of no amount, past the keys and CHECKs; the latter
\* holds of the entries that are added to posted journals too.
THEOREM JournalsAreSound == Spec => [](JournalsBalance /\ EntriesInCurrency)
<1>1. IInv => JournalsBalance /\ EntriesInCurrency
  BY DEF IInv
<1>. QED BY <1>1, Invariance, PTL

\* A journal is posted once: what transaction_id names is never posted again,
\* under another currency or over its entries, and entries are only added.
THEOREM PostedOnce ==
  Spec => [][\A j \in Journals : journals[j] # None =>
               /\ journals'[j] = journals[j] /\ intent'[j] = intent[j]
               /\ IsPrefix(intent[j], entries'[j])]_vars
<1>. DEFINE Final == \A j \in Journals : journals[j] # None =>
               /\ journals'[j] = journals[j] /\ intent'[j] = intent[j]
               /\ IsPrefix(intent[j], entries'[j])
<1>1. ASSUME IInv, IInv', [Next]_vars PROVE [Final]_vars
  <2>. SUFFICES ASSUME NEW j \in Journals, journals[j] # None
                PROVE  /\ journals'[j] = journals[j] /\ intent'[j] = intent[j]
                       /\ IsPrefix(intent[j], entries'[j])
    OBVIOUS
  <2>1. CASE UNCHANGED <<journals, intent>>
    BY <1>1, <2>1 DEF IInv, PostedWhole
  <2>2. ASSUME NEW s \in Sessions, CommitPost(s)
        PROVE  journals'[j] = journals[j] /\ intent'[j] = intent[j]
    <3>1. journals[draft[s].journal] = None /\ draft[s].journal \in Journals
      BY <1>1, <2>2, WrittenIsAsked, RequestsAssumption
         DEF CommitPost, IInv, SessionOK, HoldersOK
    <3>. QED BY <1>1, <2>2, <3>1 DEF CommitPost, IInv, TypeOK
  <2>3. journals'[j] = journals[j] /\ intent'[j] = intent[j]
    BY <1>1, <2>1, <2>2 DEF Next, CreateAccount, Post, AddTo, InsertJournal, InsertEntry,
       RefuseEntry, RefuseCommit, CommitAppend, Crash, Rollback, vars, tables, history
  <2>. QED BY <1>1, <2>3 DEF IInv, PostedWhole
<1>. QED BY <1>1, Invariance, PTL DEF Spec

\* The balances that account_balance returns for the accounts of a currency cancel
\* out, for as long as nobody adds to posted journals: the trigger balances each
\* journal, and the composite keys keep it within the accounts of its currency.
THEOREM CurrenciesCancel == Spec => []BalancesCancel
<1>1. IInv /\ TablesFinite => BalancesCancel
  <2>. SUFFICES ASSUME IInv, TablesFinite, NEW c \in Currencies,
                       NEW P, P = {j \in Journals : journals[j] # None /\ appended[j] = 0},
                       NEW A, A = {a \in Accounts : accounts[a] = c}
                PROVE  SumFunction([a \in A |-> Balance(a, P)]) = 0
    BY DEF BalancesCancel
  <2>1. IsFiniteSet(A) /\ IsFiniteSet(P)
    <3>1. A \subseteq {a \in Accounts : accounts[a] # None}
      BY RequestsAssumption
    <3>2. P \subseteq {j \in Journals : journals[j] # None}
      OBVIOUS
    <3>. QED  BY <3>1, <3>2, FS_Subset DEF TablesFinite
  <2>2. PICK m : m = [a \in A |-> [j \in P |-> AccountSum(a, entries[j])]]
    OBVIOUS
  <2>3. ASSUME NEW j \in P
        PROVE  /\ entries[j] \in Seq(Posting) /\ TriggerAccepts(entries[j])
               /\ \A n \in DOMAIN entries[j] :
                    entries[j][n].account \in A <=> journals[j] = c
    <3>1. entries[j] \in Seq(Posting) /\ TriggerAccepts(entries[j])
      BY DEF IInv, TypeOK, JournalsBalance
    <3>2. \A n \in DOMAIN entries[j] :
            /\ entries[j][n].account \in Accounts
            /\ accounts[entries[j][n].account] = journals[j]
      BY <3>1, EntryAdds DEF IInv, EntriesInCurrency
    <3>. QED  BY <3>1, <3>2
  <2>4. \A a \in A, j \in P : m[a][j] \in Int /\ m[a][j] = AccountSum(a, entries[j])
    BY <2>2, <2>3, SumsOfEntries
  <2>5. SumFunction([a \in A |-> Balance(a, P)]) = SumOver(Rows(m, A, P), A)
    <3>1. ASSUME NEW a \in A PROVE Balance(a, P) = SumOver(m[a], P)
      <4>1. m[a] = [j \in P |-> AccountSum(a, entries[j])]
        BY <2>2
      <4>2. DOMAIN m[a] = P
        BY <4>1
      <4>. QED  BY <4>1, <4>2, Zenon DEF Balance, SumFunction, SumOver
    <3>2. [a \in A |-> Balance(a, P)] = Rows(m, A, P)
      BY <3>1 DEF Rows
    <3>3. DOMAIN Rows(m, A, P) = A
      BY DEF Rows
    <3>. QED  BY <3>2, <3>3, Zenon DEF SumFunction, SumOver
  <2>6. SumOver(Rows(m, A, P), A) = SumOver(Columns(m, A, P), P)
    BY <2>1, <2>4, SumsExchange
  <2>7. ASSUME NEW j \in P PROVE Columns(m, A, P)[j] = 0
    <3>1. PICK es : es = entries[j]
      OBVIOUS
    <3>2. SumOver([a \in A |-> AccountSum(a, es)], A) = 0
      BY <2>1, <2>3, <3>1, JournalCancels
    <3>3. [a \in A |-> m[a][j]] = [a \in A |-> AccountSum(a, es)]
      BY <2>4, <3>1
    <3>. QED  BY <3>2, <3>3 DEF Columns
  <2>8. PICK k : k = Columns(m, A, P)
    OBVIOUS
  <2>9. \A j \in P : k[j] = 0
    BY <2>7, <2>8
  <2>10. \A s \in SUBSET P : SumOver(k, s) = 0
    BY <2>1, <2>9, SumOfZeros
  <2>11. P \in SUBSET P
    OBVIOUS
  <2>. QED  BY <2>5, <2>6, <2>8, <2>10, <2>11
<1>. QED  BY <1>1, Invariance, TablesAreFinite, PTL
=============================================================================
