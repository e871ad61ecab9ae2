# AtlasPay in TLA+

AtlasPay is a payment platform: a Python service (`src/app`) on PostgreSQL
(`src/migrations`), and a Java authorization service (`src/java-service`) on the
same database. This directory models its state machines, checks them with TLC
and proves their safety with TLAPS. All paths below are under
`src/`.

## 1. Inventory

| Component | Code | State | Operations | What makes it correct |
|---|---|---|---|---|
| Payment operations | `app/payment_operations.py`, migration 003 | `payments.status`, `payment_operations`, journals, entries, outbox events; advisory and row locks | `execute(capture, refund, reversal)` | money moves once per transition; five tables agree; a retry gets the first answer; a changed request under a used key is refused |
| Payment creation | `app/repository.py`, `app/service.py`, migration 001 | `payments`, `idempotency_keys` | `create_payment`, `get` | a key names one payment; the durable store behaves as the in-memory one |
| Double-entry ledger | `app/ledger.py`, migration 002 | accounts, journals, entries | `create_account`, `post`, `account_balance` | journals are posted whole and balanced; the schema lets no writer past the rule |
| Transactional outbox | `app/outbox.py`, migration 004 | `outbox_events`: `attempts`, `locked_at`, `published_at` | `claim_batch`, `publish_batch`, `acknowledge`, `record_failure` | nothing is marked published that was not delivered; workers do not overlap within a lease; every event is settled |
| Event consumer | `app/outbox.py`, migration 004 | `consumed_events` | `consume_once` | a committed event takes effect once; nothing is consumed that was not committed upstream |
| Reconciliation | `app/reconciliation.py` | none; reads the tables above; replay control resets `attempts` | `inspect`, `reset_outbox_event` | what its six statements look for is found while it lasts; nothing else is reported |
| Network flow | `app/network_flow.py`, `network_coordinator.py`, `network_transport.py`, `network_routing.py` | pending, completed and timed-out correlations; reversal links | `start`, `exchange`, `handle_late_response` | an attempt is concluded once; a reversal only for what timed out; a retry only of what was not delivered |
| Issuer routing | `app/network_routing.py` | none | `route` | the most specific eligible route wins, whatever the order of the routes; a tie is refused |
| Message codecs | `app/iso8583.py`, `iso8583_adapter.py`, `emv.py`, `iso20022.py`, `canonical.py` | none | `encode`, `decode`, `parse_ber_tlv`, the mappings to and from the canonical request | what is sent arrives; what is accepted has one form; what a mapping loses it declares |
| Fault injection | `app/network_faults.py` | a script of faults | `exchange` | a test double |
| History and telemetry | `app/network_history.py`, `network_observability.py`, migration 005 | `network_observations`; counters | `observe_exchange`, `record_late_response`, `record` | they tell what happened, also when the call raises or the insert fails |
| Operational snapshot | `app/operational_snapshot.py` | none | `read` | lasting trouble shows; a healthy answer is no accident of the moments its sections were read at |
| Migrations and demo seed | `app/migrations.py`, `hosted_demo.py`, `demo_network.py` | `schema_migrations`; seeded rows | `migrate_database`, `bootstrap` | concurrent deployments apply each migration once; drift is refused |
| Java authorization | `java-service/.../AuthorizationService.java`, migration 006 | `authorization_decisions`, `outbox_events` | `authorize` | decision and event are atomic; a repeated request gets the first decision; a changed one should be a conflict and is not |
| Java batch | `java-service/.../ReconciliationBatchConfiguration.java` | `reconciliation_items`, `reconciliation_results` | chunked job | every item has one result, however often it is read |
| HTTP API | `app/main.py` | none | routes | maps errors to status codes |
| Analytics | `analytics/sql` | none | queries | reporting only |

**Interaction.** The Python components call no one but PostgreSQL and share its
tables: `execute` writes the status that creation wrote, the ledger's tables and
the outbox; workers move the outbox; consumers take what workers publish;
reconciliation reads all of it while it changes; the Java service adds decisions
and events of its own. The network flow is separate: an object in the memory of
one process, driven by its caller, which calls its transport synchronously.

**Hard behaviours.** Interleaved READ COMMITTED transactions that rely on
advisory locks, row locks and unique indexes; a transaction that commits and
whose answer is lost; workers that outlive their leases or die between publish
and acknowledge; inserts that wait for another's uncommitted insert; a report
whose statements see different snapshots; answers that come late, twice, to a
retried attempt or not at all; several deadlines that pass together.
`PROJECT.json` lists each with its line and the properties that cover it.

## 2. Modules

PostgreSQL is modelled at READ COMMITTED, psycopg's default: a statement reads
what is committed when it starts; `SELECT ... FOR UPDATE` waits for the row and
reads its newest version; a conflicting `INSERT` waits for the other
transaction to end; writes show together at commit; locks go when the
transaction ends. Statements of a transaction whose effect nobody else can see
are grouped into one step, and every read, lock and commit is a step of its own.
A crash is possible at every step and rolls an open transaction back.

| Module | Models | Correspondence |
|---|---|---|
| `PaymentLifecycle` | what the operations promise, without sessions | `Apply` is one legal transition, once per key and operation |
| `PaymentOperations` | `execute` | `pc` runs `waitKey` (advisory lock) → `keyed` (look up the key) → `waitRow` (`FOR UPDATE`) → `locked` (transition check) → `staged` (six writes) → `answer`, or `replay`; `LockIds`/`HashText` let two keys share a lock |
| `Reconciliation` | `inspect` over a running `PaymentOperations` | `RunStatement` evaluates one of the six SELECTs; `Tamper` is an edit by hand that the schema permits; `Troubles` is what is wrong with the tables, told without the SELECTs |
| `Snapshot` | `PostgresOperationalSnapshotReader.read` around that inspection | `RunSection` is one SELECT of `_measure_database`; `Health` the classification; `Execute` a whole call of `execute`, of which a reader sees the commit only |
| `PaymentProofs` | theorems about these four | section 5 |
| `PaymentContract` | `InMemoryPaymentRepository`, atomic under its lock | one of `Create`, `Replay` per call |
| `PaymentRepository` | `PostgresPaymentRepository.create_payment` | candidate insert, claim, loss, deletion, the two reads, commit; `holder` is an uncommitted claim |
| `PaymentRepositoryProofs` | theorems about it | section 5 |
| `Ledger` | `PostgresLedger` and SQL that bypasses it | `Post` with `checked` is `post`; without, an alternate writer; `CommitPost`/`RefuseCommit` run the deferred trigger |
| `LedgerProofs` | theorems about it | section 5 |
| `Outbox` | `PostgresOutbox` workers, operator reset | `ClaimSelect`, `ClaimCommit`, `Publish`, `Acknowledge`, `RecordFailure`; time is an age up to the lease |
| `EventConsumer` | `consume_once` | insert, handler, commit; handler effects survive a rollback |
| `EventDelivery` | both together | `delivered` is the shared variable |
| `EventDeliveryProofs` | theorems about the three | section 5 |
| `NetworkCoordinator` | the state of each correlation | one operator per method |
| `NetworkFlow` | the flow, its adapter and the reversal registry | one action per transport outcome of `exchange`, with the moment it completes |
| `NetworkReports` | `NetworkTelemetry` and `network_observations` behind the flow | each call of `NetworkFlow` together with the counters and the row it leaves; `LoseRow` is an INSERT that fails |
| `NetworkFlowProofs` | theorems about the flow and its reports | section 5 |
| `Iso8583` | `ISO8583Codec` | `Encode` and `Decode` on bytes; a profile is a function from element numbers to `FieldSpec`s, `DefaultFieldSpecs` the shipped one |
| `BerTlv` | `parse_ber_tlv`, `decode_de55` | `ReadItem` is one turn of the loop, `ParseItems` recursive, as the parser is; `Ber`, `BerItems`, `Level` are the encoder it is held to, one level of nesting after the other |
| `Canonical` | the canonical request, both mappings, `NetworkRouter.route` | one operator per function, `Rejected` for whichever error it raises |
| `CardMessages` | the way of a message through all of these | one action per adapter; `Alter` flips a bit, drops or doubles a byte or cuts the end off |
| `CardMessagesProofs` | theorems about it and the operators of the three before | section 5 |
| `Deployment` | `migrate_database` and `ensure_demo_seeded`, by containers of several releases | a file has a version, the stem of its name, and a checksum, and a release is the sequence of its files; `HandleFile` skips or executes one file, `Observe` is one observation of `run_demo`, `LoseSeedLock` the loss of the idle connection that holds the seed lock |
| `DeploymentProofs` | theorems about it | section 5 |
| `JavaAuthorization` | `authorize` | look-up, two inserts, commit; `DuplicateKey` is the exception of a losing insert |
| `JavaAuthorizationProofs` | theorems about it | section 5 |
| `MC...` | values of constants for TLC | functions and requests a `.cfg` cannot write; `MCPostgresWriters` also puts `Ledger` and `JavaAuthorization` side by side |

`PaymentOperations` is composed with `Reconciliation` and that with `Snapshot`
(both extend), `Outbox` and `EventConsumer` in `EventDelivery` (extends and
instance), `NetworkCoordinator` with `NetworkFlow` and that with `NetworkReports`
(extend), the codecs in `CardMessages`. The remaining interaction, `execute` storing an
event, is the action `Store` of `Outbox`: `RecordsAgree` says that the event is
committed with its operation, and `Store` takes it from there.

Operators named `Bug...` are mistakes the definition beside them could have
contained; each property of a run is violated when one of them is put in its
place. No specification uses them.

### External behaviour

No code in the repository authorizes a payment (tests and operators do, by
`UPDATE`), so `Authorize` is an external action that waits for the row lock.
`Alter` and the payloads of `CardMessages` are other people's bytes. Element
numbers 64, 65 and 128 are in no shipped profile; the instance registers them
because `FieldSpec` admits them and the bitmaps end there.
PostgreSQL's locks, the clock, the issuer, the broker and the death of a process
are external too; they are as free as the code lets them be.

## 3. Runs

`tlc -config X.cfg M`; the module of each run is in `PROJECT.json`.

| Run | Asks | Bounds, and why they suffice |
|---|---|---|
| `PaymentOperations` | Do concurrent calls move money once, keep five tables in agreement, answer truly and end? Is every commit a step of `PaymentLifecycle`? | 2 sessions, the fewest that race; 2 payments and 3 keys, two of which collide in `hashtext`; requests that reuse a key for another payment, compete for a payment under two keys, refund, reverse, and name an account of another currency |
| `Snapshot` | Can a snapshot of twelve moments invent an orphan, miss lasting trouble, be healthy by accident or contradict itself? | 1 payment, its capture and a refund or reversal; 1 edit by hand (an event or an operation deleted, a status set back, an entry added) or 1 observation, which is enough for each discrepancy such an edit can cause and each counter an observation moves. An edit and an observation meet in no property, so one of them at a time suffices; commits, publications, failures and resets are free |
| `Reconciliation_clean` | Is the report of unedited operations clean? **Violated**, see section 6 | 1 session, no edit |
| `PaymentRepository` | Does the durable repository implement the in-memory one, and does a waiting claimant finish? | 2 callers, 1 key, 2 bodies, calls without key, 3 identifiers: winner, loser and unkeyed payment coexist |
| `EventDelivery` | What can overlapping workers do to an event, is every effect of a handler accounted for, is a stored event consumed in the end? | 1 event, 2 workers, 2 attempts, 2 consumer sessions, 2 crashes, 1 reset, 1 rollback. One event is enough: the code treats rows one by one, no property relates two of them, and the other events of a batch only lengthen the hold of this one, as `Tick` does. An age of `Lease + 1` stands for all later ones, as the code only compares |
| `NetworkReports` | Is an attempt in one state, concluded once, reversed only after a timeout, for good; do counters and rows say the same? | 2 attempts with deadlines of 1 or 2 on a clock of 4 instants, so that deadlines pass alone and together; every exchange may be repeated; 1 lost row. Correlations and reversal keys are compared for equality only and all properties are safety, so their permutations are a symmetry |
| `NetworkFlow_timeout` | Does a due attempt that times out end timed out? **Violated** | 2 attempts, as above, without the reports |
| `NetworkFlow_cancel` | Is a cancelled attempt undelivered? **Violated** | 1 attempt |
| `PostgresWriters` | Are journals whole, do balances cancel in each currency? Is a decision of the Java service announced, does a repeated request get it? | 2 sessions, 2 journals, 2 accounts, an account offered in two currencies; balanced, unbalanced, one-sided, empty and zero lists, checked and not; 1 later addition. 2 callers, 2 keys, an amount on each side of the limit, 3 identifiers. The two specifications share no table, so each runs beside the other at rest: every interleaving of one's own steps is there |
| `JavaAuthorization_changed` | Is a changed request under a used key refused? **Violated** | 2 callers, 1 key, 2 amounts |
| `Deployment` | Is the schema made of whole releases, does nobody execute what another has committed, is the demo seeded once? | 3 containers; a release, its successor, two successors with an edited file and one whose second file has another name; 2 observations for the 4 of `run_demo`, which are all alike: one before and one after a crash. Containers are compared for equality only and the properties are safety, so their permutations are a symmetry |
| `CardMessages` | Does what was sent arrive, has what is accepted one form, is every loss declared, is the route one? | The real limits and the shipped profile. Requests and messages at the edges: PANs of 12, 15, 16 and 19 digits, amounts of 12 and 13, blank RRN, elements 64, 65 and 128, an empty element, values of 128 bytes, templates 8 and 9 deep; bytes with an empty DE55, PANs of 0 and 20 digits, lengths in DE55 that are not shortest; `MaxEdits` = 1, but at every bit, byte and cut of each message |

The bounds are `Ids` (identifiers `uuid4` may draw), `MaxTampers`, `MaxOutside`,
`MaxCrashes`, `MaxResets`, `MaxRollbacks`, `MaxAppends`, `MaxLost`, `MaxEdits`,
`MaxTime` and the sizes of the sets. Deadlock is checked except in `NetworkFlow`
and `NetworkReports`, whose clock is bounded and whose caller may call no more,
and in `CardMessages`, where a message that is accepted or refused has arrived.

Type invariants that no run lists (`Outbox`, `EventConsumer`, `PaymentRepository`,
`Ledger`, `JavaAuthorization`) hold in the runs' instances too; they are stated
for the proofs.

### Fairness

* A session, caller or worker that is up takes its next step (weak fairness of
  `Proceed`, strong of `Work`, which a row lock may interrupt): each is a thread
  that runs straight through its method.
* PostgreSQL queues the waiters of a lock or of an index entry and wakes them in
  turn: strong fairness of `LockKey`, `LockRow` and `ClaimKey \/ LoseKey`.
* Time passes and workers are run again (`Tick`, `ClaimSelect`): the worker is
  meant to be called in a loop, and `StoredIsConsumed` is about that deployment.
* The broker redelivers to a consumer what it has not consumed (strong fairness
  of `Take` in `EventDelivery`): at-least-once delivery, as
  `docs/adr/0003-transactional-outbox.md` assumes.

No fairness is assumed of callers, operators or crashes. Nothing in the network
flow runs by itself, so no liveness is claimed there.

## 4. Properties worth reading first

* `LedgerAgreesWithStatus`: the journals of a payment are those its status calls
  for, one each. Without the row lock a capture and a reversal under two keys
  both pass the transition check.
* `ImplementsLifecycle`, `ImplementsContract`: sessions, locks and candidates
  refine a specification that has none of them.
* `UniqueConstraintNeverFires`: the advisory lock alone serialises a key, so the
  `UNIQUE` column never turns a retry into a database error.
* `OverlapNeedsOverrun`, `AttemptsBounded`: the lease separates workers until one
  outlives it, and the ceiling on attempts is passed by such overlaps only.
* `EffectsAccountedFor`: the handler runs again only where a rollback undid its
  claim; "at most once" does not hold, and the equation says by how much.
* `OnlySupersededReported`, `LastingTroubleIsReported`, `HealthyIsSettled`,
  `LaterSectionsCoverEarlier`: what reading at twelve moments can and cannot do
  to the report and to the snapshot. Trouble is told from what `execute` writes and
  from the life of a payment, so that a SELECT that looks for something else fails. The last one depends on the order of the
  sections: read the operations before the payments, and it fails.
* `ReversalOnlyAfterTimeout`, `ConcludedOnce`: over all orders of expiry, late
  and duplicate answers and repeated exchanges.
* `MetricsAgree`, `HistoryAgrees`: counters and rows are written after the effect,
  some not at all, and still tell which attempts were concluded and reversed.
* `StoredIsConsumed`: from the commit of an operation to the last consumer, through
  crashes, leases, resets and rollbacks.
* `OneFormPerMessage`, `ChipDataHasOneForm`: whatever arrives, decoders accept only
  what an encoder would have sent, up to one exception in the bitmap.

## 5. Proofs

The theorems hold for any sets and bounds that the constants stand for, under the
assumptions named here; TLC evaluates these in every run. Each proof module states the
inductive invariant of its specification, and TLC checked it on the
instance of its run before it was proved.

| Module | Theorem | Property |
|---|---|---|
| `PaymentProofs` | `TypeCorrect` | `TypeOK` |
| | `AdvisoryLockSuffices` | `UniqueConstraintNeverFires` |
| | `LedgerFollowsStatus` | `LedgerAgreesWithStatus` |
| | `RecordsStayInAgreement` | `RecordsAgree` |
| | `AnswersStayDurable` | `AnswersAreDurable` |
| | `OperationsNeverChange` | `OperationsImmutable`, which no run lists: the abstract operations of `ImplementsLifecycle` never change either |
| | `Refinement` | `ImplementsLifecycle` |
| | `NoFalseAlarms`, `NoFalseAlarmsInSnapshots` | `OnlySupersededReported`, of `ReconSpec` (sessions in mid-call) and of `SnapshotSpec` |
| | `HealthyMeansSettled` | `HealthyIsSettled` |
| | `LastingRowTroubleIsFound` | `LastingRowTroubleIsReported`, the part of `LastingTroubleIsReported` without sums |
| | `SectionsCover` | `LaterSectionsCoverEarlier` |
| `PaymentRepositoryProofs` | `TypesKept`, `ClaimsStayTrue` | `TypeOK`, `ClaimsNameTheirPayments` |
| | `Refinement` | `ImplementsContract` |
| `EventDeliveryProofs` | `OutboxTypes` | `TypeOK` of `Outbox` |
| | `PublishedDelivered` | `PublishedWasDelivered` |
| | `ExclusiveClaims` | `OverlapNeedsOverrun` |
| | `BoundedAttempts` | `AttemptsBounded` |
| | `PublishedIsFinal` | `PublishedRowFrozen` |
| | `EffectsBalanced` | `EffectsAccountedFor` |
| `NetworkFlowProofs` | `FlowTypes`, `OneConclusion` | `TypeOK`, `ConcludedOnce` |
| | `ReversalsAreForTimeouts` | `ReversalOnlyAfterTimeout` |
| | `SettledStays` | `SettledForGood` |
| | `ReportsOnly` | `ReportsSpec` implements `Spec`: reporting changes nothing of the flow |
| | `MetricsTellTheFlow`, `HistoryTellsTheFlow` | `MetricsAgree`, `HistoryAgrees` |
| `LedgerProofs` | `LedgerTypes`, `JournalsAreWhole` | `TypeOK`, `PostedWhole` |
| | `JournalsAreSound` | what the schema promises of each journal and entry |
| | `PostedOnce` | a posted journal stays; entries are only added to it |
| | `CurrenciesCancel` | `BalancesCancel` |
| `JavaAuthorizationProofs` | `Types`, `Repeats` | `TypeOK`, `RepeatsReturnOriginal` |
| | `Announcements` | `DecisionsAnnounced` |
| `DeploymentProofs` | `TypeCorrect`, `SchemaComesInReleases` | `TypeOK`, `SchemaIsWholeReleases` |
| | `LockKeepsPending` | `PendingStaysPending` |
| | `SeedsOnce` | `SeededOnce` |
| `CardMessagesProofs` | `EveryStateIsTraced` | the inductive invariant `Traced`: each stage of a message is what its adapter made of the one before |
| | `SentMessagesArriveWhole` | `LosslessOnTheWire` |
| | `DecodeTakesOneForm` | `OneFormPerMessage` |
| | `MappingLosesNothing` | `MappingKeepsElements` |
| | `ProjectionDeclaresLosses` | `LossesAreDeclared` |
| | `LongestPrefixWins` | `RouteIsUnique` |
| | `ChipDataHasOneReading` | `ChipDataHasOneForm` |

### The arguments

Hardly any of these properties is inductive alone. What has to be added is in most
cases what a place in the code entitles its thread to believe.

**Payment operations** (`ConstantsAssumption`: requests are well typed, amounts
positive, `HashText` a function into the lock numbers; `NoneAssumption`: the
placeholder is not a value). A session past `LockKey` holds the
advisory lock of its key; one past `LockRow` holds its payment's row and has seen
the status that is still there; a staged row carries the caller's fingerprint,
the status seen, the status the transition leads to and an identifier nobody else
has; and, before commit, the key is unused. Lock ownership makes the commits of
one key, and of one payment, exclusive; freshness of identifiers
(`IdentifiersUnique`) keeps the new journal apart from the old ones; the rest is
one step per action. The refinement maps the committed tables to the abstract
state: only `Commit`, `CreatePayment` and `Authorize` change it, and each is the
abstract step of its name. `OperationRecorded` says what one more operation does to
the five tables, for `Commit` here and for `Execute` in `Snapshot`.

**Reconciliation and snapshot** (the same assumptions). Tables that agree contain no
orphan and no invalid journal, whatever the six statements look at (`NoOrphans`,
`JournalsAreValid`, `MismatchIsSuperseded`), and the agreement itself is the theorem
above. `StandingOK` follows trouble that lasts from one statement to the next; that the
statement of its kind finds it needs `RowsLinked`: whatever is edited by hand, an operation
keeps a payment, its `to_status` is that of its transition, and an event that carries its
identifier is its own (`TroubleIsFound`).
What a snapshot counted in its sections is related to tables that have moved on
since: `CountsAgree` says that as many operations are stored as the payments have
taken steps (a refunded one two), and `BooksMeasured`, `StuckOK` and `NetworkMeasured`
that each number measured is a bound for what the next section will find, because
what it counts only grows. These are needed because the properties compare
two sections that never saw the same tables.

**Payment creation** (`KeyAssumption`, `NoneAssumption`). `HoldersOK` ties a pending claim
to the caller that will commit it, `CandidatesFresh` keeps the payments that are not
committed apart from each other and from those that are, and `LosersFindClaims` says
that the claim a loser reads is committed, with its own request once that matched: this
is why the deletion of the candidate and the second read lead to an answer that
`PaymentContract` would have given. A commit maps to one `Create` or `Replay`, all other
steps to stuttering.

**Outbox and consumers** (`ParametersAssumption`, `ConsumersAssumption`: attempts, lease
and batch size positive, finitely many workers, placeholders not values).
`RowLocksOK`: a row lock belongs to the worker in mid-claim, and the row is
unpublished. `LeasesOK`: who holds an event that nobody has held past the lease holds it
alone, with an attempt left, and the age of the row's lease is that of its hold. Without
the last conjunct one could not exclude that the row looks free while it is held. The effects
of handlers are balanced by `ClaimsOK`: the pending insert of a pair is that of the
session whose handler runs, and then the pair is not consumed.

**Network flow and reports** (`TimeAssumption`, `TimeoutsAssumption`: deadlines lie in the
future, the placeholder is no reversal key). The type invariant keeps pending, completed and
timed-out correlations apart; with it, the two other properties are inductive. The
counters are related to sets (`Agreement`: as many accepted, late and reversed
correlations as were counted), and a set grows by the one correlation of the call.

**Ledger** (`RequestsAssumption`: requests are typed, finitely many sessions, a number of
additions). `SessionOK`: the foreign keys have accepted each entry a transaction has
written, and `HoldersOK` that nobody else writes its journal. So the trigger sees the
whole journal (`JournalsBalance`), and each entry is in an account of the journal's
currency (`EntriesInCurrency`). `BalancesCancel` sums these up over accounts, journals and
entries. Its proof needs sums over finite sets, of which the library has no theorem that
these provers can use: `SumStep` shows that `SumFunctionOnSet` computes the sum of a set
from that of the set without one element, by taking a smallest set for which it does not
(`SmallestSubset`), and `SumTakesAny`, `SumOfSums` and `SumsExchange` are the rules of
calculation. Summed by journal, the accounts of the currency hold all entries of a
journal or none; and `TablesFinite` says that there are finitely many of both.

**Java authorization** (`NoneApart`: the placeholder is no caller and no decision; each
theorem has it as its hypothesis, and `PostgresWriters` evaluates it). `HoldersOK`: the
pending insert of a key is that of the one caller between insert and commit. `IdsUnique`
keeps two decisions from announcing themselves as one event, so that decisions and events
can be counted against each other.

**Deployment** (`ReleasesAssumption`: a release is a sequence of files, no two of one name;
the placeholder is not a value). A container inside a critical section of the migrations holds
its lock (`LocksHeld`), one in the middle of its files knows exactly what is recorded
and has passed only files that are recorded as it has them or not at all
(`FilesChecked`), so that what it commits completes its own release and contradicts no
other (`PendingCompletes`, `CommitKeeps`). One that seeds has itself made all the
observations there are, and holds the lock until the first of them, unless the lock was
lost before (`SeedIsOwn`): without it, a second seed on top of a half-made one could not be
excluded.

**Card messages** (`ProfileAssumption`: what `FieldSpec.__post_init__` enforces;
`MappingAssumption`: numeric currency codes are three digits, and no two stand for one
currency; routes have prefixes of digits and some currencies, as `IssuerRoute` enforces;
`None` is no ICC data; `InputsAssumption`: requests are valid, messages and payloads made of
bytes, limits as `app/emv.py` has them or others, a length in at most three bytes). The state
machine is simple and `Traced` is inductive at once: what was received is `Decode` of the
bytes, what was accepted is the mapping of that, and as long as nobody altered the bytes
they are those of what was sent. The work is in the operators, for every message and all
bytes:

* Eight bytes and a set of bits, and two or three digits and a length, determine each
  other (`BitmapOfBits`, `BitsOfBitmap`, `DecimalOfNumber`, `NumberOfDecimal`).
* `EncodeThenDecode`: what `Encode` gives, `Decode` takes back, field by field
  (`ReadBack`). `DecodeThenEncode`: what `Decode` takes, `Encode` gives, up to the empty
  secondary bitmap; `ReadSoFar` says that the fields read encode to the bytes read.
* `RequestBack`, `MappingKept`, `DeclaredLosses`: the mappings and their inverses. An amount
  survives because digits are padded with the zeros that were stripped
  (`PaddedSignificant`, `SignificantPadded`).
* `ServingIsEligible`, `RoutesAreUnique`: a route serves a request, told digit by digit,
  exactly when `Route` finds it eligible; prefixes of one PAN of the same length are the same.
* `ShortestLength`, `FirstItem`, `EveryItemRead`: a length that is accepted is the shortest
  encoding of its value, an item that is read is encoded by the bytes it was read from, and so
  are all of them. `ParsedChip` carries that down the levels of nesting.

Encoding, reading and parsing are folds and recursive functions, and what those compute is
not given: their definitions choose a function that satisfies an equation. So the proofs first
show that there is one. Finite approximations exist and agree, by induction over their size
(`FoldExists` and `FoldsAgree`, `ParsersExist` and `ParsersAgree`, `LevelsExist` and
`LevelsAgree`), and together they are what the definition chooses (`FoldUnique`,
`ParserDefined`, `LevelDefined`). The induction theorems of the library take an operator as
a parameter, which these provers cannot use; `AllNaturals` says the same of a set.

### What the proofs found in the model

* The proofs about `Snapshot` failed at its first `Execute`: it let through a
  request whose source and destination are the same account, which `execute` refuses
  before it opens its transaction (`app/payment_operations.py:105`). The requests TLC was
  given had none. The guard is there now.
* `observed` was a bag of outcomes. It is the set of rows of `network_observations` now,
  with their identifiers, so that two like observations are two.
* Placeholders had to be said not to be values, and sessions or workers to be
  finitely many where the model counts them; the code has such a bound in the
  processes that run.
* `ChipDataHasOneForm` used a recursive encoder, about which these provers can show
  nothing. It speaks of the bytes at each level of nesting now, and of its limit too.
* A profile may register other specifications for the elements that the mapping writes.
  `MappingKeepsElements` is about profiles that have those of the shipped one for them, which
  `InputsAssumption` had to say: with a terminal identifier of another length, for
  example, a request could be accepted and not mapped back.
* `BalancesCancel` speaks of the posted journals, as the rows of `ledger_entries` do.
  Over all identifiers that may ever be used it had been a sum over a set that need
  not be finite.

### Only model-checked

* Liveness (`EveryCallEnds`, `ClaimantsFinish`, `StoredIsConsumed`): fairness and
  `ENABLED` are out of the prover's reach.
* The part of `LastingTroubleIsReported` about journals that do not balance: it compares the
  difference of two sums with a sum of differences. The rest of it is proved
  (`LastingRowTroubleIsFound`).
* The four runs of section 6, which refute something.

## 6. Where code and documents disagree

These have a run that shows them:

* **Several deadlines at once** (`NetworkFlow_timeout`): `expire` sorts keys of a
  dataclass without an order. With two expired attempts it raises `TypeError`;
  the timeout is not classified and both stay pending.
* **Undecodable answer** (`NetworkFlow_cancel`): the adapter reports it as a local
  failure and the correlation is freed for a retry, though the issuer had the
  request.
* **Superseded operations** (`Reconciliation_clean`): a captured and refunded
  payment is reported as a status mismatch for ever, since every operation's
  `to_status` is compared.
* **Changed request to the Java service** (`JavaAuthorization_changed`):
  `docs/CLOUD_PLATFORM_ARCHITECTURE.md:79` wants a conflict for a changed request with a
  used key. `authorize` compares nothing and returns the decision of the first request.

Met while reading, without a run:

* `docs/adr/0002-double-entry-ledger.md:53`: the trigger "prevents alternate
  writers from bypassing the balance rule", but it fires for inserted journals
  only (`migrations/002_double_entry_ledger.sql:92`). SQL that adds an entry to a
  posted journal unbalances it: action `AddTo` of `Ledger`, which `BalancesCancel`
  therefore excepts. `InvalidJournals` of `Reconciliation` finds it.

* `docs/adr/0003-transactional-outbox.md:35` stops automatic attempts at a
  ceiling; a crash between claim and acknowledge is not counted in `attempts`, so
  an event that kills its worker is tried again without end.
* `acknowledge` and `record_failure` (`app/outbox.py:111`, `:120`) match the
  event's id and not the lease: a worker that outlived its lease frees the lease
  of the one that took over. The model has it; `OverlapNeedsOverrun` and
  `AttemptsBounded` bound what follows.
* `docs/adr/0003-transactional-outbox.md:36`: the handler of `consume_once` runs
  inside the claim's transaction without being given it, so that only the claim
  rolls back with it.
* `docs/CLOUD_PLATFORM_ARCHITECTURE.md:78` lists as a deployment check that a repeated
  request returns the original result. In the Java service a retry that races the first
  call fails with a duplicate key error before a further retry returns the decision
  (`DuplicateKey`; `RepeatsReturnOriginal` is about the answers that are given).
* No statement of `inspect` looks for a status that no operation led to, such as an
  authorized payment set to captured by hand, for a journal whose operation and
  event are both gone, or for entries added to a journal in balance. Such trouble can last
  beside a healthy snapshot; `LastingTroubleIsReported` leaves it out.
* A release whose files are named otherwise than those recorded is no drift: `migrate_database`
  looks a file up by its stem (`app/migrations.py:40`, `:44`) and executes what it does not
  find, so that the schema may hold two releases side by side.
  `SchemaIsWholeReleases` says that each of them is whole.
* `app/hosted_demo.py:4-6`: the advisory lock keeps concurrent starts from duplicating
  observations. It belongs to a connection that is idle during `run_demo`; if that is lost,
  the seed goes on over other connections, and a second start that counts before its first
  observation seeds as well. `SeededOnce` makes this one exception.
* `java-service/README.md:7` speaks of marking the source row processed; the
  batch sets `processed_at` of results, never of items, so every run reads all
  items again and writes their results over.
* `app/iso20022.py:18` documents `ISO20022MappingError` for what the projection
  cannot represent. An RRN of twelve blanks is canonical (`app/canonical.py:16`)
  and refused by the projection (`app/iso20022.py:51`) with a bare `ValueError`.
  `ToIso20022` has the refusal; `LossesAreDeclared` is about what is projected.
* `decode` takes a message whose secondary bitmap is announced and empty, which
  `encode` never sends: two byte strings mean one message. It is the exception in
  `OneFormPerMessage`.
* An exchange that raises, a timeout met by `TypeError` included, is counted as a
  `failure` whose delivery is known (`app/network_observability.py:94`, `:98`),
  although the request may have reached the issuer, and leaves no row. What is
  conclusive is counted right: `MetricsAgree`, `HistoryAgrees`.
* Since a refunded payment is a discrepancy for ever, the snapshot is `critical`
  for ever after the first refund; `HealthyIsSettled` includes that.
* `app/hosted_demo.py:38` ensures "the deterministic demo state exists"; a crash
  in the middle of the seed leaves a part of it that every later start takes for
  the whole. `SeededOnce` says what is there.
* `docs/CLOUD_PLATFORM_ARCHITECTURE.md:59` wants migrations applied before
  traffic; the start command (`Dockerfile:24`) starts the server also when the
  bootstrap failed (`Serve` in `Deployment`).

## 7. Not modelled

* **`find_tags`, `decode_tvr`** (`app/emv.py`): a search and a table over what the
  parser returns. The parser, codec and mappings are modelled.
* **`UnavailableOperationalSnapshotReader`**: returns a constant. Of the snapshot
  the ages, latencies and labels of routes are left out: no decision uses them.
* **Java batch**: migration 006 creates `reconciliation_items` and
  `reconciliation_results`, but no code writes an item or marks it processed, so an
  item has no life to translate. The repository supplies a SELECT, a processor without
  state and an upsert on `item_id`, which makes reading an item again harmless; the loop
  that reads, chunks, commits and restarts is Spring Batch's.
* **`demo_network --reset`**: a tool for local databases.
* **Spans, histograms and the label `delivery_unknown`** of the telemetry: they
  follow the outcome, which is modelled.
* **Fault injection**: the model's network does all it scripts.
* **HTTP API, token checks, analytics**: stateless.
* **Statuses `failed` and `cancelled`**: no code assigns them.

## 8. State of the work

The modules of section 2 and the proofs of section 5 are done. The proofs cover every
safety property and every action property of the passing runs but the sums in
`LastingTroubleIsReported`; liveness stays with TLC. What could be added is listed in
section 7; the first of it would be `find_tags`, whose answer is determined by
`EveryItemRead`, and the Java batch once code of the repository writes items.
