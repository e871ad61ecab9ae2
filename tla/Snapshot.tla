------------------------------ MODULE Snapshot ------------------------------
(***************************************************************************)
(* PostgresOperationalSnapshotReader.read (app/operational_snapshot.py):   *)
(* six SELECT statements in one READ COMMITTED transaction and then, on a  *)
(* connection of its own, the inspection of Reconciliation.  Operations,   *)
(* the outbox worker, the operator and the network flow go on meanwhile,   *)
(* so that the sections of one snapshot belong to different moments.       *)
(*                                                                         *)
(* A reader sees of execute its commit alone (ImplementsLifecycle of       *)
(* PaymentOperations), so here a call is one step and sessions stay idle.  *)
(*                                                                         *)
(* Of an event's attempts the reader asks only whether they have reached   *)
(* the retry limit; of an observation its transport outcome and            *)
(* disposition.  Ages and latencies are left out.                          *)
(***************************************************************************)
EXTENDS Reconciliation, Sequences

CONSTANT MaxOutside  \* bound on edits by hand and network observations together

VARIABLES
  published,  \* outbox_events with published_at, by id
  exhausted,  \* outbox_events whose attempts have reached the limit, by id
  observed,   \* network_observations
  section,    \* the section read() measures next, 7 for the inspection, 0 idle
  measured,   \* DatabaseMeasurements so far
  stuck       \* history: events at the retry limit at every moment of read()

outboxVars == <<published, exhausted>>
snapshotVars == <<outboxVars, observed, section, measured, stuck>>

\* What NetworkFlow records: <<transport outcome, disposition>>
Observations ==
  {<<"response", d>> : d \in {"accepted", "mismatched", "timed_out", "late", "duplicate"}}
    \union {<<"timeout", "timed_out">>, <<"failure", None>>}

NothingMeasured ==
  [by_status |-> [s \in Statuses |-> 0], operations |-> 0, unpublished |-> 0, poison |-> 0,
   observations |-> 0, timeouts |-> 0, late |-> 0,
   by_disposition |-> [x \in {"late", "timed_out"} |-> 0], routed |-> 0]

-----------------------------------------------------------------------------
(* _measure_database, a section for each statement *)

Unpublished == {e \in events : e.id \notin published}
Poison == {e \in Unpublished : e.id \in exhausted}

WithDisposition(d) == {o \in observed : o.disposition = d}

MeasurePayments ==
  [measured EXCEPT !.by_status =
     [s \in Statuses |-> Cardinality({p \in Payments : status[p] = s})]]

MeasureOperations == [measured EXCEPT !.operations = Cardinality(Stored)]

BugCountsPoisonOnly ==
  [measured EXCEPT !.unpublished = Cardinality(Poison), !.poison = Cardinality(Poison)]
MeasureOutbox ==
  [measured EXCEPT !.unpublished = Cardinality(Unpublished), !.poison = Cardinality(Poison)]

MeasureNetwork ==
  [measured EXCEPT !.observations = Cardinality(observed),
                   !.timeouts = Cardinality({o \in observed : o.outcome = "timeout"}),
                   !.late = Cardinality(WithDisposition("late"))]

MeasureDispositions ==
  [measured EXCEPT !.by_disposition = [d \in DOMAIN @ |-> Cardinality(WithDisposition(d))]]

\* GROUP BY route: the observations of all routes together
BugDropsUndisposed ==
  [measured EXCEPT !.routed = Cardinality({o \in observed : o.disposition # None})]
MeasureRoutes == [measured EXCEPT !.routed = Cardinality(observed)]

Measure(n) ==
  <<MeasurePayments, MeasureOperations, MeasureOutbox,
    MeasureNetwork, MeasureDispositions, MeasureRoutes>>[n]

\* read(): the classification, once the report is complete
BugDiscrepanciesFirst ==
  CASE report # {} -> "critical"
    [] report = {} /\ measured.unpublished > 0 -> "degraded"
    [] OTHER -> IF measured.poison > 0 THEN "critical" ELSE "healthy"
Health ==
  CASE report # {} \/ measured.poison > 0 -> "critical"
    [] report = {} /\ measured.poison = 0 /\ measured.unpublished > 0 -> "degraded"
    [] OTHER -> "healthy"

-----------------------------------------------------------------------------
(* read *)

StartRead ==
  /\ section = 0
  /\ section' = 1
  /\ measured' = NothingMeasured
  /\ stuck' = {e.id : e \in Poison}
  /\ UNCHANGED <<allVars, outboxVars, observed>>

RunSection ==
  /\ section \in 1..6
  /\ measured' = Measure(section)
  /\ section' = section + 1
  /\ UNCHANGED <<allVars, outboxVars, observed, stuck>>

\* self._reconciler.inspect()
Inspect ==
  /\ section = 7
  /\ statement \in 0..6 /\ (StartInspect \/ RunStatement)
  /\ UNCHANGED snapshotVars

ReturnSnapshot ==
  /\ section = 7 /\ ReturnReport
  /\ section' = 0
  /\ measured' = NothingMeasured /\ stuck' = {}
  /\ UNCHANGED <<outboxVars, observed>>

-----------------------------------------------------------------------------
(* Meanwhile *)

\* A call of execute, from its locks to its commit
Execute(r, id) ==
  LET w == [id |-> id, fingerprint |-> Fingerprint(r),
            from |-> From[r.operation], to |-> To[r.operation]]
  IN  /\ r.source # r.destination
      /\ operations[r.key] = None
      /\ status[r.payment] = w.from
      /\ AccountsAccept(r) /\ Fresh(id)
      /\ status' = [status EXCEPT ![r.payment] = w.to]
      /\ operations' = [operations EXCEPT ![r.key] = w]
      /\ journals' = journals \union {JournalOf(w)}
      /\ entries' = entries \union EntriesOf(w)
      /\ events' = events \union {EventOf(w)}
      /\ UNCHANGED <<keyLock, rowLock, pc, request, seen, row>>

Operation ==
  /\ \/ \E p \in Payments : CreatePayment(p) \/ Authorize(p)
     \/ \E r \in Requests, id \in Ids : Execute(r, id)
  /\ Meanwhile
  /\ UNCHANGED <<statement, report, tampers>>

Outside == tampers + Cardinality(observed) < MaxOutside

Change ==
  /\ Operation \/ (Outside /\ Tamper)
  /\ UNCHANGED <<outboxVars, observed, section, measured>>

\* A worker acknowledges an event.
PublishEvent ==
  /\ \E e \in Unpublished : published' = published \union {e.id}
  /\ UNCHANGED <<allVars, exhausted, observed, section, measured>>

\* The last failure before the limit
ExhaustEvent ==
  /\ \E e \in Unpublished \ Poison : exhausted' = exhausted \union {e.id}
  /\ UNCHANGED <<allVars, published, observed, section, measured>>

\* reset_outbox_event
ResetPoison ==
  /\ \E e \in Poison : exhausted' = exhausted \ {e.id}
  /\ UNCHANGED <<allVars, published, observed, section, measured>>

RecordObservation ==
  /\ Outside
  /\ \E k \in Observations :
       observed' = observed \union
         {[id |-> Cardinality(observed) + 1, outcome |-> k[1], disposition |-> k[2]]}
  /\ UNCHANGED <<allVars, outboxVars, section, measured>>

Others ==
  /\ Change \/ PublishEvent \/ ExhaustEvent \/ ResetPoison \/ RecordObservation
  /\ stuck' = stuck \intersect {e.id : e \in Poison'}

SnapshotInit ==
  /\ ReconInit
  /\ published = {} /\ exhausted = {} /\ stuck = {}
  /\ observed = {}
  /\ section = 0 /\ measured = NothingMeasured

SnapshotNext == StartRead \/ RunSection \/ Inspect \/ ReturnSnapshot \/ Others

SnapshotSpec == SnapshotInit /\ [][SnapshotNext]_<<allVars, snapshotVars>>

-----------------------------------------------------------------------------
(* Properties *)

Returning == statement = 7

\* A healthy snapshot is not an accident of its moments: unless somebody edited
\* the tables, the events of all operations it counts are published, and it
\* counts an operation for every step its payments have taken.
HealthyIsSettled ==
  Returning /\ Health = "healthy" /\ tampers = 0 =>
    /\ measured.operations <= Cardinality(published)
    /\ measured.by_status["captured"] + measured.by_status["reversed"] <= measured.operations
    /\ measured.by_status["refunded"] = 0

\* The part of LastingTroubleIsReported that needs no sums
LastingRowTroubleIsReported ==
  LET lasting == {d \in standing : d.kind # "journal_unbalanced"}
  IN  Returning =>
        /\ lasting \subseteq report
        /\ lasting # {} \/ stuck # {} => Health = "critical"

\* Trouble that lasts from the first statement of inspect to the last is in the
\* report, and it or an event that stays poison makes the snapshot critical,
\* whatever commits, is repaired or is broken meanwhile: an operation whose event
\* is gone, an event whose operation is gone, an operation that its payment's
\* status denies, a journal with an entry too many.  What no statement looks for
\* is no such trouble: a status no operation led to, a journal left without both
\* its operation and its event, entries that were added in balance.
LastingTroubleIsReported ==
  /\ LastingRowTroubleIsReported
  /\ Returning =>
       \A d \in standing :
         d.kind = "journal_unbalanced" => d \in report /\ Health = "critical"

\* Sections of different moments disagree in one direction only: what is
\* measured later never falls short of what was measured before.
LaterSectionsCoverEarlier ==
  Returning =>
    /\ tampers = 0 =>
         measured.operations >= measured.by_status["captured"] + measured.by_status["reversed"]
                                  + 2 * measured.by_status["refunded"]
    /\ measured.timeouts <= measured.by_disposition["timed_out"]
    /\ measured.late <= measured.by_disposition["late"]
    /\ measured.observations <= measured.routed
=============================================================================
