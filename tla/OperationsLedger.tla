------------------------- MODULE OperationsLedger -------------------------
(***************************************************************************)
(* The control plane's persistence (control_plane.py, ControlPlane), its   *)
(* SQLite store (control_plane_store.py), the operations ledger with its   *)
(* hash chain (operations.py) and the verifier of that chain               *)
(* (integrity.py).  A request changes the state in memory, saves the whole *)
(* state as one snapshot and then records an operation event; each of the  *)
(* two writes is a transaction of its own, either may fail, and the        *)
(* process may crash between any two of them.                              *)
(*                                                                         *)
(* Four fields of the state stand for all of it: status and event count of *)
(* the drift monitors, the number of confirmed labels and one runtime      *)
(* control.  A monitor may be absent until its first drift event.          *)
(***************************************************************************)
EXTENDS Naturals, Sequences, FiniteSets, SequencesExt

CONSTANTS
    Process,        \* processes that share one database
    Monitor,        \* ids of drift monitors
    SeededStatus,   \* their statuses in the seed
    ControlValue,   \* values of a runtime control
    Seeded,         \* its value in the seed
    NoSnapshot,     \* ControlPlaneStore.load() returned None
    MaxEvents,      \* bound: rows ever written to operation_events
    MaxLabels,      \* bound: labels in memory
    MaxSignals,     \* bound: drift events of a monitor in memory
    MaxUnfinished,  \* bound: feedback requests that do not finish
    MaxFaults       \* bound: rows altered or lost in storage

ASSUME SeededAssumption == Seeded \in ControlValue
ASSUME MonitorAssumption == "none" \notin Monitor
ASSUME EventsAssumption == MaxEvents \in Nat /\ MaxLabels \in Nat /\ MaxSignals \in Nat
ASSUME FaultsAssumption == MaxUnfinished \in Nat /\ MaxFaults \in Nat

VARIABLES
    memory,             \* the attributes of each process's ControlPlane
    snapshot,           \* the row of control_plane_snapshots
    operation_events,   \* the rows of operation_events, a set
    call,               \* per process: where its request is
    clock,              \* the last created_at handed out
    torn,               \* history: targets whose last request did not finish
    unfinished,         \* history: feedback requests that did not finish
    written,            \* history: the hashed rows the chain should consist of
    faults              \* history: faults of the storage so far

vars == <<memory, snapshot, operation_events, call, clock, torn,
          unfinished, written, faults>>

DriftStatus == {"absent", "active", "acknowledged", "escalated"}

ASSUME StatusAssumption == SeededStatus \in [Monitor -> DriftStatus]

State == [drift : [Monitor -> DriftStatus], event_count : [Monitor -> Nat],
          confirmed : Nat, control : ControlValue]

ASSUME SnapshotAssumption == NoSnapshot \notin State

\* ControlPlane._seed
Seed == [drift |-> SeededStatus, event_count |-> [m \in Monitor |-> 0],
         confirmed |-> 0, control |-> Seeded]

\* What an operation event says: its type, target and result.
Event(type, target, result) == [type |-> type, target |-> target, result |-> result]
Denied == Event("denied", "none", "none")
Proposal == Event("propose", "none", "none")
Old == Event("old", "none", "none")
Altered == Event("altered", "none", "none")

\* The events that tell of a change of a monitor's status.
OfDrift == {"drift", "ingest"}

Down == [step |-> "down"]
Idle == [step |-> "idle"]

-----------------------------------------------------------------------------
(***************************************************************************)
(* Events and their hashes.  A hash is the tuple of what is hashed.        *)
(***************************************************************************)
None == <<>>

\* _hash_payload: the payload without its event_hash, in one of two formats.
Payload(format, at, body, previous) == <<format, at, body, previous>>
HashPayload(format, row) == Payload(format, row.created_at, row.body, row.previous_hash)

\* OperationEvent.with_integrity
WithIntegrity(format, at, body, previous) ==
    [created_at |-> at, body |-> body, previous_hash |-> previous,
     event_hash |-> Payload(format, at, body, previous)]

\* A row written before the hash chain existed.
Unhashed(at) ==
    [created_at |-> at, body |-> Old, previous_hash |-> None, event_hash |-> None]

\* The rows by created_at: the i-th has i - 1 older ones.
Older(rows, r) == {s \in rows : s.created_at < r.created_at}

Chronological(rows) ==
    [i \in 1 .. Cardinality(rows) |->
        CHOOSE r \in rows : Cardinality(Older(rows, r)) = i - 1]

\* ORDER BY created_at DESC, id DESC LIMIT limit, read backwards: oldest first.
ListOperations(rows, limit) ==
    LET count == Cardinality(rows)
        skipped == IF count > limit THEN count - limit ELSE 0
    IN  SubSeq(Chronological(rows), skipped + 1, count)

Hashed(rows) == {r \in rows : r.event_hash # None}

\* _latest_operation_hash: rows without a hash do not count.
LatestOperationHash(rows) ==
    IF Hashed(rows) = {} THEN None
    ELSE Last(Chronological(Hashed(rows))).event_hash

-----------------------------------------------------------------------------
(***************************************************************************)
(* The verifier.  It expects of each row the hash of the row before it; a  *)
(* row without a hash makes it expect None again.                          *)
(***************************************************************************)
\* Mutant: the older payload format is forgotten.
CandidateCurrentOnly(row) == {HashPayload("current", row)}

CandidateHashes(row) == {HashPayload(format, row) : format \in {"current", "legacy"}}

ExpectedPreviousHash(events, i) == IF i = 1 THEN None ELSE events[i - 1].event_hash

Mismatch(events, i) ==
    /\ events[i].event_hash # None
    /\ \/ events[i].previous_hash # ExpectedPreviousHash(events, i)
       \/ events[i].event_hash \notin CandidateHashes(events[i])

Warning(events, i) ==
    \/ events[i].event_hash = None
    \/ /\ events[i].event_hash \in CandidateHashes(events[i])
       /\ events[i].event_hash # HashPayload("current", events[i])

VerifyEvents(events, total) ==
    [status   |-> IF \E i \in DOMAIN events : Mismatch(events, i) THEN "invalid"
                  ELSE IF \E i \in DOMAIN events : Warning(events, i) THEN "partial"
                  ELSE "valid",
     complete |-> Len(events) >= total]

-----------------------------------------------------------------------------
\* What an older version left: at most one row without a hash, then at most one
\* hashed without the optional context.
LegacyRows(unhashed, old) ==
    [i \in 1 .. unhashed |-> Unhashed(i)]
    \o [i \in 1 .. old |-> WithIntegrity("legacy", unhashed + i, Old, None)]

Init ==
    /\ memory = [p \in Process |-> Seed]
    /\ snapshot = NoSnapshot
    /\ \E unhashed, old \in 0 .. 1 :
          /\ operation_events = ToSet(LegacyRows(unhashed, old))
          /\ written = SubSeq(LegacyRows(unhashed, old), unhashed + 1, unhashed + old)
          /\ clock = unhashed + old
    /\ call = [p \in Process |-> Down]
    /\ torn = {}
    /\ unfinished = 0
    /\ faults = 0

\* Mutant: a start seeds the control plane whatever the database holds.
StartFromSeed(p) ==
    /\ call[p] = Down
    /\ call' = [call EXCEPT ![p] = Idle]
    /\ memory' = [memory EXCEPT ![p] = Seed]
    /\ snapshot' = Seed
    /\ UNCHANGED <<operation_events, clock, torn, unfinished, written, faults>>

\* ControlPlane.__init__: the snapshot if there is one; else the seed, saved.
Start(p) ==
    /\ call[p] = Down
    /\ call' = [call EXCEPT ![p] = Idle]
    /\ \/ /\ snapshot # NoSnapshot
          /\ memory' = [memory EXCEPT ![p] = snapshot]
          /\ UNCHANGED snapshot
       \/ /\ snapshot = NoSnapshot
          /\ memory' = [memory EXCEPT ![p] = Seed]
          /\ snapshot' = Seed
    /\ UNCHANGED <<operation_events, clock, torn, unfinished, written, faults>>

\* A request of which a part was done ended without an answer: remember it.
Abandon(body) ==
    /\ torn' = IF body.type \in OfDrift THEN torn \cup {body.target} ELSE torn
    /\ body.type = "feedback" => unfinished < MaxUnfinished
    /\ unfinished' = IF body.type = "feedback" THEN unfinished + 1 ELSE unfinished

\* The process stops; what it had in memory is gone.
Crash(p) ==
    /\ call[p] # Down
    /\ call' = [call EXCEPT ![p] = Down]
    /\ memory' = [memory EXCEPT ![p] = Seed]
    /\ IF call[p].step \in {"saved", "head"}
       THEN Abandon(call[p].body) ELSE UNCHANGED <<torn, unfinished>>
    /\ UNCHANGED <<snapshot, operation_events, clock, written, faults>>

\* Mutant: the wall clock does not move between events.
StampAgain(p, body) ==
    /\ clock < MaxEvents
    /\ UNCHANGED clock
    /\ call' = [call EXCEPT ![p] = [step |-> "saved", body |-> body, at |-> clock + 1]]

\* The operation event is constructed: it takes its created_at.
Stamp(p, body) ==
    /\ clock < MaxEvents
    /\ clock' = clock + 1
    /\ call' = [call EXCEPT ![p] = [step |-> "saved", body |-> body, at |-> clock + 1]]

\* Mutant: the state is saved before the change is made.
PersistBefore(p, new) ==
    /\ memory' = [memory EXCEPT ![p] = new]
    /\ snapshot' = memory[p]

\* Mutant: the change is not saved.
PersistNothing(p, new) ==
    /\ memory' = [memory EXCEPT ![p] = new]
    /\ UNCHANGED snapshot

\* A change in memory and the save of the whole state that follows it.  When
\* the save raises, the change stays in memory and nothing is recorded.
Persist(p, new) ==
    /\ memory' = [memory EXCEPT ![p] = new]
    /\ snapshot' = new

PersistFails(p, new, body) ==
    /\ memory' = [memory EXCEPT ![p] = new]
    /\ Abandon(body)
    /\ UNCHANGED <<snapshot, call, clock>>

Operate(p, new, body) ==
    /\ call[p] = Idle
    /\ clock < MaxEvents
    /\ \/ Persist(p, new) /\ Stamp(p, body) /\ UNCHANGED <<torn, unfinished>>
       \/ PersistFails(p, new, body)
    /\ UNCHANGED <<operation_events, written, faults>>

\* ControlPlane.update_drift
UpdateDrift(p, m, status) ==
    /\ memory[p].drift[m] # "absent"
    /\ Operate(p, [memory[p] EXCEPT !.drift[m] = status], Event("drift", m, status))

\* ControlPlane.record_drift_event: the monitor, found or created, is active.
\* Its event, drift.ingest, carries no status; it names the action proposed.
RecordDriftEvent(p, m, action) ==
    /\ memory[p].event_count[m] < MaxSignals
    /\ Operate(p, [memory[p] EXCEPT !.drift[m] = "active", !.event_count[m] = @ + 1],
               Event("ingest", m, action))

\* ControlPlane.add_feedback
AddFeedback(p) ==
    /\ memory[p].confirmed < MaxLabels
    /\ Operate(p, [memory[p] EXCEPT !.confirmed = @ + 1],
               Event("feedback", "none", "none"))

\* ControlPlane.set_runtime_control, which records no operation.
SetRuntimeControl(p, value) ==
    /\ call[p] = Idle
    /\ \/ Persist(p, [memory[p] EXCEPT !.control = value])
       \/ PersistFails(p, [memory[p] EXCEPT !.control = value], Denied)
    /\ UNCHANGED <<operation_events, call, clock, torn, unfinished, written, faults>>

\* ControlPlane.record_operation, an event without a change: a refused request.
RecordOperation(p) ==
    /\ call[p] = Idle
    /\ Stamp(p, Denied)
    /\ UNCHANGED <<memory, snapshot, operation_events, torn, unfinished, written, faults>>

\* SQLiteControlPlaneStore.record_operation reads the head of the chain ...
ReadHead(p) ==
    /\ call[p].step = "saved"
    /\ call' = [call EXCEPT ![p] =
          [step |-> "head", body |-> @.body, at |-> @.at,
           previous |-> LatestOperationHash(operation_events)]]
    /\ UNCHANGED <<memory, snapshot, operation_events, clock, torn, unfinished, written, faults>>

\* ... and inserts the event; the transaction begins with the INSERT.
Insert(p) ==
    LET row == WithIntegrity("current", call[p].at, call[p].body, call[p].previous)
        kept == Max({0} \cup {n \in DOMAIN written : written[n].event_hash = call[p].previous})
    IN  /\ operation_events' = operation_events \cup {row}
        /\ written' = Append(SubSeq(written, 1, kept), row)
        /\ torn' = torn \ {call[p].body.target}

\* A proposed action has an event of its own, after that of its drift event.
RecordEvent(p) ==
    /\ call[p].step = "head"
    /\ \/ /\ Insert(p)
          /\ UNCHANGED unfinished
          /\ IF call[p].body.result = "proposed" THEN Stamp(p, Proposal)
             ELSE call' = [call EXCEPT ![p] = Idle] /\ UNCHANGED clock
       \/ /\ Abandon(call[p].body)
          /\ call' = [call EXCEPT ![p] = Idle]
          /\ UNCHANGED <<operation_events, written, clock>>
    /\ UNCHANGED <<memory, snapshot, faults>>

\* verify_control_plane_store: the number of events from health() ...
CountEvents(p) ==
    /\ call[p] = Idle
    /\ call' = [call EXCEPT ![p] =
          [step |-> "counted", total |-> Cardinality(operation_events)]]
    /\ UNCHANGED <<memory, snapshot, operation_events, clock, torn, unfinished, written, faults>>

\* ... and that many of the newest.
ListEvents(p) ==
    /\ call[p].step = "counted"
    /\ LET total == call[p].total
           limit == IF total > 1 THEN total ELSE 1
       IN  call' = [call EXCEPT ![p] =
              [step   |-> "verified",
               report |-> VerifyEvents(ListOperations(operation_events, limit), total)]]
    /\ UNCHANGED <<memory, snapshot, operation_events, clock, torn, unfinished, written, faults>>

\* The report is sent.
AnswerReport(p) ==
    /\ call[p].step = "verified"
    /\ call' = [call EXCEPT ![p] = Idle]
    /\ UNCHANGED <<memory, snapshot, operation_events, clock, torn, unfinished, written, faults>>

-----------------------------------------------------------------------------
\* Faults of the storage, which the chain is there to show.
AlterRow(r) ==
    /\ faults < MaxFaults
    /\ faults' = faults + 1
    /\ operation_events' = (operation_events \ {r}) \cup {[r EXCEPT !.body = Altered]}
    /\ UNCHANGED <<memory, snapshot, call, clock, torn, unfinished, written>>

LoseRow(r) ==
    /\ faults < MaxFaults
    /\ faults' = faults + 1
    /\ operation_events' = operation_events \ {r}
    /\ UNCHANGED <<memory, snapshot, call, clock, torn, unfinished, written>>

ProcessStep(p) ==
    \/ Start(p)
    \/ Crash(p)
    \/ \E m \in Monitor, status \in {"acknowledged", "escalated"} : UpdateDrift(p, m, status)
    \/ \E m \in Monitor, action \in {"proposed", "none"} : RecordDriftEvent(p, m, action)
    \/ AddFeedback(p)
    \/ \E value \in ControlValue : SetRuntimeControl(p, value)
    \/ RecordOperation(p)
    \/ ReadHead(p)
    \/ RecordEvent(p)
    \/ CountEvents(p)
    \/ ListEvents(p)
    \/ AnswerReport(p)

Next ==
    \/ \E p \in Process : ProcessStep(p)
    \/ \E r \in operation_events : AlterRow(r) \/ LoseRow(r)

Spec == Init /\ [][Next]_vars

-----------------------------------------------------------------------------
\* Types of the state.  The rows are described by the keys that hold a value of
\* their own; hashes are whatever HashPayload makes.
TypeOK ==
    /\ memory \in [Process -> State]
    /\ snapshot \in State \cup {NoSnapshot}
    /\ \A p \in Process : call[p].step \in {"down", "idle", "saved", "head", "counted", "verified"}
    /\ clock \in Nat /\ faults \in 0 .. MaxFaults
    /\ torn \subseteq Monitor /\ unfinished \in 0 .. MaxUnfinished
    /\ \A r \in operation_events : r.created_at \in 1 .. clock

EventsAbout(types, target) ==
    {r \in operation_events : r.body.type \in types /\ r.body.target = target}

\* The status of a monitor according to the ledger: what its newest event says;
\* a drift event sets it active, and without an event it is as seeded.
StatusIn(body) == IF body.type = "ingest" THEN "active" ELSE body.result

StatusOf(m, events) ==
    IF events = {} THEN SeededStatus[m]
    ELSE StatusIn((CHOOSE r \in events :
                     \A s \in events : s.created_at <= r.created_at).body)

LedgerStatus(m) == StatusOf(m, EventsAbout(OfDrift, m))

InFlight == {p \in Process : call[p].step \in {"saved", "head"}}
InFlightAbout(types, target) ==
    {p \in InFlight : call[p].body.type \in types /\ call[p].body.target = target}

\* With one process: whatever fails and whenever it restarts, the saved status
\* of a monitor is what its newest ledger event says - acknowledged, escalated,
\* or active again for a drift event - unless a request about it is under way
\* or was the last one and did not finish: no answered request is lost, and no
\* status was changed behind the ledger's back (update_drift,
\* record_drift_event, _persist, _record_operation_unlocked, __init__).
LedgerExplainsSnapshot ==
    (faults = 0 /\ snapshot # NoSnapshot) =>
        \A m \in Monitor \ torn :
            InFlightAbout(OfDrift, m) = {} => snapshot.drift[m] = LedgerStatus(m)

\* The saved count of labels is the number of feedback events of the ledger,
\* up to requests that did not finish: a label is not counted twice after a
\* restart, nor recorded and not counted (add_feedback).
LabelsAccountedFor ==
    (faults = 0 /\ snapshot # NoSnapshot) =>
        LET recorded == Cardinality(EventsAbout({"feedback"}, "none"))
                        + Cardinality(InFlightAbout({"feedback"}, "none"))
        IN  recorded <= snapshot.confirmed /\ snapshot.confirmed <= recorded + unfinished

\* With one process a save never takes back what an earlier one stored, not
\* even across restarts and failed saves: labels and drift events only
\* accumulate, and a decided monitor stays decided until a drift event that
\* the same save stores (_persist writes the whole state every time).
SnapshotNeverRegresses ==
    [][snapshot # NoSnapshot =>
          /\ snapshot'.confirmed >= snapshot.confirmed
          /\ \A m \in Monitor :
                 /\ snapshot'.event_count[m] >= snapshot.event_count[m]
                 /\ snapshot.drift[m] # "active" /\ snapshot'.drift[m] = "active"
                      => snapshot'.event_count[m] > snapshot.event_count[m]]_vars

\* With one process the verdict of the integrity check is exact: "invalid" if
\* and only if the hashed rows are not an unaltered beginning of the chain that
\* was written; otherwise "partial" if and only if a row predates the chain or
\* its present format (verify_control_plane_store, _verify_events,
\* with_integrity, _latest_operation_hash).
HashedRowsIntact ==
    IsPrefix(Chronological(Hashed(operation_events)), written)

LegacyPresent ==
    \E r \in operation_events : r.event_hash = None \/ r.event_hash[1] = "legacy"

VerdictExact ==
    [][\A p \in Process : ListEvents(p) =>
          call'[p].report = [complete |-> Cardinality(operation_events) >= call[p].total,
                             status |-> IF ~HashedRowsIntact THEN "invalid"
                                        ELSE IF LegacyPresent THEN "partial" ELSE "valid"]]_vars
=============================================================================
