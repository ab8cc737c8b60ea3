# Tenta: verification of the decision runtime

TLA+ models of the Python runtime in `src/runtime/tenta_runtime`, checked with
TLC on small instances and, for the properties that matter most, proved with
TLAPS for every value of the constants. Paths below are relative to
`src/runtime/tenta_runtime/` unless they start with `src/`.

## The system

Tenta scores decision requests ("is this payment allowed?") with a governed
model, keeps an audit trail of every decision, and lets operators change the
model, the workload and the policy while it runs.

| Component | Source | State it keeps | Operations |
|---|---|---|---|
| Scoring engine | `engine.py` | policy in force, active workload, last audit error | `score`, `activate_workload`, `replace_policy`, `import_workload`, `replace_store` |
| Decision store | `storage.py`, `storage_postgres.py` | `idempotency_keys`, `decision_events` with their hash chain | cache lookup, `record_decision`, reads |
| Audit sinks | `audit.py` | a file or a list of events | append |
| Requests, models, policies, workloads | `models.py`, `policy.py`, `workloads.py` | workload specs and the active id | normalise, fingerprint, predict, evaluate, resolve, activate, import |
| Model registry | `control_plane.py` | model records, order, artifacts, active model, champion history | load, register, upload, promote, roll back |
| Drift and healing | `control_plane.py` | drift monitors, healing actions, runtime controls | drift event, decide, record execution, roll back, acknowledge, escalate |
| Healing executor | `healing_executor.py` | none | execute and roll back effects on the engine and the controls |
| Console API | `console_api.py` | none | the sequence of calls behind each request, roles, promotion gate |
| Control-plane store | `control_plane_store.py`, `operations.py` | one snapshot of the control plane, the operations ledger with its chain | save, load, record operation |
| Integrity verifier | `integrity.py` | none | verifies both chains |
| Storage switch, config | `database.py` | config file | connect, provision, load, save |
| Authentication, governance | `auth.py`, `governance.py` | users, sessions, API keys, auth events | bootstrap, login, logout, keys |
| Artifacts, replay | `artifacts.py`, `replay.py` | none | validation and replay reports |
| HTTP API, CLI, client, dashboard | `api.py`, `cli.py`, `client.py`, `src/dashboard` | none | routing, start-up, display |

How they interact. `api.run` puts everything into one process behind
`http.server.HTTPServer`, which handles **one request at a time**. Every class
nevertheless takes locks and is documented as thread-safe, since the library
can be embedded in a threaded application, and several processes may share one
database. The models therefore distinguish three deployments: the shipped
server, several threads, and several processes. A score request reads the
champion from the control plane, the workload and the policy from the engine,
and writes the store and then the audit sink. Operator requests run through the
console, which calls the control plane (under its lock) and, for healing, the
executor, which calls both the engine and the control plane, each under its own
lock only for the duration of one call.

What makes it hard: the cache lookup, the policy selection and the insert of
one score call are separate critical sections; an approval and a rollback are
several calls with effects in between; the promotion gate precedes the
promotion; the process may crash between any two writes; a client that hears
nothing sends again. `PROJECT.json` lists these as hazards, each at its line.

What makes each component correct:

- *scoring*: one fingerprint per transaction id; every answer recorded; a retry
  hears the recorded decision; the chain verifies; each decision under its own
  workload's policy, with two named exceptions; the audit sink never ahead of the
  store;
- *registry*: the active model, the history, the stages and the traffic agree;
  no manifest model champion without a gate whose checks it passed;
- *healing*: one open action per monitor; no effect without approval;
  thresholds stay in the band and below the block threshold; what was executed can
  be reverted; overrides and records agree but where a failure stopped a request;
- *control-plane store*: snapshot and ledger explain each other, no save takes an
  earlier one back, and the verdict on the chain is exact; *storage switch*: the
  stores agree between requests and a restart finds what the server had;
  *Postgres*: a process finds what it answered, and no two processes stand by
  different fingerprints; *authentication*: a lone server has one administrator,
  roles never rise, what has ended stays ended, what clients hold is recorded.

## Modules

| Module | Contents | Theorems |
|---|---|---|
| `ScoringEngine` | `RuntimeEngine.score` step by step, both stores, audit sink, operator requests, restarts | `ScoringProofs`, `ServerProofs` |
| `IdempotentService` | the abstract service: a transaction is decided once, and every answer repeats that decision or refuses another fingerprint | refined in `ServerProofs` |
| `ModelRegistry` | the model registry and its console requests | `RegistryProofs` |
| `HealingActions` | drift events, healing decisions, executor | `HealingProofs` |
| `OperationsLedger` | snapshot, operations ledger, its hash chain and verifier | `LedgerProofs` |
| `PostgresStore` | what the connection of the Postgres stores makes of their transactions | `PostgresProofs` |
| `StorageSwitch` | hot swap of the stores, config file, spec files, start-up | `StorageProofs` |
| `AuthSessions` | users, sessions, API keys and their events | `AuthProofs` |
| `MC...` | values of the constants of each of these for TLC | |

### ScoringEngine

| Model | Code |
|---|---|
| `active_id`, `policy`, `champion`, `audit_error` | `WorkloadRegistry._active_id`, `RuntimeEngine.policy`, `ControlPlane._active_model_id`, `_last_audit_error`, one of each per process |
| `idempotency_keys`, `decision_events`, `rows` | the two tables (or `_cache` and `_events`), and the order of insertion |
| `audit_log` | what the sink holds |
| `call[c]` | the local variables of a `score` call at the points where another thread or process can act |
| `answers` | a history variable: what clients were told |

`Lookup` is `engine.py:41-54`; `Predict`, `SelectPolicy`, `EvaluatePolicy` and
`BuildEvent` lines 57-87; `ReadHead` and `Insert` the two halves of
`record_decision`, between which the process's locks are held but another
process may write (Python's `sqlite3` opens the transaction at the first
`INSERT`, after the chain head was read); `AppendAudit` lines 96-98.
`ActivateBegin`/`ActivateEnd` are the two assignments of `activate_workload`.
An event's identity stands for its id, hash and `created_at`; a fingerprint is
the pair of body and resolved workload, since those are what the code hashes;
a response is the pair of model and policy. `Restart` loses the calls under way
and the in-memory store, and reads the active workload back from the config
file. The file is written after the activation and by other processes and
`tenta db init` as well, so any workload may come back. A sink failure and a
failing insert are choices.

`DecisionPolicy` raises for `review > block` (`policy.py:29`), and an import
(`ImportWorkload`, for the workloads in `Imported`) looks at no thresholds.
`refused` is the set of workloads whose present spec makes no policy, and each
caller of `FromWorkload` has a path for it: an activation keeps the new id and the
old policy (`ActivateEnd`), a score request for a workload that is not active fails
before it records anything (`EvaluateRefused`), a start does not happen
(`RuntimeEngine.__init__`: `Init` and `Restart` exclude it for the active
workload). `replace_policy` is called by the healing executor in two ways: a move
derives the new policy from the one in force (`MovePolicy`), a rollback restores
one saved earlier, which may be another workload's (`RestorePolicy`, a policy in
`Healed`). `stray` is a history variable, true after a refused activation or a
rollback until the next accepted activation or restart: exactly then may the
policy in force be another workload's, and `DecidedByOwnPolicy` makes no claim for
these processes. Which policies the executor installs is the subject of
`HealingActions`.

`ImplementsService` states that the engine implements `IdempotentService`
under the mapping `decided <- idempotency_keys`. It holds for one caller only:
two threads that race can decide one transaction twice, with the second
response replacing the first (`DuplicatesNeedOverlap` bounds this to calls that
overlap).

### ModelRegistry

`stage`, `traffic`, `manifests` and `gate` are the fields of the model records
the code decides on; `order`, `artifacts`, `active` and `history` are
`_model_order`, `_artifacts`, `_active_model_id` and `_champion_history`. Each
`ControlPlane` method is one action, as it runs under the lock, with two
exceptions: `upload_model` checks for a duplicate before it takes the lock
(`UploadCheck`, `UploadCommit`), and the console runs the promotion gate first.
`_promotion_gate` holds no lock and reads the active workload three times, a step
each: for the contract check (`CheckContract`), in `_run_manifest_replay`
(`CheckReplay`) and for the `workload_id` of the record (`NameGate`, or `Refuse`
when a check failed); `OpenGate` reads the model's record. `PromoteShadow` or
`PromoteChampion` follows. The verdicts of the checks are the constants
`Compatible` and `Replays`, sets of pairs of model and workload. A gate record
therefore holds up to three workloads, and `ManifestChampionsGated` says of each
check that it passed for the workload the record names for *it*. That they are one
workload, still active at the promotion, is true of one operator only
(`PromotedCompatible`, proved). The `workload_id` on the gate of a model without a
manifest, which has no checks it could disagree with, is left out. Saves that fail (`OperationsLedger` has them) and
the reports that `update_model_checks` keeps on a record for display are left out.

### HealingActions

`actions`, `linked` and `overrides` are the control plane's `_healing`, the
monitors' `linked_action` and the `manual_review_overrides`, and `snapshot` holds
them as they were last saved; `policy` is the engine's, with the ids that the
version string accumulates as `tags`. An approval is `Approve` (`decide_action`),
`ExecuteOverride` or `ReadPolicy` and `ReplacePolicy` (`_apply_effect`), then
`RecordExecution` (`apply_healing_execution`); a rollback is `ReadAction`, `Restore`
(`_rollback_effect`), `FinishRollback` (`rollback_action`). Every one of them that
changes the control plane changes memory first and then saves (`Persist`). Where
`SavesFail`, the save may raise: the change stays in memory, the request ends, and
no later step of it happens, so that an override may be in force for an action
with no execution record, or be gone for one that is still running. `torn` is a
history variable with the actions of which a failing save or a crash stopped a
request between an effect and its record; `OverridesInForce` excuses them, and only
them. Where `Crashes`, `Restart` loads the snapshot and builds the policy of the
workload the config names.

Thresholds are in hundredths. `Constructible` is the check of the `DecisionPolicy`
constructor, `review <= block`: an activation that it refuses keeps the policy, a
move that it refuses ends the approval, and a restart needs a workload it accepts.
Actions whose effects are the fallback, online-learning and shadow controls exist
only in the seed, past approval, so that nothing can execute them: they are the
kind "other".

### OperationsLedger

`memory` and `snapshot` are the `ControlPlane`'s attributes and the row that
`save` writes; four fields stand for all of them: a monitor's status and its event
count, the number of labels, a runtime control. Two requests write a status.
`UpdateDrift` decides a monitor, and its event names the status. `RecordDriftEvent`
finds or creates a monitor and sets it active again, whatever it was; its event,
`drift.ingest`, names the proposed action but no status, and is followed by the
proposal's own event. `StatusIn` is what an event says of a status all the same. A
monitor may be "absent" before its first drift event. A request is `Operate` (change
in memory, `_persist`, the event with its `created_at`), `ReadHead`
(`_latest_operation_hash`) and `RecordEvent` (the `INSERT`, which begins the
transaction); the save and the insert may fail, and `Crash` may come between any
two. `AlterRow` and `LoseRow` are the faults that the chain is there to show.
`written` is a history variable, the chain as it was written: an insert keeps the
part that ends with the hash it read, and appends its row. `CountEvents` and
`ListEvents` are the two reads of `verify_control_plane_store`, and
`VerifyEvents` is `_verify_events`. A hash is the tuple of what is hashed, so two
hashes are equal exactly if all they cover is.

### PostgresStore

A client is one store object with one connection. On a psycopg connection that
is not in autocommit mode the first plain `SELECT` opens a transaction that
nothing ends; `connection.transaction()` inside it is a savepoint. `pending` is
what the open transaction has written, `committed` what everybody sees, and
`TransactionBlock` decides between the two. Row locks (`RowLocked`), the locks of
`_initialize` (`SchemaLocked`) and the server's deadlock detection are those of
Postgres, an external program.

### StorageSwitch

`Connect`, `ReplaceEngineStore`, `ReplaceControlStore`, `ReplaceAuthStore`,
`TruncateConfig`, `WriteConfig` are the steps of `DatabaseProvisioner.connect`;
activations and imports end in the same two writes of a file. `Start` is
`api.run`, `DbInit` the command in another process. The versions of a spec in
`Refused` have `review > block`: an import takes and persists them, `CreateEngine`
refuses to start with one for the active workload, and an activation that meets one
has changed the active id when it raises (`Activation`), which the config file then
does not learn. `excuse` is a history variable: why a restart may find something
else than the server had - "storage" (a swap not persisted or not finished, another
database on the command line, `db init`), "workload" (an activation that raised or
did not reach the file, `db init`, a config that names no known workload),
"unsaved" (a failed save), "halfway" (a swap that stopped before the auth store).
The policy in force is no part of this module: it is that of `ScoringEngine` and
`HealingActions`.

### AuthSessions

Each statement of the SQLite auth store is a step of a request; `Abandon` ends a
request after any of them. Tokens are numbered in the order they are drawn.
`delivered` is what clients hold, and `lineage` the roles of the principals
behind a key: history variables.

## Runs

Runs that pass:

| Run | Instance | What it shows |
|---|---|---|
| `ScoringServer` | 1 caller, 1 process, SQLite, 3 ids, 2 workloads of which one is imported with accepted or refused thresholds, rollbacks to a policy of the other, 3 decisions | `ChainIntact`, `DecidedByOwnPolicy`, `DegradedMarksGap`, and that the engine implements the idempotent service (`ImplementsService`), through failing inserts, failing audit appends, activations that succeed or raise, and restarts |
| `ScoringConcurrent` | 2 processes with one caller each over one database, 1 id, 2 bodies, the policy replaced by another revision at any time, 3 decisions | what the store guarantees without a lock between processes: `FingerprintConsistent`, `FingerprintStable`, `AnswersRecorded`, `CachedIsNewestRecorded`, `DuplicatesNeedOverlap` |
| `RegistryThreads` | 2 operators, 3 models, 2 workloads, history up to 4 | `ActiveIsNewest`, `OnlyActiveServes`, `OneShadow`, `ManifestChampionsGated`, even when an activation falls between the reads of a gate, or a promotion between duplicate check and upload |
| `HealingThreads` | 2 operators, 1 monitor, 3 actions, 4 workloads, failing saves, crashes | `OneOpenAction`, `OpenIsLinked`, `NoEffectWithoutApproval`, `PolicyWithinBounds`, `ExecutedOnce` |
| `HealingServer` | 1 operator, 2 monitors, 3 actions, 4 workloads, failing saves, crashes | `OverridesInForce`: the overrides are those of the executed actions, but for requests that were stopped halfway; `PolicyWithinBounds` with moves of two monitors rolled back in any order |
| `Ledger` | 1 process, 1 monitor seeded as acknowledged, 1 drift event, 4 rows, 2 labels, 1 request that fails, 1 fault of the storage | `LedgerExplainsSnapshot`, `LabelsAccountedFor`, `SnapshotNeverRegresses`, `VerdictExact` |
| `Postgres` | 2 processes, 2 ids, 2 fingerprints, 2 states of the control plane | `AnswersFound`, `OneFingerprint`, although nothing is committed after the first read |
| `StorageSwitch` | 2 databases, a built-in and an imported workload, 2 imported versions of which one is refused, 1 state | `StoresAgree`, `RestartFindsTheSame`, and under fairness `OnlyBadFilesKeepDown` |
| `AuthSessions` | 2 processes, 3 addresses, 2 roles, 3 tokens, clock up to 2 | `OneBootstrapEach`, `DeliveredAreRecorded`, `RoleNeverRises`, `EndedIsFinal` |

All but `ScoringServer` and `HealingServer` check their module's `TypeOK` too; it
is the same module's in another run for these two.

Runs that find a disagreement between the code and what its documentation or
docstrings say (`PROJECT.json` quotes the lines):

| Run | Disagreement |
|---|---|
| `PostgresDurable` | A decision answered over Postgres is gone when the process ends: its transaction was never committed. |
| `PostgresHotSwap` | Connecting a server to the Postgres database it already uses never ends: the new connection waits for a lock of the old one. |
| `HealingRetry` | A rollback that is refused has already replaced the policy. |

The bounds. Two callers suffice for every race of the engine: each of its
critical sections relates one call to one earlier event. Three decisions allow a
race and a retry after it, or a chain with a middle element; `MaxDecisions`
bounds events constructed, `MaxActions` proposals, `MaxHistory` promotions
outstanding. In `RegistryThreads` the new model's contract fits one workload and its
replay passes under the other, so that its gate is passed only when the other thread
activates workloads between the reads. One monitor is enough for the races of
healing, as monitors share only the policy, with three actions one of which is
seeded; the second monitor of `HealingServer` lets two effects overlap, so that
moves can be rolled back in either order. The four workloads of both are the kinds
that differ in the band 0.60-0.70: one that reviews at its lower edge (0.60/0.85),
one that reviews below it (0.55/0.82), one that blocks below it (0.40/0.50), and one
that is refused (0.70/0.65). One drift event reopens the monitor of `Ledger`, which
the seed decided; a decision may follow, and a restart come anywhere. Four rows of
the ledger allow an unhashed one, one in the old format and two of the chain, or a
chain of four with its middle lost or altered. Two processes and two ids are what a deadlock of row locks takes. Two databases let a swap go
there and back. Three tokens are a session, a key and a key minted with it.
Symmetry is used over transaction ids, operators, processes and addresses, which
the specifications do not tell apart, and in no run with a liveness property.
Deadlock is checked in every run, and none stops.

Fairness. The code has no background task, queue or retry loop: a request
proceeds while its thread runs, and takes no step after a crash. Two
specifications need fairness. `PostgresStore!FairSpec` lets a request that has
begun go on unless a lock stops it: its thread runs. `StorageSwitch!FairSpec` is a
supervisor that starts the server again whenever start-up can succeed, so that
`OnlyBadFilesKeepDown` says which states it cannot be started from; no step of
the server itself is assumed to happen.

## Proofs

`tlapm` checks every theorem. They hold for any number of callers, processes,
operators, monitors, models, workloads, databases, transactions and users, and for
any bounds; the assumptions are the named `ASSUME`s of the modules (constants
have the types the code gives them, markers such as `NoRow` are no data, the
seeded registry and actions are as seeded), and for some theorems one more, in
their statement: `Backend = "sqlite"`, `~Threaded`, `OneOperator`, `OneCaller`,
`OneProcess`.

- **ScoringProofs.** `TypeCorrect` comes first: a call has, at each stage, what
  the earlier stages read (`Filled`). The store properties rest on `StoreInv`:
  type correctness, `FingerprintConsistent`, `CachedIsNewestRecorded`, rows that
  bound every position, and that a call about to append to the audit sink has its
  event in the table. It is needed because neither fingerprint nor cache property
  is inductive alone: that an upsert leaves the newest event cached depends on the
  positions, and that it keeps the fingerprint on the events having the cached
  one. Every step either leaves the store or is an allowed upsert with its event
  (`SqlEventsGrow` and its neighbours). `DecidedOncePerCaller` counts: the events of
  an id and the calls that still decide it are never more than the callers
  (`CountInv`), since a lookup of a decided id does not decide it.
  `AnswersAreRecorded` adds that a cached answer has its event. The chain head is
  a `CHOOSE`, so that the newest event exists is a lemma, by well-founded
  induction over a finite interval.
- **ServerProofs.** With one caller. `AloneInv` says what a lone call may assume:
  the chain head it read is still the head, and its key is above every event's; from
  it `ChainVerifies`, and `ServerImplementsService`, since an id that a lookup
  found undecided is still undecided at the insert. `GapInv` ties the remembered
  audit error to the newest event being absent from the sink. `PolicyInv` says that
  the policy of a process that is not stray is the one of its active workload, and
  a policy selected the one of the workload the event will name. It needs only that
  requests do not overlap (`~Threaded`): it is proved for any number of processes,
  either store, any imports and any policies that a rollback restores.
- **RegistryProofs.** `ActiveIsNewest` joins type correctness, since a promotion
  archives the active model and a rollback the last of the history; with it
  `OnlyActiveServes` and `OneShadow` are inductive. `GateInv` adds to
  `ManifestChampionsGated` what a request for a manifest model knows at each step of
  its gate (`PendingChecked`): a workload for each check behind it, and past the
  verdict that both checks passed for theirs, whatever was activated since. A
  registration cannot turn a pending model into a manifest model, since the id is
  taken. With one operator, nothing happens between the reads (`ChecksStillHold`), so
  `OrderListsOnce` and `PromotedCompatible` are proved as well; two threads refute
  both (two uploads past the duplicate check, an activation during the gate).
- **HealingProofs.** Everything is proved with failing saves and crashes. As a
  restart brings the snapshot back, each invariant is stated of memory and of the
  snapshot (`SnapshotInv`, `AllOpen`, `DurableInv`), and each step saves all of
  memory or nothing (`SavedOrNot`). `OpenInv`: one open action, and it is the linked
  one. `ExecInv`: at most one operator is executing an action, and only one that has
  no execution record; from it `ExecutionRecordIsFinal`. `SoundInv` bounds the policy
  in force, every policy saved for a rollback, in memory or in the snapshot, and
  every policy an operator has read: a rollback installs a saved policy and a move
  replaces a policy read earlier, so the bounds must hold of all of them.
  `OverridesAreInForce` is for one operator: `OverrideInv` says of the records in
  memory (`RecordsAgree`) and in the snapshot (`SnapshotAgrees`) that they agree with
  the overrides except for torn actions and the one under way, and for that one,
  step by step, which effect is done and which record still missing (`CallsAgree`).
- **LedgerProofs.** `TypeCorrect` is for any number of processes, the rest for one.
  `MemoryInv`: a process that is up has saved a state, and the one in memory is
  never behind it (`Ahead`: more labels, more drift events, a monitor active again
  only with more of these); a failing save leaves memory ahead, so
  `SnapshotNeverRegresses` cannot do without it. `ExplainInv` follows a request
  through its steps: while an
  event is under way its row will be the newest (`RowsInv`), and snapshot, memory
  and what the event says of a status (`StatusIn`) agree on its monitor (`DriftOK`);
  labels in the snapshot, the ledger
  and under way differ by the unfinished requests only (`LabelOK`), and memory is
  below the same bound, since any later save makes it durable. `VerdictIsExact` is
  the longest argument. The listing by `created_at` is defined by ranks; that every
  position is the rank of one row (`RanksAreTaken`) is a counting argument, and
  from it a listing is sorted and complete (`Listed`). `ChainInv` describes the
  chain that was written, `LeftInv` the rows that faults have left of it, and
  `FlightInv` what a request knows: its event is newer than every row, the head it
  read is where the chain of the rows left ends, and the rows counted have not
  become more. The verdict then says the same as `HashedRowsIntact`, both being
  equivalent to "the hashed rows are the first k of the chain" (`Beginning`): in
  one direction by ranks, in the other since an accepted row was not altered and
  its predecessor is listed just before it, so that no row before the last is
  missing. It holds for any number of faults, the run has one.
- **PostgresProofs.** Committed rows of decisions never change, as a write always
  finds a transaction open (a conjunct of the type invariant). `LockInv`: one
  client at a time has written the row of an id, and what it wrote is allowed by
  the committed one. With `AnswersFound` it is inductive, and implies
  `OneFingerprint`.
- **StorageProofs.** `SwapInv`: how far a swap has come tells which stores are
  already on the new database, and an unfinished one has left its excuse.
  `RestartInv` relates config file, snapshot and workload to what is in memory for
  every stage of a request; the requests that end early, a refused activation
  among them, leave an excuse behind.
- **AuthProofs.** `RoleInv` adds keys that are only requested to those inserted.
  `BootInv` injects users and bootstraps under way into the processes: a process
  that passed the empty-table check has not created its user yet. `CallsHaveRows`
  (an event or an answer under way is about a row that exists) and that nothing
  below `drawn` is drawn again make `EndedIsFinal` an action property.
  `DeliveriesAreRecorded` counts per user the tokens that are delivered or about to
  be (`EventInv`): their events come first, and a row of a token is never
  rewritten for another user.

`AuditFollowsStore`, `OrderCoversRegistry`, `OrderListsOnce` and
`PromotedCompatible` are proved and in no run.

Every safety property of the passing runs is stated by a theorem. Only
model-checked are the two liveness properties (`OnlyBadFilesKeepDown`,
`HotSwapEnds`), since liveness under fairness and `ENABLED` are out of the
prover's reach, and the refutations. Induction over data and `RECURSIVE` operators
are out of reach too; the modules declare none of the latter, and listings are
defined by ranks and chains as functions so that cardinalities and smallest
elements take the place of induction.

## Known divergences without a run

Seen while modelling; a few were checked with TLC before the runs were limited to
what this project keeps.

Scoring and stores:

- An unchanged request without `workload_id` is refused once another workload is
  active, since its fingerprint contains the resolved workload (`engine.py:50`;
  `engine.py:18` says "Raised when a transaction id is retried with a different
  request body.").
- An import takes thresholds with `review > block` (`workloads.py:91-97`). An
  activation of such a workload fails after the active id has changed
  (`engine.py:145-146`): until the next activation that succeeds, requests of the new
  workload are decided under the policy of the old one, where
  `src/docs/api/12-api-reference.md:223` has the activation replace the policy. If the
  spec was persisted and the workload is the configured one, the server does not
  start again (`engine.py:34`).
- The in-memory store keeps 100 events, the in-memory control-plane store 500
  (`storage.py:74`, `control_plane_store.py:58`): the chain stops verifying when
  the first is dropped (`src/runtime/README.md:283`: "tamper-evident audit trail").
- Threads: `created_at` is taken before the store's lock, so two threads of one
  process that insert in the other order leave a chain that does not verify, with
  no fault of the storage (TLC refutes `ChainIntact` for two threads); two racing
  calls can both be answered, and the loser's answer is not what a later retry
  hears. Two processes over one database fork the chain. A thread between the two
  reads of the policy selection decides under the policy of another workload. Two racing in-memory calls may bind an id to the later
  fingerprint: the in-memory upsert is unconditional.

Models and healing:

- Promoting the champion to shadow leaves it scoring, and the console without a
  serving endpoint (`console_api.py:521`; `src/docs/api/12-api-reference.md:162`:
  "The endpoint is stable across model promotions.").
- After promoting the champion to champion again, a rollback changes nothing
  (`control_plane.py:1053`; `src/docs/deployment/17-deployment.md:25`: "rollback is
  a repoint to the previous known-good signed artifact").
- `upload_model` records carry no manifest, so the promotion gate skips every
  check for them (`console_api.py:436-441` calls that a seeded record).
- A rollback brings back the thresholds of a workload that is no longer active
  (`healing_executor.py:121`; `src/docs/user-guide/00-overview.md:40`: "Apply
  workload-specific policy thresholds").
- An approved threshold move under a workload that blocks early stays running and
  is never executed (`healing_executor.py:71`; `src/runtime/README.md:261`:
  "Approved healing actions are executed immediately after approval.").
- Rolling healing actions back in another order than they were executed in
  brings back the policy of a rolled-back action, or drops a later one, as a
  rollback restores the whole policy saved at execution.
- When the save of an override fails (`control_plane.py:1611`), the override is in
  force with no execution record, and a rollback of the action does not revert it,
  since there is no recorded effect.
- Two threads: an activation during a promotion gate leaves a record whose checks
  were run against different workloads, of which its `workload_id` may be either, or
  a third.
- A restart rebuilds the policy from the workload: threshold moves are gone
  while their actions are still running, but overrides survive.

Control-plane store, configuration, authentication:

- Two processes over one control-plane database lose each other's changes, as each
  saves its whole state, and fork the operation chain; with two processes TLC
  refutes `LedgerExplainsSnapshot` and `SnapshotNeverRegresses`. An event that
  another process records between the verifier's count and its listing makes it
  call an intact chain invalid.
- The ledger event of a drift event (`drift.ingest`) carries no status, although it
  sets a decided monitor active again (`control_plane.py:1424`): a reader of the
  ledger must know that it does.
- The chains are ordered by the wall clock with ties broken by a random id: two
  events in one microsecond, or a clock set back, may be reported as invalid.
- Connecting to a database overwrites the control-plane snapshot it holds, and the
  decisions stay where they were (`src/runtime/README.md:245`: "Database
  provisioning now moves both runtime audit/memory and control-plane state").
- A crash while the config file or a spec file is written keeps the server from
  starting until somebody repairs the file.
- The Postgres auth store uses its connection like the other Postgres stores:
  after a first read nothing is committed, and the row lock of
  `update_last_login` lasts as long as the connection.
- Processes that race to bootstrap create one administrator each.
- `revoke_api_key` revokes a key before it checks that the caller owns it; expired
  session rows are never deleted.

## Not modelled, and why

- Scores, reason codes, payload validation, artifact checks and replay are pure
  functions without state: abstracted. Governance is a table lookup with its own
  unit tests.
- The dashboard, the client and all of the CLI but `db init` are I/O; compiler,
  SDK, plugins and controller are placeholders.
- `database.py`'s Docker provisioning and status, and the schema migrations of the
  SQLite stores: calls to other programs, and statements that run once.
- `auth.py`'s in-memory and Postgres stores. The first differs from the SQLite one
  by a lock around each method; the second has the transaction scope that
  `PostgresStore` shows for the others.
- The hash chain over Postgres: every process extends the committed chain by rows
  that it alone sees and that are lost with it, so there is no chain to verify.
- A request under way during a swap of the stores: the shipped server has none, as
  it handles one request at a time.
- Ties of the clock and clocks that step back: see the divergences.

What could come next: a composition of `ScoringEngine` with `StorageSwitch` for
threads that score while a swap is under way.
