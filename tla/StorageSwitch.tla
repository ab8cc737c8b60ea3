--------------------------- MODULE StorageSwitch ---------------------------
(***************************************************************************)
(* Where a server keeps its state, and what a restart finds: the hot swap  *)
(* of the three stores (database.py, DatabaseProvisioner.connect), the     *)
(* config file (load_runtime_config, save_runtime_config), the workload    *)
(* registry with its spec files (workloads.py), start-up (api.py, run) and *)
(* `tenta db init` (cli.py).  A swap goes store by store and may stop      *)
(* half-way; a file is truncated before it is written; the process may     *)
(* crash at any point.  Databases are persistent (SQLite).                 *)
(***************************************************************************)
EXTENDS Naturals

CONSTANTS
    Database,           \* storage URLs
    DefaultDatabase,    \* DEFAULT_STORAGE_URL
    Workload,           \* workload ids
    DefaultWorkload,    \* DEFAULT_WORKLOAD_ID
    Builtin,            \* workloads that ship with the runtime
    Absent,             \* no file, no row, no entry
    Torn,               \* a file that was truncated and not written
    Refused,            \* spec versions with review > block: DecisionPolicy raises
    MaxVersion,         \* bound: versions of a spec that are imported
    MaxState            \* bound: successive states of the control plane

ASSUME DefaultAssumption ==
    DefaultDatabase \in Database /\ DefaultWorkload \in Builtin /\ Builtin \subseteq Workload
ASSUME BoundAssumption == MaxVersion \in Nat /\ MaxState \in Nat
ASSUME RefusedAssumption == Refused \subseteq 1 .. MaxVersion    \* the shipped ones are accepted

VARIABLES
    config,         \* data/tenta-runtime.json
    spec_file,      \* data/workloads/<id>.json: the version it holds
    snapshot,       \* per database: the saved state of the control plane
    engine_store,   \* RuntimeEngine.store
    control_store,  \* ControlPlane._store
    auth_store,     \* LocalAuthService.store
    control,        \* the state of the control plane in memory
    registry,       \* WorkloadRegistry._workloads: versions
    active,         \* WorkloadRegistry._active_id
    call,           \* where the server is
    excuse          \* history: why a restart may find something else

files == <<config, spec_file>>
stores == <<engine_store, control_store, auth_store>>
workloads == <<registry, active>>
vars == <<files, snapshot, stores, control, workloads, call, excuse>>

Version == 0 .. MaxVersion
Entry == [storage : Database, workload : Workload]

ASSUME FileAssumption == Absent \notin Nat \cup Entry \cup {Torn} /\ Torn \notin Nat \cup Entry

Excuse == {"storage", "workload", "unsaved", "halfway"}

Down == [step |-> "down"]
Idle == [step |-> "idle"]

\* load_runtime_config: defaults when there is no file; raises on a torn one.
Readable == config # Torn
Loaded == IF config = Absent
          THEN [storage |-> DefaultDatabase, workload |-> DefaultWorkload] ELSE config

\* _load_workload_payloads: user files override the built-in specs.
SpecsReadable == \A w \in Workload : spec_file[w] # Torn
OnDisk(w) == spec_file[w] # Absent \/ w \in Builtin
LoadedSpecs ==
    [w \in Workload |-> IF spec_file[w] # Absent THEN spec_file[w]
                        ELSE IF w \in Builtin THEN 0 ELSE Absent]

\* Mutant: the configured id is taken as it is.
ConfiguredActive == Loaded.workload

\* default_workload_registry: an unknown active id becomes the default one.
ResolvedActive == IF OnDisk(Loaded.workload) THEN Loaded.workload ELSE DefaultWorkload

-----------------------------------------------------------------------------
Init ==
    /\ config = Absent
    /\ spec_file = [w \in Workload |-> Absent]
    /\ snapshot = [d \in Database |-> Absent]
    /\ engine_store = DefaultDatabase
    /\ control_store = DefaultDatabase
    /\ auth_store = DefaultDatabase
    /\ control = 0
    /\ registry = LoadedSpecs
    /\ active = DefaultWorkload
    /\ call = Down
    /\ excuse = {}

\* The RuntimeEngine of create_default_engine: WorkloadRegistry refuses an
\* active id that it does not know, DecisionPolicy a spec with review > block.
CreateEngine(d) ==
    /\ LoadedSpecs[ResolvedActive] \notin Refused \cup {Absent}
    /\ engine_store' = d
    /\ registry' = LoadedSpecs
    /\ active' = ResolvedActive

\* ControlPlane.__init__ on the store of the same database.
CreateControlPlane(d) ==
    /\ control_store' = d
    /\ control' = IF snapshot[d] = Absent THEN 0 ELSE snapshot[d]
    /\ snapshot' = [snapshot EXCEPT ![d] = control']

\* api.run, with the config's storage or one given on the command line.
Start(d) ==
    /\ call = Down
    /\ Readable /\ SpecsReadable
    /\ CreateEngine(d)
    /\ CreateControlPlane(d)
    /\ auth_store' = d
    /\ call' = Idle
    /\ excuse' = (IF d # Loaded.storage THEN {"storage"} ELSE {})
                 \cup (IF ResolvedActive # Loaded.workload THEN {"workload"} ELSE {})
    /\ UNCHANGED files

StartFromConfig == Readable /\ Start(Loaded.storage)
StartElsewhere == \E d \in Database : Readable /\ d # Loaded.storage /\ Start(d)

Crash ==
    /\ call # Down
    /\ call' = Down
    /\ UNCHANGED <<files, snapshot, stores, control, workloads, excuse>>

-----------------------------------------------------------------------------
\* DatabaseProvisioner.connect: creating the runtime and the control-plane
\* store may fail, and then nothing has changed.
Connect(d, persist) ==
    /\ call = Idle
    /\ call' = [step |-> "engine", storage |-> d, persist |-> persist]
    /\ UNCHANGED <<files, snapshot, stores, control, workloads, excuse>>

\* RuntimeEngine.replace_store
ReplaceEngineStore ==
    /\ call.step = "engine"
    /\ engine_store' = call.storage
    /\ call' = [call EXCEPT !.step = "control"]
    /\ excuse' = excuse \cup {"storage", "halfway"}
    /\ UNCHANGED <<files, snapshot, control_store, auth_store, control, workloads>>

\* Mutant: the state in memory is saved first, and a failure stops the swap.
SaveThenReplaceControlStore ==
    /\ call.step = "control"
    /\ \/ /\ snapshot' = [snapshot EXCEPT ![call.storage] = control]
          /\ control_store' = call.storage
          /\ call' = [call EXCEPT !.step = "auth"]
          /\ excuse' = excuse \ {"unsaved"}
       \/ /\ UNCHANGED <<snapshot, control_store>>
          /\ call' = Idle
          /\ excuse' = excuse \cup {"unsaved"}
    /\ UNCHANGED <<files, engine_store, auth_store, control, workloads>>

\* ControlPlane.replace_store: the store is replaced, then the state in memory
\* is saved to it; when the save fails the new store stays.
ReplaceControlStore ==
    /\ call.step = "control"
    /\ control_store' = call.storage
    /\ \/ /\ snapshot' = [snapshot EXCEPT ![call.storage] = control]
          /\ call' = [call EXCEPT !.step = "auth"]
          /\ excuse' = excuse \ {"unsaved"}
       \/ /\ UNCHANGED snapshot
          /\ call' = Idle
          /\ excuse' = excuse \cup {"unsaved"}
    /\ UNCHANGED <<files, engine_store, auth_store, control, workloads>>

\* LocalAuthService.replace_store, of a store created only now.
ReplaceAuthStore ==
    /\ call.step = "auth"
    /\ auth_store' = call.storage
    /\ call' = IF call.persist
               THEN [step |-> "config", change |-> [storage |-> call.storage]] ELSE Idle
    /\ excuse' = excuse \ {"halfway"}
    /\ UNCHANGED <<files, snapshot, engine_store, control_store, control, workloads>>

\* A step raises: no database, a config that does not parse, a full disk.  What
\* the earlier steps did stays, a file that was truncated included.
RequestFails ==
    /\ call.step \in {"engine", "auth", "config", "write", "spec"}
    /\ call' = Idle
    /\ UNCHANGED <<files, snapshot, stores, control, workloads, excuse>>

-----------------------------------------------------------------------------
\* Mutant: saving one field resets the other to its default.
ConfigOfOne(change) ==
    [storage  |-> IF "storage" \in DOMAIN change THEN change.storage ELSE DefaultDatabase,
     workload |-> IF "workload" \in DOMAIN change THEN change.workload ELSE DefaultWorkload]

\* connect and _persist_active_workload read the config, replace one field of
\* it, and save it: open(path, "w") truncates ...
ConfigWith(change) ==
    [Loaded EXCEPT !.storage = IF "storage" \in DOMAIN change THEN change.storage ELSE @,
                   !.workload = IF "workload" \in DOMAIN change THEN change.workload ELSE @]

TruncateConfig ==
    /\ call.step = "config"
    /\ Readable
    /\ config' = Torn
    /\ call' = [step |-> "write", entry |-> ConfigWith(call.change), change |-> call.change]
    /\ UNCHANGED <<spec_file, snapshot, stores, control, workloads, excuse>>

\* ... and json.dump writes.
WriteConfig ==
    /\ call.step = "write"
    /\ config' = call.entry
    /\ call' = Idle
    /\ excuse' = excuse \ DOMAIN call.change
    /\ UNCHANGED <<spec_file, snapshot, stores, control, workloads>>

\* RuntimeEngine.activate_workload, then _persist_active_workload.  The id is
\* set before the policy is built: a refused spec leaves the id in memory, and
\* the exception keeps it out of the config file.
Activation(w) ==
    /\ active' = w
    /\ call' = IF registry[w] \in Refused THEN Idle
               ELSE [step |-> "config", change |-> [workload |-> w]]
    /\ excuse' = excuse \cup {"workload"}

\* Mutant: an id that no spec has can be activated.
ActivateUnknown(w) ==
    /\ call = Idle \/ (call.step = "activate" /\ call.workload = w)
    /\ Activation(w)
    /\ UNCHANGED <<files, snapshot, stores, control, registry>>

ActivateWorkload(w) ==
    /\ call = Idle \/ (call.step = "activate" /\ call.workload = w)
    /\ registry[w] # Absent
    /\ Activation(w)
    /\ UNCHANGED <<files, snapshot, stores, control, registry>>

\* WorkloadRegistry.import_spec: any thresholds are taken; the entry in memory,
\* then the file, which write_text truncates first.
ImportWorkload(w, v, persist, activate) ==
    /\ call = Idle
    /\ registry' = [registry EXCEPT ![w] = v]
    /\ spec_file' = IF persist THEN [spec_file EXCEPT ![w] = Torn] ELSE spec_file
    /\ call' = IF persist THEN [step |-> "spec", workload |-> w, activate |-> activate]
               ELSE IF activate THEN [step |-> "activate", workload |-> w] ELSE Idle
    /\ UNCHANGED <<config, snapshot, stores, control, active, excuse>>

WriteSpec ==
    /\ call.step = "spec"
    /\ spec_file' = [spec_file EXCEPT ![call.workload] = registry[call.workload]]
    /\ call' = IF call.activate THEN [step |-> "activate", workload |-> call.workload] ELSE Idle
    /\ UNCHANGED <<config, snapshot, stores, control, workloads, excuse>>

-----------------------------------------------------------------------------
\* An operator request that changes the control plane, and its save.
Operate ==
    /\ call = Idle
    /\ control < MaxState
    /\ control' = control + 1
    /\ \/ /\ snapshot' = [snapshot EXCEPT ![control_store] = control']
          /\ excuse' = excuse \ {"unsaved"}
       \/ UNCHANGED snapshot /\ excuse' = excuse \cup {"unsaved"}
    /\ UNCHANGED <<files, stores, workloads, call>>

\* `tenta db init` in another process: a config with the default workload.
DbInit(d) ==
    /\ config' \in {[storage |-> d, workload |-> DefaultWorkload], Torn}
    /\ excuse' = excuse \cup {"storage", "workload"}
    /\ UNCHANGED <<spec_file, snapshot, stores, control, workloads, call>>

Next ==
    \/ StartFromConfig
    \/ StartElsewhere
    \/ Crash
    \/ \E d \in Database, persist \in BOOLEAN : Connect(d, persist)
    \/ ReplaceEngineStore
    \/ ReplaceControlStore
    \/ ReplaceAuthStore
    \/ RequestFails
    \/ TruncateConfig
    \/ WriteConfig
    \/ \E w \in Workload : ActivateWorkload(w)
    \/ \E w \in Workload, v \in 1 .. MaxVersion, persist, activate \in BOOLEAN :
          ImportWorkload(w, v, persist, activate)
    \/ WriteSpec
    \/ Operate
    \/ \E d \in Database : DbInit(d)

Spec == Init /\ [][Next]_vars

\* A supervisor starts the server again whenever that is possible.
FairSpec == Spec /\ WF_vars(StartFromConfig)

-----------------------------------------------------------------------------
TypeOK ==
    /\ config \in Entry \cup {Absent, Torn}
    /\ spec_file \in [Workload -> Version \cup {Absent, Torn}]
    /\ snapshot \in [Database -> (0 .. MaxState) \cup {Absent}]
    /\ {engine_store, control_store, auth_store} \subseteq Database
    /\ control \in 0 .. MaxState
    /\ registry \in [Workload -> Version \cup {Absent}]
    /\ registry[active] # Absent
    /\ call.step \in {"down", "idle", "engine", "control", "auth", "config", "write", "spec",
                      "activate"}
    /\ excuse \subseteq Excuse

\* Between requests the engine and the control plane are on one database,
\* whatever failed on the way; users and sessions are there too unless a swap
\* failed half-way (DatabaseProvisioner.connect).
StoresAgree ==
    call = Idle => /\ engine_store = control_store
                   /\ "halfway" \notin excuse => auth_store = engine_store

\* What a restart from the config file would find between two requests is what
\* the server has now - the same database, with the state of the control plane
\* as it is in memory, and the same active workload - up to the named excuses:
\* a swap not persisted or not finished, another database on the command line,
\* a db init, a failed save, an activation that raised or did not reach the
\* file, and an active workload whose imported spec was not persisted.
RestartFindsTheSame ==
    (call = Idle /\ Readable /\ SpecsReadable) =>
        /\ "storage" \notin excuse =>
              /\ Loaded.storage = engine_store
              /\ "unsaved" \notin excuse => snapshot[Loaded.storage] = control
        /\ ("workload" \notin excuse /\ OnDisk(active)) => ResolvedActive = active

\* Only a bad file keeps a server down: one torn by a crash, or the spec file
\* of the workload the config resolves to, imported with review > block.
\* Neither a swap nor an activation - not even one that raised - nor an
\* unsaved import leaves anything else that start-up refuses
\* (load_runtime_config, default_workload_registry, RuntimeEngine.__init__).
OnlyBadFilesKeepDown ==
    call = Down ~> \/ call # Down
                   \/ ~Readable \/ ~SpecsReadable
                   \/ spec_file[ResolvedActive] \in Refused
=============================================================================
