---------------------------- MODULE StorageProofs ----------------------------
(***************************************************************************)
(* Theorems about StorageSwitch, for any databases, workloads, versions    *)
(* and states: the stores agree between requests, and a restart finds what *)
(* the server had.                                                         *)
(***************************************************************************)
EXTENDS StorageSwitch, TLAPS

-----------------------------------------------------------------------------
(* Types. *)

Change == [storage : Database] \cup [workload : Workload]

Calls == {Down, Idle}
         \cup [step : {"engine", "control", "auth"}, storage : Database,
               persist : BOOLEAN]
         \cup [step : {"config"}, change : Change]
         \cup [step : {"write"}, entry : Entry, change : Change]
         \cup [step : {"spec"}, workload : Workload, activate : BOOLEAN]
         \cup [step : {"activate"}, workload : Workload]

TypeInv == TypeOK /\ call \in Calls

LEMMA CallShape ==
  ASSUME NEW c \in Calls
  PROVE  /\ c.step \in {"engine", "control", "auth"} =>
              /\ c.storage \in Database /\ c.persist \in BOOLEAN
              /\ \A s \in {"control", "auth"} :
                   /\ [c EXCEPT !.step = s] \in Calls
                   /\ [c EXCEPT !.step = s].step = s
                   /\ [c EXCEPT !.step = s].storage = c.storage
         /\ c.step = "config" => c.change \in Change
         /\ c.step = "write" => c.entry \in Entry /\ c.change \in Change
         /\ c.step = "spec" => c.workload \in Workload /\ c.activate \in BOOLEAN
         /\ c.step = "activate" => c.workload \in Workload
         /\ c.step = "down" => c = Down
         /\ c.step = "idle" => c = Idle
         /\ Down \in Calls /\ Idle \in Calls
         /\ c.step \in {"down", "idle", "engine", "control", "auth", "config", "write",
                        "spec", "activate"}
BY DEF Calls, Down, Idle

LEMMA IdleShape ==
  Idle \in Calls /\ Idle.step = "idle"
BY DEF Calls, Idle

LEMMA ChangeShape ==
  ASSUME NEW c \in Change
  PROVE  \/ DOMAIN c = {"storage"} /\ c.storage \in Database
         \/ DOMAIN c = {"workload"} /\ c.workload \in Workload
BY DEF Change

(* What the config file and the spec files give.                           *)
LEMMA LoadedType ==
  ASSUME TypeOK, Readable
  PROVE  Loaded \in Entry
BY DefaultAssumption DEF TypeOK, Readable, Loaded, Entry

LEMMA SpecsType ==
  ASSUME TypeOK, SpecsReadable
  PROVE  /\ LoadedSpecs \in [Workload -> Version \cup {Absent}]
         /\ Readable => ResolvedActive \in Workload
<1>1. 0 \in Version
  BY BoundAssumption DEF Version
<1>2. LoadedSpecs \in [Workload -> Version \cup {Absent}]
  BY <1>1 DEF TypeOK, SpecsReadable, LoadedSpecs
<1>3. Readable => ResolvedActive \in Workload
  BY LoadedType, DefaultAssumption DEF ResolvedActive, Entry
<1> QED BY <1>2, <1>3

(* One field of the config is replaced, the other one kept.                *)
LEMMA ConfigField ==
  ASSUME Loaded \in Entry, NEW c \in Change
  PROVE  /\ ConfigWith(c) \in Entry
         /\ "storage" \in DOMAIN c => /\ ConfigWith(c).storage = c.storage
                                      /\ ConfigWith(c).workload = Loaded.workload
         /\ "workload" \in DOMAIN c => /\ ConfigWith(c).workload = c.workload
                                       /\ ConfigWith(c).storage = Loaded.storage
<1>1. CASE DOMAIN c = {"storage"} /\ c.storage \in Database
  <2>1. ConfigWith(c) = [Loaded EXCEPT !.storage = c.storage, !.workload = Loaded.workload]
    BY <1>1 DEF ConfigWith
  <2> QED BY <1>1, <2>1 DEF Entry
<1>2. CASE DOMAIN c = {"workload"} /\ c.workload \in Workload
  <2>1. ConfigWith(c) = [Loaded EXCEPT !.storage = Loaded.storage, !.workload = c.workload]
    BY <1>2 DEF ConfigWith
  <2> QED BY <1>2, <2>1 DEF Entry
<1> QED BY <1>1, <1>2, ChangeShape

LEMMA TypeInit == Init => TypeInv
<1> SUFFICES ASSUME Init PROVE TypeInv
  OBVIOUS
<1>1. 0 \in Version /\ 0 \in 0 .. MaxState /\ DefaultWorkload \in Workload
  BY BoundAssumption, DefaultAssumption DEF Version
<1>2. /\ registry \in [Workload -> Version \cup {Absent}]
      /\ registry[DefaultWorkload] = 0
  BY <1>1, DefaultAssumption DEF Init, LoadedSpecs
<1>3. 0 # Absent
  BY FileAssumption
<1> QED BY <1>1, <1>2, <1>3, DefaultAssumption
        DEF Init, TypeInv, TypeOK, Calls, Down, Excuse

LEMMA StartType ==
  ASSUME TypeInv, NEW d \in Database, Start(d)
  PROVE  TypeInv'
<1>1. /\ LoadedSpecs \in [Workload -> Version \cup {Absent}]
      /\ ResolvedActive \in Workload
      /\ LoadedSpecs[ResolvedActive] # Absent
  BY SpecsType DEF TypeInv, Start, CreateEngine
<1>2. control' \in 0 .. MaxState /\ snapshot' \in [Database -> (0 .. MaxState) \cup {Absent}]
  <2>1. control' \in 0 .. MaxState
    BY BoundAssumption DEF TypeInv, TypeOK, Start, CreateControlPlane
  <2> QED BY <2>1 DEF TypeInv, TypeOK, Start, CreateControlPlane
<1>3. /\ config' = config /\ spec_file' = spec_file /\ call' = Idle
      /\ {engine_store', control_store', auth_store'} \subseteq Database
      /\ registry' = LoadedSpecs /\ active' = ResolvedActive
      /\ excuse' \subseteq Excuse
  BY DEF Start, CreateEngine, CreateControlPlane, files, Excuse
<1> QED BY <1>1, <1>2, <1>3, IdleShape DEF TypeInv, TypeOK

LEMMA ActivationType ==
  ASSUME TypeInv, NEW w \in Workload, ActivateWorkload(w)
  PROVE  TypeInv'
<1> DEFINE next == [step |-> "config", change |-> [workload |-> w]]
<1>1. next \in Calls /\ next.step = "config"
  BY DEF Calls, Change
<1>2. /\ call' \in {next, Idle} /\ active' = w
      /\ UNCHANGED <<config, spec_file, snapshot, engine_store, control_store,
                     auth_store, control, registry>>
      /\ excuse' = excuse \cup {"workload"} /\ registry[w] # Absent
  BY DEF ActivateWorkload, Activation, files, stores
<1> HIDE DEF next
<1> QED BY <1>1, <1>2, IdleShape DEF TypeInv, TypeOK, Excuse

LEMMA ImportType ==
  ASSUME TypeInv, NEW w \in Workload, NEW v \in 1 .. MaxVersion,
         NEW persist \in BOOLEAN, NEW activate \in BOOLEAN,
         ImportWorkload(w, v, persist, activate)
  PROVE  TypeInv'
<1>1. v \in Version /\ v # Absent
  BY BoundAssumption, FileAssumption DEF Version
<1>2. /\ registry' \in [Workload -> Version \cup {Absent}]
      /\ registry'[active] # Absent
  BY <1>1 DEF ImportWorkload, TypeInv, TypeOK
<1>3. spec_file' \in [Workload -> Version \cup {Absent, Torn}]
  BY DEF ImportWorkload, TypeInv, TypeOK
<1>4. call' \in Calls /\ call'.step \in {"spec", "activate", "idle"}
  BY DEF ImportWorkload, Calls, Idle
<1>5. /\ UNCHANGED <<config, snapshot, engine_store, control_store, auth_store,
                     control, active, excuse>>
  BY DEF ImportWorkload, stores
<1> QED BY <1>2, <1>3, <1>4, <1>5 DEF TypeInv, TypeOK, Excuse

LEMMA SwapType ==
  ASSUME TypeInv,
         \/ \E d \in Database, persist \in BOOLEAN : Connect(d, persist)
         \/ ReplaceEngineStore \/ ReplaceControlStore \/ ReplaceAuthStore \/ RequestFails
  PROVE  TypeInv'
<1> USE DEF TypeInv, TypeOK, stores, files, workloads, Excuse
<1>1. ASSUME NEW d \in Database, NEW persist \in BOOLEAN, Connect(d, persist)
      PROVE  TypeInv'
  BY <1>1 DEF Connect, Calls
<1>2. CASE ReplaceEngineStore
  <2>1. call.storage \in Database
    BY <1>2, CallShape DEF ReplaceEngineStore
  <2>2. call' = [call EXCEPT !.step = "control"] /\ call.step = "engine"
    BY <1>2 DEF ReplaceEngineStore
  <2>3. call' \in Calls /\ call'.step = "control"
    BY <2>2, CallShape
  <2> QED BY <1>2, <2>1, <2>3 DEF ReplaceEngineStore
<1>3. CASE ReplaceControlStore
  <2>1. call.storage \in Database
    BY <1>3, CallShape DEF ReplaceControlStore
  <2>2. snapshot' \in [Database -> (0 .. MaxState) \cup {Absent}]
    BY <1>3, <2>1 DEF ReplaceControlStore
  <2>3. call' = [call EXCEPT !.step = "auth"] \/ call' = Idle
    BY <1>3 DEF ReplaceControlStore
  <2>4. call.step = "control"
    BY <1>3 DEF ReplaceControlStore
  <2>5. call' \in Calls /\ call'.step \in {"auth", "idle"}
    <3> DEFINE next == [call EXCEPT !.step = "auth"]
    <3>1. next \in Calls /\ next.step = "auth"
      BY <2>4, CallShape
    <3> HIDE DEF next
    <3> QED BY <2>3, <3>1, IdleShape DEF next
  <2> QED BY <1>3, <2>1, <2>2, <2>5 DEF ReplaceControlStore
<1>4. CASE ReplaceAuthStore
  <2>1. call.storage \in Database
    BY <1>4, CallShape DEF ReplaceAuthStore
  <2>2. call' \in Calls /\ call'.step \in {"config", "idle"}
    <3> DEFINE c == [storage |-> call.storage]
               next == [step |-> "config", change |-> c]
    <3>1. c \in Change
      BY <2>1 DEF Change
    <3>2. next \in Calls /\ next.step = "config"
      BY <3>1 DEF Calls
    <3>3. call' = next \/ call' = Idle
      BY <1>4 DEF ReplaceAuthStore
    <3> HIDE DEF next
    <3> QED BY <3>2, <3>3, IdleShape
  <2> QED BY <1>4, <2>1, <2>2 DEF ReplaceAuthStore
<1>5. CASE RequestFails
  BY <1>5 DEF RequestFails, Calls, Idle
<1> QED BY <1>1, <1>2, <1>3, <1>4, <1>5

LEMMA FileType ==
  ASSUME TypeInv,
         \/ Crash \/ TruncateConfig \/ WriteConfig \/ WriteSpec \/ Operate
         \/ \E d \in Database : DbInit(d)
  PROVE  TypeInv'
<1> USE DEF stores, files, workloads, Excuse
<1>1. CASE Crash
  BY <1>1 DEF Crash, Calls, Down, TypeInv, TypeOK
<1>2. CASE TruncateConfig
  <2> DEFINE next == [step |-> "write", entry |-> ConfigWith(call.change),
                      change |-> call.change]
  <2>1. call.change \in Change /\ ConfigWith(call.change) \in Entry
    BY <1>2, CallShape, ConfigField, LoadedType DEF TruncateConfig, TypeInv
  <2>2. next \in Calls /\ next.step = "write"
    BY <2>1 DEF Calls
  <2>3. /\ call' = next /\ config' = Torn
        /\ UNCHANGED <<spec_file, snapshot, stores, control, workloads, excuse>>
    BY <1>2 DEF TruncateConfig
  <2> HIDE DEF next
  <2> QED BY <2>2, <2>3 DEF TypeInv, TypeOK
<1>3. CASE WriteConfig
  BY <1>3, CallShape DEF WriteConfig, TypeInv, TypeOK, Idle
<1>4. CASE WriteSpec
  <2>1. call.workload \in Workload /\ call.activate \in BOOLEAN
    BY <1>4, CallShape DEF WriteSpec, TypeInv
  <2>2. spec_file' \in [Workload -> Version \cup {Absent, Torn}]
    BY <1>4, <2>1 DEF WriteSpec, TypeInv, TypeOK
  <2>3. call' \in Calls /\ call'.step \in {"activate", "idle"}
    BY <1>4, <2>1 DEF WriteSpec, Calls, Idle
  <2> QED BY <1>4, <2>2, <2>3 DEF WriteSpec, TypeInv, TypeOK
<1>5. CASE Operate
  <2>1. control' \in 0 .. MaxState
    BY <1>5, BoundAssumption DEF Operate, TypeInv, TypeOK
  <2> QED BY <1>5, <2>1 DEF Operate, TypeInv, TypeOK
<1>6. ASSUME NEW d \in Database, DbInit(d)
      PROVE  TypeInv'
  BY <1>6, DefaultAssumption DEF DbInit, TypeInv, TypeOK, Entry
<1> QED BY <1>1, <1>2, <1>3, <1>4, <1>5, <1>6

LEMMA StartFromType ==
  ASSUME TypeInv, StartFromConfig \/ StartElsewhere
  PROVE  \E d \in Database : Start(d)
BY LoadedType DEF StartFromConfig, StartElsewhere, TypeInv, Entry

LEMMA TypeInvariant == Spec => []TypeInv
<1>1. TypeInv /\ [Next]_vars => TypeInv'
  <2> SUFFICES ASSUME TypeInv, [Next]_vars PROVE TypeInv'
    OBVIOUS
  <2>1. CASE UNCHANGED vars
    BY <2>1 DEF vars, files, stores, workloads, TypeInv, TypeOK
  <2> QED BY <2>1, StartFromType, StartType, ActivationType, ImportType, SwapType, FileType
          DEF Next
<1> QED BY <1>1, TypeInit, PTL DEF Spec

(* Type correctness: the active workload is always one the registry has.   *)
THEOREM TypeCorrect == Spec => []TypeOK
<1>1. TypeInv => TypeOK
  BY DEF TypeInv
<1> QED BY <1>1, TypeInvariant, PTL

-----------------------------------------------------------------------------
(* The three stores. *)

(* The engine's store changes first; until the control plane follows, and  *)
(* then the users, the call knows the database, and the swap is halfway.   *)
SwapInv ==
  /\ call.step \notin {"down", "control", "auth"} =>
       /\ engine_store = control_store
       /\ "halfway" \notin excuse => auth_store = engine_store
  /\ call.step \in {"control", "auth"} =>
       engine_store = call.storage /\ "halfway" \in excuse
  /\ call.step = "auth" => control_store = call.storage

LEMMA SwapStep ==
  ASSUME TypeInv, SwapInv, [Next]_vars
  PROVE  SwapInv'
<1> USE DEF SwapInv, stores, Idle, Down
<1>1. ASSUME NEW d \in Database, Start(d)
      PROVE  SwapInv'
  BY <1>1 DEF Start, CreateEngine, CreateControlPlane
<1>2. CASE Crash
  BY <1>2 DEF Crash
<1>3. ASSUME NEW d \in Database, NEW persist \in BOOLEAN, Connect(d, persist)
      PROVE  SwapInv'
  BY <1>3 DEF Connect
<1>4. CASE ReplaceEngineStore
  <2>1. call.step = "engine" /\ call' = [call EXCEPT !.step = "control"]
    BY <1>4 DEF ReplaceEngineStore
  <2>2. call'.step = "control" /\ call'.storage = call.storage
    BY <2>1, CallShape DEF TypeInv
  <2> QED BY <1>4, <2>2 DEF ReplaceEngineStore
<1>5. CASE ReplaceControlStore
  <2>1. call.step = "control"
    BY <1>5 DEF ReplaceControlStore
  <2>2. CASE call' = [call EXCEPT !.step = "auth"] /\ excuse' = excuse \ {"unsaved"}
    <3>1. call'.step = "auth" /\ call'.storage = call.storage
      BY <2>1, <2>2, CallShape DEF TypeInv
    <3> QED BY <1>5, <2>1, <2>2, <3>1 DEF ReplaceControlStore
  <2>3. CASE call' = Idle /\ excuse' = excuse \cup {"unsaved"}
    BY <1>5, <2>1, <2>3 DEF ReplaceControlStore
  <2> QED BY <1>5, <2>2, <2>3 DEF ReplaceControlStore
<1>6. CASE ReplaceAuthStore
  <2>1. call'.step \in {"config", "idle"}
    BY <1>6 DEF ReplaceAuthStore
  <2> QED BY <1>6, <2>1 DEF ReplaceAuthStore
<1>7. CASE RequestFails
  BY <1>7 DEF RequestFails
<1>8. CASE TruncateConfig
  BY <1>8 DEF TruncateConfig
<1>9. CASE WriteConfig
  <2>1. call.change \in Change
    BY <1>9, CallShape DEF WriteConfig, TypeInv
  <2>2. "halfway" \notin DOMAIN call.change
    BY <2>1, ChangeShape
  <2> QED BY <1>9, <2>2 DEF WriteConfig
<1>10. ASSUME NEW w \in Workload, ActivateWorkload(w)
       PROVE  SwapInv'
  BY <1>10 DEF ActivateWorkload, Activation
<1>11. ASSUME NEW w \in Workload, NEW v \in 1 .. MaxVersion, NEW persist \in BOOLEAN,
              NEW activate \in BOOLEAN, ImportWorkload(w, v, persist, activate)
       PROVE  SwapInv'
  <2>1. call'.step \in {"spec", "activate", "idle"}
    BY <1>11 DEF ImportWorkload
  <2> QED BY <1>11, <2>1 DEF ImportWorkload
<1>12. CASE WriteSpec
  <2>1. call'.step \in {"activate", "idle"}
    BY <1>12 DEF WriteSpec
  <2> QED BY <1>12, <2>1 DEF WriteSpec
<1>13. CASE Operate
  BY <1>13 DEF Operate
<1>14. ASSUME NEW d \in Database, DbInit(d)
       PROVE  SwapInv'
  BY <1>14 DEF DbInit
<1>15. CASE UNCHANGED vars
  BY <1>15 DEF vars
<1> QED BY <1>1, <1>2, <1>3, <1>4, <1>5, <1>6, <1>7, <1>8, <1>9, <1>10, <1>11, <1>12,
           <1>13, <1>14, <1>15, StartFromType DEF Next

LEMMA SwapInvariant == Spec => []SwapInv
<1>1. Init => SwapInv
  BY DEF Init, SwapInv, Down
<1>2. TypeInv /\ SwapInv /\ [Next]_vars => SwapInv'
  BY SwapStep
<1> QED BY <1>1, <1>2, TypeInvariant, PTL DEF Spec

(* Between requests the engine and the control plane are on one database,  *)
(* wherever a swap stopped (DatabaseProvisioner.connect).                  *)
THEOREM StoresStayTogether == Spec => []StoresAgree
<1>1. SwapInv => StoresAgree
  BY DEF SwapInv, StoresAgree, Idle
<1> QED BY <1>1, SwapInvariant, PTL

-----------------------------------------------------------------------------
(* What a restart finds. *)

(* A config that can be read has what the server has, up to the excuses;   *)
(* the fields that a call is about to write are those of the server.       *)
SavesStorage(c) == "storage" \in DOMAIN c
SavesWorkload(c) == "workload" \in DOMAIN c

RestartInv ==
  call.step # "down" =>
    /\ "unsaved" \notin excuse => snapshot[control_store] = control
    /\ Readable => /\ "storage" \notin excuse => Loaded.storage = engine_store
                   /\ "workload" \notin excuse => Loaded.workload = active
    /\ call.step = "config" =>
         /\ SavesStorage(call.change) => call.change.storage = engine_store
         /\ SavesWorkload(call.change) => call.change.workload = active
    /\ call.step = "write" =>
         /\ SavesStorage(call.change) \/ "storage" \notin excuse
              => call.entry.storage = engine_store
         /\ SavesWorkload(call.change) \/ "workload" \notin excuse
              => call.entry.workload = active

LEMMA RestartStep ==
  ASSUME TypeInv, SwapInv, RestartInv, [Next]_vars
  PROVE  RestartInv'
<1> USE DEF RestartInv, Idle, Down, files, stores, workloads
<1>0. config' = config => (Readable' <=> Readable) /\ Loaded' = Loaded
  BY DEF Readable, Loaded
<1>1. ASSUME NEW d \in Database, Start(d)
      PROVE  RestartInv'
  <2>1. /\ call' = Idle /\ config' = config
        /\ engine_store' = d /\ control_store' = d
        /\ active' = ResolvedActive
        /\ "storage" \notin excuse' => d = Loaded.storage
        /\ "workload" \notin excuse' => ResolvedActive = Loaded.workload
    BY <1>1 DEF Start, CreateEngine, CreateControlPlane
  <2>2. snapshot'[d] = control'
    BY <1>1 DEF Start, CreateControlPlane, TypeInv, TypeOK
  <2> QED BY <1>0, <2>1, <2>2
<1>2. CASE Crash
  BY <1>2 DEF Crash
<1>3. ASSUME NEW d \in Database, NEW persist \in BOOLEAN, Connect(d, persist)
      PROVE  RestartInv'
  BY <1>0, <1>3 DEF Connect
<1>4. CASE ReplaceEngineStore
  <2>1. call.step = "engine" /\ call' = [call EXCEPT !.step = "control"]
    BY <1>4 DEF ReplaceEngineStore
  <2>2. call'.step = "control"
    BY <2>1, CallShape DEF TypeInv
  <2> QED BY <1>0, <1>4, <2>1, <2>2 DEF ReplaceEngineStore
<1>5. CASE ReplaceControlStore
  <2>1. call.step = "control" /\ call.storage \in Database
    BY <1>5, CallShape DEF ReplaceControlStore, TypeInv
  <2>2. call'.step \in {"auth", "idle"}
    <3> DEFINE next == [call EXCEPT !.step = "auth"]
    <3>1. next.step = "auth"
      BY <2>1, CallShape DEF TypeInv
    <3>2. call' = next \/ call' = Idle
      BY <1>5 DEF ReplaceControlStore
    <3> HIDE DEF next
    <3> QED BY <3>1, <3>2, IdleShape
  <2>3. "unsaved" \notin excuse' => snapshot'[control_store'] = control'
    BY <1>5, <2>1 DEF ReplaceControlStore, TypeInv, TypeOK
  <2>4. /\ UNCHANGED <<config, engine_store, active>>
        /\ excuse \ {"unsaved"} \subseteq excuse'
    BY <1>5 DEF ReplaceControlStore
  <2> QED BY <1>0, <2>1, <2>2, <2>3, <2>4
<1>6. CASE ReplaceAuthStore
  <2>1. call.step = "auth" /\ engine_store = call.storage
    BY <1>6 DEF ReplaceAuthStore, SwapInv
  <2>2. \/ call'.step = "idle"
        \/ /\ call'.step = "config" /\ DOMAIN call'.change = {"storage"}
           /\ call'.change.storage = call.storage
    BY <1>6 DEF ReplaceAuthStore
  <2>3. /\ UNCHANGED <<config, snapshot, engine_store, control_store, control, active>>
        /\ excuse' = excuse \ {"halfway"}
    BY <1>6 DEF ReplaceAuthStore
  <2> QED BY <1>0, <2>1, <2>2, <2>3 DEF SavesStorage, SavesWorkload
<1>7. CASE RequestFails
  BY <1>0, <1>7 DEF RequestFails
<1>8. CASE TruncateConfig
  <2> DEFINE c == call.change
  <2>1. c \in Change /\ Loaded \in Entry /\ call.step = "config" /\ Readable
    BY <1>8, CallShape, LoadedType DEF TruncateConfig, TypeInv
  <2>2. /\ call'.step = "write" /\ call'.change = c /\ call'.entry = ConfigWith(c)
        /\ ~ Readable'
        /\ UNCHANGED <<snapshot, engine_store, control_store, control, active, excuse>>
    BY <1>8 DEF TruncateConfig, Readable
  <2>3. \/ DOMAIN c = {"storage"}
        \/ DOMAIN c = {"workload"}
    BY <2>1, ChangeShape
  <2>4. CASE DOMAIN c = {"storage"}
    <3>1. ConfigWith(c).storage = c.storage /\ ConfigWith(c).workload = Loaded.workload
      BY <2>1, <2>4, ConfigField
    <3> QED BY <2>1, <2>2, <2>4, <3>1 DEF SavesStorage, SavesWorkload
  <2>5. CASE DOMAIN c = {"workload"}
    <3>1. ConfigWith(c).workload = c.workload /\ ConfigWith(c).storage = Loaded.storage
      BY <2>1, <2>5, ConfigField
    <3> QED BY <2>1, <2>2, <2>5, <3>1 DEF SavesStorage, SavesWorkload
  <2> QED BY <2>3, <2>4, <2>5
<1>9. CASE WriteConfig
  <2>1. call.entry \in Entry /\ call.change \in Change /\ call.step = "write"
    BY <1>9, CallShape DEF WriteConfig, TypeInv
  <2>2. "unsaved" \notin DOMAIN call.change
    BY <2>1, ChangeShape
  <2>3. Loaded' = call.entry
    <3>1. config' = call.entry /\ call.entry # Absent
      BY <1>9, <2>1, FileAssumption DEF WriteConfig
    <3> QED BY <3>1 DEF Loaded
  <2>4. /\ call'.step = "idle" /\ excuse' = excuse \ DOMAIN call.change
        /\ UNCHANGED <<snapshot, engine_store, control_store, control, active>>
    BY <1>9 DEF WriteConfig
  <2> QED BY <2>1, <2>2, <2>3, <2>4 DEF SavesStorage, SavesWorkload
<1>10. ASSUME NEW w \in Workload, ActivateWorkload(w)
       PROVE  RestartInv'
  <2>1. /\ \/ call'.step = "idle"
           \/ /\ call'.step = "config" /\ DOMAIN call'.change = {"workload"}
              /\ call'.change.workload = w
        /\ active' = w /\ excuse' = excuse \cup {"workload"}
        /\ UNCHANGED <<config, snapshot, engine_store, control_store, control>>
        /\ call.step # "down"
    BY <1>10 DEF ActivateWorkload, Activation
  <2> QED BY <1>0, <2>1 DEF SavesStorage, SavesWorkload
<1>11. ASSUME NEW w \in Workload, NEW v \in 1 .. MaxVersion, NEW persist \in BOOLEAN,
              NEW activate \in BOOLEAN, ImportWorkload(w, v, persist, activate)
       PROVE  RestartInv'
  <2>1. /\ call.step = "idle" /\ call'.step \in {"spec", "activate", "idle"}
        /\ excuse \subseteq excuse'
        /\ UNCHANGED <<config, snapshot, engine_store, control_store, control, active>>
    BY <1>11 DEF ImportWorkload
  <2> QED BY <1>0, <2>1
<1>12. CASE WriteSpec
  <2>1. /\ call.step = "spec" /\ call'.step \in {"activate", "idle"}
        /\ UNCHANGED <<config, snapshot, engine_store, control_store, control, active,
                       excuse>>
    BY <1>12 DEF WriteSpec
  <2> QED BY <1>0, <2>1
<1>13. CASE Operate
  <2>1. "unsaved" \notin excuse' => snapshot'[control_store'] = control'
    BY <1>13 DEF Operate, TypeInv, TypeOK
  <2>2. /\ call.step = "idle" /\ call' = call
        /\ excuse \ {"unsaved"} \subseteq excuse'
        /\ UNCHANGED <<config, engine_store, active>>
    BY <1>13 DEF Operate
  <2> QED BY <1>0, <2>1, <2>2
<1>14. ASSUME NEW d \in Database, DbInit(d)
       PROVE  RestartInv'
  BY <1>14 DEF DbInit
<1>15. CASE UNCHANGED vars
  BY <1>0, <1>15 DEF vars
<1> QED BY <1>1, <1>2, <1>3, <1>4, <1>5, <1>6, <1>7, <1>8, <1>9, <1>10, <1>11, <1>12,
           <1>13, <1>14, <1>15, StartFromType DEF Next

(* A restart from the config file finds the database, the control plane's  *)
(* state and the active workload that the server had, up to the named      *)
(* excuses (connect, save_runtime_config, default_workload_registry).      *)
THEOREM RestartRestores == Spec => []RestartFindsTheSame
<1>1. Init => RestartInv
  BY DEF Init, RestartInv, Down
<1>2. TypeInv /\ SwapInv /\ RestartInv /\ [Next]_vars => RestartInv'
  BY RestartStep
<1>3. SwapInv /\ RestartInv => RestartFindsTheSame
  BY DEF SwapInv, RestartInv, RestartFindsTheSame, ResolvedActive, Idle
<1> QED BY <1>1, <1>2, <1>3, SwapInvariant, TypeInvariant, PTL DEF Spec
=============================================================================
