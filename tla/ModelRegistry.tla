--------------------------- MODULE ModelRegistry ---------------------------
(***************************************************************************)
(* The model registry of the control plane: load, register, upload,        *)
(* promote and roll back models, as operators call them through the        *)
(* console API.  Each operation of ControlPlane runs under its lock, with  *)
(* two exceptions modelled as separate steps: upload_model looks for a     *)
(* duplicate before it takes the lock, and the console runs the promotion  *)
(* gate before it calls promote_model, one read of the active workload     *)
(* after the other.                                                        *)
(*                                                                         *)
(* Operators are the threads that serve console requests; one operator is  *)
(* the shipped single-threaded server.  The verdicts of the two checks a   *)
(* workload decides (feature contract, replay fixtures) are the constants  *)
(* Compatible and Replays; metrics, hashes, timestamps and the reports     *)
(* update_model_checks keeps on a record for display are left out, and so  *)
(* is a save that fails.                                                   *)
(***************************************************************************)
EXTENDS Naturals, Sequences

CONSTANTS Operators,         \* threads that serve console requests
          Models,            \* model ids
          SeedOrder,         \* the seeded models, in order
          SeedStage,         \* seeded models -> their stages
          FirstChampion,     \* the seeded champion
          PreviousChampion,  \* the champion seeded before it in the history
          Artifacts,         \* loadable artifacts, named by their model ids
          Workloads,
          Compatible,        \* <<model, workload>>: the manifest's contract fits
          Replays,           \* <<model, workload>>: its replay fixtures pass
          MaxHistory,        \* bound on the champion history
          None

Stages == {"candidate", "shadow", "champion", "fallback", "archived"}

Seeded == {SeedOrder[i] : i \in DOMAIN SeedOrder}

(* The list holds no model twice. *)
Distinct(list) == \A i, j \in DOMAIN list : list[i] = list[j] => i = j

ASSUME SeedAssumption ==
  /\ SeedOrder \in Seq(Models) /\ Distinct(SeedOrder)
  /\ SeedStage \in [Seeded -> Stages]
  /\ FirstChampion \in Seeded
  /\ PreviousChampion \in Seeded
  /\ \A m \in Seeded : SeedStage[m] = "champion" <=> m = FirstChampion
  /\ \A m, n \in Seeded : SeedStage[m] = "shadow" /\ SeedStage[n] = "shadow"
                            => m = n
ASSUME ArtifactAssumption == Artifacts \subseteq Models \ Seeded
ASSUME CheckAssumption == /\ Compatible \subseteq Models \X Workloads
                          /\ Replays \subseteq Models \X Workloads
ASSUME HistoryAssumption == MaxHistory \in Nat
ASSUME NoneAssumption == None \notin Models /\ None \notin Workloads

VARIABLES
  stage,      \* model id -> its stage; "none": not registered
  traffic,    \* model id -> traffic_pct
  manifests,  \* models whose record holds an artifact manifest
  gate,       \* model id -> the passed promotion gate its record holds
  order,      \* _model_order
  artifacts,  \* _artifacts
  active,     \* _active_model_id
  history,    \* _champion_history
  workload,   \* the engine's active workload
  request     \* operator -> its console request between two steps

registry == <<stage, traffic, manifests, gate, order, artifacts>>
vars == <<stage, traffic, manifests, gate, order, artifacts, active, history,
          workload, request>>

-----------------------------------------------------------------------------
(* A promotion gate: workload_id, and the workloads its contract check and *)
(* its replay name; None for a model without a manifest.                   *)
Gates == [workload : Workloads \cup {None},
          contract : Workloads \cup {None},
          replay   : Workloads \cup {None}]

NoGate == [workload |-> None, contract |-> None, replay |-> None]

(* step: what the request does next; gate: as far as it has been filled in. *)
Requests == [step : {"idle", "upload", "contract", "replay", "verdict", "promote"},
             model : Models \cup {None},
             target : {"shadow", "champion", None},
             gate : Gates]

Idle == [step |-> "idle", model |-> None, target |-> None, gate |-> NoGate]

Checking == {"contract", "replay", "verdict", "promote"}

Registered == {m \in Models : stage[m] # "none"}

TypeOK == /\ stage \in [Models -> Stages \cup {"none"}]
          /\ traffic \in [Models -> {0, 100}]
          /\ manifests \subseteq Registered
          /\ gate \in [Models -> Gates]
          /\ order \in Seq(Models)
          /\ artifacts \subseteq Models
          /\ active \in Registered
          /\ history \in Seq(Registered)
          /\ workload \in Workloads
          /\ request \in [Operators -> Requests]
          /\ \A o \in Operators : /\ request[o].step = "upload"
                                    => request[o].model \in Models
                                  /\ request[o].step \in Checking
                                    => request[o].model \in Registered

Init == /\ stage = [m \in Models |-> IF m \in Seeded THEN SeedStage[m] ELSE "none"]
        /\ traffic = [m \in Models |-> IF m = FirstChampion THEN 100 ELSE 0]
        /\ manifests = {}
        /\ gate = [m \in Models |-> NoGate]
        /\ order = SeedOrder
        /\ artifacts = Artifacts
        /\ active = FirstChampion
        /\ history = <<PreviousChampion, FirstChampion>>
        /\ workload \in Workloads
        /\ request = [o \in Operators |-> Idle]

-----------------------------------------------------------------------------
RegisterOrderOnly(m) ==                  \* fault: listed, but no record
  /\ order' = Append(order, m)
  /\ UNCHANGED <<stage, traffic, gate>>

(* The record a registration writes: a candidate without traffic. *)
Register(m) == /\ stage' = [stage EXCEPT ![m] = "candidate"]
               /\ traffic' = [traffic EXCEPT ![m] = 0]
               /\ gate' = [gate EXCEPT ![m] = NoGate]
               /\ order' = Append(order, m)

Free(m) == stage[m] = "none"

LoadModel(o, m) ==
  /\ request[o] = Idle
  /\ m \in artifacts
  /\ Free(m)
  /\ Register(m)
  /\ artifacts' = artifacts \ {m}
  /\ UNCHANGED <<manifests, active, history, workload, request>>

(* register_model_manifest: the duplicate check is under the lock. *)
RegisterManifest(o, m) ==
  /\ request[o] = Idle
  /\ Free(m)
  /\ Register(m)
  /\ manifests' = manifests \cup {m}
  /\ UNCHANGED <<artifacts, active, history, workload, request>>

(* upload_model: the duplicate check is not. *)
UploadCheck(o, m) ==
  /\ request[o] = Idle
  /\ Free(m)
  /\ request' = [request EXCEPT ![o] = [Idle EXCEPT !.step = "upload",
                                                         !.model = m]]
  /\ UNCHANGED <<registry, active, history, workload>>

UploadCommit(o) ==
  LET m == request[o].model
  IN /\ request[o].step = "upload"
     /\ Register(m)
     /\ manifests' = manifests \ {m}
     /\ request' = [request EXCEPT ![o] = Idle]
     /\ UNCHANGED <<artifacts, active, history, workload>>

-----------------------------------------------------------------------------
GateUnread(r) == TRUE                    \* fault: the verdicts are not looked at

(* _promotion_gate, a step for each read of the active workload, which a   *)
(* thread that activates another one may precede.  A record read without a *)
(* manifest skips both checks.                                             *)
OpenGate(o, m, target) ==
  /\ request[o] = Idle
  /\ stage[m] # "none"
  /\ request' = [request EXCEPT ![o] =
                   [step |-> IF m \in manifests THEN "contract" ELSE "verdict",
                    model |-> m, target |-> target, gate |-> NoGate]]
  /\ UNCHANGED <<registry, active, history, workload>>

CheckContract(o) ==
  /\ request[o].step = "contract"
  /\ request' = [request EXCEPT ![o].step = "replay",
                                ![o].gate.contract = workload]
  /\ UNCHANGED <<registry, active, history, workload>>

(* _run_manifest_replay takes the active workload again. *)
CheckReplay(o) ==
  /\ request[o].step = "replay"
  /\ request' = [request EXCEPT ![o].step = "verdict",
                                ![o].gate.replay = workload]
  /\ UNCHANGED <<registry, active, history, workload>>

ChecksPass(r) ==
  /\ r.gate.contract # None => <<r.model, r.gate.contract>> \in Compatible
  /\ r.gate.replay # None => <<r.model, r.gate.replay>> \in Replays

(* The gate names the workload active by now.  What a gate without checks  *)
(* names is left out: there is nothing it could disagree with.             *)
NameGate(o) ==
  /\ request[o].step = "verdict"
  /\ ChecksPass(request[o])
  /\ request' = [request EXCEPT ![o].step = "promote",
                                ![o].gate.workload =
                                   IF request[o].gate.contract = None
                                   THEN None ELSE workload]
  /\ UNCHANGED <<registry, active, history, workload>>

(* A check failed, or a promotion to champion has no reason: an error. *)
Refuse(o) ==
  /\ \/ request[o].step = "verdict" /\ ~ ChecksPass(request[o])
     \/ request[o].step = "promote" /\ request[o].target = "champion"
  /\ request' = [request EXCEPT ![o] = Idle]
  /\ UNCHANGED <<registry, active, history, workload>>

DemoteNobody(m) ==                       \* fault: the old shadow is kept
  [stage EXCEPT ![m] = "shadow"]

(* Every other shadow becomes a candidate. *)
ShadowStages(m) ==
  [x \in Models |-> IF x = m THEN "shadow"
                    ELSE IF stage[x] = "shadow" THEN "candidate" ELSE stage[x]]

PromoteShadow(o) ==
  LET m == request[o].model
  IN /\ request[o].step = "promote" /\ request[o].target = "shadow"
     /\ stage' = ShadowStages(m)
     /\ traffic' = [x \in Models |-> IF x = m \/ stage[x] = "shadow"
                                      THEN 0 ELSE traffic[x]]
     /\ gate' = [gate EXCEPT ![m] = request[o].gate]
     /\ request' = [request EXCEPT ![o] = Idle]
     /\ UNCHANGED <<manifests, order, artifacts, active, history, workload>>

CrownBeside(old, new) ==                 \* fault: the old champion is kept
  /\ stage' = [stage EXCEPT ![new] = "champion"]
  /\ traffic' = [traffic EXCEPT ![new] = 100]
  /\ active' = new

(* The old champion is archived before the new one is crowned: when both   *)
(* are one model it ends as the champion.                                  *)
Crown(old, new) ==
  /\ stage' = [stage EXCEPT ![old] = "archived", ![new] = "champion"]
  /\ traffic' = [traffic EXCEPT ![old] = 0, ![new] = 100]
  /\ active' = new

PromoteChampion(o) ==
  LET m == request[o].model
  IN /\ request[o].step = "promote" /\ request[o].target = "champion"
     /\ Len(history) < MaxHistory
     /\ Crown(active, m)
     /\ history' = Append(history, m)
     /\ gate' = [gate EXCEPT ![m] = request[o].gate]
     /\ request' = [request EXCEPT ![o] = Idle]
     /\ UNCHANGED <<manifests, order, artifacts, workload>>

RollbackForgetful(o) ==                  \* fault: the current id is not popped
  LET n == Len(history)
  IN /\ request[o] = Idle
     /\ n >= 2
     /\ Crown(history[n], history[n - 1])
     /\ UNCHANGED <<manifests, gate, order, artifacts, history, workload,
                    request>>

Rollback(o) ==
  LET n == Len(history)
  IN /\ request[o] = Idle
     /\ n >= 2
     /\ history' = SubSeq(history, 1, n - 1)
     /\ Crown(history[n], history[n - 1])
     /\ UNCHANGED <<manifests, gate, order, artifacts, workload, request>>

-----------------------------------------------------------------------------
(* activate_workload, which no gate looks back at. *)
ActivateWorkload(o, w) ==
  /\ request[o] = Idle
  /\ workload' = w
  /\ UNCHANGED <<registry, active, history, request>>

(* Every operation saved the registry under its lock; a restart loads it   *)
(* back and loses the requests under way.                                  *)
Restart == /\ request' = [o \in Operators |-> Idle]
           /\ UNCHANGED <<registry, active, history, workload>>

Operate(o) == \/ \E m \in Models : \/ LoadModel(o, m)
                                   \/ RegisterManifest(o, m)
                                   \/ UploadCheck(o, m)
                                   \/ \E t \in {"shadow", "champion"} :
                                                OpenGate(o, m, t)
              \/ UploadCommit(o)
              \/ CheckContract(o)
              \/ CheckReplay(o)
              \/ NameGate(o)
              \/ Refuse(o)
              \/ PromoteShadow(o)
              \/ PromoteChampion(o)
              \/ Rollback(o)
              \/ \E w \in Workloads : ActivateWorkload(o, w)

Next == Restart \/ \E o \in Operators : Operate(o)

Spec == Init /\ [][Next]_vars

-----------------------------------------------------------------------------
(* Properties of any number of operator threads. *)

(* The model that scores is the newest entry of the champion history, so   *)
(* a rollback always retires the model in use.                             *)
ActiveIsNewest == history # << >> /\ active = history[Len(history)]

(* No model but the active one is at stage champion, and traffic goes to a *)
(* model exactly while it is: no interleaving of promotions, rollbacks and *)
(* uploads leaves two champions, or a retired one with traffic.            *)
OnlyActiveServes ==
  \A m \in Models : /\ stage[m] = "champion" => m = active
                    /\ traffic[m] = 100 <=> stage[m] = "champion"

(* models() reports the one shadow: there is never a second. *)
OneShadow == \A m, n \in Models : stage[m] = "shadow" /\ stage[n] = "shadow"
                                    => m = n

(* A model registered from a manifest scores, or can be rolled back to,    *)
(* only if its record holds a gate whose two checks passed, each for the   *)
(* workload that the check itself names, which are not the same one if     *)
(* another thread activated a workload between them.                       *)
ManifestChampionsGated ==
  \A i \in DOMAIN history :
    LET m == history[i]
    IN m \in manifests => /\ <<m, gate[m].contract>> \in Compatible
                          /\ <<m, gate[m].replay>> \in Replays

(* models() shows every registered model, and nothing else. *)
OrderCoversRegistry == {order[i] : i \in DOMAIN order} = Registered

-----------------------------------------------------------------------------
(* Properties of one operator, the shipped server; the threads of several  *)
(* refute both.                                                            *)

(* _model_order lists no model twice. *)
OrderListsOnce == Distinct(order)

(* A manifest model becomes champion by promotion only while its contract  *)
(* and its replay hold for the active workload, which its gate names       *)
(* throughout; a rollback shortens the history.                            *)
PromotedCompatible ==
  [][Len(history') > Len(history) /\ active' \in manifests
       => /\ <<active', workload>> \in Compatible \cap Replays
          /\ gate'[active'] = [workload |-> workload, contract |-> workload,
                               replay |-> workload]]_vars
=============================================================================
