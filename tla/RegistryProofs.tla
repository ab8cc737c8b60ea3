--------------------------- MODULE RegistryProofs ---------------------------
(***************************************************************************)
(* Theorems about ModelRegistry for every seed, every set of models and    *)
(* any number of operator threads.                                         *)
(***************************************************************************)
EXTENDS ModelRegistry, TLAPS

-----------------------------------------------------------------------------
(* Type correctness.  The history is never empty and holds registered      *)
(* models only, which is what lets a rollback index it.                    *)

TypeInv == TypeOK /\ ActiveIsNewest

LEMMA InitType == Init => TypeInv
<1> SUFFICES ASSUME Init
             PROVE  TypeInv
  OBVIOUS
<1>1. Seeded \subseteq Models
  BY SeedAssumption DEF Seeded
<1>2. stage \in [Models -> Stages \cup {"none"}]
  BY SeedAssumption DEF Init
<1>3. FirstChampion \in Registered /\ PreviousChampion \in Registered
  BY <1>1, SeedAssumption DEF Init, Registered, Stages
<1>4. history \in Seq(Registered) /\ ActiveIsNewest
  BY <1>3 DEF Init, ActiveIsNewest
<1>5. /\ order \in Seq(Models)
      /\ artifacts \subseteq Models
      /\ traffic \in [Models -> {0, 100}]
      /\ gate \in [Models -> Gates]
      /\ request \in [Operators -> Requests]
  BY SeedAssumption, ArtifactAssumption DEF Init, Idle, Requests, NoGate, Gates
<1> QED
  BY <1>2, <1>3, <1>4, <1>5 DEF Init, TypeInv, TypeOK, Idle, Checking

(* A registration adds one model and forgets none. *)
LEMMA RegisterType ==
  ASSUME TypeInv, NEW m \in Models, Register(m)
  PROVE  /\ stage' \in [Models -> Stages \cup {"none"}]
         /\ traffic' \in [Models -> {0, 100}]
         /\ order' \in Seq(Models)
         /\ Registered' = Registered \cup {m}
         /\ gate' \in [Models -> Gates]
  BY DEF TypeInv, TypeOK, Register, Registered, Stages, NoGate, Gates

(* A crowning keeps the set of registered models. *)
LEMMA CrownType ==
  ASSUME TypeInv, NEW old \in Registered, NEW new \in Registered,
         Crown(old, new)
  PROVE  /\ stage' \in [Models -> Stages \cup {"none"}]
         /\ traffic' \in [Models -> {0, 100}]
         /\ Registered' = Registered
         /\ active' = new
<1>1. /\ stage \in [Models -> Stages \cup {"none"}]
      /\ traffic \in [Models -> {0, 100}]
      /\ old \in Models /\ stage[old] # "none"
      /\ new \in Models /\ stage[new] # "none"
  BY DEF TypeInv, TypeOK, Registered
<1>2. /\ stage' = [stage EXCEPT ![old] = "archived", ![new] = "champion"]
      /\ traffic' = [traffic EXCEPT ![old] = 0, ![new] = 100]
      /\ active' = new
  BY DEF Crown
<1>3. /\ stage' \in [Models -> Stages \cup {"none"}]
      /\ traffic' \in [Models -> {0, 100}]
  BY <1>1, <1>2 DEF Stages
<1>4. Registered' = Registered
  BY <1>1, <1>2 DEF Registered
<1> QED
  BY <1>2, <1>3, <1>4

LEMMA GrowHistory ==
  ASSUME NEW S, NEW T, S \subseteq T, NEW h \in Seq(S)
  PROVE  h \in Seq(T)
  OBVIOUS

LEMMA RegistrationType ==
  ASSUME TypeInv, NEW o \in Operators, NEW m \in Models,
         LoadModel(o, m) \/ RegisterManifest(o, m) \/ UploadCheck(o, m)
  PROVE  TypeInv'
<1>1. CASE UploadCheck(o, m)
  BY <1>1 DEF TypeInv, TypeOK, ActiveIsNewest, UploadCheck, registry, Requests,
     Registered, Idle, Checking, NoGate, Gates
<1>2. CASE LoadModel(o, m) \/ RegisterManifest(o, m)
  <2>1. Register(m) /\ manifests' \subseteq manifests \cup {m}
    BY <1>2 DEF LoadModel, RegisterManifest
  <2>2. Registered \subseteq Registered' /\ m \in Registered'
    BY <2>1, RegisterType
  <2>3. /\ UNCHANGED <<active, history, workload, request>>
        /\ artifacts' \subseteq artifacts
    BY <1>2 DEF LoadModel, RegisterManifest
  <2>4. history' \in Seq(Registered')
    BY <2>2, <2>3, GrowHistory DEF TypeInv, TypeOK
  <2> QED
    BY <2>1, <2>2, <2>3, <2>4, RegisterType DEF TypeInv, TypeOK, ActiveIsNewest
<1> QED
  BY <1>1, <1>2

LEMMA UploadCommitType ==
  ASSUME TypeInv, NEW o \in Operators, UploadCommit(o)
  PROVE  TypeInv'
<1> DEFINE m == request[o].model
<1>1. m \in Models /\ Register(m)
  BY DEF TypeInv, TypeOK, UploadCommit
<1>2. Registered \subseteq Registered' /\ m \in Registered'
  BY <1>1, RegisterType
<1>3. history' \in Seq(Registered')
  BY <1>2, GrowHistory DEF TypeInv, TypeOK, UploadCommit
<1>4. /\ request' \in [Operators -> Requests]
      /\ \A p \in Operators : request'[p] \in {request[p], Idle}
  BY DEF TypeInv, TypeOK, UploadCommit, Idle, Requests, NoGate, Gates
<1>5. \A p \in Operators :
        /\ request'[p].step = "upload" => request'[p].model \in Models
        /\ request'[p].step \in Checking => request'[p].model \in Registered'
  BY <1>2, <1>4 DEF TypeInv, TypeOK, Idle, Checking
<1> QED
  BY <1>1, <1>2, <1>3, <1>4, <1>5, RegisterType
  DEF TypeInv, TypeOK, ActiveIsNewest, UploadCommit

LEMMA PromotionType ==
  ASSUME TypeInv, NEW o \in Operators,
         PromoteShadow(o) \/ PromoteChampion(o)
  PROVE  TypeInv'
<1> DEFINE m == request[o].model
<1>1. m \in Registered /\ request[o].gate \in Gates
  BY DEF TypeInv, TypeOK, PromoteShadow, PromoteChampion, Checking, Requests
<1>2. /\ stage' \in [Models -> Stages \cup {"none"}]
      /\ traffic' \in [Models -> {0, 100}]
      /\ Registered' = Registered
  <2>1. CASE PromoteShadow(o)
    BY <1>1, <2>1 DEF PromoteShadow, ShadowStages, TypeInv, TypeOK, Registered,
       Stages
  <2>2. CASE PromoteChampion(o)
    BY <1>1, <2>2, CrownType DEF PromoteChampion, TypeInv, TypeOK
  <2> QED
    BY <2>1, <2>2
<1>3. active' \in Registered /\ history' \in Seq(Registered) /\ ActiveIsNewest'
  <2>1. CASE PromoteShadow(o)
    BY <2>1 DEF PromoteShadow, TypeInv, TypeOK, ActiveIsNewest
  <2>2. CASE PromoteChampion(o)
    BY <1>1, <2>2 DEF PromoteChampion, Crown, TypeInv, TypeOK, ActiveIsNewest
  <2> QED
    BY <2>1, <2>2
<1>4. /\ request' \in [Operators -> Requests]
      /\ \A p \in Operators : request'[p] \in {request[p], Idle}
  <2>1. request' = [request EXCEPT ![o] = Idle] /\ Idle \in Requests
    BY DEF PromoteShadow, PromoteChampion, Idle, Requests, NoGate, Gates
  <2> QED
    BY <2>1 DEF TypeInv, TypeOK
<1>5. /\ gate' \in [Models -> Gates]
      /\ UNCHANGED <<manifests, order, artifacts, workload>>
  BY <1>1 DEF PromoteShadow, PromoteChampion, TypeInv, TypeOK
<1> QED
  BY <1>1, <1>2, <1>3, <1>4, <1>5 DEF TypeInv, TypeOK, Idle, Checking

LEMMA RollbackType ==
  ASSUME TypeInv, NEW o \in Operators, Rollback(o)
  PROVE  TypeInv'
<1> DEFINE n == Len(history)
<1>1. n \in Nat /\ n >= 2 /\ history \in Seq(Registered)
  BY DEF TypeInv, TypeOK, Rollback
<1>2. history[n] \in Registered /\ history[n - 1] \in Registered
  BY <1>1
<1>3. /\ stage' \in [Models -> Stages \cup {"none"}]
      /\ traffic' \in [Models -> {0, 100}]
      /\ Registered' = Registered
      /\ active' = history[n - 1]
  BY <1>2, CrownType DEF Rollback
<1>4. history' \in Seq(Registered) /\ ActiveIsNewest'
  <2>1. history' = SubSeq(history, 1, n - 1)
    BY DEF Rollback
  <2>2. /\ history' \in Seq(Registered)
        /\ Len(history') = n - 1
        /\ history'[n - 1] = history[n - 1]
    BY <1>1, <2>1
  <2>3. history' # << >>
    BY <1>1, <2>2
  <2> QED
    BY <1>3, <2>2, <2>3 DEF ActiveIsNewest
<1> QED
  BY <1>2, <1>3, <1>4 DEF Rollback, TypeInv, TypeOK

(* The steps of a promotion gate change the request and nothing else.      *)
GateMove(o) ==
  \/ \E m \in Models, t \in {"shadow", "champion"} : OpenGate(o, m, t)
  \/ CheckContract(o)
  \/ CheckReplay(o)
  \/ NameGate(o)
  \/ Refuse(o)

LEMMA GateMoveType ==
  ASSUME TypeInv, NEW o \in Operators, GateMove(o)
  PROVE  /\ request' \in [Operators -> Requests]
         /\ \A p \in Operators : \/ request'[p] \in {request[p], Idle}
                                 \/ /\ request'[p].step \in Checking
                                    /\ request'[p].model \in Registered
         /\ UNCHANGED <<registry, active, history, workload>>
<1>1. request[o] \in Requests /\ request[o].gate \in Gates
  BY DEF TypeInv, TypeOK, Requests
<1>2. ASSUME NEW r \in Requests, request' = [request EXCEPT ![o] = r],
             \/ r = Idle
             \/ r.step \in Checking /\ r.model \in Registered
      PROVE  /\ request' \in [Operators -> Requests]
             /\ \A p \in Operators : \/ request'[p] \in {request[p], Idle}
                                     \/ /\ request'[p].step \in Checking
                                        /\ request'[p].model \in Registered
  BY <1>2 DEF TypeInv, TypeOK
<1>3. UNCHANGED <<registry, active, history, workload>>
  BY DEF GateMove, OpenGate, CheckContract, CheckReplay, NameGate, Refuse
<1>4. ASSUME NEW m \in Models, NEW t \in {"shadow", "champion"}, OpenGate(o, m, t)
      PROVE  \E r \in Requests : /\ request' = [request EXCEPT ![o] = r]
                                 /\ r.step \in Checking /\ r.model \in Registered
  <2> DEFINE r == [step |-> IF m \in manifests THEN "contract" ELSE "verdict",
                   model |-> m, target |-> t, gate |-> NoGate]
  <2>1. r \in Requests /\ r.step \in Checking /\ r.model \in Registered
    BY <1>4 DEF OpenGate, Requests, Checking, Registered, NoGate, Gates
  <2>2. request' = [request EXCEPT ![o] = r]
    BY <1>4 DEF OpenGate
  <2> QED
    BY <2>1, <2>2
<1>5. CASE CheckContract(o)
  <2> DEFINE r == [request[o] EXCEPT !.step = "replay", !.gate.contract = workload]
  <2>1. r \in Requests /\ r.step \in Checking /\ r.model \in Registered
    BY <1>1, <1>5 DEF CheckContract, Requests, Checking, Gates, TypeInv, TypeOK
  <2>2. request' = [request EXCEPT ![o] = r]
    BY <1>1, <1>5 DEF CheckContract, TypeInv, TypeOK, Requests, Gates
  <2> HIDE DEF r
  <2> QED
    BY <1>2, <1>3, <2>1, <2>2
<1>6. CASE CheckReplay(o)
  <2> DEFINE r == [request[o] EXCEPT !.step = "verdict", !.gate.replay = workload]
  <2>1. r \in Requests /\ r.step \in Checking /\ r.model \in Registered
    BY <1>1, <1>6 DEF CheckReplay, Requests, Checking, Gates, TypeInv, TypeOK
  <2>2. request' = [request EXCEPT ![o] = r]
    BY <1>1, <1>6 DEF CheckReplay, TypeInv, TypeOK, Requests, Gates
  <2> HIDE DEF r
  <2> QED
    BY <1>2, <1>3, <2>1, <2>2
<1>7. CASE NameGate(o)
  <2> DEFINE w == IF request[o].gate.contract = None THEN None ELSE workload
             r == [request[o] EXCEPT !.step = "promote", !.gate.workload = w]
  <2>1. r \in Requests /\ r.step \in Checking /\ r.model \in Registered
    BY <1>1, <1>7 DEF NameGate, Requests, Checking, Gates, TypeInv, TypeOK
  <2>2. request' = [request EXCEPT ![o] = r]
    BY <1>1, <1>7 DEF NameGate, TypeInv, TypeOK, Requests, Gates
  <2> HIDE DEF r
  <2> QED
    BY <1>2, <1>3, <2>1, <2>2
<1>8. CASE Refuse(o)
  <2>1. request' = [request EXCEPT ![o] = Idle] /\ Idle \in Requests
    BY <1>8 DEF Refuse, Idle, Requests, NoGate, Gates
  <2> QED
    BY <1>2, <1>3, <2>1
<1> QED
  BY <1>2, <1>3, <1>4, <1>5, <1>6, <1>7, <1>8 DEF GateMove

LEMMA OtherType ==
  ASSUME TypeInv,
         \/ \E o \in Operators : GateMove(o)
         \/ \E o \in Operators, w \in Workloads : ActivateWorkload(o, w)
         \/ Restart
         \/ UNCHANGED vars
  PROVE  TypeInv'
<1>1. /\ UNCHANGED <<registry, active, history>>
      /\ workload' \in Workloads
  BY GateMoveType DEF ActivateWorkload, Restart, TypeInv, TypeOK, vars, registry
<1>2. /\ request' \in [Operators -> Requests]
      /\ \A p \in Operators : \/ request'[p] \in {request[p], Idle}
                              \/ /\ request'[p].step \in Checking
                                 /\ request'[p].model \in Registered
  <2>1. Idle \in Requests
    BY DEF Idle, Requests, NoGate, Gates
  <2>2. CASE \E o \in Operators : GateMove(o)
    BY <2>2, GateMoveType
  <2>3. CASE Restart
    BY <2>1, <2>3 DEF Restart
  <2>4. CASE \E o \in Operators, w \in Workloads : ActivateWorkload(o, w)
    BY <2>4 DEF ActivateWorkload, TypeInv, TypeOK
  <2>5. CASE UNCHANGED vars
    BY <2>5 DEF vars, TypeInv, TypeOK
  <2> QED
    BY <2>2, <2>3, <2>4, <2>5
<1>3. Registered' = Registered
  BY <1>1 DEF registry, Registered
<1>4. \A p \in Operators :
        /\ request'[p].step = "upload" => request'[p].model \in Models
        /\ request'[p].step \in Checking => request'[p].model \in Registered'
  BY <1>2, <1>3 DEF TypeInv, TypeOK, Idle, Registered, Checking
<1> QED
  BY <1>1, <1>2, <1>3, <1>4 DEF TypeInv, TypeOK, ActiveIsNewest, registry

LEMMA NextType ==
  ASSUME TypeInv, [Next]_vars
  PROVE  TypeInv'
<1>1. ASSUME NEW o \in Operators, Operate(o)
      PROVE  TypeInv'
  BY <1>1, RegistrationType, UploadCommitType, PromotionType, RollbackType,
     OtherType DEF Operate, GateMove
<1> QED
  BY <1>1, OtherType DEF Next

(* Every variable keeps its type: no operation names a model that is not   *)
(* registered, and the model that scores is always the newest entry of the *)
(* champion history, however operator threads interleave.                  *)
THEOREM TypeCorrect == Spec => [](TypeOK /\ ActiveIsNewest)
<1>1. Init => TypeInv
  BY InitType
<1>2. TypeInv /\ [Next]_vars => TypeInv'
  BY NextType
<1>3. TypeInv => TypeOK /\ ActiveIsNewest
  BY DEF TypeInv
<1> QED
  BY <1>1, <1>2, <1>3, PTL DEF Spec

(* The model that scores is the newest entry of the champion history. *)
THEOREM ActiveModelIsNewest == Spec => []ActiveIsNewest
<1>1. TypeOK /\ ActiveIsNewest => ActiveIsNewest
  OBVIOUS
<1> QED
  BY <1>1, TypeCorrect, PTL

LEMMA TypeInvariant == Spec => []TypeInv
<1>1. Init => TypeInv
  BY InitType
<1>2. TypeInv /\ [Next]_vars => TypeInv'
  BY NextType
<1> QED
  BY <1>1, <1>2, PTL DEF Spec

-----------------------------------------------------------------------------
(* Stages and traffic, for any number of operator threads. *)

StageInv == OnlyActiveServes /\ OneShadow

LEMMA StageInit == Init => StageInv
<1> SUFFICES ASSUME Init
             PROVE  StageInv
  OBVIOUS
<1>1. \A m \in Models : stage[m] = "champion" <=> m = FirstChampion
  BY SeedAssumption DEF Init
<1>2. \A m \in Models : traffic[m] = 100 <=> m = FirstChampion
  BY DEF Init
<1>3. OneShadow
  BY SeedAssumption DEF Init, OneShadow
<1> QED
  BY <1>1, <1>2, <1>3 DEF StageInv, OnlyActiveServes, Init

LEMMA RegisterStage ==
  ASSUME TypeInv, StageInv, NEW m \in Models, Register(m), UNCHANGED active
  PROVE  StageInv'
<1>1. /\ stage' = [stage EXCEPT ![m] = "candidate"]
      /\ traffic' = [traffic EXCEPT ![m] = 0]
      /\ stage \in [Models -> Stages \cup {"none"}]
      /\ traffic \in [Models -> {0, 100}]
  BY DEF TypeInv, TypeOK, Register
<1>2. OnlyActiveServes'
  BY <1>1 DEF StageInv, OnlyActiveServes
<1>3. OneShadow'
  BY <1>1 DEF StageInv, OneShadow
<1> QED
  BY <1>2, <1>3 DEF StageInv

LEMMA CrownStage ==
  ASSUME TypeInv, StageInv, NEW new \in Models, Crown(active, new)
  PROVE  StageInv'
<1>1. /\ stage' = [stage EXCEPT ![active] = "archived", ![new] = "champion"]
      /\ traffic' = [traffic EXCEPT ![active] = 0, ![new] = 100]
      /\ active' = new
      /\ stage \in [Models -> Stages \cup {"none"}]
      /\ traffic \in [Models -> {0, 100}]
      /\ active \in Models
  BY DEF TypeInv, TypeOK, Registered, Crown
<1>2. \A x \in Models :
        /\ stage'[x] = IF x = new THEN "champion"
                       ELSE IF x = active THEN "archived" ELSE stage[x]
        /\ traffic'[x] = IF x = new THEN 100
                         ELSE IF x = active THEN 0 ELSE traffic[x]
  BY <1>1
<1>3. OnlyActiveServes'
  BY <1>1, <1>2 DEF StageInv, OnlyActiveServes
<1>4. OneShadow'
  BY <1>1, <1>2 DEF StageInv, OneShadow
<1> QED
  BY <1>3, <1>4 DEF StageInv

LEMMA ShadowStage ==
  ASSUME TypeInv, StageInv, NEW o \in Operators, PromoteShadow(o)
  PROVE  StageInv'
<1> DEFINE m == request[o].model
<1>1. /\ stage' = ShadowStages(m)
      /\ traffic' = [x \in Models |-> IF x = m \/ stage[x] = "shadow"
                                      THEN 0 ELSE traffic[x]]
      /\ UNCHANGED active
  BY DEF PromoteShadow
<1>2. OnlyActiveServes'
  BY <1>1 DEF ShadowStages, StageInv, OnlyActiveServes
<1>3. OneShadow'
  BY <1>1 DEF ShadowStages, OneShadow
<1> QED
  BY <1>2, <1>3 DEF StageInv

LEMMA StageStep ==
  ASSUME TypeInv, StageInv, [Next]_vars
  PROVE  StageInv'
<1>1. CASE UNCHANGED <<stage, traffic, active>>
  BY <1>1 DEF StageInv, OnlyActiveServes, OneShadow
<1>2. ASSUME NEW o \in Operators, Operate(o)
      PROVE  StageInv'
  <2>1. CASE \E m \in Models : LoadModel(o, m) \/ RegisterManifest(o, m)
    BY <2>1, RegisterStage DEF LoadModel, RegisterManifest
  <2>2. CASE UploadCommit(o)
    <3>1. request[o].model \in Models
      BY <2>2 DEF TypeInv, TypeOK, UploadCommit
    <3> QED
      BY <2>2, <3>1, RegisterStage DEF UploadCommit
  <2>3. CASE PromoteShadow(o)
    BY <2>3, ShadowStage
  <2>4. CASE PromoteChampion(o)
    <3>1. request[o].model \in Models
      BY <2>4 DEF TypeInv, TypeOK, PromoteChampion, Registered, Checking
    <3> QED
      BY <2>4, <3>1, CrownStage DEF PromoteChampion
  <2>5. CASE Rollback(o)
    <3>1. Crown(active, history[Len(history) - 1])
      BY <2>5 DEF Rollback, TypeInv, ActiveIsNewest
    <3>2. history[Len(history) - 1] \in Models
      BY <2>5 DEF Rollback, TypeInv, TypeOK, Registered
    <3> QED
      BY <3>1, <3>2, CrownStage
  <2>6. CASE UNCHANGED registry /\ UNCHANGED active
    BY <1>1, <2>6 DEF registry
  <2> QED
    BY <1>2, <2>1, <2>2, <2>3, <2>4, <2>5, <2>6
    DEF Operate, UploadCheck, ActivateWorkload, OpenGate, CheckContract,
        CheckReplay, NameGate, Refuse
<1> QED
  BY <1>1, <1>2 DEF Next, Restart, vars, registry

(* However promotions, rollbacks and uploads of several operator threads   *)
(* interleave, no model but the active one is at stage champion, and a     *)
(* model has traffic exactly while it is.                                  *)
THEOREM OnlyTheActiveModelServes == Spec => []OnlyActiveServes
<1>1. Init => StageInv
  BY StageInit
<1>2. TypeInv /\ StageInv /\ [Next]_vars => StageInv'
  BY StageStep
<1>3. StageInv => OnlyActiveServes
  BY DEF StageInv
<1> QED
  BY <1>1, <1>2, <1>3, TypeInvariant, PTL DEF Spec

(* There is never a second shadow. *)
THEOREM AtMostOneShadow == Spec => []OneShadow
<1>1. Init => StageInv
  BY StageInit
<1>2. TypeInv /\ StageInv /\ [Next]_vars => StageInv'
  BY StageStep
<1>3. StageInv => OneShadow
  BY DEF StageInv
<1> QED
  BY <1>1, <1>2, <1>3, TypeInvariant, PTL DEF Spec

-----------------------------------------------------------------------------
(* Promotion gates: a request for a manifest model has read a workload for *)
(* each check it has left behind, and once past the verdict both passed,   *)
(* whatever other threads do before it is carried out.  A record loses its *)
(* manifest when an upload overwrites it, and no record ever gains one.    *)

Passed(m, g) == <<m, g.contract>> \in Compatible /\ <<m, g.replay>> \in Replays

PendingChecked ==
  \A o \in Operators :
    request[o].model \in manifests =>
      /\ request[o].step \in {"replay", "verdict"}
           => request[o].gate.contract \in Workloads
      /\ request[o].step = "verdict" => request[o].gate.replay \in Workloads
      /\ request[o].step = "promote" => Passed(request[o].model, request[o].gate)

GateInv == ManifestChampionsGated /\ PendingChecked

(* A new record: its model is in no history entry and no gated request.    *)
LEMMA RegistrationGate ==
  ASSUME TypeInv, GateInv, NEW o \in Operators, NEW m \in Models,
         LoadModel(o, m) \/ RegisterManifest(o, m)
  PROVE  GateInv'
<1>1. m \notin Registered
  BY DEF LoadModel, RegisterManifest, Free, Registered
<1>2. /\ UNCHANGED <<history, request>>
      /\ manifests' \subseteq manifests \cup {m}
      /\ gate' = [gate EXCEPT ![m] = NoGate]
  BY DEF LoadModel, RegisterManifest, Register
<1>3. ManifestChampionsGated'
  <2> SUFFICES ASSUME NEW i \in DOMAIN history, history[i] \in manifests'
               PROVE  Passed(history[i], gate'[history[i]])
    BY <1>2 DEF ManifestChampionsGated, Passed
  <2>1. history[i] \in Registered
    BY DEF TypeInv, TypeOK
  <2>2. history[i] # m /\ history[i] \in Models
    BY <1>1, <2>1 DEF Registered
  <2>3. history[i] \in manifests /\ gate'[history[i]] = gate[history[i]]
    BY <1>2, <2>2 DEF TypeInv, TypeOK
  <2> QED
    BY <2>3 DEF GateInv, ManifestChampionsGated, Passed
<1>4. PendingChecked'
  <2> SUFFICES ASSUME NEW p \in Operators,
                      request[p].step \in Checking,
                      request[p].model \in manifests'
               PROVE  request[p].model \in manifests
    BY <1>2 DEF GateInv, PendingChecked, Checking
  <2>1. request[p].model \in Registered
    BY DEF TypeInv, TypeOK
  <2> QED
    BY <1>1, <1>2, <2>1
<1> QED
  BY <1>3, <1>4 DEF GateInv

LEMMA UploadGate ==
  ASSUME TypeInv, GateInv, NEW o \in Operators, UploadCommit(o)
  PROVE  GateInv'
<1> DEFINE m == request[o].model
<1>1. /\ UNCHANGED history
      /\ manifests' = manifests \ {m}
      /\ gate' = [gate EXCEPT ![m] = NoGate]
      /\ request' = [request EXCEPT ![o] = Idle]
  BY DEF UploadCommit, Register
<1>2. ManifestChampionsGated'
  <2> SUFFICES ASSUME NEW i \in DOMAIN history, history[i] \in manifests'
               PROVE  Passed(history[i], gate'[history[i]])
    BY <1>1 DEF ManifestChampionsGated, Passed
  <2>1. history[i] \in manifests /\ history[i] # m
    BY <1>1
  <2>2. history[i] \in Registered
    BY DEF TypeInv, TypeOK
  <2>3. gate'[history[i]] = gate[history[i]]
    BY <1>1, <2>1, <2>2 DEF TypeInv, TypeOK, Registered
  <2> QED
    BY <2>1, <2>3 DEF GateInv, ManifestChampionsGated, Passed
<1>3. PendingChecked'
  BY <1>1 DEF GateInv, PendingChecked, TypeInv, TypeOK, Idle
<1> QED
  BY <1>2, <1>3 DEF GateInv

(* A promotion writes its own gate to the record.                          *)
LEMMA PromotionGate ==
  ASSUME TypeInv, GateInv, NEW o \in Operators,
         PromoteShadow(o) \/ PromoteChampion(o)
  PROVE  GateInv'
<1> DEFINE m == request[o].model
           g == request[o].gate
<1>1. /\ UNCHANGED manifests
      /\ gate' = [gate EXCEPT ![m] = g]
      /\ request' = [request EXCEPT ![o] = Idle]
      /\ history' \in {history, Append(history, m)}
  BY DEF PromoteShadow, PromoteChampion
<1>2. m \in Models /\ (m \in manifests => Passed(m, g))
  BY DEF PromoteShadow, PromoteChampion, GateInv, PendingChecked,
     TypeInv, TypeOK, Registered, Checking
<1>3. \A i \in DOMAIN history' :
        \/ history'[i] = m
        \/ i \in DOMAIN history /\ history'[i] = history[i]
  <2>1. history \in Seq(Models)
    BY DEF TypeInv, TypeOK, Registered
  <2> HIDE DEF m, g
  <2>2. CASE history' = history
    BY <2>2
  <2>3. CASE history' = Append(history, m)
    BY <2>1, <2>3, <1>2
  <2> QED
    BY <1>1, <2>2, <2>3
<1>4. ManifestChampionsGated'
  <2> SUFFICES ASSUME NEW i \in DOMAIN history', history'[i] \in manifests
               PROVE  Passed(history'[i], gate'[history'[i]])
    BY <1>1 DEF ManifestChampionsGated, Passed
  <2> HIDE DEF m, g
  <2>1. CASE history'[i] = m
    BY <1>1, <1>2, <2>1 DEF TypeInv, TypeOK
  <2>2. CASE history'[i] # m
    <3>1. i \in DOMAIN history /\ history'[i] = history[i]
      BY <1>3, <2>2
    <3>2. history[i] \in Models
      BY <3>1 DEF TypeInv, TypeOK, Registered
    <3>3. gate'[history[i]] = gate[history[i]]
      BY <1>1, <2>2, <3>1, <3>2 DEF TypeInv, TypeOK
    <3> QED
      BY <3>1, <3>3 DEF GateInv, ManifestChampionsGated, Passed
  <2> QED
    BY <2>1, <2>2
<1>5. PendingChecked'
  BY <1>1 DEF GateInv, PendingChecked, TypeInv, TypeOK, Idle
<1> QED
  BY <1>4, <1>5 DEF GateInv

(* The steps of a gate: a check left behind has read a workload, and the   *)
(* verdict lets a request through only if both checks passed.              *)
LEMMA GateMoveGate ==
  ASSUME TypeInv, GateInv, NEW o \in Operators, GateMove(o)
  PROVE  GateInv'
<1>1. /\ UNCHANGED <<registry, active, history, workload>>
      /\ workload \in Workloads
      /\ request \in [Operators -> Requests]
      /\ request[o] \in Requests
      /\ request[o].gate \in Gates
  BY GateMoveType DEF TypeInv, TypeOK, Requests
<1>2. ManifestChampionsGated'
  BY <1>1 DEF registry, GateInv, ManifestChampionsGated
<1>3. \A p \in Operators \ {o} : request'[p] = request[p]
  BY <1>1 DEF GateMove, OpenGate, CheckContract, CheckReplay, NameGate, Refuse
<1>4. ASSUME request'[o].model \in manifests
      PROVE  /\ request'[o].step \in {"replay", "verdict"}
                  => request'[o].gate.contract \in Workloads
             /\ request'[o].step = "verdict" => request'[o].gate.replay \in Workloads
             /\ request'[o].step = "promote"
                  => Passed(request'[o].model, request'[o].gate)
  <2>1. CASE \E m \in Models, t \in {"shadow", "champion"} : OpenGate(o, m, t)
    <3>1. PICK m \in Models, t \in {"shadow", "champion"} : OpenGate(o, m, t)
      BY <2>1
    <3>2. /\ request'[o].model = m
          /\ request'[o].step = IF m \in manifests THEN "contract" ELSE "verdict"
      BY <1>1, <3>1 DEF OpenGate
    <3> QED
      BY <1>4, <3>2
  <2>2. CASE CheckContract(o)
    <3>1. /\ request'[o].step = "replay"
          /\ request'[o].gate.contract = workload
      BY <1>1, <2>2 DEF CheckContract, Requests, Gates
    <3> QED
      BY <1>1, <3>1
  <2>3. CASE CheckReplay(o)
    <3>1. /\ request[o].step = "replay"
          /\ request'[o].model = request[o].model
          /\ request'[o].step = "verdict"
          /\ request'[o].gate.contract = request[o].gate.contract
          /\ request'[o].gate.replay = workload
      BY <1>1, <2>3 DEF CheckReplay, Requests, Gates
    <3> QED
      BY <1>1, <1>4, <3>1 DEF GateInv, PendingChecked
  <2>4. CASE NameGate(o)
    <3>1. /\ request[o].step = "verdict"
          /\ request'[o].model = request[o].model
          /\ request'[o].step = "promote"
          /\ request'[o].gate.contract = request[o].gate.contract
          /\ request'[o].gate.replay = request[o].gate.replay
      BY <1>1, <2>4 DEF NameGate, Requests, Gates
    <3>2. ChecksPass(request[o])
      BY <2>4 DEF NameGate
    <3>3. request[o].gate.contract \in Workloads /\ request[o].gate.replay \in Workloads
      BY <1>4, <3>1 DEF GateInv, PendingChecked
    <3>4. Passed(request'[o].model, request'[o].gate)
      BY <3>1, <3>2, <3>3, NoneAssumption DEF ChecksPass, Passed
    <3> QED
      BY <3>1, <3>4
  <2>5. CASE Refuse(o)
    <3>1. request'[o] = Idle
      BY <1>1, <2>5 DEF Refuse
    <3> QED
      BY <3>1 DEF Idle
  <2> QED
    BY <2>1, <2>2, <2>3, <2>4, <2>5 DEF GateMove
<1>5. ASSUME NEW p \in Operators, p # o
      PROVE  request'[p] = request[p]
  BY <1>3, <1>5
<1>6. PendingChecked'
  <2> SUFFICES ASSUME NEW p \in Operators, request'[p].model \in manifests
               PROVE  /\ request'[p].step \in {"replay", "verdict"}
                           => request'[p].gate.contract \in Workloads
                      /\ request'[p].step = "verdict"
                           => request'[p].gate.replay \in Workloads
                      /\ request'[p].step = "promote"
                           => Passed(request'[p].model, request'[p].gate)
    BY <1>1 DEF registry, PendingChecked
  <2>1. CASE p = o
    BY <1>4, <2>1
  <2>2. CASE p # o
    BY <1>5, <2>2 DEF GateInv, PendingChecked
  <2> QED
    BY <2>1, <2>2
<1> QED
  BY <1>2, <1>6 DEF GateInv

LEMMA GateStep ==
  ASSUME TypeInv, GateInv, [Next]_vars
  PROVE  GateInv'
<1>1. CASE UNCHANGED <<manifests, gate, history, request>>
  BY <1>1 DEF GateInv, ManifestChampionsGated, PendingChecked
<1>2. CASE Restart
  BY <1>2 DEF Restart, registry, Idle, GateInv, ManifestChampionsGated,
     PendingChecked
<1>3. ASSUME NEW o \in Operators, Operate(o)
      PROVE  GateInv'
  <2>1. ASSUME NEW m \in Models, UploadCheck(o, m)
        PROVE  GateInv'
    BY <2>1 DEF UploadCheck, registry, Idle, GateInv, ManifestChampionsGated,
       PendingChecked, TypeInv, TypeOK
  <2>2. CASE GateMove(o)
    BY <2>2, GateMoveGate
  <2>3. CASE Rollback(o)
    <3>1. /\ history' = SubSeq(history, 1, Len(history) - 1)
          /\ history \in Seq(Registered)
      BY <2>3 DEF Rollback, TypeInv, TypeOK
    <3>2. \A i \in DOMAIN history' : i \in DOMAIN history /\ history'[i] = history[i]
      BY <3>1
    <3>3. UNCHANGED <<manifests, gate, request>>
      BY <2>3 DEF Rollback
    <3> QED
      BY <3>2, <3>3 DEF GateInv, ManifestChampionsGated, PendingChecked
  <2>4. CASE \E w \in Workloads : ActivateWorkload(o, w)
    BY <1>1, <2>4 DEF ActivateWorkload, registry
  <2> QED
    BY <1>3, <2>1, <2>2, <2>3, <2>4, RegistrationGate, UploadGate, PromotionGate
    DEF Operate, GateMove
<1> QED
  BY <1>1, <1>2, <1>3 DEF Next, vars

LEMMA GateInvariant == Spec => []GateInv
<1>1. Init => GateInv
  BY DEF Init, GateInv, ManifestChampionsGated, PendingChecked, Idle
<1>2. TypeInv /\ GateInv /\ [Next]_vars => GateInv'
  BY GateStep
<1> QED
  BY <1>1, <1>2, TypeInvariant, PTL DEF Spec

(* No thread interleaving puts a model registered from a manifest into the *)
(* champion history unless its record holds a promotion gate whose two     *)
(* checks passed, each for the workload that the check names.              *)
THEOREM NoManifestChampionUngated == Spec => []ManifestChampionsGated
<1>1. GateInv => ManifestChampionsGated
  BY DEF GateInv
<1> QED
  BY <1>1, GateInvariant, PTL

-----------------------------------------------------------------------------
(* The list of models. *)

LEMMA RegisterCovers ==
  ASSUME TypeInv, OrderCoversRegistry, NEW m \in Models, Register(m)
  PROVE  OrderCoversRegistry'
<1>1. /\ order \in Seq(Models)
      /\ order' = Append(order, m)
      /\ Registered' = Registered \cup {m}
  BY RegisterType DEF TypeInv, TypeOK, Register
<1>2. /\ DOMAIN order' = (DOMAIN order) \cup {Len(order) + 1}
      /\ \A i \in DOMAIN order : order'[i] = order[i]
      /\ order'[Len(order) + 1] = m
  BY <1>1
<1> QED
  BY <1>1, <1>2 DEF OrderCoversRegistry

LEMMA CoverStep ==
  ASSUME TypeInv, OrderCoversRegistry, [Next]_vars
  PROVE  OrderCoversRegistry'
<1>1. CASE UNCHANGED <<stage, order>>
  BY <1>1 DEF OrderCoversRegistry, Registered
<1>2. CASE UNCHANGED order /\ Registered' = Registered
  BY <1>2 DEF OrderCoversRegistry
<1>3. ASSUME NEW o \in Operators, Operate(o)
      PROVE  OrderCoversRegistry'
  <2>1. CASE \E m \in Models : LoadModel(o, m) \/ RegisterManifest(o, m)
    BY <2>1, RegisterCovers DEF LoadModel, RegisterManifest
  <2>2. CASE UploadCommit(o)
    <3>1. request[o].model \in Models
      BY <2>2 DEF TypeInv, TypeOK, UploadCommit
    <3> QED
      BY <2>2, <3>1, RegisterCovers DEF UploadCommit
  <2>3. CASE PromoteShadow(o) \/ PromoteChampion(o)
    <3>1. request[o].model \in Registered /\ active \in Registered
      BY <2>3 DEF PromoteShadow, PromoteChampion, TypeInv, TypeOK, Checking
    <3>2. Registered' = Registered
      BY <2>3, <3>1, CrownType
      DEF PromoteShadow, PromoteChampion, ShadowStages, Registered
    <3> QED
      BY <1>2, <2>3, <3>2 DEF PromoteShadow, PromoteChampion
  <2>4. CASE Rollback(o)
    <3>1. /\ history[Len(history)] \in Registered
          /\ history[Len(history) - 1] \in Registered
      BY <2>4 DEF Rollback, TypeInv, TypeOK
    <3>2. Registered' = Registered
      BY <2>4, <3>1, CrownType DEF Rollback
    <3> QED
      BY <1>2, <2>4, <3>2 DEF Rollback
  <2>5. CASE UNCHANGED registry
    BY <1>1, <2>5 DEF registry
  <2> QED
    BY <1>3, <2>1, <2>2, <2>3, <2>4, <2>5
    DEF Operate, UploadCheck, ActivateWorkload, OpenGate, CheckContract,
        CheckReplay, NameGate, Refuse
<1> QED
  BY <1>1, <1>3 DEF Next, Restart, vars, registry

LEMMA CoverInvariant == Spec => []OrderCoversRegistry
<1>1. Init => OrderCoversRegistry
  <2> SUFFICES ASSUME Init
               PROVE  OrderCoversRegistry
    OBVIOUS
  <2>1. Seeded \subseteq Models
    BY SeedAssumption DEF Seeded
  <2>2. \A m \in Seeded : SeedStage[m] # "none"
    BY SeedAssumption DEF Stages
  <2>3. Registered = Seeded
    BY <2>1, <2>2 DEF Init, Registered
  <2> QED
    BY <2>3 DEF Init, OrderCoversRegistry, Seeded
<1>2. TypeInv /\ OrderCoversRegistry /\ [Next]_vars => OrderCoversRegistry'
  BY CoverStep
<1> QED
  BY <1>1, <1>2, TypeInvariant, PTL DEF Spec

(* However threads interleave, _model_order lists the registered models    *)
(* and no other, so models() finds a record for every id in it.            *)
THEOREM RegistryIsListed == Spec => []OrderCoversRegistry
  BY CoverInvariant

-----------------------------------------------------------------------------
(* The shipped server has one operator thread: nothing changes the         *)
(* registry or the workload between the two steps of a request, so what    *)
(* the first step checked still holds at the second.                       *)

OneOperator == \A o, p \in Operators : o = p

ChecksStillHold ==
  \A o \in Operators :
    /\ request[o].step = "upload" => Free(request[o].model)
    /\ request[o].gate.contract \in {None, workload}
    /\ request[o].gate.replay \in {None, workload}
    /\ request[o].step = "promote" /\ request[o].gate.contract # None
         => request[o].gate.workload = workload

SoleInv == OrderListsOnce /\ ChecksStillHold

LEMMA RegisterOrder ==
  ASSUME TypeInv, OrderCoversRegistry, OrderListsOnce,
         NEW m \in Models, Free(m), Register(m)
  PROVE  OrderListsOnce'
<1>1. /\ order \in Seq(Models)
      /\ order' = Append(order, m)
      /\ m \notin Registered
  BY DEF TypeInv, TypeOK, Register, Free, Registered
<1>2. \A i \in DOMAIN order : order[i] # m
  BY <1>1 DEF OrderCoversRegistry
<1>3. /\ DOMAIN order' = (DOMAIN order) \cup {Len(order) + 1}
      /\ \A i \in DOMAIN order : order'[i] = order[i]
      /\ order'[Len(order) + 1] = m
  BY <1>1
<1> QED
  BY <1>2, <1>3 DEF OrderListsOnce, Distinct

LEMMA SoleStep ==
  ASSUME OneOperator, TypeInv, OrderCoversRegistry, SoleInv, [Next]_vars
  PROVE  SoleInv'
<1>1. CASE UNCHANGED vars
  BY <1>1 DEF vars, SoleInv, OrderListsOnce, Distinct, ChecksStillHold, Free
<1>2. CASE Restart
  BY <1>2 DEF Restart, registry, Idle, NoGate, SoleInv, OrderListsOnce,
     Distinct, ChecksStillHold
<1>3. ASSUME NEW o \in Operators, Operate(o)
      PROVE  SoleInv'
  <2>1. \A p \in Operators : p = o
    BY DEF OneOperator
  <2>2. ASSUME NEW m \in Models, UploadCheck(o, m)
        PROVE  SoleInv'
    <3>1. /\ request'[o].step = "upload" /\ request'[o].model = m /\ Free(m)
          /\ request'[o].gate = NoGate
      BY <2>2 DEF UploadCheck, TypeInv, TypeOK, Idle
    <3>2. UNCHANGED registry
      BY <2>2 DEF UploadCheck
    <3> QED
      BY <2>1, <3>1, <3>2 DEF SoleInv, OrderListsOnce, Distinct,
         ChecksStillHold, Free, NoGate, registry
  <2>3. CASE GateMove(o)
    <3>1. UNCHANGED registry /\ UNCHANGED workload
      BY <2>3, GateMoveType
    <3>2. /\ request'[o].step # "upload"
          /\ request'[o].gate.contract \in {None, workload}
          /\ request'[o].gate.replay \in {None, workload}
          /\ request'[o].step = "promote" /\ request'[o].gate.contract # None
               => request'[o].gate.workload = workload
      <4>1. /\ request \in [Operators -> Requests]
            /\ request[o] \in Requests
            /\ request[o].gate \in Gates
            /\ request[o].gate.contract \in {None, workload}
            /\ request[o].gate.replay \in {None, workload}
        BY DEF TypeInv, TypeOK, Requests, SoleInv, ChecksStillHold
      <4>2. CASE \E m \in Models, t \in {"shadow", "champion"} : OpenGate(o, m, t)
        BY <4>1, <4>2 DEF OpenGate, NoGate
      <4>3. CASE CheckContract(o)
        BY <4>1, <4>3 DEF CheckContract, Requests, Gates
      <4>4. CASE CheckReplay(o)
        BY <4>1, <4>4 DEF CheckReplay, Requests, Gates
      <4>5. CASE NameGate(o)
        BY <4>1, <4>5 DEF NameGate, Requests, Gates
      <4>6. CASE Refuse(o)
        BY <4>1, <4>6 DEF Refuse, Idle, NoGate
      <4> QED
        BY <2>3, <4>2, <4>3, <4>4, <4>5, <4>6 DEF GateMove
    <3> QED
      BY <2>1, <3>1, <3>2 DEF SoleInv, OrderListsOnce, Distinct,
         ChecksStillHold, registry
  <2>4. ASSUME request'[o] = Idle
        PROVE  ChecksStillHold'
    BY <2>1, <2>4 DEF ChecksStillHold, Idle, NoGate
  <2>5. ASSUME NEW m \in Models, LoadModel(o, m) \/ RegisterManifest(o, m)
        PROVE  SoleInv'
    <3>1. Free(m) /\ Register(m) /\ request'[o] = Idle
      BY <2>5 DEF LoadModel, RegisterManifest
    <3> QED
      BY <3>1, <2>4, RegisterOrder DEF SoleInv
  <2>6. CASE UploadCommit(o)
    <3>1. /\ request[o].model \in Models
          /\ Free(request[o].model)
          /\ Register(request[o].model)
          /\ request'[o] = Idle
      BY <2>6 DEF UploadCommit, SoleInv, ChecksStillHold, TypeInv, TypeOK
    <3> QED
      BY <3>1, <2>4, RegisterOrder DEF SoleInv
  <2>7. CASE UNCHANGED order /\ request'[o] = Idle
    BY <2>4, <2>7 DEF SoleInv, OrderListsOnce, Distinct
  <2>8. CASE PromoteShadow(o) \/ PromoteChampion(o)
    BY <2>7, <2>8 DEF PromoteShadow, PromoteChampion, TypeInv, TypeOK
  <2>9. CASE Rollback(o) \/ \E w \in Workloads : ActivateWorkload(o, w)
    BY <2>7, <2>9 DEF Rollback, ActivateWorkload, registry
  <2> QED
    BY <1>3, <2>2, <2>3, <2>5, <2>6, <2>8, <2>9 DEF Operate, GateMove
<1> QED
  BY <1>1, <1>2, <1>3 DEF Next

LEMMA SoleInvariant ==
  ASSUME OneOperator
  PROVE  Spec => []SoleInv
<1>1. Init => SoleInv
  BY SeedAssumption DEF Init, SoleInv, OrderListsOnce, ChecksStillHold, Idle, NoGate
<1>2. TypeInv /\ OrderCoversRegistry /\ SoleInv /\ [Next]_vars => SoleInv'
  BY SoleStep
<1> QED
  BY <1>1, <1>2, TypeInvariant, CoverInvariant, PTL DEF Spec

(* With one operator thread _model_order lists no model twice.             *)
THEOREM RegistryListedOnce ==
  ASSUME OneOperator
  PROVE  Spec => []OrderListsOnce
<1>1. SoleInv => OrderListsOnce
  BY DEF SoleInv
<1> QED
  BY <1>1, SoleInvariant, PTL

(* With one operator thread a manifest model is promoted to champion only  *)
(* while both checks of its gate hold for the active workload, and its     *)
(* record names that workload throughout.                                  *)
THEOREM PromotionsCompatible ==
  ASSUME OneOperator
  PROVE  Spec => PromotedCompatible
<1>1. TypeInv /\ GateInv /\ SoleInv /\ [Next]_vars
        => [Len(history') > Len(history) /\ active' \in manifests
              => /\ <<active', workload>> \in Compatible \cap Replays
                 /\ gate'[active'] = [workload |-> workload, contract |-> workload,
                                      replay |-> workload]]_vars
  <2> SUFFICES ASSUME TypeInv, GateInv, SoleInv, Next,
                      Len(history') > Len(history), active' \in manifests
               PROVE  /\ <<active', workload>> \in Compatible \cap Replays
                      /\ gate'[active'] = [workload |-> workload,
                                           contract |-> workload,
                                           replay |-> workload]
    BY DEF vars
  <2>1. PICK o \in Operators : PromoteChampion(o)
    <3>1. ASSUME NEW p \in Operators, Rollback(p)
          PROVE  FALSE
      <4>1. history' = SubSeq(history, 1, Len(history) - 1) /\ Len(history) \in Nat
        BY <3>1 DEF Rollback, TypeInv, TypeOK
      <4>2. Len(history') = Len(history) - 1
        BY <3>1, <4>1 DEF Rollback, TypeInv, TypeOK
      <4> QED
        BY <4>1, <4>2
    <3>2. ~ UNCHANGED history
      BY DEF TypeInv, TypeOK
    <3> QED
      BY <3>1, <3>2 DEF Next, Operate, LoadModel, RegisterManifest, UploadCheck,
         UploadCommit, OpenGate, CheckContract, CheckReplay, NameGate, Refuse,
         PromoteShadow, ActivateWorkload, Restart
  <2> DEFINE r == request[o]
  <2>2. /\ r.step = "promote"
        /\ r \in Requests
        /\ r.gate \in Gates
        /\ r.model \in Models
        /\ active' = r.model
        /\ gate'[r.model] = r.gate
    BY <2>1 DEF PromoteChampion, Crown, TypeInv, TypeOK, Requests, Registered,
       Checking
  <2>3. Passed(r.model, r.gate)
    BY <2>2 DEF GateInv, PendingChecked
  <2>4. r.gate.contract \in Workloads /\ r.gate.replay \in Workloads
    BY <2>3, CheckAssumption DEF Passed
  <2>5. /\ r.gate.contract \in {None, workload}
        /\ r.gate.replay \in {None, workload}
        /\ r.gate.contract # None => r.gate.workload = workload
    BY <2>2 DEF SoleInv, ChecksStillHold
  <2>6. r.gate.contract = workload /\ r.gate.replay = workload
    BY <2>4, <2>5, NoneAssumption
  <2>7. r.gate = [workload |-> workload, contract |-> workload, replay |-> workload]
    BY <2>2, <2>4, <2>5, <2>6, NoneAssumption DEF Gates
  <2> HIDE DEF r
  <2> QED
    BY <2>2, <2>3, <2>6, <2>7 DEF Passed
<1> QED
  BY <1>1, TypeInvariant, GateInvariant, SoleInvariant, PTL
  DEF Spec, PromotedCompatible

=============================================================================
