---------------------------- MODULE HealingProofs ----------------------------
(***************************************************************************)
(* Theorems about HealingActions, for every number of operators, monitors, *)
(* workloads and actions, failing saves and crashes included.  Inductive   *)
(* invariants that build on each other: the types with what a rollback     *)
(* will restore, the open actions, who executes an action, what of that is *)
(* in the snapshot, and the policies in circulation.                       *)
(***************************************************************************)
EXTENDS HealingActions, SequenceTheorems, TLAPS

(* A step of the running process: every step but a restart.                *)
Running == (\E o \in Operators : Operate(o)) \/ UNCHANGED vars

(* The operators that are between an approval and the record of its        *)
(* execution. *)
Executing(o) == call[o].at \in {"execute", "replace", "record"}

KindOf(o) == actions[call[o].action].kind

(* The types of what the process has in memory. *)
MemoryOK == /\ actions \in Seq(Actions)
            /\ linked \in [Monitors -> {0} \cup DOMAIN actions]
            /\ policy \in Policies
            /\ overrides \subseteq DOMAIN actions
            /\ call \in [Operators -> Calls]
            /\ \A o \in Operators :
                 call[o].at # "idle" => call[o].action \in DOMAIN actions

(* Actions the executor has no effect for are never executed, and one that *)
(* moved the threshold has a policy to go back to.                         *)
RecordsOK(acts) ==
  \A i \in DOMAIN acts :
    /\ acts[i].kind = "other"
         => acts[i].status # "proposed" /\ ~ acts[i].executed
    /\ acts[i].executed /\ acts[i].kind = "threshold"
         => acts[i].saved \in Policies

(* Where a policy is read to be put in force, there is one.                *)
Restorable ==
  /\ RecordsOK(actions)
  /\ \A o \in Operators :
       /\ Executing(o) => KindOf(o) # "other"
       /\ call[o].at = "replace" => call[o].policy \in Policies
       /\ call[o].at = "record" /\ KindOf(o) = "threshold"
            => call[o].policy \in Policies
       /\ call[o].at = "restore" /\ call[o].effect = "threshold"
            => call[o].policy \in Policies

TypeInv == MemoryOK /\ Restorable

-----------------------------------------------------------------------------
LEMMA FromWorkloadType == \A w \in Workloads : FromWorkload(w) \in Policies
  BY ThresholdAssumption DEF FromWorkload, Policies

(* Changing the record of one action keeps the sequence of actions. *)
LEMMA UpdateType ==
  ASSUME actions \in Seq(Actions), NEW i \in DOMAIN actions, NEW a \in Actions
  PROVE  /\ [actions EXCEPT ![i] = a] \in Seq(Actions)
         /\ DOMAIN [actions EXCEPT ![i] = a] = DOMAIN actions
         /\ [actions EXCEPT ![i] = a][i] = a
         /\ \A j \in DOMAIN actions \ {i} : [actions EXCEPT ![i] = a][j] = actions[j]
  OBVIOUS

LEMMA AppendType ==
  ASSUME actions \in Seq(Actions), NEW a \in Actions
  PROVE  /\ Append(actions, a) \in Seq(Actions)
         /\ DOMAIN Append(actions, a) = DOMAIN actions \cup {Len(actions) + 1}
         /\ Len(actions) + 1 \in Nat \ {0}
         /\ Len(actions) + 1 \notin DOMAIN actions
         /\ Append(actions, a)[Len(actions) + 1] = a
         /\ \A j \in DOMAIN actions : Append(actions, a)[j] = actions[j]
  OBVIOUS

LEMMA ProposalType ==
  \A m \in Monitors, k \in {"override", "threshold"} : Proposal(k, m) \in Actions
  BY DEF Proposal, Actions, Statuses

(* A change of status alone. *)
LEMMA StatusType ==
  ASSUME actions \in Seq(Actions), NEW i \in DOMAIN actions,
         NEW s \in Statuses, SetStatus(i, s)
  PROVE  /\ actions' \in Seq(Actions)
         /\ DOMAIN actions' = DOMAIN actions
         /\ actions'[i] = [actions[i] EXCEPT !.status = s]
         /\ actions'[i].status = s
         /\ \A j \in DOMAIN actions :
              /\ j # i => actions'[j] = actions[j]
              /\ actions'[j].kind = actions[j].kind
              /\ actions'[j].drift = actions[j].drift
              /\ actions'[j].executed = actions[j].executed
              /\ actions'[j].saved = actions[j].saved
<1> DEFINE a == [actions[i] EXCEPT !.status = s]
<1>1. actions[i] \in Actions
  OBVIOUS
<1>2. a \in Actions
  BY <1>1 DEF Actions
<1>3. actions' = [actions EXCEPT ![i] = a]
  BY DEF SetStatus
<1>4. /\ a.status = s
      /\ a.kind = actions[i].kind
      /\ a.drift = actions[i].drift
      /\ a.executed = actions[i].executed
      /\ a.saved = actions[i].saved
  BY <1>1 DEF Actions
<1> HIDE DEF a
<1>5. /\ actions' \in Seq(Actions)
      /\ DOMAIN actions' = DOMAIN actions
      /\ actions'[i] = a
      /\ \A j \in DOMAIN actions \ {i} : actions'[j] = actions[j]
  BY <1>2, <1>3, UpdateType
<1> QED
  BY <1>4, <1>5 DEF a

-----------------------------------------------------------------------------
(* Types. *)

LEMMA InitType == Init => TypeInv
<1> SUFFICES ASSUME Init PROVE TypeInv
  OBVIOUS
<1>1. policy \in Policies
  BY FromWorkloadType DEF Init
<1>2. linked \in [Monitors -> {0} \cup DOMAIN actions]
  BY DEF Init, SeedLink
<1>3. \A o \in Operators : call[o] = Idle /\ call[o] \in Calls
  BY DEF Init, Idle, Calls, Steps
<1>4. MemoryOK
  BY <1>1, <1>2, <1>3, SeedAssumption DEF Init, MemoryOK, Idle
<1>5. Restorable
  BY <1>3, SeedAssumption DEF Init, Restorable, RecordsOK, Executing, Idle
<1> QED
  BY <1>4, <1>5 DEF TypeInv

(* Only the call of one operator changes, to a well-typed one. *)
LEMMA CallType ==
  ASSUME call \in [Operators -> Calls], NEW o \in Operators, NEW k \in Calls
  PROVE  /\ [call EXCEPT ![o] = k] \in [Operators -> Calls]
         /\ [call EXCEPT ![o] = k][o] = k
         /\ \A p \in Operators \ {o} : [call EXCEPT ![o] = k][p] = call[p]
  OBVIOUS

LEMMA IdleType == Idle \in Calls /\ Idle.at = "idle"
  BY DEF Idle, Calls, Steps

LEMMA DriftEventType ==
  ASSUME TypeInv, NEW o \in Operators, NEW m \in Monitors, NEW s,
         DriftEvent(o, m, s)
  PROVE  TypeInv'
<1> DEFINE a == Proposal(IF s = "critical" THEN "override" ELSE "threshold", m)
           n == Len(actions) + 1
<1> USE DEF TypeInv
<1>1. CASE actions' = Append(actions, a) /\ linked' = Link(m, n)
  <2>1. a \in Actions
    BY ProposalType
  <2>2. a.status = "proposed" /\ ~ a.executed /\ a.kind # "other"
    BY DEF Proposal
  <2> HIDE DEF a
  <2>3. /\ actions' \in Seq(Actions)
        /\ DOMAIN actions' = DOMAIN actions \cup {n}
        /\ n \in Nat \ {0}
        /\ n \notin DOMAIN actions
        /\ actions'[n] = a
        /\ \A j \in DOMAIN actions : actions'[j] = actions[j]
    BY <1>1, <2>1, AppendType DEF MemoryOK
  <2>4. linked' \in [Monitors -> {0} \cup DOMAIN actions']
    BY <1>1, <2>3 DEF MemoryOK, Link
  <2>5. MemoryOK'
    BY <2>3, <2>4 DEF MemoryOK, DriftEvent
  <2>6. Restorable'
    BY <2>2, <2>3 DEF MemoryOK, Restorable, RecordsOK, Executing, KindOf, DriftEvent
  <2> QED
    BY <2>5, <2>6
<1>2. CASE (\E i \in ExistingActions(m) : linked' = Link(m, i)) /\ UNCHANGED actions
  <2>1. linked' \in [Monitors -> {0} \cup DOMAIN actions']
    BY <1>2 DEF MemoryOK, Link, ExistingActions, OpenFor
  <2> QED
    BY <1>2, <2>1 DEF MemoryOK, Restorable, RecordsOK, Executing, KindOf, DriftEvent
<1>3. CASE UNCHANGED <<actions, linked>>
  BY <1>3 DEF MemoryOK, Restorable, RecordsOK, Executing, KindOf, DriftEvent
<1> QED
  BY <1>1, <1>2, <1>3 DEF DriftEvent

(* A status changes to one other than "proposed", calls aside. *)
LEMMA StatusStepType ==
  ASSUME TypeInv, NEW i \in DOMAIN actions, NEW t \in Statuses \ {"proposed"},
         SetStatus(i, t), UNCHANGED <<linked, policy, overrides>>,
         call' \in [Operators -> Calls],
         \A p \in Operators : /\ call'[p].at # "idle"
                                   => call'[p].action \in DOMAIN actions
                              /\ \/ call'[p] = call[p]
                                 \/ call'[p].at = "idle"
                                 \/ /\ call'[p].at = "execute"
                                    /\ actions[call'[p].action].kind # "other"
  PROVE  TypeInv'
<1> USE DEF TypeInv
<1>1. /\ actions' \in Seq(Actions)
      /\ DOMAIN actions' = DOMAIN actions
      /\ actions'[i].status = t
      /\ \A j \in DOMAIN actions :
           /\ j # i => actions'[j] = actions[j]
           /\ actions'[j].kind = actions[j].kind
           /\ actions'[j].executed = actions[j].executed
           /\ actions'[j].saved = actions[j].saved
  <2>1. actions \in Seq(Actions) /\ t \in Statuses
    BY DEF MemoryOK
  <2> QED
    BY <2>1, StatusType DEF SetStatus
<1>2. MemoryOK'
  BY <1>1 DEF MemoryOK
<1>3. \A j \in DOMAIN actions' :
        /\ actions'[j].kind = "other"
             => actions'[j].status # "proposed" /\ ~ actions'[j].executed
        /\ actions'[j].executed /\ actions'[j].kind = "threshold"
             => actions'[j].saved \in Policies
  BY <1>1 DEF Restorable, RecordsOK
<1>4. \A p \in Operators :
        /\ Executing(p)' => KindOf(p)' # "other"
        /\ call'[p].at = "replace" => call'[p].policy \in Policies
        /\ call'[p].at = "record" /\ KindOf(p)' = "threshold"
             => call'[p].policy \in Policies
        /\ call'[p].at = "restore" /\ call'[p].effect = "threshold"
             => call'[p].policy \in Policies
  <2> TAKE p \in Operators
  <2>1. CASE call'[p] = call[p]
    BY <1>1, <2>1 DEF MemoryOK, Restorable, RecordsOK, Executing, KindOf
  <2>2. CASE call'[p].at = "idle"
    BY <2>2 DEF Executing
  <2>3. CASE call'[p].at = "execute" /\ actions[call'[p].action].kind # "other"
    BY <1>1, <2>3 DEF Executing, KindOf
  <2> QED
    BY <2>1, <2>2, <2>3
<1> QED
  BY <1>2, <1>3, <1>4 DEF Restorable, RecordsOK

LEMMA RejectType ==
  ASSUME TypeInv, NEW o \in Operators, NEW i \in DOMAIN actions, Reject(o, i)
  PROVE  TypeInv'
  BY StatusStepType DEF TypeInv, MemoryOK, Reject, Statuses

LEMMA ApproveType ==
  ASSUME TypeInv, NEW o \in Operators, NEW i \in DOMAIN actions, Approve(o, i)
  PROVE  TypeInv'
<1> DEFINE k == [Idle EXCEPT !.at = "execute", !.action = i]
<1>1. i \in Nat
  BY DEF TypeInv, MemoryOK
<1>2. k \in Calls /\ k.at = "execute" /\ k.action = i
  BY <1>1 DEF Idle, Calls, Steps
<1>3. call' = [call EXCEPT ![o] = k] \/ call' = call
  BY DEF Approve
<1> HIDE DEF k
<1>4. /\ call' \in [Operators -> Calls]
      /\ call'[o] = k \/ call'[o] = call[o]
      /\ \A p \in Operators \ {o} : call'[p] = call[p]
  BY <1>2, <1>3, CallType DEF TypeInv, MemoryOK
<1>5. actions[i].kind # "other"
  BY DEF Approve, Decidable, TypeInv, Restorable, RecordsOK
<1>6. \A p \in Operators : /\ call'[p].at # "idle"
                                => call'[p].action \in DOMAIN actions
                           /\ \/ call'[p] = call[p]
                              \/ call'[p].at = "idle"
                              \/ /\ call'[p].at = "execute"
                                 /\ actions[call'[p].action].kind # "other"
  BY <1>2, <1>4, <1>5 DEF TypeInv, MemoryOK
<1> QED
  BY <1>4, <1>6, StatusStepType DEF Approve, Statuses

(* A step that leaves the actions alone and moves one call, or ends it. *)
LEMMA CallStepType ==
  ASSUME TypeInv, NEW o \in Operators, NEW k \in Calls,
         \/ call' = [call EXCEPT ![o] = k]
         \/ call' = [call EXCEPT ![o] = Idle],
         UNCHANGED <<actions, linked>>,
         policy' \in Policies, overrides' \subseteq DOMAIN actions,
         k.at # "idle" => k.action \in DOMAIN actions,
         k.at \in {"execute", "replace", "record"}
           => actions[k.action].kind # "other",
         k.at = "replace" => k.policy \in Policies,
         k.at = "record" /\ actions[k.action].kind = "threshold"
           => k.policy \in Policies,
         k.at = "restore" /\ k.effect = "threshold" => k.policy \in Policies
  PROVE  TypeInv'
<1>1. /\ call' \in [Operators -> Calls]
      /\ call'[o] = k \/ call'[o] = Idle
      /\ \A p \in Operators \ {o} : call'[p] = call[p]
  BY IdleType, CallType DEF TypeInv, MemoryOK
<1>2. MemoryOK'
  BY <1>1, IdleType DEF TypeInv, MemoryOK
<1>3. Restorable'
  BY <1>1, IdleType DEF TypeInv, Restorable, RecordsOK, Executing, KindOf
<1> QED
  BY <1>2, <1>3 DEF TypeInv

LEMMA ExecuteOverrideType ==
  ASSUME TypeInv, NEW o \in Operators, ExecuteOverride(o)
  PROVE  TypeInv'
<1> DEFINE k == [call[o] EXCEPT !.at = "record"]
<1>1. /\ k \in Calls /\ k.at = "record" /\ k.action = call[o].action
  BY DEF TypeInv, MemoryOK, Calls, Steps
<1>2. /\ call[o].action \in DOMAIN actions
      /\ actions[call[o].action].kind = "override"
  BY DEF ExecuteOverride, TypeInv, MemoryOK
<1>3. call' = [call EXCEPT ![o] = k] \/ call' = [call EXCEPT ![o] = Idle]
  BY DEF ExecuteOverride, Persist, TypeInv, MemoryOK
<1> HIDE DEF k
<1>4. /\ UNCHANGED <<actions, linked>>
      /\ policy' \in Policies
      /\ overrides' \subseteq DOMAIN actions
  BY <1>2 DEF ExecuteOverride, TypeInv, MemoryOK
<1> QED
  BY <1>1, <1>2, <1>3, <1>4, CallStepType

LEMMA ReadPolicyType ==
  ASSUME TypeInv, NEW o \in Operators, ReadPolicy(o)
  PROVE  TypeInv'
<1> DEFINE k == [call[o] EXCEPT !.at = "replace", !.policy = policy]
<1>1. /\ k \in Calls /\ k.at = "replace" /\ k.action = call[o].action
      /\ k.policy = policy
  BY DEF TypeInv, MemoryOK, Calls, Steps
<1>2. /\ call[o].action \in DOMAIN actions
      /\ actions[call[o].action].kind = "threshold"
  BY DEF ReadPolicy, TypeInv, MemoryOK
<1>3. call' = [call EXCEPT ![o] = k]
  BY DEF ReadPolicy, TypeInv, MemoryOK
<1> HIDE DEF k
<1>4. /\ UNCHANGED <<actions, linked>>
      /\ policy \in Policies
      /\ policy' \in Policies
      /\ overrides' \subseteq DOMAIN actions
  BY DEF ReadPolicy, TypeInv, MemoryOK
<1> QED
  BY <1>1, <1>2, <1>3, <1>4, CallStepType

(* A threshold move ends in the band, whatever the policy before it. *)
LEMMA TargetInBand ==
  ASSUME actions \in Seq(Actions), NEW i \in DOMAIN actions, NEW q \in Policies
  PROVE  Target(q, i) \in Low .. High
<1>1. \A x \in Int : Clamp(x) \in Low .. High
  BY DEF Clamp, Low, High
<1>2. actions[i] \in Actions
  OBVIOUS
<1>3. actions[i].target \in Int
  BY <1>2 DEF Actions, Low, High
<1>4. q.review \in 0 .. 100
  BY DEF Policies
<1>5. q.review - 1 \in Int
  <2>1. \A x \in 0 .. 100 : x - 1 \in Int
    OBVIOUS
  <2> QED
    BY <1>4, <2>1, Zenon
<1> QED
  BY <1>1, <1>3, <1>5 DEF Target

LEMMA ReplacePolicyType ==
  ASSUME TypeInv, NEW o \in Operators, ReplacePolicy(o)
  PROVE  TypeInv'
<1> DEFINE i == call[o].action
           before == call[o].policy
           t == Target(before, i)
<1>1. i \in DOMAIN actions /\ before \in Policies /\ actions[i].kind # "other"
  BY DEF ReplacePolicy, TypeInv, MemoryOK, Restorable, RecordsOK, Executing, KindOf
<1>2. t \in 60 .. 70
  BY <1>1, TargetInBand DEF TypeInv, MemoryOK, Low, High
<1>3. CASE /\ policy' = [before EXCEPT !.review = t,
                                       !.tags = Append(before.tags, i)]
           /\ call' = [call EXCEPT ![o].at = "record"]
  <2> DEFINE k == [call[o] EXCEPT !.at = "record"]
  <2>1. k \in Calls /\ k.at = "record" /\ k.action = i /\ k.policy = before
    BY DEF TypeInv, MemoryOK, Calls, Steps
  <2>2. call' = [call EXCEPT ![o] = k]
    BY <1>3 DEF TypeInv, MemoryOK
  <2> HIDE DEF k, t
  <2>3. policy' \in Policies
    <3>1. before.tags \in Seq(Nat) /\ i \in Nat
      BY <1>1 DEF Policies, TypeInv, MemoryOK
    <3>2. Append(before.tags, i) \in Seq(Nat)
      BY <3>1
    <3> HIDE DEF i, before
    <3>3. t \in 0 .. 100
      BY <1>2
    <3>4. policy' = [owner |-> before.owner, review |-> t,
                     tags |-> Append(before.tags, i)]
      BY <1>1, <1>3 DEF Policies
    <3> QED
      BY <1>1, <3>2, <3>3, <3>4 DEF Policies
  <2>4. /\ UNCHANGED <<actions, linked>>
        /\ overrides' \subseteq DOMAIN actions
    BY DEF ReplacePolicy, TypeInv, MemoryOK
  <2> HIDE DEF i, before
  <2> QED
    BY <1>1, <2>1, <2>2, <2>3, <2>4, CallStepType
<1>4. CASE call' = [call EXCEPT ![o] = Idle] /\ UNCHANGED policy
  BY <1>4, IdleType, CallStepType DEF ReplacePolicy, TypeInv, MemoryOK
<1> QED
  BY <1>3, <1>4 DEF ReplacePolicy

LEMMA RecordExecutionType ==
  ASSUME TypeInv, NEW o \in Operators, RecordExecution(o)
  PROVE  TypeInv'
<1> DEFINE i == call[o].action
           a == [actions[i] EXCEPT !.executed = TRUE, !.saved = call[o].policy]
<1>0. /\ call' = [call EXCEPT ![o] = Idle]
      /\ UNCHANGED <<linked, policy, overrides>>
  BY DEF RecordExecution, Persist
<1>1. /\ i \in DOMAIN actions
      /\ actions[i] \in Actions
      /\ actions[i].kind # "other"
      /\ call[o].policy \in Policies \cup {NoPolicy}
      /\ actions[i].kind = "threshold" => call[o].policy \in Policies
  BY DEF RecordExecution, TypeInv, MemoryOK, Restorable, RecordsOK, Executing, KindOf, Calls
<1>2. CASE UNCHANGED actions
  BY <1>0, <1>2, IdleType, CallStepType DEF TypeInv, MemoryOK
<1>3. CASE actions' = [actions EXCEPT ![i] = a]
  <2>1. /\ a \in Actions
        /\ a.kind = actions[i].kind
        /\ a.executed
        /\ a.saved = call[o].policy
    BY <1>1 DEF Actions
  <2> HIDE DEF a
  <2>2. /\ actions' \in Seq(Actions)
        /\ DOMAIN actions' = DOMAIN actions
        /\ actions'[i] = a
        /\ \A j \in DOMAIN actions \ {i} : actions'[j] = actions[j]
    BY <1>1, <1>3, <2>1, UpdateType DEF TypeInv, MemoryOK
  <2>3. /\ call' \in [Operators -> Calls]
        /\ call'[o] = Idle
        /\ \A p \in Operators \ {o} : call'[p] = call[p]
    BY <1>0, IdleType, CallType DEF TypeInv, MemoryOK
  <2>4. \A j \in DOMAIN actions : actions'[j].kind = actions[j].kind
    BY <2>1, <2>2
  <2> HIDE DEF i
  <2>5. MemoryOK'
    BY <1>0, <2>2, <2>3, IdleType DEF TypeInv, MemoryOK
  <2>6. \A j \in DOMAIN actions' :
          /\ actions'[j].kind = "other"
               => actions'[j].status # "proposed" /\ ~ actions'[j].executed
          /\ actions'[j].executed /\ actions'[j].kind = "threshold"
               => actions'[j].saved \in Policies
    BY <1>1, <2>1, <2>2 DEF TypeInv, Restorable, RecordsOK
  <2>7. \A p \in Operators :
          /\ Executing(p)' => KindOf(p)' # "other"
          /\ call'[p].at = "replace" => call'[p].policy \in Policies
          /\ call'[p].at = "record" /\ KindOf(p)' = "threshold"
               => call'[p].policy \in Policies
          /\ call'[p].at = "restore" /\ call'[p].effect = "threshold"
               => call'[p].policy \in Policies
    BY <2>3, <2>4, IdleType DEF TypeInv, MemoryOK, Restorable, RecordsOK, Executing, KindOf
  <2> QED
    BY <2>5, <2>6, <2>7 DEF TypeInv, Restorable, RecordsOK
<1>4. UNCHANGED actions \/ actions' = [actions EXCEPT ![i] = a]
  BY DEF RecordExecution, TypeInv, MemoryOK
<1> QED
  BY <1>2, <1>3, <1>4

LEMMA ReadActionType ==
  ASSUME TypeInv, NEW o \in Operators, NEW i \in DOMAIN actions, ReadAction(o, i)
  PROVE  TypeInv'
<1> DEFINE a == actions[i]
           e == IF a.executed THEN a.kind ELSE "none"
           k == [at |-> "restore", action |-> i, policy |-> a.saved, effect |-> e]
<1>1. /\ a \in Actions
      /\ i \in Nat
  BY DEF TypeInv, MemoryOK
<1>2. /\ e \in {"none", "override", "threshold"}
      /\ e = "threshold" => a.executed /\ a.kind = "threshold"
  BY <1>1 DEF TypeInv, Restorable, RecordsOK, Actions
<1>3. call' = [call EXCEPT ![o] = k]
  BY DEF ReadAction
<1>4. a.saved \in Policies \cup {NoPolicy}
  BY <1>1 DEF Actions
<1>5. e = "threshold" => a.saved \in Policies
  BY <1>2 DEF TypeInv, Restorable, RecordsOK
<1> HIDE DEF a, e
<1>6. k \in Calls
  BY <1>1, <1>2, <1>4 DEF Calls, Steps
<1>7. /\ k.at = "restore"
      /\ k.action = i
      /\ k.effect = "threshold" => k.policy \in Policies
  BY <1>5
<1> HIDE DEF k
<1>8. /\ UNCHANGED <<actions, linked>>
      /\ policy' \in Policies
      /\ overrides' \subseteq DOMAIN actions
  BY DEF ReadAction, TypeInv, MemoryOK
<1> QED
  BY <1>3, <1>6, <1>7, <1>8, CallStepType

LEMMA RestoreType ==
  ASSUME TypeInv, NEW o \in Operators, Restore(o)
  PROVE  TypeInv'
<1> DEFINE k == [call[o] EXCEPT !.at = "finish"]
<1>1. k \in Calls /\ k.at = "finish" /\ k.action = call[o].action
  BY DEF TypeInv, MemoryOK, Calls, Steps
<1>2. call[o].action \in DOMAIN actions
  BY DEF Restore, TypeInv, MemoryOK
<1>3. call' = [call EXCEPT ![o] = k] \/ call' = [call EXCEPT ![o] = Idle]
  BY DEF Restore, Persist, TypeInv, MemoryOK
<1> HIDE DEF k
<1>4. /\ UNCHANGED <<actions, linked>>
      /\ policy' \in Policies
      /\ overrides' \subseteq DOMAIN actions
  BY DEF Restore, Revert, TypeInv, MemoryOK, Restorable, RecordsOK
<1> QED
  BY <1>1, <1>2, <1>3, <1>4, CallStepType

LEMMA FinishRollbackType ==
  ASSUME TypeInv, NEW o \in Operators, FinishRollback(o)
  PROVE  TypeInv'
<1> DEFINE i == call[o].action
<1>1. i \in DOMAIN actions
  BY DEF FinishRollback, TypeInv, MemoryOK
<1>2. /\ call' = [call EXCEPT ![o] = Idle]
      /\ UNCHANGED <<linked, policy, overrides>>
  BY DEF FinishRollback
<1>3. CASE SetStatus(i, "rolled_back")
  <2> HIDE DEF i
  <2>1. /\ call' \in [Operators -> Calls]
        /\ call'[o] = Idle
        /\ \A p \in Operators \ {o} : call'[p] = call[p]
    BY <1>2, IdleType, CallType DEF TypeInv, MemoryOK
  <2>2. \A p \in Operators : /\ call'[p].at # "idle"
                                  => call'[p].action \in DOMAIN actions
                             /\ \/ call'[p] = call[p]
                                \/ call'[p].at = "idle"
    BY <2>1, IdleType DEF TypeInv, MemoryOK
  <2>3. "rolled_back" \in Statuses \ {"proposed"}
    BY DEF Statuses
  <2> QED
    BY <1>1, <1>2, <1>3, <2>1, <2>2, <2>3, StatusStepType
<1>4. CASE UNCHANGED actions
  BY <1>2, <1>4, IdleType, CallStepType DEF TypeInv, MemoryOK
<1> QED
  BY <1>3, <1>4 DEF FinishRollback

LEMMA ActivateWorkloadType ==
  ASSUME TypeInv, NEW o \in Operators, NEW w \in Workloads, ActivateWorkload(o, w)
  PROVE  TypeInv'
<1>1. policy' \in Policies
  BY FromWorkloadType DEF ActivateWorkload, TypeInv, MemoryOK
<1> QED
  BY <1>1 DEF ActivateWorkload, TypeInv, MemoryOK, Restorable, RecordsOK, Executing, KindOf

LEMMA StepType == TypeInv /\ Running => TypeInv'
<1> SUFFICES ASSUME TypeInv, Running PROVE TypeInv'
  OBVIOUS
<1>1. CASE UNCHANGED vars
  BY <1>1 DEF vars, TypeInv, MemoryOK, Restorable, RecordsOK, Executing, KindOf
<1>2. ASSUME NEW o \in Operators, Operate(o) PROVE TypeInv'
  <2>1. CASE \E m \in Monitors, s \in {"critical", "warn", "watch", "stable"} :
               DriftEvent(o, m, s)
    BY <2>1, DriftEventType
  <2>2. CASE \E i \in DOMAIN actions : Reject(o, i)
    BY <2>2, RejectType
  <2>3. CASE \E i \in DOMAIN actions : Approve(o, i)
    BY <2>3, ApproveType
  <2>4. CASE \E i \in DOMAIN actions : ReadAction(o, i)
    BY <2>4, ReadActionType
  <2>5. CASE ExecuteOverride(o)
    BY <2>5, ExecuteOverrideType
  <2>6. CASE ReadPolicy(o)
    BY <2>6, ReadPolicyType
  <2>7. CASE ReplacePolicy(o)
    BY <2>7, ReplacePolicyType
  <2>8. CASE RecordExecution(o)
    BY <2>8, RecordExecutionType
  <2>9. CASE Restore(o)
    BY <2>9, RestoreType
  <2>10. CASE FinishRollback(o)
    BY <2>10, FinishRollbackType
  <2>11. CASE \E w \in Workloads : ActivateWorkload(o, w)
    BY <2>11, ActivateWorkloadType
  <2> QED
    BY <1>2, <2>1, <2>2, <2>3, <2>4, <2>5, <2>6, <2>7, <2>8, <2>9, <2>10, <2>11
    DEF Operate
<1> QED
  BY <1>1, <1>2 DEF Running

-----------------------------------------------------------------------------
(* How the actions evolve. *)

(* An action that is or was approved can have left an effect. *)
ApprovedIn(acts) == {i \in DOMAIN acts : acts[i].status \in {"running", "rolled_back"}}

Approved == ApprovedIn(actions)

(* How the list of actions may change in a step: it only grows, an action  *)
(* never changes its kind or its monitor, never reopens, stays approved.   *)
Evolves ==
  /\ DOMAIN actions \subseteq DOMAIN actions'
  /\ \A i \in DOMAIN actions :
       /\ actions'[i].kind = actions[i].kind
       /\ actions'[i].drift = actions[i].drift
       /\ Open(actions'[i]) => Open(actions[i])
       /\ actions'[i].status = "proposed" => actions'[i] = actions[i]
       /\ i \in Approved => actions'[i].status \in {"running", "rolled_back"}

(* Nothing new is listed: every step but the proposal of an action. *)
SameList == Evolves /\ DOMAIN actions' = DOMAIN actions

LEMMA StatusEvolves ==
  ASSUME TypeInv, NEW i \in DOMAIN actions, NEW s \in {"running", "rejected", "rolled_back"},
         SetStatus(i, s),
         s = "running" => actions[i].status = "proposed",
         s = "rejected" => actions[i].status = "proposed"
  PROVE  SameList
<1>1. actions \in Seq(Actions) /\ s \in Statuses
  BY DEF TypeInv, MemoryOK, Statuses
<1>2. /\ DOMAIN actions' = DOMAIN actions
      /\ actions'[i].status = s
      /\ \A j \in DOMAIN actions :
           /\ j # i => actions'[j] = actions[j]
           /\ actions'[j].kind = actions[j].kind
           /\ actions'[j].drift = actions[j].drift
  BY <1>1, StatusType DEF SetStatus
<1> QED
  BY <1>2 DEF SameList, Evolves, Open, Approved, ApprovedIn

LEMMA RecordEvolves ==
  ASSUME TypeInv, NEW o \in Operators, RecordExecution(o)
  PROVE  SameList
<1> DEFINE i == call[o].action
           a == [actions[i] EXCEPT !.executed = TRUE, !.saved = call[o].policy]
<1>1. CASE UNCHANGED actions
  BY <1>1 DEF SameList, Evolves, Approved, ApprovedIn
<1>2. CASE actions[i].status = "running" /\ actions' = [actions EXCEPT ![i] = a]
  <2>1. i \in DOMAIN actions /\ actions[i] \in Actions
    BY DEF RecordExecution, TypeInv, MemoryOK
  <2>2. /\ a.kind = actions[i].kind
        /\ a.drift = actions[i].drift
        /\ a.status = actions[i].status
    BY <2>1 DEF Actions
  <2> HIDE DEF a
  <2>3. /\ DOMAIN actions' = DOMAIN actions
        /\ actions'[i] = a
        /\ \A j \in DOMAIN actions \ {i} : actions'[j] = actions[j]
    BY <1>2, <2>1 DEF TypeInv, MemoryOK
  <2> HIDE DEF i
  <2> QED
    BY <1>2, <2>2, <2>3 DEF SameList, Evolves, Open, Approved, ApprovedIn
<1> QED
  BY <1>1, <1>2 DEF RecordExecution, TypeInv, MemoryOK

(* Everything but a drift event leaves the list and the links alone. *)
LEMMA StepSameList ==
  ASSUME TypeInv, Running,
         ~ \E o \in Operators, m \in Monitors, s \in {"critical", "warn", "watch", "stable"} :
             DriftEvent(o, m, s)
  PROVE  SameList /\ UNCHANGED linked
<1>1. CASE UNCHANGED actions /\ UNCHANGED linked
  BY <1>1 DEF SameList, Evolves, Approved, ApprovedIn
<1>2. CASE \E o \in Operators : \E i \in DOMAIN actions : Reject(o, i)
  BY <1>2, StatusEvolves DEF Reject, Decidable
<1>3. CASE \E o \in Operators : \E i \in DOMAIN actions : Approve(o, i)
  BY <1>3, StatusEvolves DEF Approve, Decidable
<1>4. CASE \E o \in Operators : RecordExecution(o)
  BY <1>4, RecordEvolves DEF RecordExecution
<1>5. ASSUME NEW o \in Operators, FinishRollback(o), ~ UNCHANGED actions
      PROVE  SameList /\ UNCHANGED linked
  <2>1. SetStatus(call[o].action, "rolled_back") /\ call[o].action \in DOMAIN actions
    BY <1>5 DEF FinishRollback, TypeInv, MemoryOK
  <2>2. SameList
    BY <2>1, StatusEvolves
  <2> QED
    BY <1>5, <2>2 DEF FinishRollback
<1> QED
  BY <1>1, <1>2, <1>3, <1>4, <1>5
  DEF Running, Operate, ExecuteOverride, ReadPolicy, ReplacePolicy, ReadAction,
      Restore, FinishRollback, ActivateWorkload, vars

(* What a drift event does to the list. *)
LEMMA DriftEvolves ==
  ASSUME TypeInv, NEW o \in Operators, NEW m \in Monitors, NEW s,
         DriftEvent(o, m, s)
  PROVE  /\ Evolves
         /\ \/ /\ ExistingActions(m) = {}
               /\ DOMAIN actions' = DOMAIN actions \cup {Len(actions) + 1}
               /\ Len(actions) + 1 \notin DOMAIN actions
               /\ Len(actions) + 1 # 0
               /\ \A i \in DOMAIN actions : actions'[i] = actions[i]
               /\ actions'[Len(actions) + 1].drift = m
               /\ actions'[Len(actions) + 1].status = "proposed"
               /\ ~ actions'[Len(actions) + 1].executed
               /\ linked' = Link(m, Len(actions) + 1)
            \/ /\ UNCHANGED actions
               /\ \/ UNCHANGED linked
                  \/ \E i \in ExistingActions(m) : linked' = Link(m, i)
<1> DEFINE a == Proposal(IF s = "critical" THEN "override" ELSE "threshold", m)
           n == Len(actions) + 1
<1>1. CASE ExistingActions(m) = {} /\ actions' = Append(actions, a) /\ linked' = Link(m, n)
  <2>1. a \in Actions
    BY ProposalType
  <2>2. a.status = "proposed" /\ a.drift = m /\ ~ a.executed
    BY DEF Proposal
  <2> HIDE DEF a
  <2>3. /\ DOMAIN actions' = DOMAIN actions \cup {n}
        /\ n \in Nat \ {0}
        /\ n \notin DOMAIN actions
        /\ actions'[n] = a
        /\ \A j \in DOMAIN actions : actions'[j] = actions[j]
    BY <1>1, <2>1, AppendType DEF TypeInv, MemoryOK
  <2> HIDE DEF n
  <2>4. Evolves
    BY <2>3 DEF Evolves, Approved, ApprovedIn
  <2> QED
    BY <1>1, <2>2, <2>3, <2>4 DEF n
<1>2. CASE UNCHANGED actions /\ \E i \in ExistingActions(m) : linked' = Link(m, i)
  BY <1>2 DEF Evolves, Approved, ApprovedIn
<1>3. CASE UNCHANGED <<actions, linked>>
  BY <1>3 DEF Evolves, Approved, ApprovedIn
<1> QED
  BY <1>1, <1>2, <1>3 DEF DriftEvent

LEMMA StepEvolves == TypeInv /\ Running => Evolves
  BY StepSameList, DriftEvolves DEF SameList

-----------------------------------------------------------------------------
(* The snapshot. *)

SnapshotInv ==
  /\ snapshot \in [actions : Seq(Actions), linked : [Monitors -> Nat],
                   overrides : SUBSET Nat]
  /\ snapshot.linked \in [Monitors -> {0} \cup DOMAIN snapshot.actions]
  /\ snapshot.overrides \subseteq DOMAIN snapshot.actions
  /\ RecordsOK(snapshot.actions)
  /\ torn \subseteq DOMAIN actions

(* A step of the running process saves what it leaves in memory, or nothing. *)
LEMMA SavedOrNot ==
  ASSUME Running
  PROVE  \/ UNCHANGED snapshot
         \/ /\ snapshot' = Memory'
            /\ snapshot'.actions = actions'
            /\ snapshot'.linked = linked'
            /\ snapshot'.overrides = overrides'
<1>1. UNCHANGED snapshot \/ snapshot' = Memory'
  BY DEF Running, Operate, vars, DriftEvent, Reject, Approve, ExecuteOverride,
         ReadPolicy, ReplacePolicy, RecordExecution, ReadAction, Restore,
         FinishRollback, ActivateWorkload, Persist, Saved, SaveFails
<1> QED
  BY <1>1 DEF Memory

(* Only the action of a request under way is marked. *)
LEMMA TornStep ==
  ASSUME TypeInv, Running, torn \subseteq DOMAIN actions
  PROVE  torn' \subseteq DOMAIN actions'
<1>1. DOMAIN actions \subseteq DOMAIN actions'
  BY StepEvolves DEF Evolves
<1>2. CASE torn' \subseteq torn
  BY <1>1, <1>2
<1>3. ASSUME NEW o \in Operators, call[o].at # "idle",
             torn' = torn \cup {call[o].action}
      PROVE  torn' \subseteq DOMAIN actions'
  BY <1>1, <1>3 DEF TypeInv, MemoryOK
<1> QED
  BY <1>2, <1>3
  DEF Running, Operate, vars, DriftEvent, Reject, Approve, ExecuteOverride,
      ReadPolicy, ReplacePolicy, RecordExecution, ReadAction, Restore,
      FinishRollback, ActivateWorkload, Persist

LEMMA StepSnapshot == TypeInv /\ SnapshotInv /\ Running => SnapshotInv'
<1> SUFFICES ASSUME TypeInv, SnapshotInv, Running PROVE SnapshotInv'
  OBVIOUS
<1>1. torn' \subseteq DOMAIN actions'
  BY TornStep DEF SnapshotInv
<1>2. CASE UNCHANGED snapshot
  BY <1>1, <1>2 DEF SnapshotInv, RecordsOK
<1>3. CASE /\ snapshot' = Memory'
           /\ snapshot'.actions = actions'
           /\ snapshot'.linked = linked'
           /\ snapshot'.overrides = overrides'
  <2>1. TypeInv'
    BY StepType
  <2>2. /\ actions' \in Seq(Actions)
        /\ linked' \in [Monitors -> {0} \cup DOMAIN actions']
        /\ overrides' \subseteq DOMAIN actions'
        /\ RecordsOK(actions)'
    BY <2>1 DEF TypeInv, MemoryOK, Restorable
  <2>3. DOMAIN actions' \subseteq Nat
    BY <2>2
  <2>4. linked' \in [Monitors -> Nat] /\ overrides' \in SUBSET Nat
    BY <2>2, <2>3
  <2>5. snapshot' \in [actions : Seq(Actions), linked : [Monitors -> Nat],
                       overrides : SUBSET Nat]
    BY <1>3, <2>2, <2>4 DEF Memory
  <2> QED
    BY <1>1, <1>3, <2>2, <2>5 DEF SnapshotInv, RecordsOK
<1> QED
  BY <1>2, <1>3, SavedOrNot

LEMMA RestartType ==
  ASSUME SnapshotInv, Restart
  PROVE  TypeInv' /\ SnapshotInv'
<1>1. policy' \in Policies
  BY FromWorkloadType DEF Restart
<1>2. \A o \in Operators : call'[o] = Idle /\ call'[o] \in Calls
  BY IdleType DEF Restart
<1>3. call' \in [Operators -> Calls]
  BY IdleType DEF Restart
<1>4. snapshot.actions \in Seq(Actions)
  BY DEF SnapshotInv
<1>5. MemoryOK'
  BY <1>1, <1>2, <1>3, <1>4, IdleType DEF Restart, SnapshotInv, MemoryOK
<1>6. Restorable'
  BY <1>2, IdleType DEF Restart, SnapshotInv, Restorable, RecordsOK, Executing, KindOf
<1>7. SnapshotInv'
  BY DEF Restart, SnapshotInv, RecordsOK
<1> QED
  BY <1>5, <1>6, <1>7 DEF TypeInv

LEMMA InitSnapshot == Init => SnapshotInv
<1> SUFFICES ASSUME Init PROVE SnapshotInv
  OBVIOUS
<1>1. TypeInv
  BY InitType
<1>2. /\ snapshot = Memory
      /\ snapshot.actions = actions
      /\ snapshot.linked = linked
      /\ snapshot.overrides = {}
      /\ overrides = {} /\ torn = {}
  BY DEF Init, Memory
<1>3. /\ actions \in Seq(Actions)
      /\ linked \in [Monitors -> {0} \cup DOMAIN actions]
      /\ RecordsOK(actions)
  BY <1>1 DEF TypeInv, MemoryOK, Restorable
<1>4. linked \in [Monitors -> Nat]
  BY <1>3
<1> QED
  BY <1>2, <1>3, <1>4 DEF SnapshotInv, Memory, RecordsOK

(* What the process has in memory and what it would restart from. *)
TypesInv == TypeInv /\ SnapshotInv

LEMMA NextIs == [Next]_vars <=> Running \/ Restart
  BY DEF Next, Running

LEMMA InitTypes == Init => TypesInv
  BY InitType, InitSnapshot DEF TypesInv

LEMMA StepTypes == TypesInv /\ [Next]_vars => TypesInv'
  BY NextIs, StepType, StepSnapshot, RestartType DEF TypesInv

(* Every state is well typed, and whatever a rollback or an approval under *)
(* way will put in force is a policy: no path restores an empty one, after *)
(* failing saves and restarts neither.                                     *)
THEOREM TypeCorrect == Spec => [](TypeOK /\ Restorable)
<1>1. TypesInv => TypeOK /\ Restorable
  BY DEF TypesInv, TypeInv, MemoryOK, SnapshotInv, TypeOK
<1> QED
  BY <1>1, InitTypes, StepTypes, PTL DEF Spec

-----------------------------------------------------------------------------
(* Open actions. *)

(* A monitor's link leads to its open action, in the records of memory and *)
(* in those of the snapshot.                                               *)
OpenOn(acts, links) ==
  \A m \in Monitors :
    /\ \A i \in DOMAIN acts : acts[i].drift = m /\ Open(acts[i]) => links[m] = i
    /\ links[m] # 0 => acts[links[m]].drift = m

OpenInv == OneOpenAction /\ OpenIsLinked

LEMMA OpenIsOpenOn == OpenInv <=> OpenOn(actions, linked)
  BY DEF OpenInv, OneOpenAction, OpenIsLinked, OpenOn, OpenFor

LEMMA InitOpen == Init => OpenInv
<1> SUFFICES ASSUME Init PROVE OpenInv
  OBVIOUS
<1>1. ASSUME NEW m \in Monitors, NEW i \in OpenFor(m), NEW j \in OpenFor(m)
      PROVE  i = j
  BY <1>1, SeedAssumption, NoneAssumption DEF Init, OpenFor
<1>2. ASSUME NEW m \in Monitors
      PROVE  /\ \A i \in OpenFor(m) : linked[m] = i
             /\ linked[m] # 0 => actions[linked[m]].drift = m
  <2> DEFINE S == {i \in DOMAIN SeedActions : SeedActions[i].drift = m}
  <2>1. linked[m] = IF S = {} THEN 0 ELSE CHOOSE i \in S : TRUE
    BY DEF Init, SeedLink
  <2>2. \A i, j \in S : i = j
    BY SeedAssumption, NoneAssumption
  <2>3. S # {} => linked[m] \in S
    BY <2>1
  <2>4. OpenFor(m) \subseteq S
    BY DEF OpenFor, Init
  <2> QED
    BY <2>1, <2>2, <2>3, <2>4 DEF Init
<1> QED
  BY <1>1, <1>2 DEF OpenInv, OneOpenAction, OpenIsLinked

LEMMA StepOpen == TypeInv /\ OpenInv /\ Running => OpenInv'
<1> SUFFICES ASSUME TypeInv, OpenInv, Running PROVE OpenInv'
  OBVIOUS
<1>1. CASE SameList /\ UNCHANGED linked
  <2>1. \A m \in Monitors : OpenFor(m)' \subseteq OpenFor(m)
    BY <1>1 DEF OpenFor, SameList, Evolves
  <2>2. OneOpenAction'
    BY <2>1 DEF OpenInv, OneOpenAction
  <2>3. OpenIsLinked'
    BY <1>1, <2>1 DEF OpenInv, OpenIsLinked, SameList, Evolves, TypeInv, MemoryOK
  <2> QED
    BY <2>2, <2>3 DEF OpenInv
<1>2. ASSUME NEW o \in Operators, NEW m \in Monitors, NEW s, DriftEvent(o, m, s)
      PROVE  OpenInv'
  <2> DEFINE n == Len(actions) + 1
  <2>1. CASE /\ ExistingActions(m) = {}
             /\ DOMAIN actions' = DOMAIN actions \cup {n}
             /\ n \notin DOMAIN actions
             /\ n # 0
             /\ \A i \in DOMAIN actions : actions'[i] = actions[i]
             /\ actions'[n].drift = m
             /\ linked' = Link(m, n)
    <3> HIDE DEF n
    <3>1. OpenFor(m)' \subseteq {n}
      BY <2>1 DEF OpenFor, ExistingActions
    <3>2. \A x \in Monitors \ {m} : OpenFor(x)' = OpenFor(x)
      BY <2>1 DEF OpenFor
    <3>3. /\ linked'[m] = n
          /\ \A x \in Monitors \ {m} : linked'[x] = linked[x]
      BY <2>1 DEF Link, TypeInv, MemoryOK
    <3>4. \A x \in Monitors : linked[x] \in {0} \cup DOMAIN actions
      BY DEF TypeInv, MemoryOK
    <3>5. OneOpenAction'
      BY <3>1, <3>2 DEF OpenInv, OneOpenAction
    <3>6. OpenIsLinked'
      BY <2>1, <3>1, <3>2, <3>3, <3>4 DEF OpenInv, OpenIsLinked
    <3> QED
      BY <3>5, <3>6 DEF OpenInv
  <2>2. CASE UNCHANGED actions /\ \E i \in ExistingActions(m) : linked' = Link(m, i)
    <3>1. PICK i \in OpenFor(m) : linked' = Link(m, i)
      BY <2>2 DEF ExistingActions
    <3>2. i = linked[m]
      BY DEF OpenInv, OpenIsLinked
    <3>3. linked' = linked
      BY <3>1, <3>2 DEF Link, TypeInv, MemoryOK
    <3> QED
      BY <2>2, <3>3 DEF OpenInv, OneOpenAction, OpenIsLinked, OpenFor
  <2>3. CASE UNCHANGED <<actions, linked>>
    BY <2>3 DEF OpenInv, OneOpenAction, OpenIsLinked, OpenFor
  <2> QED
    BY <1>2, <2>1, <2>2, <2>3, DriftEvolves
<1> QED
  BY <1>1, <1>2, StepSameList

(* The snapshot has one open action per monitor as memory has, so that a   *)
(* restart brings back no other.                                           *)
AllOpen == OpenInv /\ OpenOn(snapshot.actions, snapshot.linked)

LEMMA InitAllOpen == Init => AllOpen
<1>1. Init => snapshot.actions = actions /\ snapshot.linked = linked
  BY DEF Init, Memory
<1> QED
  BY <1>1, InitOpen, OpenIsOpenOn DEF AllOpen

LEMMA StepAllOpen == TypesInv /\ AllOpen /\ [Next]_vars => AllOpen'
<1> SUFFICES ASSUME TypesInv, AllOpen, [Next]_vars PROVE AllOpen'
  OBVIOUS
<1>1. CASE Running
  <2>1. OpenInv'
    BY <1>1, StepOpen DEF AllOpen, TypesInv
  <2>2. OpenOn(actions, linked)'
    BY <2>1 DEF OpenInv, OneOpenAction, OpenIsLinked, OpenOn, OpenFor
  <2>3. CASE UNCHANGED snapshot
    BY <2>1, <2>3 DEF AllOpen, OpenOn
  <2>4. CASE snapshot'.actions = actions' /\ snapshot'.linked = linked'
    BY <2>1, <2>2, <2>4 DEF AllOpen, OpenOn
  <2> QED
    BY <1>1, <2>3, <2>4, SavedOrNot
<1>2. CASE Restart
  <2>1. /\ actions' = snapshot.actions /\ linked' = snapshot.linked
        /\ UNCHANGED snapshot
    BY <1>2 DEF Restart
  <2>2. OpenOn(actions, linked)' /\ OpenOn(snapshot.actions, snapshot.linked)'
    BY <2>1 DEF AllOpen, OpenOn
  <2>3. OpenInv'
    BY <2>2 DEF OpenInv, OneOpenAction, OpenIsLinked, OpenOn, OpenFor
  <2> QED
    BY <2>2, <2>3 DEF AllOpen
<1> QED
  BY <1>1, <1>2, NextIs

(* However signals, decisions, executions and rollbacks interleave, and    *)
(* whatever failing saves and restarts take back, a monitor never has two  *)
(* open actions.                                                           *)
THEOREM OneOpenActionPerMonitor == Spec => []OneOpenAction
<1>1. AllOpen => OneOpenAction
  BY DEF AllOpen, OpenInv
<1> QED
  BY <1>1, InitTypes, StepTypes, InitAllOpen, StepAllOpen, PTL DEF Spec

(* The console's link from a monitor leads to its open action. *)
THEOREM OpenActionIsLinked == Spec => []OpenIsLinked
<1>1. AllOpen => OpenIsLinked
  BY DEF AllOpen, OpenInv
<1> QED
  BY <1>1, InitTypes, StepTypes, InitAllOpen, StepAllOpen, PTL DEF Spec

-----------------------------------------------------------------------------
(* Who executes an action. *)

ExecInv ==
  /\ \A i \in DOMAIN actions : actions[i].executed => i \in Approved
  /\ \A o \in Operators : Executing(o) => /\ call[o].action \in Approved
                                          /\ ~ actions[call[o].action].executed
  /\ \A o, p \in Operators :
       Executing(o) /\ Executing(p) /\ call[o].action = call[p].action => o = p

LEMMA InitExec == Init => ExecInv
  BY SeedAssumption DEF Init, ExecInv, Executing, Idle

(* Only an approval that was saved starts an execution. *)
LEMMA ExecutingKept ==
  ASSUME TypeInv, Running,
         \A o \in Operators : \A i \in DOMAIN actions : Approve(o, i) => UNCHANGED call
  PROVE  \A p \in Operators :
           Executing(p)' => Executing(p) /\ call'[p].action = call[p].action
<1>1. call \in [Operators -> Calls]
  BY DEF TypeInv, MemoryOK
<1>2. ASSUME NEW o \in Operators, NEW k, call' = [call EXCEPT ![o] = k],
             k.at \in {"execute", "replace", "record"}
               => Executing(o) /\ k.action = call[o].action
      PROVE  \A p \in Operators :
               Executing(p)' => Executing(p) /\ call'[p].action = call[p].action
  BY <1>1, <1>2 DEF Executing
<1>3. CASE UNCHANGED call
  BY <1>3 DEF Executing
<1>4. ASSUME NEW o \in Operators, call' = [call EXCEPT ![o] = Idle]
      PROVE  \A p \in Operators :
               Executing(p)' => Executing(p) /\ call'[p].action = call[p].action
  BY <1>2, <1>4, IdleType
<1>5. ASSUME NEW o \in Operators,
             ReadPolicy(o) \/ ExecuteOverride(o) \/ Restore(o)
      PROVE  \E k : /\ \/ call' = [call EXCEPT ![o] = k]
                       \/ call' = [call EXCEPT ![o] = Idle]
                    /\ k.at \in {"execute", "replace", "record"}
                         => Executing(o) /\ k.action = call[o].action
  <2>1. CASE ReadPolicy(o)
    <3> DEFINE k == [call[o] EXCEPT !.at = "replace", !.policy = policy]
    <3>1. k.action = call[o].action /\ Executing(o)
      BY <1>1, <2>1 DEF ReadPolicy, Executing, Calls
    <3>2. call' = [call EXCEPT ![o] = k]
      BY <1>1, <2>1 DEF ReadPolicy
    <3> QED
      BY <3>1, <3>2
  <2>2. CASE ExecuteOverride(o)
    <3> DEFINE k == [call[o] EXCEPT !.at = "record"]
    <3>1. k.action = call[o].action /\ Executing(o)
      BY <1>1, <2>2 DEF ExecuteOverride, Executing, Calls
    <3>2. call' = [call EXCEPT ![o] = k] \/ call' = [call EXCEPT ![o] = Idle]
      BY <1>1, <2>2 DEF ExecuteOverride, Persist
    <3> QED
      BY <3>1, <3>2
  <2>3. CASE Restore(o)
    <3> DEFINE k == [call[o] EXCEPT !.at = "finish"]
    <3>1. k.at = "finish"
      BY <1>1 DEF Calls
    <3>2. call' = [call EXCEPT ![o] = k] \/ call' = [call EXCEPT ![o] = Idle]
      BY <1>1, <2>3 DEF Restore, Persist
    <3> QED
      BY <3>1, <3>2
  <2> QED
    BY <1>5, <2>1, <2>2, <2>3
<1>6. ASSUME NEW o \in Operators, ReplacePolicy(o)
      PROVE  \E k : /\ call' = [call EXCEPT ![o] = k]
                    /\ k.at \in {"execute", "replace", "record"}
                         => Executing(o) /\ k.action = call[o].action
  <2> DEFINE k == [call[o] EXCEPT !.at = "record"]
  <2>1. k.action = call[o].action /\ Executing(o)
    BY <1>1, <1>6 DEF ReplacePolicy, Executing, Calls
  <2>2. call' = [call EXCEPT ![o] = k] \/ call' = [call EXCEPT ![o] = Idle]
    BY <1>1, <1>6 DEF ReplacePolicy
  <2> HIDE DEF k
  <2> QED
    BY <2>1, <2>2, IdleType
<1>7. ASSUME NEW o \in Operators, NEW i \in DOMAIN actions, ReadAction(o, i)
      PROVE  \E k : /\ call' = [call EXCEPT ![o] = k]
                    /\ k.at \in {"execute", "replace", "record"}
                         => Executing(o) /\ k.action = call[o].action
  <2> DEFINE k == [at |-> "restore", action |-> i, policy |-> actions[i].saved,
                   effect |-> IF actions[i].executed THEN actions[i].kind ELSE "none"]
  <2>1. k.at = "restore"
    OBVIOUS
  <2>2. call' = [call EXCEPT ![o] = k]
    BY <1>7 DEF ReadAction
  <2> HIDE DEF k
  <2> QED
    BY <2>1, <2>2
<1>8. ASSUME NEW o \in Operators, FinishRollback(o) \/ RecordExecution(o)
      PROVE  call' = [call EXCEPT ![o] = Idle]
  BY <1>8 DEF FinishRollback, RecordExecution, Persist
<1> QED
  BY <1>2, <1>3, <1>4, <1>5, <1>6, <1>7, <1>8
  DEF Running, Operate, DriftEvent, Reject, ActivateWorkload, vars

(* Only the record of an execution touches what an action recorded. *)
LEMMA ExecutedKept ==
  ASSUME TypeInv, Running, ~ \E o \in Operators : RecordExecution(o)
  PROVE  /\ \A i \in DOMAIN actions : /\ actions'[i].executed = actions[i].executed
                                      /\ actions'[i].saved = actions[i].saved
         /\ \A i \in DOMAIN actions' \ DOMAIN actions : ~ actions'[i].executed
<1>1. ASSUME NEW i \in DOMAIN actions, NEW s \in Statuses, SetStatus(i, s)
      PROVE  /\ DOMAIN actions' = DOMAIN actions
             /\ \A j \in DOMAIN actions : /\ actions'[j].executed = actions[j].executed
                                          /\ actions'[j].saved = actions[j].saved
  <2>1. actions \in Seq(Actions)
    BY DEF TypeInv, MemoryOK
  <2> QED
    BY <1>1, <2>1, StatusType DEF SetStatus
<1>2. CASE UNCHANGED actions
  BY <1>2
<1>3. CASE \E o \in Operators : \E i \in DOMAIN actions : Reject(o, i) \/ Approve(o, i)
  BY <1>1, <1>3 DEF Reject, Approve, Statuses
<1>4. ASSUME NEW o \in Operators, FinishRollback(o), ~ UNCHANGED actions
      PROVE  /\ DOMAIN actions' = DOMAIN actions
             /\ \A j \in DOMAIN actions : /\ actions'[j].executed = actions[j].executed
                                          /\ actions'[j].saved = actions[j].saved
  <2>1. /\ SetStatus(call[o].action, "rolled_back")
        /\ call[o].action \in DOMAIN actions
        /\ "rolled_back" \in Statuses
    BY <1>4 DEF FinishRollback, TypeInv, MemoryOK, Statuses
  <2> QED
    BY <1>1, <2>1
<1>5. CASE \E o \in Operators, m \in Monitors, s \in {"critical", "warn", "watch", "stable"} :
             DriftEvent(o, m, s)
  BY <1>5, DriftEvolves
<1> QED
  BY <1>2, <1>3, <1>4, <1>5
  DEF Running, Operate, ExecuteOverride, ReadPolicy, ReplacePolicy, ReadAction,
      Restore, FinishRollback, ActivateWorkload, vars

LEMMA RecordEffect ==
  ASSUME TypeInv, NEW o \in Operators, RecordExecution(o)
  PROVE  LET i == call[o].action
         IN /\ i \in DOMAIN actions
            /\ DOMAIN actions' = DOMAIN actions
            /\ \A j \in DOMAIN actions \ {i} : actions'[j] = actions[j]
            /\ \/ UNCHANGED actions
               \/ /\ actions[i].status = "running"
                  /\ actions'[i].status = "running"
                  /\ actions'[i].kind = actions[i].kind
                  /\ actions'[i].executed
                  /\ actions'[i].saved = call[o].policy
            /\ Executing(o)
            /\ ~ Executing(o)'
            /\ \A p \in Operators \ {o} : call'[p] = call[p]
<1> DEFINE i == call[o].action
           a == [actions[i] EXCEPT !.executed = TRUE, !.saved = call[o].policy]
<1>1. i \in DOMAIN actions /\ actions[i] \in Actions
  BY DEF RecordExecution, TypeInv, MemoryOK
<1>2. /\ Executing(o)
      /\ ~ Executing(o)'
      /\ \A p \in Operators \ {o} : call'[p] = call[p]
  BY IdleType DEF RecordExecution, Persist, Executing, TypeInv, MemoryOK
<1>3. CASE UNCHANGED actions
  BY <1>1, <1>2, <1>3
<1>4. CASE actions[i].status = "running" /\ actions' = [actions EXCEPT ![i] = a]
  <2>1. /\ a.kind = actions[i].kind
        /\ a.status = actions[i].status
        /\ a.executed
        /\ a.saved = call[o].policy
    BY <1>1 DEF Actions
  <2> HIDE DEF a
  <2>2. /\ DOMAIN actions' = DOMAIN actions
        /\ actions'[i] = a
        /\ \A j \in DOMAIN actions \ {i} : actions'[j] = actions[j]
    BY <1>1, <1>4 DEF TypeInv, MemoryOK
  <2> QED
    BY <1>1, <1>2, <1>4, <2>1, <2>2
<1> QED
  BY <1>3, <1>4 DEF RecordExecution, TypeInv, MemoryOK

LEMMA StepExec == TypeInv /\ ExecInv /\ Running => ExecInv'
<1> SUFFICES ASSUME TypeInv, ExecInv, Running PROVE ExecInv'
  OBVIOUS
<1>1. Evolves
  BY StepEvolves
<1>2. \A i \in Approved : i \in Approved'
  BY <1>1 DEF Evolves, Approved, ApprovedIn
<1>3. ASSUME NEW o \in Operators, NEW i \in DOMAIN actions, Approve(o, i),
             ~ UNCHANGED call
      PROVE  ExecInv'
  <2>1. /\ actions[i].status = "proposed"
        /\ ~ actions[i].executed
    BY <1>3 DEF Approve, Decidable, ExecInv, Approved, ApprovedIn
  <2>2. /\ \A p \in Operators \ {o} : call'[p] = call[p]
        /\ call'[o].at = "execute" /\ call'[o].action = i
        /\ ~ Executing(o)
    BY <1>3 DEF Approve, Executing, TypeInv, MemoryOK, Idle
  <2>3. ~ \E p \in Operators : RecordExecution(p)
    BY <1>3, <2>2, IdleType DEF Approve, RecordExecution, Persist, TypeInv, MemoryOK
  <2>4. /\ \A j \in DOMAIN actions : actions'[j].executed = actions[j].executed
        /\ \A j \in DOMAIN actions' \ DOMAIN actions : ~ actions'[j].executed
    BY <2>3, ExecutedKept
  <2>5. \A p \in Operators : Executing(p) => call[p].action # i
    BY <2>1 DEF ExecInv, Approved, ApprovedIn
  <2>6. i \in Approved'
    <3>1. actions \in Seq(Actions) /\ "running" \in Statuses /\ SetStatus(i, "running")
      BY <1>3 DEF Approve, TypeInv, MemoryOK, Statuses
    <3>2. actions'[i].status = "running" /\ DOMAIN actions' = DOMAIN actions
      BY <3>1, StatusType DEF SetStatus
    <3> QED
      BY <3>2 DEF Approved, ApprovedIn
  <2> QED
    BY <1>2, <2>1, <2>2, <2>4, <2>5, <2>6 DEF ExecInv, Executing, Approved, ApprovedIn
<1>4. ASSUME NEW o \in Operators, RecordExecution(o)
      PROVE  ExecInv'
  <2>1. \A p \in Operators \ {o} : Executing(p) => call[p].action # call[o].action
    BY <1>4, RecordEffect DEF ExecInv
  <2> QED
    BY <1>2, <1>4, <2>1, RecordEffect DEF ExecInv, Executing, Approved, ApprovedIn
<1>5. CASE /\ \A o \in Operators : \A i \in DOMAIN actions :
                Approve(o, i) => UNCHANGED call
           /\ ~ \E o \in Operators : RecordExecution(o)
  <2>1. \A p \in Operators :
          Executing(p)' => Executing(p) /\ call'[p].action = call[p].action
    BY <1>5, ExecutingKept
  <2>2. /\ \A i \in DOMAIN actions : actions'[i].executed = actions[i].executed
        /\ \A i \in DOMAIN actions' \ DOMAIN actions : ~ actions'[i].executed
    BY <1>5, ExecutedKept
  <2>3. \A i \in DOMAIN actions' : actions'[i].executed => i \in Approved'
    BY <1>2, <2>2 DEF ExecInv
  <2>4. \A o \in Operators : Executing(o)' => /\ call'[o].action \in Approved'
                                              /\ ~ actions'[call'[o].action].executed
    BY <1>2, <2>1, <2>2 DEF ExecInv, Approved, ApprovedIn
  <2> QED
    BY <2>1, <2>3, <2>4 DEF ExecInv
<1> QED
  BY <1>3, <1>4, <1>5

(* What an action recorded at its execution stays. *)
LEMMA RecordsKept ==
  ASSUME TypeInv, ExecInv, Running
  PROVE  Keeps(actions, actions')
<1>1. CASE \E o \in Operators : RecordExecution(o)
  <2>1. PICK o \in Operators : RecordExecution(o)
    BY <1>1
  <2>2. ~ actions[call[o].action].executed
    BY <2>1, RecordEffect DEF ExecInv
  <2> QED
    BY <2>1, <2>2, RecordEffect DEF Keeps
<1>2. CASE ~ \E o \in Operators : RecordExecution(o)
  <2>1. Evolves
    BY StepEvolves
  <2> QED
    BY <1>2, <2>1, ExecutedKept DEF Keeps, Evolves
<1> QED
  BY <1>1, <1>2

-----------------------------------------------------------------------------
(* What of that is in the snapshot: nothing is executed whose approval was *)
(* not saved, and memory goes on from the snapshot.                        *)

Durable == ApprovedIn(snapshot.actions)

DurableInv ==
  /\ \A i \in DOMAIN snapshot.actions : snapshot.actions[i].executed => i \in Durable
  /\ Durable \subseteq Approved
  /\ Keeps(snapshot.actions, actions)
  /\ \A o \in Operators : Executing(o) => call[o].action \in Durable

LEMMA InitDurable == Init => DurableInv
<1>1. Init => snapshot.actions = actions
  BY DEF Init, Memory
<1> QED
  BY <1>1, InitExec DEF Init, DurableInv, ExecInv, Durable, Approved, Keeps, Executing, Idle

LEMMA StepDurable ==
  ASSUME TypeInv, ExecInv, DurableInv, Running
  PROVE  DurableInv'
<1>1. ExecInv'
  BY StepExec
<1>2. Keeps(actions, actions')
  BY RecordsKept
<1>3. Approved \subseteq Approved'
  BY StepEvolves DEF Evolves, Approved, ApprovedIn
<1>4. CASE snapshot'.actions = actions'
  <2>1. Durable' = Approved'
    BY <1>4 DEF Durable, Approved, ApprovedIn
  <2>2. Keeps(snapshot'.actions, actions')
    BY <1>4 DEF Keeps
  <2> QED
    BY <1>1, <1>4, <2>1, <2>2 DEF DurableInv, ExecInv, Keeps
<1>5. CASE UNCHANGED snapshot /\ snapshot' # Memory'
  <2>1. \A o \in Operators : \A i \in DOMAIN actions : Approve(o, i) => UNCHANGED call
    BY <1>5 DEF Approve, Saved
  <2>2. \A p \in Operators :
          Executing(p)' => Executing(p) /\ call'[p].action = call[p].action
    BY <2>1, ExecutingKept
  <2>3. Durable' = Durable
    BY <1>5 DEF Durable, ApprovedIn
  <2>4. Keeps(snapshot'.actions, actions')
    BY <1>2, <1>5 DEF DurableInv, Keeps
  <2> QED
    BY <1>3, <1>5, <2>2, <2>3, <2>4 DEF DurableInv, Keeps
<1>6. snapshot' = Memory' => snapshot'.actions = actions'
  BY DEF Memory
<1> QED
  BY <1>4, <1>5, <1>6, SavedOrNot

LEMMA RestartDurable ==
  ASSUME DurableInv, Restart
  PROVE  ExecInv' /\ DurableInv'
<1>1. actions' = snapshot.actions /\ UNCHANGED snapshot
  BY DEF Restart
<1>2. \A o \in Operators : ~ Executing(o)'
  BY IdleType DEF Restart, Executing
<1>3. Approved' = Durable /\ Durable' = Durable
  BY <1>1 DEF Approved, Durable, ApprovedIn
<1> QED
  BY <1>1, <1>2, <1>3 DEF ExecInv, DurableInv, Keeps

AllExec == ExecInv /\ DurableInv

LEMMA InitAllExec == Init => AllExec
  BY InitExec, InitDurable DEF AllExec

LEMMA StepAllExec == TypesInv /\ AllExec /\ [Next]_vars => AllExec'
  BY NextIs, StepExec, StepDurable, RestartDurable DEF AllExec, TypesInv

(* What was recorded of an execution and saved, the policy a rollback will *)
(* put back included, is never overwritten: not by a second approval, nor  *)
(* by an execution that comes back after a restart or a rollback; in       *)
(* memory only a restart takes it back.                                    *)
THEOREM ExecutionRecordIsFinal == Spec => ExecutedOnce
<1>1. ASSUME TypesInv, AllExec, [Next]_vars
      PROVE  [/\ Keeps(snapshot.actions, snapshot'.actions)
              /\ Keeps(actions, actions') \/ actions' = snapshot.actions]_vars
  <2>1. CASE Running
    <3>1. Keeps(actions, actions')
      BY <1>1, <2>1, RecordsKept DEF TypesInv, AllExec
    <3>2. CASE UNCHANGED snapshot
      BY <3>1, <3>2 DEF Keeps
    <3>3. CASE snapshot'.actions = actions'
      BY <1>1, <3>1, <3>3 DEF AllExec, DurableInv, Keeps
    <3> QED
      BY <2>1, <3>1, <3>2, <3>3, SavedOrNot
  <2>2. CASE Restart
    BY <2>2 DEF Restart, Keeps
  <2> QED
    BY <1>1, <2>1, <2>2, NextIs
<1> QED
  BY <1>1, InitTypes, StepTypes, InitAllExec, StepAllExec, PTL DEF Spec, ExecutedOnce

-----------------------------------------------------------------------------
(* The policies in circulation - in force, recorded for a rollback in      *)
(* memory or in the snapshot, or held by a request under way - come from   *)
(* actions whose approval was saved: those are what no restart takes back. *)

InForce(q, S) == /\ Tags(q) \subseteq S
                 /\ q.tags # << >> => q.review \in Low .. High
                 /\ q.review <= Block[q.owner]

SavedSound(acts, S) == \A i \in DOMAIN acts :
  acts[i].executed /\ acts[i].kind = "threshold" => InForce(acts[i].saved, S)

HeldSound == \A o \in Operators :
  /\ call[o].at = "replace" => InForce(call[o].policy, Durable)
  /\ call[o].at = "record" /\ KindOf(o) = "threshold"
       => InForce(call[o].policy, Durable)
  /\ call[o].at = "restore" /\ call[o].effect = "threshold"
       => InForce(call[o].policy, Durable)

SoundInv == /\ InForce(policy, Durable)
            /\ overrides \cup snapshot.overrides \subseteq Durable
            /\ SavedSound(actions, Durable)
            /\ SavedSound(snapshot.actions, Durable)
            /\ HeldSound

LEMMA Baseline == \A w \in Workloads : Buildable(w) => \A S : InForce(FromWorkload(w), S)
  BY ThresholdAssumption DEF InForce, FromWorkload, Tags, Buildable, Constructible

LEMMA Wider == \A q, S, T : InForce(q, S) /\ S \subseteq T => InForce(q, T)
  BY DEF InForce

LEMMA DurableGrows ==
  ASSUME TypeInv, DurableInv, Running
  PROVE  Durable \subseteq Durable'
<1>1. Approved \subseteq Approved'
  BY StepEvolves DEF Evolves, Approved, ApprovedIn
<1>2. CASE UNCHANGED snapshot
  BY <1>2 DEF Durable, ApprovedIn
<1>3. CASE snapshot'.actions = actions'
  BY <1>1, <1>3 DEF DurableInv, Durable, Approved, ApprovedIn
<1> QED
  BY <1>2, <1>3, SavedOrNot

(* A threshold move applied to a sound policy gives a sound policy. *)
LEMMA MoveIsSound ==
  ASSUME TypeInv, NEW S, NEW i \in DOMAIN actions, i \in S,
         NEW q \in Policies, InForce(q, S),
         Constructible(q.owner, Target(q, i))
  PROVE  InForce([q EXCEPT !.review = Target(q, i), !.tags = Append(q.tags, i)],
                 S)
<1> DEFINE t == Target(q, i)
           g == Append(q.tags, i)
           r == [q EXCEPT !.review = t, !.tags = g]
<1>1. t \in Low .. High
  BY TargetInBand DEF TypeInv, MemoryOK
<1>2. i \in Nat /\ q.tags \in Seq(Nat)
  BY DEF TypeInv, MemoryOK, Policies
<1>3. \A k \in DOMAIN g : g[k] = i \/ (k \in DOMAIN q.tags /\ g[k] = q.tags[k])
  BY <1>2
<1>4. t <= Block[q.owner]
  BY DEF Constructible
<1>5. r.review = t /\ r.tags = g /\ r.owner = q.owner
  BY DEF Policies
<1>6. {g[k] : k \in DOMAIN g} \subseteq S
  BY <1>3 DEF InForce, Tags
<1> HIDE DEF t, g, r
<1>7. Tags(r) \subseteq S
  BY <1>5, <1>6 DEF Tags
<1>8. InForce(r, S)
  BY <1>1, <1>4, <1>5, <1>7 DEF InForce
<1> QED
  BY <1>8 DEF r, t, g

LEMMA InitSound == Init => SoundInv
<1> SUFFICES ASSUME Init PROVE SoundInv
  OBVIOUS
<1>1. /\ InForce(policy, Durable)
      /\ overrides = {} /\ snapshot.overrides = {} /\ snapshot.actions = actions
  BY Baseline DEF Init, Memory
<1>2. SavedSound(actions, Durable)
  BY SeedAssumption DEF Init, SavedSound
<1>3. HeldSound
  BY DEF Init, HeldSound, Idle
<1> QED
  BY <1>1, <1>2, <1>3 DEF SoundInv, SavedSound

(* What was recorded stays sound; only RecordExecution records. *)
LEMMA StepSavedSound ==
  ASSUME TypeInv, DurableInv, SoundInv, Running
  PROVE  SavedSound(actions', Durable')
<1>1. Evolves /\ Durable \subseteq Durable'
  BY StepEvolves, DurableGrows
<1>2. \A q : InForce(q, Durable) => InForce(q, Durable')
  BY <1>1, Wider
<1>3. CASE ~ \E o \in Operators : RecordExecution(o)
  <2>1. /\ \A i \in DOMAIN actions : /\ actions'[i].executed = actions[i].executed
                                     /\ actions'[i].saved = actions[i].saved
        /\ \A i \in DOMAIN actions' \ DOMAIN actions : ~ actions'[i].executed
    BY <1>3, ExecutedKept
  <2>2. ASSUME NEW i \in DOMAIN actions', actions'[i].executed,
               actions'[i].kind = "threshold"
        PROVE  InForce(actions'[i].saved, Durable')
    <3>1. /\ i \in DOMAIN actions
          /\ actions[i].executed
          /\ actions[i].kind = "threshold"
          /\ actions'[i].saved = actions[i].saved
      BY <1>1, <2>1, <2>2 DEF Evolves
    <3>2. InForce(actions[i].saved, Durable)
      BY <3>1 DEF SoundInv, SavedSound
    <3> QED
      BY <1>2, <3>1, <3>2
  <2>3. \A i \in DOMAIN actions' :
          actions'[i].executed /\ actions'[i].kind = "threshold"
            => InForce(actions'[i].saved, Durable')
    BY <2>2
  <2> QED
    BY <2>3 DEF SavedSound, InForce
<1>4. ASSUME NEW o \in Operators, RecordExecution(o)
      PROVE  SavedSound(actions', Durable')
  <2>1. call[o].at = "record"
    BY <1>4 DEF RecordExecution
  <2>2. ASSUME NEW i \in DOMAIN actions', actions'[i].executed,
               actions'[i].kind = "threshold"
        PROVE  InForce(actions'[i].saved, Durable')
    <3>1. CASE actions'[i] = actions[i] /\ i \in DOMAIN actions
      BY <1>2, <2>2, <3>1 DEF SoundInv, SavedSound
    <3>2. CASE /\ i = call[o].action
               /\ actions'[i].kind = actions[i].kind
               /\ actions'[i].saved = call[o].policy
      BY <1>2, <2>1, <2>2, <3>2 DEF SoundInv, HeldSound, KindOf
    <3> QED
      BY <1>4, <3>1, <3>2, RecordEffect
  <2>3. \A i \in DOMAIN actions' :
          actions'[i].executed /\ actions'[i].kind = "threshold"
            => InForce(actions'[i].saved, Durable')
    BY <2>2
  <2> QED
    BY <2>3 DEF SavedSound, InForce
<1> QED
  BY <1>3, <1>4

LEMMA StepPolicySound ==
  ASSUME TypeInv, DurableInv, SoundInv, Running
  PROVE  InForce(policy', Durable') /\ overrides' \subseteq Durable'
<1>1. Durable \subseteq Durable'
  BY DurableGrows
<1>2. \A q : InForce(q, Durable) => InForce(q, Durable')
  BY <1>1, Wider
<1>3. CASE UNCHANGED <<policy, overrides>>
  BY <1>1, <1>2, <1>3 DEF SoundInv
<1>4. ASSUME NEW o \in Operators, ReplacePolicy(o), ~ UNCHANGED policy
      PROVE  InForce(policy', Durable)
  <2>1. /\ call[o].action \in Durable
        /\ call[o].policy \in Policies
        /\ InForce(call[o].policy, Durable)
    BY <1>4 DEF ReplacePolicy, DurableInv, Executing, TypeInv, Restorable, RecordsOK, SoundInv, HeldSound
  <2> DEFINE i == call[o].action
             q == call[o].policy
  <2>2. /\ Constructible(q.owner, Target(q, i))
        /\ policy' = [q EXCEPT !.review = Target(q, i), !.tags = Append(q.tags, i)]
    BY <1>4 DEF ReplacePolicy
  <2> HIDE DEF i, q
  <2>3. i \in DOMAIN actions /\ i \in Durable /\ q \in Policies /\ InForce(q, Durable)
    BY <1>4, <2>1 DEF i, q, ReplacePolicy, TypeInv, MemoryOK
  <2>4. InForce([q EXCEPT !.review = Target(q, i), !.tags = Append(q.tags, i)],
                Durable)
    BY <2>2, <2>3, MoveIsSound
  <2> QED
    BY <2>2, <2>4
<1>5. ASSUME NEW o \in Operators, Restore(o)
      PROVE  InForce(policy', Durable) /\ overrides' \subseteq Durable
  BY <1>5 DEF Restore, Revert, SoundInv, HeldSound
<1>6. ASSUME NEW o \in Operators, ExecuteOverride(o)
      PROVE  overrides' \subseteq Durable /\ UNCHANGED policy
  BY <1>6 DEF ExecuteOverride, SoundInv, DurableInv, Executing
<1>7. CASE \E o \in Operators, w \in Workloads : ActivateWorkload(o, w)
  BY <1>1, <1>2, <1>7, Baseline DEF ActivateWorkload, SoundInv
<1>8. CASE \E o \in Operators : ReplacePolicy(o)
  BY <1>1, <1>2, <1>4, <1>8 DEF ReplacePolicy, SoundInv
<1>9. CASE \E o \in Operators : Restore(o)
  BY <1>1, <1>2, <1>5, <1>9
<1>10. CASE \E o \in Operators : ExecuteOverride(o)
  BY <1>1, <1>2, <1>6, <1>10 DEF SoundInv
<1> QED
  BY <1>3, <1>7, <1>8, <1>9, <1>10
  DEF Running, Operate, DriftEvent, Reject, Approve, ReadPolicy, RecordExecution,
      ReadAction, FinishRollback, vars

(* The calls of the operators that do not act keep what they hold. *)
LEMMA StepHeldSound ==
  ASSUME TypeInv, DurableInv, SoundInv, Running PROVE HeldSound'
<1>1. Evolves /\ Durable \subseteq Durable'
  BY StepEvolves, DurableGrows
<1>2. \A q : InForce(q, Durable) => InForce(q, Durable')
  BY <1>1, Wider
<1> DEFINE Held(p) ==
      /\ call'[p].at = "replace" => InForce(call'[p].policy, Durable')
      /\ call'[p].at = "record" /\ actions'[call'[p].action].kind = "threshold"
           => InForce(call'[p].policy, Durable')
      /\ call'[p].at = "restore" /\ call'[p].effect = "threshold"
           => InForce(call'[p].policy, Durable')
<1>3. ASSUME NEW p \in Operators, call'[p] = call[p] PROVE Held(p)
  <2>1. call[p].at # "idle" =>
          actions'[call[p].action].kind = actions[call[p].action].kind
    BY <1>1 DEF Evolves, TypeInv, MemoryOK
  <2> QED
    BY <1>2, <1>3, <2>1 DEF SoundInv, HeldSound, KindOf
<1>4. ASSUME NEW p \in Operators, call'[p].at \in {"idle", "execute", "finish"}
      PROVE  Held(p)
  BY <1>4
<1> HIDE DEF Held
<1>5. ASSUME NEW o \in Operators, ReadPolicy(o) PROVE \A p \in Operators : Held(p)
  <2>1. /\ call'[o].at = "replace"
        /\ call'[o].policy = policy
        /\ \A p \in Operators \ {o} : call'[p] = call[p]
    BY <1>5 DEF ReadPolicy, TypeInv, MemoryOK, Calls
  <2>2. Held(o)
    BY <1>2, <2>1 DEF Held, SoundInv
  <2> QED
    BY <1>3, <2>1, <2>2
<1>6. ASSUME NEW o \in Operators, ExecuteOverride(o), call'[o] # Idle
      PROVE  \A p \in Operators : Held(p)
  <2>1. /\ call'[o].at = "record"
        /\ call'[o].action = call[o].action
        /\ actions'[call[o].action].kind = "override"
        /\ \A p \in Operators \ {o} : call'[p] = call[p]
    BY <1>6 DEF ExecuteOverride, Persist, TypeInv, MemoryOK, Calls
  <2>2. Held(o)
    BY <2>1 DEF Held
  <2> QED
    BY <1>3, <2>1, <2>2
<1>7. ASSUME NEW o \in Operators, ReplacePolicy(o) PROVE \A p \in Operators : Held(p)
  <2>1. \A p \in Operators \ {o} : call'[p] = call[p]
    BY <1>7 DEF ReplacePolicy, TypeInv, MemoryOK
  <2>2. CASE call'[o].at = "idle"
    BY <1>3, <1>4, <2>1, <2>2
  <2>3. CASE /\ call'[o].at = "record"
             /\ call'[o].policy = call[o].policy
    <3>1. InForce(call[o].policy, Durable)
      BY <1>7 DEF ReplacePolicy, SoundInv, HeldSound
    <3>2. Held(o)
      BY <1>2, <2>3, <3>1 DEF Held
    <3> QED
      BY <1>3, <2>1, <3>2
  <2> QED
    BY <1>7, <2>2, <2>3, IdleType DEF ReplacePolicy, TypeInv, MemoryOK, Calls
<1>8. ASSUME NEW o \in Operators, NEW i \in DOMAIN actions, ReadAction(o, i)
      PROVE  \A p \in Operators : Held(p)
  <2>1. /\ call'[o].at = "restore"
        /\ call'[o].policy = actions[i].saved
        /\ call'[o].effect = "threshold"
             => actions[i].executed /\ actions[i].kind = "threshold"
        /\ \A p \in Operators \ {o} : call'[p] = call[p]
    BY <1>8 DEF ReadAction, TypeInv, MemoryOK
  <2>2. Held(o)
    BY <1>2, <2>1 DEF Held, SoundInv, SavedSound
  <2> QED
    BY <1>3, <2>1, <2>2
<1>9. ASSUME NEW o \in Operators, Restore(o), call'[o] # Idle
      PROVE  \A p \in Operators : Held(p)
  <2>1. /\ call'[o].at = "finish"
        /\ \A p \in Operators \ {o} : call'[p] = call[p]
    BY <1>9 DEF Restore, Persist, TypeInv, MemoryOK, Calls
  <2> QED
    BY <1>3, <1>4, <2>1
<1>10. ASSUME NEW o \in Operators, RecordExecution(o) \/ FinishRollback(o)
       PROVE  \A p \in Operators : Held(p)
  <2>1. /\ call'[o].at = "idle"
        /\ \A p \in Operators \ {o} : call'[p] = call[p]
    BY <1>10, IdleType DEF RecordExecution, Persist, FinishRollback, TypeInv, MemoryOK
  <2> QED
    BY <1>3, <1>4, <2>1
<1>11. ASSUME NEW o \in Operators, NEW i \in DOMAIN actions, Approve(o, i),
              ~ UNCHANGED call
       PROVE  \A p \in Operators : Held(p)
  <2>1. /\ call'[o].at = "execute"
        /\ \A p \in Operators \ {o} : call'[p] = call[p]
    BY <1>11 DEF Approve, Idle, TypeInv, MemoryOK
  <2> QED
    BY <1>3, <1>4, <2>1
<1>12. ASSUME NEW o \in Operators, ExecuteOverride(o) \/ Restore(o),
              call'[o] = Idle, \A p \in Operators \ {o} : call'[p] = call[p]
       PROVE  \A p \in Operators : Held(p)
  BY <1>3, <1>4, <1>12, IdleType
<1>13. ASSUME UNCHANGED call PROVE \A p \in Operators : Held(p)
  BY <1>3, <1>13
<1>14. ASSUME NEW o \in Operators, ExecuteOverride(o) \/ Restore(o)
       PROVE  \A p \in Operators \ {o} : call'[p] = call[p]
  BY <1>14 DEF ExecuteOverride, Restore, Persist, TypeInv, MemoryOK
<1>15. \A p \in Operators : Held(p)
  BY <1>5, <1>6, <1>7, <1>8, <1>9, <1>10, <1>11, <1>12, <1>13, <1>14
  DEF Running, Operate, DriftEvent, Reject, ActivateWorkload, vars
<1> QED
  BY <1>15 DEF Held, HeldSound, KindOf, InForce

LEMMA StepSound ==
  ASSUME TypeInv, DurableInv, SoundInv, Running
  PROVE  SoundInv'
<1>1. InForce(policy', Durable') /\ overrides' \subseteq Durable'
  BY StepPolicySound
<1>2. SavedSound(actions', Durable') /\ HeldSound'
  BY StepSavedSound, StepHeldSound
<1>3. SavedSound(snapshot'.actions, Durable') /\ snapshot'.overrides \subseteq Durable'
  <2>1. CASE UNCHANGED snapshot
    BY <2>1, DurableGrows, Wider DEF SoundInv, SavedSound
  <2>2. CASE snapshot'.actions = actions' /\ snapshot'.overrides = overrides'
    BY <1>1, <1>2, <2>2 DEF SavedSound
  <2> QED
    BY <2>1, <2>2, SavedOrNot
<1> QED
  BY <1>1, <1>2, <1>3 DEF SoundInv, SavedSound, InForce

LEMMA RestartSound ==
  ASSUME SoundInv, Restart
  PROVE  SoundInv'
<1>1. /\ actions' = snapshot.actions /\ overrides' = snapshot.overrides
      /\ UNCHANGED snapshot
      /\ \A o \in Operators : call'[o].at = "idle"
  BY IdleType DEF Restart
<1>2. Durable' = Durable
  BY <1>1 DEF Durable, ApprovedIn
<1>3. InForce(policy', Durable')
  BY Baseline DEF Restart
<1>4. HeldSound'
  BY <1>1 DEF HeldSound
<1> QED
  BY <1>1, <1>2, <1>3, <1>4 DEF SoundInv, SavedSound, InForce

LEMMA StepAllSound == TypesInv /\ AllExec /\ SoundInv /\ [Next]_vars => SoundInv'
  BY NextIs, StepSound, RestartSound DEF TypesInv, AllExec

(* Neither the policy nor an override comes from an action that nobody     *)
(* approved, whatever is restored in whatever order, and whatever approval *)
(* a failing save leaves to memory alone.                                  *)
THEOREM EffectsAreApproved == Spec => []NoEffectWithoutApproval
<1>1. AllExec /\ SoundInv => NoEffectWithoutApproval
  BY DEF AllExec, DurableInv, SoundInv, InForce, NoEffectWithoutApproval, Approved,
         ApprovedIn
<1> QED
  BY <1>1, InitTypes, StepTypes, InitAllExec, StepAllExec, InitSound, StepAllSound,
     PTL DEF Spec

(* A threshold moved by healing is in the policy-defined band, and no      *)
(* policy in force reviews above its block threshold: whatever workloads   *)
(* are activated or refused, and whatever rollback restores which policy.  *)
THEOREM PolicyStaysBounded == Spec => []PolicyWithinBounds
<1>1. SoundInv => PolicyWithinBounds
  BY DEF SoundInv, InForce, PolicyWithinBounds
<1> QED
  BY <1>1, InitTypes, StepTypes, InitAllExec, StepAllExec, InitSound, StepAllSound,
     PTL DEF Spec

-----------------------------------------------------------------------------
(* The overrides in force, for the shipped server: one operator request at *)
(* a time, any saves failing, restarts anywhere.                           *)

OneOperator == \E o : Operators = {o}

(* The override of an action is in force, or its record says it is not.    *)
Agrees(acts, ovs, j) ==
  j \in ovs <=> acts[j].kind = "override" /\ acts[j].status = "running" /\ acts[j].executed

(* The action whose override is one step ahead of its record, or behind.   *)
Between(o) ==
  IF \/ call[o].at = "record" /\ KindOf(o) = "override"
     \/ call[o].at = "finish" /\ call[o].effect = "override"
  THEN {call[o].action} ELSE {}

RecordsAgree == \A o \in Operators : \A j \in DOMAIN actions \ (torn \cup Between(o)) :
  Agrees(actions, overrides, j)

SnapshotAgrees ==
  \A o \in Operators : \A j \in DOMAIN snapshot.actions \ (torn \cup Between(o)) :
    Agrees(snapshot.actions, snapshot.overrides, j)

EffectOf(i) == IF actions[i].executed THEN actions[i].kind ELSE "none"

CallsAgree ==
  \A o \in Operators :
    LET i == call[o].action
    IN /\ Executing(o) => actions[i].status = "running"
       /\ call[o].at = "replace" => actions[i].kind = "threshold"
       /\ call[o].at = "record" /\ actions[i].kind = "override" => i \in overrides
       /\ call[o].at \in {"restore", "finish"} => call[o].effect = EffectOf(i)
       /\ call[o].at = "finish" /\ call[o].effect = "override"
            => /\ i \notin overrides
               /\ snapshot.actions = actions /\ snapshot.overrides = overrides

OverrideInv == RecordsAgree /\ SnapshotAgrees /\ CallsAgree

(* Changing the status of one action.                                      *)
LEMMA StatusAgrees ==
  ASSUME TypeInv, NEW i \in DOMAIN actions, NEW s \in Statuses, SetStatus(i, s),
         UNCHANGED overrides
  PROVE  /\ DOMAIN actions' = DOMAIN actions
         /\ actions'[i].status = s
         /\ actions'[i].kind = actions[i].kind
         /\ actions'[i].executed = actions[i].executed
         /\ \A j \in DOMAIN actions \ {i} :
              Agrees(actions, overrides, j) => Agrees(actions', overrides', j)
<1>1. actions \in Seq(Actions)
  BY DEF TypeInv, MemoryOK
<1>2. /\ DOMAIN actions' = DOMAIN actions
      /\ actions'[i].status = s
      /\ \A j \in DOMAIN actions :
           /\ j # i => actions'[j] = actions[j]
           /\ actions'[j].kind = actions[j].kind
           /\ actions'[j].executed = actions[j].executed
  BY <1>1, StatusType
<1> QED
  BY <1>2 DEF Agrees

LEMMA StepRecordsAgree ==
  ASSUME OneOperator, TypeInv, ExecInv, OverrideInv, Running
  PROVE  RecordsAgree' /\ CallsAgree'
<1>1. PICK o : Operators = {o}
  BY DEF OneOperator
<1>2. call \in [Operators -> Calls] /\ call[o] \in Calls /\ actions \in Seq(Actions)
  BY <1>1 DEF TypeInv, MemoryOK
<1> DEFINE i == call[o].action
<1> USE <1>1
<1>3. CASE UNCHANGED vars
  BY <1>3 DEF vars, OverrideInv, RecordsAgree, CallsAgree, Agrees, Between, KindOf,
              EffectOf, Executing
<1>4. ASSUME NEW m \in Monitors, NEW s, DriftEvent(o, m, s)
      PROVE  RecordsAgree' /\ CallsAgree'
  <2>1. call[o].at = "idle" /\ UNCHANGED <<call, overrides, torn>>
    BY <1>4 DEF DriftEvent
  <2>2. Between(o) = {} /\ Between(o)' = {}
    BY <2>1 DEF Between
  <2>3. \A j \in DOMAIN actions \ torn : Agrees(actions, overrides, j)
    BY <2>2 DEF OverrideInv, RecordsAgree
  <2>4. \A j \in DOMAIN actions' \ torn' : Agrees(actions', overrides', j)
    BY <1>4, <2>1, <2>3, DriftEvolves DEF Agrees, TypeInv, MemoryOK
  <2> QED
    BY <2>1, <2>2, <2>4 DEF RecordsAgree, CallsAgree, Executing, Agrees
<1>5. ASSUME NEW j \in DOMAIN actions, Reject(o, j)
      PROVE  RecordsAgree' /\ CallsAgree'
  <2>1. /\ call[o].at = "idle" /\ UNCHANGED <<call, overrides, torn>>
        /\ SetStatus(j, "rejected") /\ actions[j].status = "proposed"
        /\ "rejected" \in Statuses
    BY <1>5 DEF Reject, Decidable, Statuses
  <2>2. Between(o) = {} /\ Between(o)' = {}
    BY <2>1 DEF Between
  <2>3. \A k \in DOMAIN actions \ torn : Agrees(actions, overrides, k)
    BY <2>2 DEF OverrideInv, RecordsAgree
  <2>4. \A k \in DOMAIN actions' \ torn' : Agrees(actions', overrides', k)
    BY <2>1, <2>3, StatusAgrees DEF Agrees
  <2> QED
    BY <2>1, <2>2, <2>4 DEF RecordsAgree, CallsAgree, Executing, Agrees
<1>6. ASSUME NEW j \in DOMAIN actions, Approve(o, j)
      PROVE  RecordsAgree' /\ CallsAgree'
  <2>1. /\ call[o].at = "idle" /\ UNCHANGED <<overrides, torn>>
        /\ SetStatus(j, "running") /\ actions[j].status = "proposed"
        /\ "running" \in Statuses
    BY <1>6 DEF Approve, Decidable, Statuses
  <2>2. \/ call'[o].at = "execute" /\ call'[o].action = j
        \/ call'[o].at = "idle"
    BY <1>2, <1>6 DEF Approve, Idle
  <2>3. ~ actions[j].executed
    BY <2>1 DEF ExecInv, Approved, ApprovedIn
  <2>4. Between(o) = {} /\ Between(o)' = {}
    BY <2>1, <2>2 DEF Between
  <2>5. \A k \in DOMAIN actions \ torn : Agrees(actions, overrides, k)
    BY <2>4 DEF OverrideInv, RecordsAgree
  <2>6. /\ \A k \in DOMAIN actions' \ torn' : Agrees(actions', overrides', k)
        /\ actions'[j].status = "running"
    BY <2>1, <2>3, <2>5, StatusAgrees DEF Agrees
  <2> QED
    BY <2>1, <2>2, <2>4, <2>6 DEF RecordsAgree, CallsAgree, Executing, Agrees
<1>7. CASE ExecuteOverride(o)
  <2>1. /\ call[o].at = "execute" /\ actions[i].kind = "override"
        /\ overrides' = overrides \cup {i} /\ UNCHANGED actions
    BY <1>7 DEF ExecuteOverride
  <2>2. Between(o) = {}
    BY <2>1 DEF Between
  <2>3. \A j \in DOMAIN actions \ torn : Agrees(actions, overrides, j)
    BY <2>2 DEF OverrideInv, RecordsAgree
  <2>4. \/ call'[o].at = "record" /\ call'[o].action = i /\ UNCHANGED torn
        \/ call'[o].at = "idle" /\ torn' = torn \cup {i}
    BY <1>2, <1>7, IdleType DEF ExecuteOverride, Persist, Calls
  <2>5. torn' \cup Between(o)' = torn \cup {i}
    BY <2>1, <2>4 DEF Between, KindOf
  <2>6. \A j \in DOMAIN actions' \ (torn \cup {i}) : Agrees(actions', overrides', j)
    BY <2>1, <2>3 DEF Agrees
  <2>7. RecordsAgree'
    BY <2>5, <2>6 DEF RecordsAgree, Agrees
  <2> QED
    BY <2>1, <2>4, <2>7 DEF OverrideInv, CallsAgree, Executing
<1>8. CASE ReadPolicy(o)
  <2>1. /\ call[o].at = "execute" /\ actions[i].kind = "threshold"
        /\ UNCHANGED <<actions, overrides, torn>>
    BY <1>8 DEF ReadPolicy
  <2>2. call'[o].at = "replace" /\ call'[o].action = i
    BY <1>2, <1>8 DEF ReadPolicy, Calls
  <2> QED
    BY <2>1, <2>2 DEF OverrideInv, RecordsAgree, CallsAgree, Agrees, Between, Executing
<1>9. CASE ReplacePolicy(o)
  <2>1. /\ call[o].at = "replace" /\ actions[i].kind = "threshold"
        /\ UNCHANGED <<actions, overrides, torn>>
    BY <1>9 DEF ReplacePolicy, OverrideInv, CallsAgree
  <2>2. \/ call'[o].at = "record" /\ call'[o].action = i
        \/ call'[o] = Idle
    BY <1>2, <1>9 DEF ReplacePolicy, Calls
  <2> QED
    BY <2>1, <2>2, IdleType
    DEF OverrideInv, RecordsAgree, CallsAgree, Agrees, Between, KindOf, Executing
<1>10. CASE RecordExecution(o)
  <2>1. /\ call[o].at = "record" /\ actions[i].status = "running" /\ UNCHANGED overrides
        /\ call'[o] = Idle
    BY <1>2, <1>10 DEF RecordExecution, Persist, OverrideInv, CallsAgree, Executing
  <2>2. actions[i].kind = "override" => i \in overrides
    BY <2>1 DEF OverrideInv, CallsAgree
  <2>3. /\ i \in DOMAIN actions /\ DOMAIN actions' = DOMAIN actions
        /\ \A j \in DOMAIN actions \ {i} : actions'[j] = actions[j]
    BY <1>10, RecordEffect
  <2>4. ~ UNCHANGED actions
    <3>1. ~ actions[i].executed
      BY <2>1 DEF ExecInv, Executing
    <3>2. actions'[i].executed
      <4> DEFINE a == [actions[i] EXCEPT !.executed = TRUE, !.saved = call[o].policy]
      <4>1. actions \in Seq(Actions) /\ actions[i] \in Actions
        BY <2>3 DEF TypeInv, MemoryOK
      <4>2. actions' = [actions EXCEPT ![i] = a] /\ a.executed
        BY <1>10, <2>1, <4>1 DEF RecordExecution, Actions
      <4> HIDE DEF a
      <4> QED
        BY <2>3, <4>1, <4>2
    <3> QED
      BY <3>1, <3>2
  <2>5. /\ actions'[i].kind = actions[i].kind /\ actions'[i].status = "running"
        /\ actions'[i].executed
    BY <1>10, <2>4, RecordEffect
  <2>6. torn \subseteq torn' /\ Between(o)' = {} /\ Between(o) \subseteq {i}
    BY <1>10, <2>1, IdleType DEF RecordExecution, Persist, Between
  <2>7. \A j \in DOMAIN actions' \ (torn' \cup {i}) : Agrees(actions', overrides', j)
    BY <2>1, <2>3, <2>6 DEF OverrideInv, RecordsAgree, Agrees
  <2>8. i \notin torn' => Agrees(actions', overrides', i)
    <3>1. CASE actions[i].kind = "override"
      BY <2>1, <2>2, <2>5, <3>1 DEF Agrees
    <3>2. CASE actions[i].kind # "override"
      <4>1. Between(o) = {}
        BY <2>1, <3>2 DEF Between, KindOf
      <4>2. i \notin torn => i \notin overrides
        BY <2>3, <3>2, <4>1 DEF OverrideInv, RecordsAgree, Agrees
      <4> QED
        BY <2>1, <2>5, <2>6, <3>2, <4>2 DEF Agrees
    <3> QED
      BY <3>1, <3>2
  <2>9. RecordsAgree'
    BY <2>6, <2>7, <2>8 DEF RecordsAgree, Agrees
  <2> QED
    BY <2>1, <2>9, IdleType DEF CallsAgree, Executing
<1>11. ASSUME NEW j \in DOMAIN actions, ReadAction(o, j)
       PROVE  RecordsAgree' /\ CallsAgree'
  <2>1. /\ call[o].at = "idle" /\ UNCHANGED <<actions, overrides, torn>>
        /\ call'[o].at = "restore" /\ call'[o].action = j
        /\ call'[o].effect = EffectOf(j)
    BY <1>2, <1>11 DEF ReadAction, EffectOf
  <2> QED
    BY <2>1 DEF OverrideInv, RecordsAgree, CallsAgree, Agrees, Between, EffectOf, Executing
<1>12. CASE Restore(o)
  <2>1. /\ call[o].at = "restore" /\ UNCHANGED actions
        /\ overrides' = IF call[o].effect = "override" THEN overrides \ {i} ELSE overrides
    BY <1>12 DEF Restore, Revert
  <2>2. \/ /\ call'[o].at = "finish" /\ call'[o].action = i
           /\ call'[o].effect = call[o].effect /\ UNCHANGED torn
           /\ call[o].effect = "override" => snapshot' = Memory'
        \/ /\ call'[o].at = "idle" /\ torn' = torn \cup {i}
    BY <1>2, <1>12, IdleType DEF Restore, Persist, Saved, Calls
  <2>3. Between(o) = {}
    BY <2>1 DEF Between
  <2>4. \A j \in DOMAIN actions \ torn : Agrees(actions, overrides, j)
    BY <2>3 DEF OverrideInv, RecordsAgree
  <2>5. \A j \in DOMAIN actions' \ (torn' \cup Between(o)') : Agrees(actions', overrides', j)
    BY <2>1, <2>2, <2>4 DEF Agrees, Between
  <2>6. RecordsAgree'
    BY <2>5 DEF RecordsAgree, Agrees
  <2>7. snapshot' = Memory' => snapshot'.actions = actions' /\ snapshot'.overrides = overrides'
    BY DEF Memory
  <2>8. call[o].effect = EffectOf(i)
    BY <2>1 DEF OverrideInv, CallsAgree
  <2> QED
    BY <2>1, <2>2, <2>6, <2>7, <2>8 DEF CallsAgree, EffectOf, Executing
<1>13. CASE FinishRollback(o)
  <2>1. /\ call[o].at = "finish" /\ UNCHANGED overrides /\ call'[o] = Idle
        /\ i \in DOMAIN actions
    BY <1>2, <1>13 DEF FinishRollback, TypeInv, MemoryOK
  <2>2. /\ call[o].effect = EffectOf(i)
        /\ call[o].effect = "override" => i \notin overrides
    BY <2>1 DEF OverrideInv, CallsAgree
  <2>3. /\ Between(o)' = {} /\ Between(o) \subseteq {i}
        /\ call[o].effect # "override" => Between(o) = {}
        /\ torn \ {i} \subseteq torn'
        /\ call[o].effect # "override" => torn \subseteq torn'
    BY <1>13, <2>1, IdleType DEF FinishRollback, Between
  <2>4. \A j \in DOMAIN actions \ (torn' \cup {i}) : Agrees(actions, overrides, j)
    BY <2>3 DEF OverrideInv, RecordsAgree
  <2>5. i \notin torn' /\ call[o].effect # "override" => i \notin overrides
    <3>1. SUFFICES ASSUME i \notin torn', call[o].effect # "override"
                   PROVE  i \notin overrides
      OBVIOUS
    <3>2. Agrees(actions, overrides, i)
      BY <2>1, <2>3, <3>1 DEF OverrideInv, RecordsAgree
    <3> QED
      BY <2>2, <3>1, <3>2 DEF Agrees, EffectOf
  <2>6. CASE Revertible(i)
    <3>1. SetStatus(i, "rolled_back") /\ "rolled_back" \in Statuses
      BY <1>13, <2>6 DEF FinishRollback, Statuses
    <3>2. \A j \in DOMAIN actions' \ torn' : Agrees(actions', overrides', j)
      BY <2>1, <2>2, <2>4, <2>5, <3>1, StatusAgrees DEF Agrees
    <3> QED
      BY <2>1, <2>3, <3>2, IdleType DEF RecordsAgree, CallsAgree, Executing, Agrees
  <2>7. CASE ~ Revertible(i)
    <3>1. UNCHANGED <<actions, torn>>
      BY <1>13, <2>7 DEF FinishRollback
    <3>2. \A j \in DOMAIN actions' \ torn' : Agrees(actions', overrides', j)
      BY <2>1, <2>2, <2>4, <2>5, <2>7, <3>1 DEF Agrees, Revertible
    <3> QED
      BY <2>1, <2>3, <3>2, IdleType DEF RecordsAgree, CallsAgree, Executing, Agrees
  <2> QED
    BY <2>6, <2>7
<1>14. ASSUME NEW w \in Workloads, ActivateWorkload(o, w)
       PROVE  RecordsAgree' /\ CallsAgree'
  BY <1>14 DEF ActivateWorkload, OverrideInv, RecordsAgree, CallsAgree, Agrees, Between,
               KindOf, EffectOf, Executing
<1> QED
  BY <1>3, <1>4, <1>5, <1>6, <1>7, <1>8, <1>9, <1>10, <1>11, <1>12, <1>13, <1>14
  DEF Running, Operate

LEMMA StepSnapshotAgrees ==
  ASSUME OneOperator, TypeInv, ExecInv, OverrideInv, Running, RecordsAgree'
  PROVE  SnapshotAgrees'
<1>1. PICK o : Operators = {o}
  BY DEF OneOperator
<1>2. call \in [Operators -> Calls] /\ call[o] \in Calls
  BY <1>1 DEF TypeInv, MemoryOK
<1> USE <1>1
<1>3. CASE snapshot'.actions = actions' /\ snapshot'.overrides = overrides'
  BY <1>3 DEF RecordsAgree, SnapshotAgrees, Agrees
<1>4. CASE UNCHANGED snapshot /\ torn \cup Between(o) \subseteq torn' \cup Between(o)'
  BY <1>4 DEF OverrideInv, SnapshotAgrees, Agrees
<1>5. CASE UNCHANGED snapshot /\ call[o].at \in {"idle", "execute", "replace", "restore"}
  <2>1. Between(o) = {} /\ torn \subseteq torn'
    BY <1>5 DEF Between, Running, Operate, vars, DriftEvent, Reject, Approve,
                ExecuteOverride, ReadPolicy, ReplacePolicy, RecordExecution, ReadAction,
                Restore, FinishRollback, ActivateWorkload, Persist
  <2> QED
    BY <1>4, <1>5, <2>1
<1>6. CASE UNCHANGED snapshot /\ snapshot' # Memory' /\ RecordExecution(o)
  <2>1. torn' = torn \cup {call[o].action} /\ Between(o) \subseteq {call[o].action}
    BY <1>6 DEF RecordExecution, Persist, Saved, Between
  <2> QED
    BY <1>4, <1>6, <2>1
<1>7. CASE UNCHANGED snapshot /\ snapshot' # Memory' /\ FinishRollback(o)
  <2>1. CASE torn' = torn \cup {call[o].action}
    BY <1>4, <1>7, <2>1 DEF Between
  <2>2. CASE UNCHANGED <<actions, torn>>
    <3>1. call[o].at = "finish" /\ UNCHANGED overrides
      BY <1>7 DEF FinishRollback
    <3>2. CASE call[o].effect = "override"
      <4>1. snapshot.actions = actions /\ snapshot.overrides = overrides
        BY <3>1, <3>2 DEF OverrideInv, CallsAgree
      <4> QED
        BY <1>3, <1>7, <2>2, <3>1, <4>1
    <3>3. CASE call[o].effect # "override"
      BY <1>4, <1>7, <2>2, <3>1, <3>3 DEF Between
    <3> QED
      BY <3>2, <3>3
  <2> QED
    BY <1>7, <2>1, <2>2 DEF FinishRollback, Saved
<1>8. snapshot' = Memory' => snapshot'.actions = actions' /\ snapshot'.overrides = overrides'
  BY DEF Memory
<1>9. CASE UNCHANGED vars
  BY <1>9 DEF vars, OverrideInv, SnapshotAgrees, Agrees, Between, KindOf
<1>10. call[o].at \in Steps
  BY <1>2 DEF Calls
<1>11. CASE UNCHANGED snapshot /\ snapshot' # Memory' /\ call[o].at = "record"
  BY <1>6, <1>9, <1>11
  DEF Running, Operate, DriftEvent, Reject, Approve, ExecuteOverride, ReadPolicy,
      ReplacePolicy, ReadAction, Restore, FinishRollback, ActivateWorkload
<1>12. CASE UNCHANGED snapshot /\ snapshot' # Memory' /\ call[o].at = "finish"
  BY <1>7, <1>9, <1>12
  DEF Running, Operate, DriftEvent, Reject, Approve, ExecuteOverride, ReadPolicy,
      ReplacePolicy, RecordExecution, ReadAction, Restore, ActivateWorkload
<1> QED
  BY <1>3, <1>5, <1>8, <1>10, <1>11, <1>12, SavedOrNot DEF Steps

(* A restart in the middle of a request leaves its action marked.          *)
LEMMA RestartAgrees ==
  ASSUME OneOperator, OverrideInv, Restart
  PROVE  OverrideInv'
<1>1. PICK o : Operators = {o}
  BY DEF OneOperator
<1> USE <1>1
<1>2. /\ actions' = snapshot.actions /\ overrides' = snapshot.overrides
      /\ UNCHANGED snapshot
      /\ call'[o].at = "idle"
      /\ (torn \cup Between(o)) \cap DOMAIN snapshot.actions \subseteq torn'
  BY IdleType DEF Restart, Between
<1>3. Between(o)' = {}
  BY <1>2 DEF Between
<1>4. \A j \in DOMAIN snapshot.actions \ torn' :
        Agrees(snapshot.actions, snapshot.overrides, j)
  BY <1>2 DEF OverrideInv, SnapshotAgrees
<1> QED
  BY <1>2, <1>3, <1>4
  DEF OverrideInv, RecordsAgree, SnapshotAgrees, CallsAgree, Agrees, Executing

(* With one operator request at a time, between requests an override is in *)
(* force exactly for the running override actions that were executed, for  *)
(* whatever is approved, rejected, rolled back or refused in any order,    *)
(* whichever saves fail, and wherever the process restarts - but for the   *)
(* actions of which one of those stopped a request between the effect and  *)
(* its record.                                                             *)
THEOREM OverridesAreInForce ==
  ASSUME OneOperator
  PROVE  Spec => []OverridesInForce
<1>1. Init => OverrideInv
  <2> SUFFICES ASSUME Init PROVE OverrideInv
    OBVIOUS
  <2>1. /\ \A o \in Operators : call[o].at = "idle"
        /\ overrides = {} /\ snapshot.actions = actions /\ snapshot.overrides = {}
    BY IdleType DEF Init, Memory
  <2>2. \A j \in DOMAIN actions : ~ actions[j].executed
    BY SeedAssumption DEF Init
  <2> QED
    BY <2>1, <2>2
    DEF OverrideInv, RecordsAgree, SnapshotAgrees, CallsAgree, Agrees, Executing
<1>2. TypesInv /\ AllExec /\ OverrideInv /\ [Next]_vars => OverrideInv'
  BY NextIs, StepRecordsAgree, StepSnapshotAgrees, RestartAgrees
  DEF OverrideInv, TypesInv, AllExec
<1>3. OverrideInv => OverridesInForce
  BY DEF OneOperator, OverrideInv, RecordsAgree, Agrees, Between, OverridesInForce, AllIdle
<1> QED
  BY <1>1, <1>2, <1>3, InitTypes, StepTypes, InitAllExec, StepAllExec, PTL DEF Spec
=============================================================================
