--------------------------- MODULE HealingActions ---------------------------
(***************************************************************************)
(* Healing actions from the drift signal that proposes them to their       *)
(* approval, execution and rollback.  The control plane changes an         *)
(* action's record under its lock, in memory first, and then saves the     *)
(* whole of its state, which may fail; HealingExecutor changes the         *)
(* engine's policy and the manual-review overrides between those changes,  *)
(* so an approval and a rollback are each cut into the steps that another  *)
(* thread, an error or a crash can separate.                               *)
(*                                                                         *)
(* Drift events propose review overrides (critical) and threshold moves    *)
(* (warn).  The other effects of the executor belong to seeded actions     *)
(* past approval, which nothing can execute.  Thresholds are in hundredths.*)
(***************************************************************************)
EXTENDS Integers, Sequences

CONSTANTS Operators,    \* threads that serve console requests
          Monitors,     \* drift monitors
          Workloads,
          Review,       \* workload -> its review threshold
          Block,        \* workload -> its block threshold
          SeedActions,  \* the seeded healing actions
          Crashes,      \* may the process crash and restart?
          SavesFail,    \* may a save, or the event recorded after it, fail?
          MaxActions,   \* bound on the actions ever proposed
          None

Low  == 60              \* the band of a threshold move's execution plan
High == 70

ASSUME ThresholdAssumption ==
  /\ Review \in [Workloads -> 0 .. 100]
  /\ Block \in [Workloads -> 0 .. 100]
ASSUME FaultAssumption == Crashes \in BOOLEAN /\ SavesFail \in BOOLEAN
ASSUME BoundAssumption == MaxActions \in Nat
ASSUME NoneAssumption == None \notin Monitors

VARIABLES
  actions,    \* _healing: the actions, in the order they were proposed
  linked,     \* monitor -> its linked_action; 0 stands for None
  policy,     \* RuntimeEngine.policy
  overrides,  \* ids in manual_review_overrides
  snapshot,   \* actions, links and overrides as they were last saved
  call,       \* operator -> its approval or rollback under way
  torn        \* actions of which an approval or a rollback stopped between
              \* an effect and its record, in memory or in the snapshot (history)

vars == <<actions, linked, policy, overrides, snapshot, call, torn>>

-----------------------------------------------------------------------------
(* owner: the workload the thresholds come from; tags: the action ids      *)
(* appended to the version.                                                *)
Policies == [owner : Workloads, review : 0 .. 100, tags : Seq(Nat)]

NoPolicy == [owner |-> None, review |-> 0, tags |-> << >>]

FromWorkload(w) == [owner |-> w, review |-> Review[w], tags |-> << >>]

AnyThresholds(w, review) == TRUE         \* fault: nothing is refused

(* The DecisionPolicy constructor; an import takes any thresholds.         *)
Constructible(w, review) == review <= Block[w]

Buildable(w) == Constructible(w, Review[w])

Statuses == {"proposed", "running", "rejected", "completed", "rolled_back"}

(* executed: the record has an execution; saved: the policy it restores.   *)
Actions == [kind : {"override", "threshold", "other"},
            drift : Monitors \cup {None},
            target : {0} \cup (Low .. High),     \* 0: a delta of -1
            status : Statuses,
            executed : BOOLEAN,
            saved : Policies \cup {NoPolicy}]

Proposal(kind, m) == [kind |-> kind, drift |-> m, target |-> 0,
                      status |-> "proposed", executed |-> FALSE,
                      saved |-> NoPolicy]

(* As _seed_healing leaves them: nothing executed, nothing proposed that   *)
(* an approval could not execute, no monitor with two open actions.        *)
Open(a) == a.status \in {"proposed", "running"}

ASSUME SeedAssumption ==
  /\ SeedActions \in Seq(Actions)
  /\ \A i \in DOMAIN SeedActions :
       /\ ~ SeedActions[i].executed
       /\ SeedActions[i].saved = NoPolicy
       /\ SeedActions[i].kind = "other"
            => SeedActions[i].status # "proposed" /\ SeedActions[i].drift = None
       /\ SeedActions[i].kind # "other" => SeedActions[i].status = "proposed"
  /\ \A i, j \in DOMAIN SeedActions :
       SeedActions[i].drift = SeedActions[j].drift /\ SeedActions[i].drift # None
         => i = j

Steps == {"idle", "execute", "replace", "record", "restore", "finish"}

Calls == [at : Steps, action : Nat, effect : {"none", "override", "threshold"},
          policy : Policies \cup {NoPolicy}]

Idle == [at |-> "idle", action |-> 0, effect |-> "none", policy |-> NoPolicy]

Memory == [actions |-> actions, linked |-> linked, overrides |-> overrides]

TypeOK == /\ actions \in Seq(Actions)
          /\ linked \in [Monitors -> {0} \cup DOMAIN actions]
          /\ policy \in Policies
          /\ overrides \subseteq DOMAIN actions
          /\ snapshot \in [actions : Seq(Actions), linked : [Monitors -> Nat],
                           overrides : SUBSET Nat]
          /\ torn \subseteq DOMAIN actions
          /\ call \in [Operators -> Calls]
          /\ \A o \in Operators :
               call[o].at # "idle" => call[o].action \in DOMAIN actions

(* The action seeded for a monitor, if any. *)
SeedLink(m) == LET S == {i \in DOMAIN SeedActions : SeedActions[i].drift = m}
               IN IF S = {} THEN 0 ELSE CHOOSE i \in S : TRUE

Init == /\ actions = SeedActions
        /\ linked = [m \in Monitors |-> SeedLink(m)]
        /\ \E w \in Workloads : Buildable(w) /\ policy = FromWorkload(w)
        /\ overrides = {}
        /\ snapshot = Memory
        /\ torn = {}
        /\ call = [o \in Operators |-> Idle]

-----------------------------------------------------------------------------
(* _persist: the state in memory becomes the snapshot, or the exception    *)
(* ends the request and the change stays in memory alone.                  *)
Saved == snapshot' = Memory'

SaveFails == SavesFail /\ UNCHANGED snapshot

Persist(o, k) == \/ /\ Saved
                    /\ call' = [call EXCEPT ![o] = k]
                    /\ UNCHANGED torn
                 \/ /\ SaveFails
                    /\ call' = [call EXCEPT ![o] = Idle]
                    /\ torn' = torn \cup {call[o].action}

-----------------------------------------------------------------------------
(* record_drift_event, under the control plane's lock. *)

OpenFor(m) == {i \in DOMAIN actions : actions[i].drift = m /\ Open(actions[i])}

ProposedFor(m) ==                        \* fault: running actions overlooked
  {i \in DOMAIN actions : actions[i].drift = m /\ actions[i].status = "proposed"}

ExistingActions(m) == OpenFor(m)

LinkNothing(m, i) == linked              \* fault: linked_action not updated

Link(m, i) == [linked EXCEPT ![m] = i]

DriftEvent(o, m, severity) ==
  /\ call[o].at = "idle"
  /\ \/ /\ severity \in {"critical", "warn"}
        /\ ExistingActions(m) = {}
        /\ Len(actions) < MaxActions
        /\ actions' = Append(actions,
             Proposal(IF severity = "critical" THEN "override" ELSE "threshold", m))
        /\ linked' = Link(m, Len(actions) + 1)
     \/ /\ \E i \in ExistingActions(m) : linked' = Link(m, i)
        /\ UNCHANGED actions
     \/ /\ severity \in {"watch", "stable"}
        /\ ExistingActions(m) = {}
        /\ UNCHANGED <<actions, linked>>
  /\ UNCHANGED <<policy, overrides, call, torn>>
  /\ Saved \/ SaveFails

-----------------------------------------------------------------------------
(* decide_action. *)

SetStatus(i, s) == actions' = [actions EXCEPT ![i].status = s]

AnyOpen(i) == Open(actions[i])           \* fault: approved again while running

Decidable(i) == actions[i].status = "proposed"

Reject(o, i) == /\ call[o].at = "idle"
                /\ Decidable(i)
                /\ SetStatus(i, "rejected")
                /\ UNCHANGED <<linked, policy, overrides, call, torn>>
                /\ Saved \/ SaveFails

ApproveUnrecorded(o, i) ==               \* fault: executed while proposed
  /\ call[o].at = "idle"
  /\ Decidable(i)
  /\ call' = [call EXCEPT ![o] = [Idle EXCEPT !.at = "execute", !.action = i]]
  /\ UNCHANGED <<actions, linked, policy, overrides, snapshot, torn>>

(* When the save fails, or after it the record of the event, nothing is    *)
(* executed; the action stays approved, in memory or in the snapshot too.  *)
Approve(o, i) == /\ call[o].at = "idle"
                 /\ Decidable(i)
                 /\ SetStatus(i, "running")
                 /\ UNCHANGED <<linked, policy, overrides, torn>>
                 /\ \/ /\ Saved
                       /\ call' = [call EXCEPT ![o] = [Idle EXCEPT !.at = "execute",
                                                                   !.action = i]]
                    \/ /\ SaveFails \/ (SavesFail /\ Saved)
                       /\ UNCHANGED call

-----------------------------------------------------------------------------
(* HealingExecutor.execute, after the approval. *)

(* set_manual_review_override: when its save fails the override stays in   *)
(* memory, and the execution is never recorded.                            *)
ExecuteOverride(o) ==
  LET i == call[o].action
  IN /\ call[o].at = "execute"
     /\ actions[i].kind = "override"
     /\ overrides' = overrides \cup {i}
     /\ UNCHANGED <<actions, linked, policy>>
     /\ Persist(o, [call[o] EXCEPT !.at = "record"])

ReadPolicy(o) ==
  /\ call[o].at = "execute"
  /\ actions[call[o].action].kind = "threshold"
  /\ call' = [call EXCEPT ![o].at = "replace", ![o].policy = policy]
  /\ UNCHANGED <<actions, linked, policy, overrides, snapshot, torn>>

Unclamped(before, i) ==                  \* fault: the plan's bounds are ignored
  IF actions[i].target # 0 THEN actions[i].target
  ELSE IF before.review > 0 THEN before.review - 1 ELSE 0

Clamp(x) == IF x < Low THEN Low ELSE IF x > High THEN High ELSE x

Target(before, i) ==
  Clamp(IF actions[i].target # 0 THEN actions[i].target ELSE before.review - 1)

ReplaceCurrent(o) ==                     \* fault: the rest of the policy is read again
  LET i == call[o].action
      t == Target(call[o].policy, i)
  IN /\ call[o].at = "replace"
     /\ Constructible(call[o].policy.owner, t)
     /\ policy' = [policy EXCEPT !.review = t, !.tags = Append(policy.tags, i)]
     /\ call' = [call EXCEPT ![o].at = "record"]
     /\ UNCHANGED <<actions, linked, overrides, snapshot, torn>>

(* The DecisionPolicy constructor raises when the target lies above the    *)
(* block threshold: the approval fails and the action stays running.       *)
ReplacePolicy(o) ==
  LET i == call[o].action
      before == call[o].policy
      t == Target(before, i)
  IN /\ call[o].at = "replace"
     /\ \/ /\ Constructible(before.owner, t)
           /\ policy' = [before EXCEPT !.review = t,
                                       !.tags = Append(before.tags, i)]
           /\ call' = [call EXCEPT ![o].at = "record"]
        \/ /\ ~ Constructible(before.owner, t)
           /\ call' = [call EXCEPT ![o] = Idle]
           /\ UNCHANGED policy
     /\ UNCHANGED <<actions, linked, overrides, snapshot, torn>>

RecordWithoutSaved(o) ==                 \* fault: nothing to roll back to
  LET i == call[o].action
  IN /\ call[o].at = "record"
     /\ actions' = [actions EXCEPT ![i].executed = TRUE]
     /\ UNCHANGED <<linked, policy, overrides>>
     /\ Persist(o, Idle)

(* apply_healing_execution refuses an action rolled back in the meantime;  *)
(* the effect stays.                                                       *)
RecordExecution(o) ==
  LET i == call[o].action
  IN /\ call[o].at = "record"
     /\ UNCHANGED <<linked, policy, overrides>>
     /\ \/ /\ actions[i].status = "running"
           /\ actions' = [actions EXCEPT ![i].executed = TRUE,
                                         ![i].saved = call[o].policy]
           /\ Persist(o, Idle)
        \/ /\ actions[i].status # "running"
           /\ call' = [call EXCEPT ![o] = Idle]
           /\ torn' = torn \cup {i}
           /\ UNCHANGED <<actions, snapshot>>

-----------------------------------------------------------------------------
(* HealingExecutor.rollback: read the action, revert the effect it         *)
(* recorded, and only then ask the control plane, which checks the status. *)

ReadAction(o, i) ==
  LET a == actions[i]
  IN /\ call[o].at = "idle"
     /\ call' = [call EXCEPT
          ![o] = [at |-> "restore", action |-> i, policy |-> a.saved,
                  effect |-> IF a.executed THEN a.kind ELSE "none"]]
     /\ UNCHANGED <<actions, linked, policy, overrides, snapshot, torn>>

RestoreNothing(o) ==                     \* fault: the effect is not reverted
  UNCHANGED <<policy, overrides>>

Revert(o) == /\ policy' = IF call[o].effect = "threshold"
                          THEN call[o].policy ELSE policy
             /\ overrides' = IF call[o].effect = "override"
                             THEN overrides \ {call[o].action} ELSE overrides

(* Only the override has a save of its own.                                *)
Restore(o) ==
  LET next == [call[o] EXCEPT !.at = "finish"]
  IN /\ call[o].at = "restore"
     /\ Revert(o)
     /\ UNCHANGED <<actions, linked>>
     /\ IF call[o].effect = "override" THEN Persist(o, next)
        ELSE /\ call' = [call EXCEPT ![o] = next]
             /\ UNCHANGED <<snapshot, torn>>

Revertible(i) == actions[i].status \in {"running", "completed"}

(* Recorded and saved, a rollback that reverted the override mends what an *)
(* earlier request on the action had torn.                                 *)
FinishRollback(o) ==
  LET i == call[o].action
  IN /\ call[o].at = "finish"
     /\ UNCHANGED <<linked, policy, overrides>>
     /\ call' = [call EXCEPT ![o] = Idle]
     /\ \/ /\ Revertible(i)
           /\ SetStatus(i, "rolled_back")
           /\ \/ /\ Saved
                 /\ torn' = IF call[o].effect = "override" THEN torn \ {i} ELSE torn
              \/ SaveFails /\ torn' = torn \cup {i}
        \/ ~ Revertible(i) /\ UNCHANGED <<actions, snapshot, torn>>

-----------------------------------------------------------------------------
(* Thresholds that DecisionPolicy refuses leave the policy in force.       *)
ActivateWorkload(o, w) ==
  /\ call[o].at = "idle"
  /\ policy' = IF Buildable(w) THEN FromWorkload(w) ELSE policy
  /\ UNCHANGED <<actions, linked, overrides, snapshot, call, torn>>

(* A restart loads the snapshot, and builds the policy of the workload the *)
(* config names anew; it does not start when that is refused.              *)
Restart ==
  LET cut == {o \in Operators : call[o].at \in {"record", "finish"}}
  IN /\ Crashes
     /\ actions' = snapshot.actions
     /\ linked' = snapshot.linked
     /\ overrides' = snapshot.overrides
     /\ \E w \in Workloads : Buildable(w) /\ policy' = FromWorkload(w)
     /\ torn' = (torn \cup {call[o].action : o \in cut}) \cap DOMAIN snapshot.actions
     /\ call' = [o \in Operators |-> Idle]
     /\ UNCHANGED snapshot

Operate(o) == \/ \E m \in Monitors, s \in {"critical", "warn", "watch", "stable"} :
                   DriftEvent(o, m, s)
              \/ \E i \in DOMAIN actions : \/ Reject(o, i)
                                           \/ Approve(o, i)
                                           \/ ReadAction(o, i)
              \/ ExecuteOverride(o)
              \/ ReadPolicy(o)
              \/ ReplacePolicy(o)
              \/ RecordExecution(o)
              \/ Restore(o)
              \/ FinishRollback(o)
              \/ \E w \in Workloads : ActivateWorkload(o, w)

Next == Restart \/ \E o \in Operators : Operate(o)

Spec == Init /\ [][Next]_vars

-----------------------------------------------------------------------------
(* Properties of any number of operator threads, crashes included. *)

(* A monitor has at most one open action, however many signals arrive      *)
(* while its actions are decided, executed and rolled back.                *)
OneOpenAction == \A m \in Monitors : \A i, j \in OpenFor(m) : i = j

(* The monitor's linked_action is the open one, and always one of its own. *)
OpenIsLinked ==
  \A m \in Monitors :
    /\ \A i \in OpenFor(m) : linked[m] = i
    /\ linked[m] # 0 => actions[linked[m]].drift = m

(* An action is a proposal until it is approved: neither the policy in     *)
(* force nor an override comes from an action that is undecided or was     *)
(* rejected.                                                               *)
Tags(q) == {q.tags[k] : k \in DOMAIN q.tags}

NoEffectWithoutApproval ==
  \A i \in overrides \cup Tags(policy) :
    actions[i].status \in {"running", "rolled_back"}

(* What an action recorded at its execution, the state a rollback returns  *)
(* to included, is never overwritten: what has been saved stays, through   *)
(* failing saves and crashes too, and only a restart takes back what has   *)
(* not.                                                                    *)
Keeps(before, after) ==
  \A i \in DOMAIN before : before[i].executed =>
    i \in DOMAIN after /\ after[i].executed /\ after[i].saved = before[i].saved

ExecutedOnce ==
  [][/\ Keeps(snapshot.actions, snapshot'.actions)
     /\ Keeps(actions, actions') \/ actions' = snapshot.actions]_vars

(* A threshold that healing moved lies in the policy-defined band, and the *)
(* review threshold never exceeds the block threshold it is used with,     *)
(* through moves and rollbacks in any order, activations between their     *)
(* steps, and workloads that review or block outside the band.             *)
PolicyWithinBounds ==
  /\ policy.tags # << >> => policy.review \in Low .. High
  /\ policy.review <= Block[policy.owner]

-----------------------------------------------------------------------------
(* Properties of one operator. *)

AllIdle == \A o \in Operators : call[o].at = "idle"

(* Between requests an override is in force exactly for the running        *)
(* override actions that were executed, never for one rolled back, after   *)
(* any failing saves and restarts - but for the actions of which one       *)
(* stopped a request between the effect and its record.                    *)
OverridesInForce ==
  AllIdle => \A i \in DOMAIN actions \ torn :
               i \in overrides <=> /\ actions[i].kind = "override"
                                   /\ actions[i].status = "running"
                                   /\ actions[i].executed

-----------------------------------------------------------------------------
(* What a comment says, and the code refutes. *)

(* Every operator action that changes state is recorded                    *)
(* (control_plane.py, module comment): a rollback that will be refused,    *)
(* and so recorded nowhere, changes nothing.                               *)
RefusedRollbackHarmless ==
  [][\A o \in Operators :
       call[o].at = "restore" /\ call'[o].at = "finish"
         /\ ~ Revertible(call[o].action)
       => UNCHANGED <<policy, overrides>>]_vars
=============================================================================
