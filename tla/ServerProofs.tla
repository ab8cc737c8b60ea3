---------------------------- MODULE ServerProofs ----------------------------
(***************************************************************************)
(* Theorems about ScoringEngine as the shipped server runs it: over        *)
(* SQLite, one call at a time.  The hash chain verifies, a degraded event  *)
(* marks a gap in the audit sink, a decision is taken under a policy of    *)
(* its own workload, and the engine implements IdempotentService.          *)
(***************************************************************************)
EXTENDS ScoringProofs

OneCaller == \A c, d \in Callers : c = d

-----------------------------------------------------------------------------
(* The newest event of a set. *)

LEMMA HeadOfMore ==
  ASSUME Backend = "sqlite", NEW S \in SUBSET Events, NEW e \in Events,
         \A o \in S : o.id < e.id
  PROVE  HeadOf(S \cup {e}) = e.id
<1> DEFINE T == S \cup {e}
<1>1. e.id \in Nat /\ \A o \in T : Key(o) = o.id /\ o.id \in Nat
  BY DEF Key, Events
<1>2. T \in SUBSET Events /\ T # {} /\ \A o \in T : Key(o) <= e.id
  BY <1>1
<1>3. Newest(T) \in T /\ \A o \in T : Key(o) <= Key(Newest(T))
  <2> HIDE DEF T
  <2> QED BY <1>1, <1>2, NewestIsNewest
<1>4. Newest(T) = e
  BY <1>1, <1>3
<1> QED BY <1>2, <1>4 DEF HeadOf

(* What the head of a nonempty set is, and that it bounds the set. *)
LEMMA HeadBounds ==
  ASSUME Backend = "sqlite", NEW n \in Nat, NEW S \in SUBSET Events,
         \A o \in S : o.id <= n
  PROVE  /\ S = {} <=> HeadOf(S) = None
         /\ S # {} => /\ HeadOf(S) \in Nat
                      /\ \E o \in S : HeadOf(S) = o.id
                      /\ \A o \in S : o.id <= HeadOf(S)
<1>1. \A o \in S : Key(o) = o.id /\ o.id \in Nat
  BY DEF Key, Events
<1>2. S # {} => /\ Newest(S) \in S
                /\ \A o \in S : Key(o) <= Key(Newest(S))
  BY <1>1, NewestIsNewest
<1> QED BY <1>1, <1>2, NoneAssumption DEF HeadOf

-----------------------------------------------------------------------------
(* One call at a time.  Nothing is decided while a call is under way but   *)
(* what it decides itself, and its event is newer than all there are.      *)

Alone(c) ==
  LET k == call[c]
  IN /\ k.at \notin {"idle", "append"} => idempotency_keys[k.request.txn] = None
     /\ k.at = "append" =>
          /\ idempotency_keys[k.request.txn] =
               [fingerprint |-> k.fingerprint, response |-> ResponseOf(c)]
          /\ k.id = LatestHash
     /\ k.at \in {"head", "insert"} => \A e \in decision_events : e.id < k.id
     /\ k.at \in {"head", "insert", "append"} => k.id \notin audit_log
     /\ k.at = "insert" => k.previous_hash = LatestHash

AloneInv == /\ \A c \in Callers : Alone(c)
            /\ \A i \in audit_log : i <= clock

LEMMA SameHead ==
  ASSUME decision_events' = decision_events
  PROVE  LatestHash' = LatestHash
BY DEF LatestHash

(* The insert of the only caller: the transaction was undecided, and the   *)
(* new event becomes the head of the chain.                                *)
LEMMA AloneInsert ==
  ASSUME Backend = "sqlite", StoreInv, AloneInv, NEW c \in Callers, Inserted(c)
  PROVE  /\ EventOf(c) \in Events
         /\ EventOf(c).previous_hash = LatestHash
         /\ \A e \in decision_events : e.id < EventOf(c).id
         /\ LatestHash' = EventOf(c).id
<1>1. /\ TypeOK /\ call[c] \in Calls /\ Filled(call[c]) /\ call[c].at = "insert"
  BY DEF StoreInv, TypeOK, Inserted
<1>2. EventOf(c) \in Events
  BY <1>1, EventType
<1>3. /\ EventOf(c).previous_hash = LatestHash
      /\ \A e \in decision_events : e.id < EventOf(c).id
  BY <1>1 DEF AloneInv, Alone, EventOf
<1>4. decision_events \in SUBSET Events
  BY <1>1 DEF TypeOK
<1>5. HeadOf(decision_events \cup {EventOf(c)}) = EventOf(c).id
  <2> HIDE DEF EventOf
  <2> QED BY <1>2, <1>3, <1>4, HeadOfMore
<1> QED BY <1>2, <1>3, <1>5 DEF Inserted, LatestHash

(* A step that changes only calls, and the only call as k describes.       *)
LEMMA AloneKept ==
  ASSUME OneCaller, AloneInv, NEW c \in Callers,
         UNCHANGED <<storeVars, audit_log>>, clock' >= clock, clock \in Nat,
         clock' \in Nat, \A i \in audit_log : i \in Nat, Alone(c)'
  PROVE  AloneInv'
<1>1. \A i \in audit_log' : i <= clock'
  BY DEF AloneInv
<1> QED BY <1>1 DEF AloneInv, OneCaller

LEMMA AloneScore ==
  ASSUME Backend = "sqlite", OneCaller, StoreInv, AloneInv, NEW c \in Callers, Score(c)
  PROVE  AloneInv'
<1>0. /\ TypeOK /\ Bounded /\ call[c] \in Calls /\ Filled(call[c])
      /\ clock \in Nat /\ audit_log \subseteq Nat /\ call \in [Callers -> Calls]
  BY DEF StoreInv, TypeOK
<1>1. ASSUME NEW r \in Requests, Lookup(c, r)
      PROVE  AloneInv'
  <2>1. UNCHANGED <<storeVars, audit_log, clock>>
    BY <1>1 DEF Lookup
  <2>2. CASE UNCHANGED call
    <3>1. Alone(c)'
      BY <2>1, <2>2, SameHead DEF AloneInv, Alone, storeVars, ResponseOf
    <3> QED BY <1>0, <2>1, <3>1, AloneKept
  <2>3. CASE idempotency_keys[r.txn] = None /\ call'[c].at = "predict" /\ call'[c].request = r
    <3>1. Alone(c)'
      BY <2>1, <2>3 DEF Alone, storeVars
    <3> QED BY <1>0, <2>1, <3>1, AloneKept
  <2> QED BY <1>0, <1>1, <2>2, <2>3 DEF Lookup, Idle
<1>2. CASE Predict(c) \/ SelectPolicy(c) \/ EvaluatePolicy(c)
  <2>1. /\ UNCHANGED <<storeVars, audit_log, clock>>
        /\ call[c].at \in {"predict", "select", "evaluate"}
        /\ call'[c].at \in {"select", "evaluate", "build"}
        /\ call'[c].request = call[c].request
    BY <1>0, <1>2 DEF Predict, SelectPolicy, EvaluatePolicy, Calls
  <2>2. Alone(c)'
    BY <2>1 DEF AloneInv, Alone, storeVars
  <2> QED BY <1>0, <2>1, <2>2, AloneKept
<1>7. CASE EvaluateRefused(c)
  <2>1. UNCHANGED <<storeVars, audit_log, clock>> /\ call'[c].at = "idle"
    BY <1>0, <1>7 DEF EvaluateRefused, Idle
  <2>2. Alone(c)'
    BY <2>1 DEF Alone
  <2> QED BY <1>0, <2>1, <2>2, AloneKept
<1>3. CASE BuildEvent(c)
  <2>1. /\ UNCHANGED <<storeVars, audit_log>> /\ clock' = clock + 1
        /\ call[c].at = "build" /\ call'[c].at = "head"
        /\ call'[c].request = call[c].request /\ call'[c].id = clock + 1
    BY <1>0, <1>3 DEF BuildEvent, Calls
  <2>2. /\ \A e \in decision_events : e.id < clock + 1
        /\ clock + 1 \notin audit_log
    BY <1>0 DEF Bounded, TypeOK, Events, AloneInv
  <2>3. Alone(c)'
    BY <2>1, <2>2 DEF AloneInv, Alone, storeVars
  <2> QED BY <1>0, <2>1, <2>3, AloneKept
<1>4. CASE ReadHead(c)
  <2>1. /\ UNCHANGED <<storeVars, audit_log, clock>>
        /\ call[c].at = "head" /\ call'[c].at = "insert"
        /\ call'[c].request = call[c].request /\ call'[c].id = call[c].id
        /\ call'[c].previous_hash = LatestHash
    BY <1>0, <1>4 DEF ReadHead, Calls
  <2>2. Alone(c)'
    BY <2>1, SameHead DEF AloneInv, Alone, storeVars
  <2>3. /\ UNCHANGED <<storeVars, audit_log>> /\ clock' >= clock
        /\ clock' \in Nat /\ \A i \in audit_log : i \in Nat
    BY <1>0, <2>1
  <2> QED BY <1>0, <2>2, <2>3, AloneKept
<1>5. CASE Insert(c)
  <2>1. CASE Inserted(c)
    <3>1. /\ LatestHash' = call[c].id
          /\ call[c].request.txn \in Txns
      BY <2>1, <1>0, AloneInsert, EventType DEF EventOf, Inserted
    <3>2. /\ call'[c].at = "append" /\ call'[c].id = call[c].id
          /\ call'[c].request = call[c].request
          /\ call'[c].fingerprint = call[c].fingerprint
          /\ ResponseOf(c)' = ResponseOf(c)
      BY <1>0, <2>1 DEF Inserted, Calls, ResponseOf
    <3>3. idempotency_keys'[call[c].request.txn] =
             [fingerprint |-> call[c].fingerprint, response |-> ResponseOf(c)]
      BY <1>0, <2>1, <3>1 DEF Inserted, Upsert, TypeOK
    <3>4. call[c].id \notin audit_log /\ audit_log' = audit_log /\ clock' = clock
      BY <1>5 DEF Insert, AloneInv, Alone
    <3>5. Alone(c)'
      BY <3>1, <3>2, <3>3, <3>4 DEF Alone
    <3>6. \A i \in audit_log' : i <= clock'
      BY <3>4 DEF AloneInv
    <3> QED BY <3>5, <3>6 DEF AloneInv, OneCaller
  <2>2. CASE call' = Abandon(c) /\ UNCHANGED <<storeVars, audit_log, clock>>
    <3>1. call'[c].at = "idle"
      BY <1>0, <2>2 DEF Abandon, Idle
    <3>2. Alone(c)'
      BY <3>1 DEF Alone
    <3> QED BY <1>0, <2>2, <3>2, AloneKept
  <2> QED BY <1>5, <2>1, <2>2 DEF Insert, Inserted, Truncate
<1>6. CASE AppendAudit(c)
  <2>1. /\ call'[c].at = "idle" /\ clock' = clock
        /\ audit_log' \subseteq audit_log \cup {call[c].id}
    BY <1>0, <1>6 DEF AppendAudit, Idle
  <2>2. \A i \in audit_log' : i <= clock'
    BY <1>0, <2>1 DEF AloneInv, Bounded
  <2>3. Alone(c)'
    BY <2>1 DEF Alone
  <2> QED BY <2>2, <2>3 DEF AloneInv, OneCaller
<1> QED BY <1>1, <1>2, <1>3, <1>4, <1>5, <1>6, <1>7 DEF Score

LEMMA AloneStep ==
  ASSUME Backend = "sqlite", OneCaller, StoreInv, AloneInv, [Next]_vars
  PROVE  AloneInv'
<1>1. ASSUME NEW c \in Callers, Score(c)
      PROVE  AloneInv'
  BY <1>1, AloneScore
<1>2. ASSUME NEW p \in Processes, Operate(p)
      PROVE  AloneInv'
  <2>1. /\ UNCHANGED <<storeVars, audit_log, clock>>
        /\ \A c \in Callers : call'[c] = call[c] \/ call'[c] = Idle
    BY <1>2 DEF Operate, ActivateBegin, ActivateEnd, ReplacePolicy, MovePolicy,
         RestorePolicy, ImportWorkload, ChangeChampion,
                Restart
  <2>2. ASSUME NEW c \in Callers
        PROVE  Alone(c)'
    <3>1. CASE call'[c] = call[c]
      BY <2>1, <3>1, SameHead DEF AloneInv, Alone, storeVars, ResponseOf
    <3>2. CASE call'[c] = Idle
      BY <3>2 DEF Alone, Idle
    <3> QED BY <2>1, <3>1, <3>2
  <2> QED BY <2>1, <2>2 DEF AloneInv
<1>3. CASE UNCHANGED vars
  <2>1. UNCHANGED <<storeVars, audit_log, clock, call>>
    BY <1>3 DEF vars, storeVars
  <2> QED BY <2>1, SameHead DEF AloneInv, Alone, storeVars, ResponseOf
<1> QED BY <1>1, <1>2, <1>3 DEF Next

LEMMA AloneInvariant ==
  ASSUME Backend = "sqlite", OneCaller
  PROVE  Spec => [](StoreInv /\ AloneInv)
<1>1. Init => AloneInv
  BY DEF Init, AloneInv, Alone, Idle
<1>2. StoreInv /\ AloneInv /\ [Next]_vars => AloneInv'
  BY AloneStep
<1> QED BY <1>1, <1>2, StoreInvariant, PTL DEF Spec

-----------------------------------------------------------------------------
(* The hash chain. *)

(* An insert leaves what lies below the older events, and all of them lie  *)
(* below the new one.                                                      *)
LEMMA BelowAfterInsert ==
  ASSUME Backend = "sqlite", StoreInv, AloneInv, NEW c \in Callers, Inserted(c)
  PROVE  /\ \A e \in decision_events :
              {o \in decision_events' : Key(o) < Key(e)}
                = {o \in decision_events : Key(o) < Key(e)}
         /\ {o \in decision_events' : Key(o) < Key(EventOf(c))} = decision_events
<1> DEFINE new == EventOf(c)
<1>1. /\ new \in Events
      /\ \A e \in decision_events : e.id < new.id
      /\ decision_events' = decision_events \cup {new}
  BY AloneInsert DEF Inserted
<1>2. \A e \in decision_events' : Key(e) = e.id /\ e.id \in Nat
  BY <1>1 DEF StoreInv, TypeOK, Events, Key
<1> HIDE DEF new
<1>3. \A e \in decision_events : ~ (new.id < e.id) /\ new.id # e.id
  BY <1>1, <1>2
<1>4. \A e \in decision_events :
        {o \in decision_events' : Key(o) < Key(e)}
          = {o \in decision_events : Key(o) < Key(e)}
  BY <1>1, <1>2, <1>3
<1>5. {o \in decision_events' : Key(o) < Key(new)} = decision_events
  BY <1>1, <1>2
<1> QED BY <1>4, <1>5 DEF new

LEMMA ChainStep ==
  ASSUME Backend = "sqlite", OneCaller, StoreInv, AloneInv, ChainIntact, [Next]_vars
  PROVE  ChainIntact'
<1>1. CASE UNCHANGED storeVars
  BY <1>1 DEF ChainIntact, storeVars
<1>2. ASSUME NEW c \in Callers, Inserted(c)
      PROVE  ChainIntact'
  <2>1. decision_events' = decision_events \cup {EventOf(c)}
    BY <1>2 DEF Inserted
  <2>2. EventOf(c).previous_hash = HeadOf(decision_events)
    BY <1>2, AloneInsert DEF LatestHash
  <2>3. ASSUME NEW e \in decision_events'
        PROVE  e.previous_hash = HeadOf({o \in decision_events' : Key(o) < Key(e)})
    <3>1. CASE e \in decision_events
      BY <1>2, <3>1, BelowAfterInsert DEF ChainIntact
    <3>2. CASE e = EventOf(c)
      BY <1>2, <3>2, <2>2, BelowAfterInsert
    <3> QED BY <2>1, <3>1, <3>2
  <2> QED BY <2>3 DEF ChainIntact
<1> QED BY <1>1, <1>2, SqlStep

(* The decision chain of the shipped server verifies: every event carries  *)
(* the hash of the event listed just before it, through failing inserts,   *)
(* failing audit appends, activations and restarts.                        *)
THEOREM ChainVerifies ==
  ASSUME Backend = "sqlite", OneCaller
  PROVE  Spec => []ChainIntact
<1>1. Init => ChainIntact
  BY DEF Init, ChainIntact
<1>2. StoreInv /\ AloneInv /\ ChainIntact /\ [Next]_vars => ChainIntact'
  BY ChainStep
<1> QED BY <1>1, <1>2, AloneInvariant, PTL DEF Spec

-----------------------------------------------------------------------------
(* Degraded events. *)

Gap == LatestHash # None /\ LatestHash \notin audit_log

(* Between calls, and until the insert, a remembered sink failure means    *)
(* that the sink misses the newest event; a call carries that along.       *)
GapInv ==
  \A c \in Callers :
    /\ audit_error[ProcessOf[c]] /\ call[c].at # "append" => Gap
    /\ call[c].degraded /\ call[c].at \in {"head", "insert"} => Gap

LEMMA GapStep ==
  ASSUME Backend = "sqlite", OneCaller, StoreInv, AloneInv, GapInv, [Next]_vars
  PROVE  GapInv'
<1>0. /\ TypeOK /\ call \in [Callers -> Calls]
      /\ audit_error \in [Processes -> BOOLEAN]
      /\ \A c \in Callers : ProcessOf[c] \in Processes /\ call[c] \in Calls
  BY ProcessAssumption DEF StoreInv, TypeOK
<1> SUFFICES ASSUME NEW c \in Callers
             PROVE  /\ audit_error'[ProcessOf[c]] /\ call'[c].at # "append" => Gap'
                    /\ call'[c].degraded /\ call'[c].at \in {"head", "insert"} => Gap'
  BY DEF GapInv
<1> DEFINE Same == UNCHANGED <<decision_events, audit_log>>
<1>1. Same => (Gap' <=> Gap)
  BY SameHead DEF Gap
<1>2. ASSUME Same, audit_error'[ProcessOf[c]] => audit_error[ProcessOf[c]],
             call[c].at # "append",
             call'[c].at \in {"head", "insert"} /\ call'[c].degraded
               => \/ audit_error[ProcessOf[c]]
                  \/ call[c].at \in {"head", "insert"} /\ call[c].degraded
      PROVE  /\ audit_error'[ProcessOf[c]] /\ call'[c].at # "append" => Gap'
             /\ call'[c].degraded /\ call'[c].at \in {"head", "insert"} => Gap'
  BY <1>1, <1>2 DEF GapInv
<1>3. CASE Score(c)
  <2>1. CASE \E r \in Requests : Lookup(c, r)
    BY <1>0, <1>2, <2>1 DEF Lookup, storeVars, Idle
  <2>2. CASE Predict(c) \/ SelectPolicy(c) \/ EvaluatePolicy(c)
    <3>1. /\ Same /\ audit_error' = audit_error
          /\ call[c].at \in {"predict", "select", "evaluate"}
          /\ call'[c].at \in {"select", "evaluate", "build"}
      BY <1>0, <2>2 DEF Predict, SelectPolicy, EvaluatePolicy, storeVars, Calls
    <3> QED BY <1>2, <3>1
  <2>7. CASE EvaluateRefused(c)
    <3>1. /\ Same /\ audit_error' = audit_error /\ call[c].at = "evaluate"
          /\ call'[c].at = "idle"
      BY <1>0, <2>7 DEF EvaluateRefused, Idle, storeVars
    <3> QED BY <1>2, <3>1
  <2>3. CASE BuildEvent(c)
    <3>1. /\ Same /\ audit_error' = audit_error /\ call[c].at = "build"
          /\ call'[c].degraded = audit_error[ProcessOf[c]]
      BY <1>0, <2>3 DEF BuildEvent, storeVars, Calls
    <3> QED BY <1>2, <3>1
  <2>4. CASE ReadHead(c)
    <3>1. /\ Same /\ audit_error' = audit_error /\ call[c].at = "head"
          /\ call'[c].degraded = call[c].degraded
      BY <1>0, <2>4 DEF ReadHead, storeVars, Calls
    <3> QED BY <1>2, <3>1
  <2>5. CASE Insert(c)
    <3>1. CASE Inserted(c)
      BY <1>0, <3>1 DEF Inserted, Calls
    <3>2. CASE call' = Abandon(c) /\ UNCHANGED storeVars
      <4>1. /\ Same /\ audit_error' = audit_error /\ call[c].at = "insert"
            /\ call'[c].at = "idle"
        BY <1>0, <2>5, <3>2 DEF Insert, Abandon, Idle, storeVars
      <4> QED BY <1>2, <4>1
    <3> QED BY <2>5, <3>1, <3>2 DEF Insert, Inserted, Truncate
  <2>6. CASE AppendAudit(c)
    <3>1. /\ call'[c].at = "idle" /\ call[c].at = "append"
          /\ decision_events' = decision_events
          /\ \/ audit_log' = audit_log
             \/ audit_error'[ProcessOf[c]] = FALSE
      BY <1>0, <2>6 DEF AppendAudit, Remember, Idle, storeVars
    <3>2. call[c].id = LatestHash /\ call[c].id \notin audit_log /\ call[c].id \in Nat
      BY <1>0, <3>1 DEF AloneInv, Alone, Calls
    <3>3. LatestHash # None
      BY <3>2, NoneAssumption
    <3> QED BY <3>1, <3>2, <3>3, SameHead DEF Gap
  <2> QED BY <1>3, <2>1, <2>2, <2>3, <2>4, <2>5, <2>6, <2>7 DEF Score
<1>4. ASSUME NEW p \in Processes, Operate(p)
      PROVE  /\ audit_error'[ProcessOf[c]] /\ call'[c].at # "append" => Gap'
             /\ call'[c].degraded /\ call'[c].at \in {"head", "insert"} => Gap'
  <2>1. CASE UNCHANGED <<storeVars, audit_log, audit_error, call>>
    BY <2>1, <1>1 DEF GapInv, storeVars
  <2>2. ASSUME NEW w \in Workloads, NEW bad \in SUBSET Imported, Restart(p, w, bad)
        PROVE  /\ audit_error'[ProcessOf[c]] /\ call'[c].at # "append" => Gap'
               /\ call'[c].degraded /\ call'[c].at \in {"head", "insert"} => Gap'
    <3>1. Same
      BY <2>2 DEF Restart, storeVars
    <3>2. CASE ProcessOf[c] = p
      <4>1. ~ audit_error'[ProcessOf[c]] /\ call'[c].at = "idle"
        BY <1>0, <2>2, <3>2 DEF Restart, Idle
      <4> QED BY <4>1
    <3>3. CASE ProcessOf[c] # p
      <4>1. /\ audit_error'[ProcessOf[c]] = audit_error[ProcessOf[c]]
            /\ call'[c] = call[c]
        BY <1>0, <2>2, <3>3 DEF Restart
      <4> QED BY <1>1, <3>1, <4>1 DEF GapInv
    <3> QED BY <3>2, <3>3
  <2> QED BY <1>4, <2>1, <2>2 DEF Operate, ActivateBegin, ActivateEnd, ReplacePolicy,
                  MovePolicy, RestorePolicy, ImportWorkload, ChangeChampion
<1>5. CASE UNCHANGED vars
  BY <1>1, <1>5 DEF GapInv, vars
<1>6. ASSUME NEW d \in Callers, Score(d)
      PROVE  Score(c)
  BY <1>6 DEF OneCaller
<1> QED BY <1>3, <1>4, <1>5, <1>6 DEF Next

LEMMA DegradedStep ==
  ASSUME Backend = "sqlite", OneCaller, StoreInv, AloneInv, GapInv,
         DegradedMarksGap, [Next]_vars
  PROVE  DegradedMarksGap'
<1> DEFINE Before(e) == HeadOf({o \in decision_events : Key(o) < Key(e)})
<1>0. /\ TypeOK /\ Bounded /\ clock \in Nat /\ decision_events \in SUBSET Events
      /\ call \in [Callers -> Calls]
  BY DEF StoreInv, TypeOK
<1>1. CASE UNCHANGED <<decision_events, audit_log>>
  BY <1>1 DEF DegradedMarksGap
<1>2. ASSUME NEW c \in Callers, Inserted(c)
      PROVE  DegradedMarksGap'
  <2>1. decision_events' = decision_events \cup {EventOf(c)} /\ audit_log' = audit_log
    BY <1>2 DEF Inserted
  <2>2. EventOf(c).degraded => Gap
    BY <1>2 DEF Inserted, EventOf, GapInv
  <2>3. ASSUME NEW e \in decision_events', e.degraded
        PROVE  LET previous == HeadOf({o \in decision_events' : Key(o) < Key(e)})
               IN previous # None /\ previous \notin audit_log'
    <3>1. CASE e \in decision_events
      BY <1>2, <2>1, <2>3, <3>1, BelowAfterInsert DEF DegradedMarksGap
    <3>2. CASE e = EventOf(c)
      BY <1>2, <2>1, <2>2, <2>3, <3>2, BelowAfterInsert DEF Gap, LatestHash
    <3> QED BY <2>1, <3>1, <3>2
  <2> QED BY <2>3 DEF DegradedMarksGap
<1>3. ASSUME NEW c \in Callers, AppendAudit(c)
      PROVE  DegradedMarksGap'
  <2>1. /\ decision_events' = decision_events /\ call[c].id = LatestHash
        /\ audit_log' \subseteq audit_log \cup {call[c].id}
    BY <1>3 DEF AppendAudit, storeVars, AloneInv, Alone
  <2>2. ASSUME NEW e \in decision_events
        PROVE  Before(e) # call[c].id \/ Before(e) = None
    <3> DEFINE S == {o \in decision_events : Key(o) < Key(e)}
    <3>1. \A o \in decision_events : Key(o) = o.id /\ o.id \in Nat /\ o.id <= clock
      BY <1>0 DEF Key, Events, Bounded
    <3>2. e.id <= LatestHash /\ LatestHash \in Nat
      BY <1>0, <3>1, HeadBounds DEF LatestHash
    <3>3. S # {} => \E o \in S : HeadOf(S) = o.id
      <4>1. S \in SUBSET Events /\ \A o \in S : o.id <= clock
        BY <1>0, <3>1
      <4> HIDE DEF S
      <4> QED BY <1>0, <4>1, HeadBounds
    <3>4. S = {} => HeadOf(S) = None
      BY DEF HeadOf
    <3> QED BY <2>1, <3>1, <3>2, <3>3, <3>4
  <2> HIDE DEF Before
  <2>3. \A e \in decision_events :
          e.degraded => Before(e) # None /\ Before(e) \notin audit_log'
    BY <2>1, <2>2 DEF DegradedMarksGap, Before
  <2> QED BY <2>1, <2>3 DEF DegradedMarksGap, Before
<1> QED BY <1>1, <1>2, <1>3, SqlStep, AnswerStep DEF Lookup, storeVars, Inserted

(* An event of the shipped server is marked degraded only when the audit   *)
(* sink misses the event before it.                                        *)
THEOREM DegradedEventsMarkGaps ==
  ASSUME Backend = "sqlite", OneCaller
  PROVE  Spec => []DegradedMarksGap
<1>1. Init => GapInv /\ DegradedMarksGap
  BY ProcessAssumption DEF Init, GapInv, DegradedMarksGap, Idle
<1>2. StoreInv /\ AloneInv /\ GapInv /\ DegradedMarksGap /\ [Next]_vars
        => GapInv' /\ DegradedMarksGap'
  BY GapStep, DegradedStep
<1> QED BY <1>1, <1>2, AloneInvariant, PTL DEF Spec

-----------------------------------------------------------------------------
(* The abstract service. *)

LEMMA ServiceInit == Init => Service!Init
  BY DEF Init, Service!Init

LEMMA ServiceStep ==
  ASSUME Backend = "sqlite", OneCaller, StoreInv, AloneInv, [Next]_vars
  PROVE  [Service!Next]_(Service!vars)
<1>0. TypeOK /\ call \in [Callers -> Calls]
  BY DEF StoreInv, TypeOK
<1>1. CASE UNCHANGED <<idempotency_keys, answers>>
  BY <1>1 DEF Service!vars
<1>2. ASSUME NEW c \in Callers, NEW r \in Requests, Lookup(c, r)
      PROVE  [Service!Next]_(Service!vars)
  <2> DEFINE f == Fingerprint(ProcessOf[c], r)
             cached == idempotency_keys[r.txn]
  <2>1. f \in Fingerprints
    BY <1>0, ProcessAssumption, SentAssumption
       DEF TypeOK, Fingerprint, Resolve, Fingerprints, Requests
  <2>2. idempotency_keys' = idempotency_keys
    BY <1>2 DEF Lookup, storeVars
  <2>3. CASE UNCHANGED answers
    BY <1>1, <2>2, <2>3
  <2>4. CASE cached # None /\ cached.fingerprint # f /\ Answer(r, "conflict", f, None)
    BY <2>1, <2>2, <2>4 DEF Answer, Service!Next, Service!Refuse
  <2>5. CASE cached # None /\ cached.fingerprint = f /\ Answer(r, "ok", f, cached.response)
    BY <2>2, <2>5 DEF Answer, Service!Next, Service!Accept
  <2> QED BY <1>2, <2>3, <2>4, <2>5 DEF Lookup
<1>3. ASSUME NEW c \in Callers, Inserted(c)
      PROVE  [Service!Next]_(Service!vars)
  <2> DEFINE t == call[c].request.txn
             d == [fingerprint |-> call[c].fingerprint, response |-> ResponseOf(c)]
  <2>1. t \in Txns /\ d \in Service!Decision
    BY <1>0, <1>3, EventType DEF Inserted, Service!Decision
  <2>2. idempotency_keys[t] = None
    BY <1>3 DEF AloneInv, Alone, Inserted
  <2>3. idempotency_keys' = [idempotency_keys EXCEPT ![t] = d] /\ answers' = answers
    BY <1>3 DEF Inserted, Upsert
  <2> QED BY <2>1, <2>2, <2>3 DEF Service!Next, Service!Decide
<1>4. ASSUME NEW c \in Callers, AppendAudit(c)
      PROVE  [Service!Next]_(Service!vars)
  <2> DEFINE r == call[c].request
             d == [fingerprint |-> call[c].fingerprint, response |-> ResponseOf(c)]
  <2>1. call[c].at = "append" /\ r \in Requests
    BY <1>0, <1>4 DEF AppendAudit, TypeOK, Filled
  <2>2. idempotency_keys[r.txn] = d /\ d # None
    <3>1. d \in CachedDecisions
      BY <1>0, <2>1, EventType DEF CachedDecisions
    <3> QED BY <2>1, <3>1, NoneIsNoDecision DEF AloneInv, Alone
  <2>3. /\ idempotency_keys' = idempotency_keys
        /\ Answer(r, "ok", d.fingerprint, d.response)
    BY <1>4 DEF AppendAudit, storeVars
  <2> HIDE DEF d
  <2> QED BY <2>1, <2>2, <2>3 DEF Answer, Service!Next, Service!Accept
<1> QED
  BY <1>1, <1>2, <1>3, <1>4, SqlStep, AnswerStep DEF storeVars, Inserted

(* The shipped server implements the idempotent service: a retry, however  *)
(* late and whatever crashed or failed in between, hears the decision that *)
(* was recorded, or is refused, and no transaction is decided twice.       *)
THEOREM ServerImplementsService ==
  ASSUME Backend = "sqlite", OneCaller
  PROVE  Spec => ImplementsService
<1>1. StoreInv /\ AloneInv /\ [Next]_vars => [Service!Next]_(Service!vars)
  BY ServiceStep
<1> QED
  BY <1>1, ServiceInit, AloneInvariant, PTL DEF Spec, ImplementsService, Service!Spec

-----------------------------------------------------------------------------
(* The policy of a decision. *)

(* While no activation is half done and the process is not stray, its      *)
(* policy belongs to the active workload; no activation is half done while *)
(* a call is under way; and a call keeps to the workload it resolved.      *)
PolicyInv ==
  /\ \A p \in Processes :
       ~ activating[p] /\ ~ stray[p] => policy[p].owner = active_id[p]
  /\ \A c \in Callers :
       LET k == call[c]
           p == ProcessOf[c]
       IN /\ k.at # "idle" => ~ activating[p]
          /\ k.at = "evaluate" /\ k.engine_policy => k.fingerprint.workload = active_id[p]
          /\ k.at \in {"build", "head", "insert", "append"} /\ ~ stray[p]
               => k.policy.owner = k.fingerprint.workload

LEMMA PolicyScore ==
  ASSUME ~ Threaded, TypeOK, PolicyInv, NEW c \in Callers, Score(c)
  PROVE  PolicyInv'
<1>0. /\ call \in [Callers -> Calls] /\ call[c] \in Calls /\ ProcessOf[c] \in Processes
  BY ProcessAssumption DEF TypeOK
<1>1. UNCHANGED <<active_id, policy, stray, activating>>
  BY DEF Score, Lookup, Predict, SelectPolicy, EvaluatePolicy, EvaluateRefused,
         BuildEvent, ReadHead, Insert, AppendAudit, engineVars
<1>2. \A d \in Callers : d # c => call'[d] = call[d]
  BY <1>0 DEF Score, Lookup, Predict, SelectPolicy, EvaluatePolicy, EvaluateRefused,
              BuildEvent, ReadHead, Insert, Abandon, AppendAudit
<1> DEFINE p == ProcessOf[c]
           k == call'[c]
<1>3. /\ k.at # "idle" => ~ activating[p]
      /\ k.at = "evaluate" /\ k.engine_policy => k.fingerprint.workload = active_id[p]
      /\ k.at \in {"build", "head", "insert", "append"} /\ ~ stray[p]
           => k.policy.owner = k.fingerprint.workload
  <2>1. CASE \E r \in Requests : Lookup(c, r)
    <3>1. PICK r \in Requests : Lookup(c, r)
      BY <2>1
    <3>2. k.at = "idle" \/ (k.at = "predict" /\ ~ activating[p])
      <4>1. MayRun(p) /\ (call' = call \/ call'[c].at = "predict")
        BY <1>0, <3>1 DEF Lookup, Idle
      <4>2. call[c].at = "idle"
        BY <3>1 DEF Lookup
      <4> QED BY <4>1, <4>2 DEF MayRun
    <3> QED BY <3>2, <1>1
  <2>2. CASE Predict(c)
    BY <1>0, <2>2 DEF Predict, PolicyInv, Calls
  <2>3. CASE SelectPolicy(c)
    <3>1. /\ k.at = "evaluate" /\ k.fingerprint = call[c].fingerprint
          /\ k.engine_policy = (call[c].fingerprint.workload = active_id[p])
          /\ call[c].at = "select"
      BY <1>0, <2>3 DEF SelectPolicy, Calls
    <3> QED BY <3>1 DEF PolicyInv
  <2>4. CASE EvaluatePolicy(c)
    <3>1. /\ k.at = "build" /\ k.fingerprint = call[c].fingerprint
          /\ call[c].at = "evaluate"
          /\ k.policy = IF call[c].engine_policy
                        THEN policy[p] ELSE FromWorkload(call[c].fingerprint.workload)
      BY <1>0, <2>4 DEF EvaluatePolicy, Calls
    <3> QED BY <1>0, <3>1 DEF PolicyInv, FromWorkload
  <2>5. CASE BuildEvent(c) \/ ReadHead(c) \/ Insert(c)
    <3>1. \/ k.at = "idle"
          \/ /\ k.at \in {"head", "insert", "append"}
             /\ call[c].at \in {"build", "head", "insert"}
             /\ k.policy = call[c].policy /\ k.fingerprint = call[c].fingerprint
      BY <1>0, <2>5 DEF BuildEvent, ReadHead, Insert, Abandon, Idle, Calls
    <3> HIDE DEF k
    <3>2. CASE k.at = "idle"
      BY <3>2
    <3>3. CASE k.at \in {"head", "insert", "append"}
      BY <3>1, <3>3 DEF PolicyInv
    <3> QED BY <3>1, <3>2, <3>3
  <2>6. CASE AppendAudit(c) \/ EvaluateRefused(c)
    <3>1. k = Idle
      BY <1>0, <2>6 DEF AppendAudit, EvaluateRefused
    <3> HIDE DEF k
    <3> QED BY <3>1 DEF Idle
  <2> QED BY <2>1, <2>2, <2>3, <2>4, <2>5, <2>6 DEF Score
<1> QED BY <1>1, <1>2, <1>3 DEF PolicyInv

(* An operator request that finds no call of its process under way, and    *)
(* leaves the other processes alone.                                       *)
LEMMA PolicyBetweenCalls ==
  ASSUME TypeOK, PolicyInv, NEW p \in Processes,
         \A c \in Callers : ProcessOf[c] = p => call[c].at = "idle",
         call' = call,
         ~ activating'[p] /\ ~ stray'[p] => policy'[p].owner = active_id'[p],
         \A q \in Processes \ {p} : /\ activating'[q] = activating[q]
                                    /\ stray'[q] = stray[q]
                                    /\ policy'[q] = policy[q]
                                    /\ active_id'[q] = active_id[q]
  PROVE  PolicyInv'
<1>1. \A c \in Callers : ProcessOf[c] \in Processes
  BY ProcessAssumption
<1> QED BY <1>1 DEF PolicyInv

LEMMA PolicyOperate ==
  ASSUME ~ Threaded, TypeOK, PolicyInv, NEW p \in Processes, Operate(p)
  PROVE  PolicyInv'
<1>0. \A c \in Callers : ProcessOf[c] \in Processes
  BY ProcessAssumption
<1>1. ASSUME NEW w \in Workloads, ActivateBegin(p, w)
      PROVE  PolicyInv'
  <2>1. \A c \in Callers : ProcessOf[c] = p => call[c].at = "idle"
    BY <1>1 DEF ActivateBegin, MayRun
  <2>2. /\ call' = call /\ policy' = policy /\ stray' = stray /\ activating'[p]
        /\ \A q \in Processes \ {p} : /\ activating'[q] = activating[q]
                                      /\ active_id'[q] = active_id[q]
    BY <1>1 DEF ActivateBegin, TypeOK
  <2> QED BY <2>1, <2>2, PolicyBetweenCalls
<1>2. CASE ActivateEnd(p)
  <2>1. \A c \in Callers : ProcessOf[c] = p => call[c].at = "idle"
    BY <1>2 DEF ActivateEnd, PolicyInv
  <2>2. /\ call' = call /\ active_id' = active_id
        /\ stray'[p] \/ policy'[p].owner = active_id[p]
        /\ \A q \in Processes \ {p} : /\ activating'[q] = activating[q]
                                      /\ stray'[q] = stray[q]
                                      /\ policy'[q] = policy[q]
    BY <1>2 DEF ActivateEnd, FromWorkload, TypeOK
  <2> QED BY <2>1, <2>2, PolicyBetweenCalls
<1>3. CASE \/ \E m \in Models : ChangeChampion(p, m)
           \/ \E w \in Workloads, ok \in BOOLEAN : ImportWorkload(p, w, ok)
  BY <1>3 DEF ChangeChampion, ImportWorkload, PolicyInv
<1>5. ASSUME \/ \E r \in Revisions : MovePolicy(p, r)
             \/ \E q \in Healed : RestorePolicy(p, q)
      PROVE  PolicyInv'
  <2>1. \A c \in Callers : ProcessOf[c] = p => call[c].at = "idle"
    BY <1>5 DEF MovePolicy, RestorePolicy, ReplacePolicy, MayRun
  <2>2. /\ call' = call /\ active_id' = active_id /\ activating' = activating
        /\ \A q \in Processes \ {p} : /\ stray'[q] = stray[q]
                                      /\ policy'[q] = policy[q]
    BY <1>5 DEF MovePolicy, RestorePolicy, ReplacePolicy, TypeOK
  <2>3. \/ stray'[p]
        \/ stray'[p] = stray[p] /\ policy'[p].owner = policy[p].owner
    <3>1. policy[p] \in Policies /\ stray \in [Processes -> BOOLEAN]
          /\ policy \in [Processes -> Policies]
      BY DEF TypeOK
    <3>2. CASE \E r \in Revisions : MovePolicy(p, r)
      BY <3>1, <3>2 DEF MovePolicy, ReplacePolicy, Policies
    <3>3. CASE \E q \in Healed : RestorePolicy(p, q)
      BY <3>1, <3>3 DEF RestorePolicy
    <3> QED BY <1>5, <3>2, <3>3
  <2>4. ~ activating'[p] /\ ~ stray'[p] => policy'[p].owner = active_id'[p]
    BY <2>2, <2>3 DEF PolicyInv
  <2> QED BY <2>1, <2>2, <2>4, PolicyBetweenCalls
<1>4. ASSUME NEW w \in Workloads, NEW bad \in SUBSET Imported, Restart(p, w, bad)
      PROVE  PolicyInv'
  <2>1. \A c \in Callers : IF ProcessOf[c] = p THEN call'[c].at = "idle"
                                               ELSE call'[c] = call[c]
    BY <1>4 DEF Restart, Idle
  <2>2. /\ policy'[p].owner = active_id'[p]
        /\ \A q \in Processes : q # p => /\ activating'[q] = activating[q]
                                         /\ stray'[q] = stray[q]
                                         /\ policy'[q] = policy[q]
                                         /\ active_id'[q] = active_id[q]
    BY <1>4 DEF Restart, FromWorkload, TypeOK
  <2> QED BY <1>0, <2>1, <2>2 DEF PolicyInv
<1> QED BY <1>1, <1>2, <1>3, <1>4, <1>5 DEF Operate

LEMMA PolicyStep ==
  ASSUME ~ Threaded, TypeOK, PolicyInv, [Next]_vars
  PROVE  PolicyInv'
<1>1. ASSUME NEW c \in Callers, Score(c)
      PROVE  PolicyInv'
  BY <1>1, PolicyScore
<1>2. ASSUME NEW p \in Processes, Operate(p)
      PROVE  PolicyInv'
  BY <1>2, PolicyOperate
<1>3. CASE UNCHANGED vars
  BY <1>3 DEF vars, PolicyInv
<1> QED BY <1>1, <1>2, <1>3 DEF Next

(* With one request at a time, in any number of processes, over either     *)
(* store, and with the healing executor moving thresholds and rolling the  *)
(* moves back, a decision is recorded under a policy of the workload that  *)
(* its request was resolved to, unless the last activation of its process  *)
(* was refused or a rollback has restored an earlier policy.               *)
THEOREM DecisionsUseOwnPolicy ==
  ASSUME ~ Threaded
  PROVE  Spec => []DecidedByOwnPolicy
<1>1. Init => PolicyInv
  BY ProcessAssumption DEF Init, PolicyInv, FromWorkload, Idle
<1>2. TypeOK /\ PolicyInv /\ [Next]_vars => PolicyInv'
  BY PolicyStep
<1>3. PolicyInv => DecidedByOwnPolicy
  BY DEF PolicyInv, DecidedByOwnPolicy
<1>4. TypeOK /\ Bounded => TypeOK
  OBVIOUS
<1> QED BY <1>1, <1>2, <1>3, <1>4, TypeCorrect, PTL DEF Spec
=============================================================================
