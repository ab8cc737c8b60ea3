--------------------------- MODULE ScoringProofs ---------------------------
(***************************************************************************)
(* Theorems about ScoringEngine for every number of callers, processes,    *)
(* transactions and requests.                                              *)
(***************************************************************************)
EXTENDS ScoringEngine, FiniteSetTheorems, WellFoundedInduction, TLAPS

-----------------------------------------------------------------------------
(* The chain head.  Newest is a CHOOSE: it names an event only because a   *)
(* set of events whose keys are bounded has a newest element.              *)

LEMMA MaximumExists ==
  ASSUME NEW n \in Nat, NEW S \in SUBSET (0 .. n), S # {}
  PROVE  \E m \in S : \A k \in S : k <= m
<1> DEFINE Above(m) == (m + 1) .. n
           T == {Above(m) : m \in S}
           R == StrictSubsetOrdering(1 .. n)
           F == FiniteSubsetsOf(1 .. n)
<1>1. T \subseteq F
  <2> SUFFICES ASSUME NEW m \in S
               PROVE  Above(m) \in F
    OBVIOUS
  <2>1. m \in Nat
    OBVIOUS
  <2>2. Above(m) \in SUBSET (1 .. n)
    BY <2>1
  <2>3. IsFiniteSet(Above(m))
    BY <2>1, FS_Interval
  <2> QED
    BY <2>2, <2>3 DEF FiniteSubsetsOf
<1>2. IsWellFoundedOn(R, F)
  BY FS_StrictSubsetOrderingWellFounded
<1>3. T # {}
  OBVIOUS
<1>4. PICK x \in T : \A y \in T : <<y, x>> \notin R
  <2> HIDE DEF T, R, F
  <2> QED
    BY <1>1, <1>2, <1>3, WFMin
<1>5. PICK m \in S : x = Above(m)
  OBVIOUS
<1>6. ASSUME NEW k \in S, ~ (k <= m)
      PROVE  FALSE
  <2>1. k \in Nat /\ m \in Nat /\ k > m /\ k <= n
    BY <1>6
  <2>2. /\ Above(k) \subseteq Above(m)
        /\ k \in Above(m)
        /\ k \notin Above(k)
        /\ Above(m) \subseteq 1 .. n
    BY <2>1
  <2>3. <<Above(k), Above(m)>> \in R
    <3> HIDE DEF Above
    <3> QED
      BY <2>2 DEF StrictSubsetOrdering
  <2> QED
    BY <1>4, <1>5, <2>3
<1> QED
  BY <1>6

LEMMA NewestIsNewest ==
  ASSUME NEW n \in Nat, NEW S \in SUBSET Events, S # {},
         \A e \in S : Key(e) <= n
  PROVE  /\ Newest(S) \in S
         /\ \A e \in S : Key(e) <= Key(Newest(S))
<1> DEFINE K == {Key(e) : e \in S}
<1>1. \A e \in S : Key(e) \in Nat
  BY DEF Key, Events
<1>2. K \in SUBSET (0 .. n) /\ K # {}
  BY <1>1
<1>3. \E m \in K : \A k \in K : k <= m
  <2> HIDE DEF K
  <2> QED
    BY <1>2, MaximumExists
<1>4. \E e \in S : \A o \in S : Key(o) <= Key(e)
  BY <1>3
<1> QED
  BY <1>4 DEF Newest

LEMMA HeadType ==
  ASSUME NEW n \in Nat, NEW S \in SUBSET Events, \A e \in S : Key(e) <= n
  PROVE  HeadOf(S) \in Hashes
  BY NewestIsNewest DEF HeadOf, Hashes, Events

-----------------------------------------------------------------------------
(* Type correctness.  The head of the chain is well typed only because the *)
(* counters bound the events, so the two are proved together.              *)

Bounded == /\ \A e \in decision_events : e.id <= clock /\ e.pos <= rows
           /\ \A c \in Callers : call[c].id <= clock


LEMMA IdleType == Idle \in Calls /\ Filled(Idle)
  BY NoneAssumption DEF Idle, Calls, Filled, Stages, Hashes

LEMMA FromWorkloadType ==
  ASSUME NEW w \in Workloads
  PROVE  FromWorkload(w) \in Policies
  BY RevisionAssumption DEF FromWorkload, Policies

LEMMA InitType == Init => TypeOK
  BY IdleType, FromWorkloadType DEF Init, TypeOK

(* Replacing one call by a well-formed one keeps all calls well-formed. *)
LEMMA CallUpdateType ==
  ASSUME TypeOK, NEW c \in Callers, NEW k \in Calls, Filled(k),
         call' = [call EXCEPT ![c] = k]
  PROVE  /\ call' \in [Callers -> Calls]
         /\ \A d \in Callers : Filled(call'[d])
  BY DEF TypeOK

LEMMA LookupType ==
  ASSUME TypeOK, NEW c \in Callers, NEW r \in Requests, Lookup(c, r)
  PROVE  TypeOK'
<1> DEFINE f == Fingerprint(ProcessOf[c], r)
           k == [Idle EXCEPT !.at = "predict", !.request = r, !.fingerprint = f,
                             !.buildable = Buildable(ProcessOf[c], f.workload)]
<1>1. f \in Fingerprints
  BY ProcessAssumption, SentAssumption
  DEF TypeOK, Fingerprint, Resolve, Fingerprints, Requests
<1>2. k \in Calls /\ Filled(k)
  BY <1>1, IdleType DEF Calls, Filled, Stages, Idle, Buildable
<1>3. call' = call \/ call' = [call EXCEPT ![c] = k]
  BY DEF Lookup
<1>4. call' \in [Callers -> Calls] /\ \A d \in Callers : Filled(call'[d])
  BY <1>2, <1>3, CallUpdateType DEF TypeOK
<1>5. r.txn \in Txns
  BY DEF Requests
<1>6. answers' \subseteq Answers
  <2>1. CASE UNCHANGED answers
    BY <2>1 DEF TypeOK
  <2>2. CASE Answer(r, "conflict", f, None)
    BY <2>2, <1>1 DEF Answer, Answers, TypeOK
  <2>3. CASE /\ idempotency_keys[r.txn] # None
             /\ Answer(r, "ok", f, idempotency_keys[r.txn].response)
    <3>1. idempotency_keys[r.txn].response \in Responses
      BY <2>3, <1>5 DEF TypeOK, CachedDecisions
    <3> QED
      BY <2>3, <3>1, <1>1 DEF Answer, Answers, TypeOK
  <2> QED
    BY <2>1, <2>2, <2>3 DEF Lookup
<1> QED
  BY <1>4, <1>6 DEF TypeOK, Lookup, engineVars, storeVars

LEMMA PredictType ==
  ASSUME TypeOK, NEW c \in Callers, Predict(c)
  PROVE  TypeOK'
<1> DEFINE k == [call[c] EXCEPT !.at = "select", !.model = champion[ProcessOf[c]]]
<1>1. call[c] \in Calls /\ Filled(call[c]) /\ champion[ProcessOf[c]] \in Models
  BY ProcessAssumption DEF TypeOK
<1>2. k \in Calls /\ Filled(k)
  BY <1>1 DEF Calls, Filled, Stages, Predict
<1>3. call' = [call EXCEPT ![c] = k]
  BY <1>1 DEF Predict, TypeOK
<1> QED
  BY <1>2, <1>3, CallUpdateType DEF TypeOK, Predict, engineVars, storeVars

LEMMA SelectPolicyType ==
  ASSUME TypeOK, NEW c \in Callers, SelectPolicy(c)
  PROVE  TypeOK'
<1> DEFINE own == call[c].fingerprint.workload = active_id[ProcessOf[c]]
           k == [call[c] EXCEPT !.at = "evaluate", !.engine_policy = own]
<1>1. call[c] \in Calls /\ Filled(call[c])
  BY DEF TypeOK
<1>2. k \in Calls /\ Filled(k)
  <2> HIDE DEF own
  <2>1. own \in BOOLEAN
    BY DEF own
  <2> QED
    BY <1>1, <2>1 DEF Calls, Filled, Stages, SelectPolicy
<1>3. call' = [call EXCEPT ![c] = k]
  BY <1>1 DEF SelectPolicy, TypeOK
<1> QED
  BY <1>2, <1>3, CallUpdateType DEF TypeOK, SelectPolicy, engineVars, storeVars

LEMMA EvaluatePolicyType ==
  ASSUME TypeOK, NEW c \in Callers, EvaluatePolicy(c)
  PROVE  TypeOK'
<1> DEFINE v == IF call[c].engine_policy
                THEN policy[ProcessOf[c]]
                ELSE FromWorkload(call[c].fingerprint.workload)
           k == [call[c] EXCEPT !.at = "build", !.policy = v]
<1>1. call[c] \in Calls /\ Filled(call[c]) /\ call[c].at = "evaluate"
  BY DEF TypeOK, EvaluatePolicy
<1>2. v \in Policies
  <2>1. call[c].fingerprint.workload \in Workloads
    BY <1>1 DEF Filled, Fingerprints
  <2>2. policy[ProcessOf[c]] \in Policies
    BY ProcessAssumption DEF TypeOK
  <2> QED
    BY <2>1, <2>2, FromWorkloadType
<1>3. k \in Calls /\ Filled(k)
  <2> HIDE DEF v
  <2> QED
    BY <1>1, <1>2 DEF Calls, Filled, Stages
<1>4. call' = [call EXCEPT ![c] = k]
  BY <1>1 DEF EvaluatePolicy, TypeOK
<1> HIDE DEF k
<1> QED
  BY <1>3, <1>4, CallUpdateType DEF TypeOK, EvaluatePolicy, engineVars, storeVars

LEMMA EvaluateRefusedType ==
  ASSUME TypeOK, NEW c \in Callers, EvaluateRefused(c)
  PROVE  TypeOK'
  BY IdleType, CallUpdateType DEF TypeOK, EvaluateRefused, engineVars, storeVars

LEMMA BuildEventType ==
  ASSUME TypeOK, NEW c \in Callers, BuildEvent(c)
  PROVE  TypeOK'
<1> DEFINE k == [call[c] EXCEPT !.at = "head",
                                !.degraded = audit_error[ProcessOf[c]],
                                !.id = clock + 1]
<1>1. /\ call[c] \in Calls
      /\ Filled(call[c])
      /\ audit_error[ProcessOf[c]] \in BOOLEAN
      /\ clock + 1 \in Nat
  BY ProcessAssumption DEF TypeOK
<1>2. k \in Calls /\ Filled(k)
  BY <1>1 DEF Calls, Filled, Stages, BuildEvent
<1>3. call' = [call EXCEPT ![c] = k]
  BY <1>1 DEF BuildEvent, TypeOK
<1> HIDE DEF k
<1> QED
  BY <1>1, <1>2, <1>3, CallUpdateType
  DEF TypeOK, BuildEvent, engineVars, storeVars

LEMMA ReadHeadType ==
  ASSUME TypeOK, Bounded, NEW c \in Callers, ReadHead(c)
  PROVE  TypeOK'
<1> DEFINE k == [call[c] EXCEPT !.at = "insert", !.previous_hash = LatestHash]
<1>1. call[c] \in Calls /\ Filled(call[c]) /\ call[c].at = "head"
  BY DEF TypeOK, ReadHead
<1>2. LatestHash \in Hashes
  <2> DEFINE n == IF Backend = "memory" THEN rows ELSE clock
  <2>1. n \in Nat /\ \A e \in decision_events : Key(e) <= n
    BY DEF TypeOK, Bounded, Key
  <2> HIDE DEF n
  <2> QED
    BY <2>1, HeadType DEF LatestHash, TypeOK
<1>3. k \in Calls /\ Filled(k)
  BY <1>1, <1>2 DEF Calls, Filled, Stages
<1>4. call' = [call EXCEPT ![c] = k]
  BY <1>1 DEF ReadHead, TypeOK
<1> HIDE DEF k
<1> QED
  BY <1>3, <1>4, CallUpdateType DEF TypeOK, ReadHead, engineVars, storeVars

(* What Insert writes. *)
LEMMA EventType ==
  ASSUME TypeOK, NEW c \in Callers, call[c].at \in {"insert", "append"}
  PROVE  /\ call[c].request.txn \in Txns
         /\ call[c].fingerprint \in Fingerprints
         /\ ResponseOf(c) \in Responses
         /\ EventOf(c) \in Events
<1>1. call[c] \in Calls /\ Filled(call[c])
  BY DEF TypeOK
<1>2. /\ call[c].request.txn \in Txns
      /\ call[c].fingerprint \in Fingerprints
      /\ call[c].degraded \in BOOLEAN
      /\ call[c].id \in Nat
      /\ call[c].previous_hash \in Hashes
  BY <1>1 DEF Calls, Filled, Requests
<1>3. ResponseOf(c) \in Responses
  BY <1>1 DEF Filled, ResponseOf, Responses
<1>4. rows + 1 \in Nat
  BY DEF TypeOK
<1> QED
  BY <1>2, <1>3, <1>4 DEF EventOf, Events

LEMMA InsertType ==
  ASSUME TypeOK, NEW c \in Callers, Insert(c)
  PROVE  TypeOK'
<1> DEFINE t == call[c].request.txn
           f == call[c].fingerprint
           k == [call[c] EXCEPT !.at = "append"]
<1>1. call[c] \in Calls /\ Filled(call[c]) /\ call[c].at = "insert"
  BY DEF TypeOK, Insert
<1>2. k \in Calls /\ Filled(k)
  BY <1>1 DEF Calls, Filled, Stages
<1>3. [call EXCEPT ![c].at = "append"] = [call EXCEPT ![c] = k]
  BY <1>1 DEF TypeOK
<1> HIDE DEF k
<1>4. call' \in [Callers -> Calls] /\ \A d \in Callers : Filled(call'[d])
  BY <1>2, <1>3, IdleType, CallUpdateType DEF Insert, Abandon
<1>5. /\ idempotency_keys' \in [Txns -> CachedDecisions \cup {None}]
      /\ decision_events' \subseteq Events
      /\ rows' \in Nat
  <2>1. CASE UNCHANGED storeVars
    BY <2>1 DEF storeVars, TypeOK
  <2>2. CASE /\ idempotency_keys' = Upsert(t, f, c)
             /\ decision_events' = Truncate(decision_events \cup {EventOf(c)})
             /\ rows' = rows + 1
    BY <2>2, <1>1, EventType DEF TypeOK, Upsert, Truncate, CachedDecisions
  <2> QED
    BY <2>1, <2>2 DEF Insert
<1> QED
  BY <1>4, <1>5 DEF TypeOK, Insert, engineVars

LEMMA AppendAuditType ==
  ASSUME TypeOK, NEW c \in Callers, AppendAudit(c)
  PROVE  TypeOK'
<1> DEFINE p == ProcessOf[c]
<1>1. call[c] \in Calls /\ Filled(call[c]) /\ call[c].at = "append"
  BY DEF TypeOK, AppendAudit
<1>2. call' \in [Callers -> Calls] /\ \A d \in Callers : Filled(call'[d])
  BY IdleType, CallUpdateType DEF AppendAudit
<1>3. audit_log' \subseteq Nat /\ audit_error' \in [Processes -> BOOLEAN]
  BY <1>1, ProcessAssumption DEF TypeOK, AppendAudit, Remember, Calls
<1>4. answers' \subseteq Answers
  BY <1>1, EventType DEF TypeOK, AppendAudit, Answer, Answers, Filled
<1> QED
  BY <1>2, <1>3, <1>4 DEF TypeOK, AppendAudit, engineVars, storeVars

LEMMA OperateType ==
  ASSUME TypeOK, NEW p \in Processes, Operate(p)
  PROVE  TypeOK'
<1>1. CASE \E w \in Workloads : ActivateBegin(p, w)
  BY <1>1 DEF TypeOK, ActivateBegin, storeVars
<1>2. CASE ActivateEnd(p)
  <2>1. FromWorkload(active_id[p]) \in Policies
    BY FromWorkloadType DEF TypeOK
  <2>2. /\ policy' \in [Processes -> Policies]
        /\ stray' \in [Processes -> BOOLEAN]
        /\ activating' \in [Processes -> BOOLEAN]
    BY <1>2, <2>1 DEF TypeOK, ActivateEnd
  <2> QED
    BY <1>2, <2>2 DEF TypeOK, ActivateEnd, storeVars
<1>3. CASE \/ \E r \in Revisions : MovePolicy(p, r)
           \/ \E q \in Healed : RestorePolicy(p, q)
  <2>1. PICK q \in Policies : ReplacePolicy(p, q)
    <3>1. \A r \in Revisions : [policy[p] EXCEPT !.rev = r] \in Policies
      BY DEF TypeOK, Policies
    <3> QED
      BY <1>3, <3>1, HealedAssumption DEF MovePolicy, RestorePolicy
  <2>2. stray' \in [Processes -> BOOLEAN]
    BY <1>3 DEF TypeOK, MovePolicy, RestorePolicy
  <2> QED
    BY <2>1, <2>2 DEF TypeOK, ReplacePolicy, storeVars
<1>6. CASE \E w \in Workloads, ok \in BOOLEAN : ImportWorkload(p, w, ok)
  BY <1>6 DEF TypeOK, ImportWorkload, storeVars
<1>4. CASE \E m \in Models : ChangeChampion(p, m)
  BY <1>4 DEF TypeOK, ChangeChampion, storeVars
<1>5. CASE \E w \in Workloads, bad \in SUBSET Imported : Restart(p, w, bad)
  <2>1. PICK w \in Workloads, bad \in SUBSET Imported : Restart(p, w, bad)
    BY <1>5
  <2>2. FromWorkload(w) \in Policies
    BY FromWorkloadType
  <2>3. call' \in [Callers -> Calls] /\ \A d \in Callers : Filled(call'[d])
    BY <2>1, IdleType DEF TypeOK, Restart
  <2>4. /\ active_id' \in [Processes -> Workloads]
        /\ policy' \in [Processes -> Policies]
        /\ activating' \in [Processes -> BOOLEAN]
        /\ audit_error' \in [Processes -> BOOLEAN]
        /\ refused' \in [Processes -> SUBSET Imported]
        /\ stray' \in [Processes -> BOOLEAN]
    BY <2>1, <2>2 DEF TypeOK, Restart
  <2>5. /\ idempotency_keys' \in [Txns -> CachedDecisions \cup {None}]
        /\ decision_events' \subseteq Events
        /\ rows' \in Nat
    BY <2>1 DEF TypeOK, Restart, storeVars
  <2> QED
    BY <2>1, <2>3, <2>4, <2>5 DEF TypeOK, Restart
<1> QED
  BY <1>1, <1>2, <1>3, <1>4, <1>5, <1>6 DEF Operate

LEMMA StutterType == TypeOK /\ UNCHANGED vars => TypeOK'
  BY DEF TypeOK, vars

LEMMA NextType ==
  ASSUME TypeOK, Bounded, [Next]_vars
  PROVE  TypeOK'
<1>1. ASSUME NEW c \in Callers, Score(c)
      PROVE  TypeOK'
  BY <1>1, LookupType, PredictType, SelectPolicyType, EvaluatePolicyType,
     EvaluateRefusedType, BuildEventType, ReadHeadType, InsertType, AppendAuditType DEF Score
<1> QED
  BY <1>1, OperateType, StutterType DEF Next

LEMMA BoundedStep ==
  ASSUME TypeOK, Bounded, [Next]_vars
  PROVE  Bounded'
<1>1. \A c \in Callers : call[c] \in Calls
  BY DEF TypeOK
<1>2. /\ clock \in Nat /\ rows \in Nat /\ clock' \in Nat /\ rows' \in Nat
      /\ clock' >= clock /\ rows' >= rows
  <2>1. clock' \in {clock, clock + 1} /\ rows' \in {rows, rows + 1}
    BY DEF Next, Score, Operate, Lookup, Predict, SelectPolicy, EvaluatePolicy, EvaluateRefused,
           BuildEvent, ReadHead, Insert, AppendAudit, ActivateBegin, ActivateEnd,
           ReplacePolicy, MovePolicy, RestorePolicy, ImportWorkload,
           ChangeChampion, Restart, storeVars, vars
  <2> QED
    BY <2>1 DEF TypeOK
<1>3. \A c \in Callers : call'[c].id <= clock'
  <2>1. CASE UNCHANGED vars
    BY <2>1 DEF Bounded, vars
  <2>2. ASSUME NEW d \in Callers, Score(d)
        PROVE  \A c \in Callers : call'[c].id \in {call[c].id, 0, clock'}
    <3>1. call \in [Callers -> Calls]
      BY DEF TypeOK
    <3>2. CASE \E r \in Requests : Lookup(d, r)
      BY <3>1, <3>2 DEF Lookup, Idle
    <3>3. CASE Predict(d)
      BY <3>1, <3>3 DEF Predict, Calls
    <3>4. CASE SelectPolicy(d)
      BY <3>1, <3>4 DEF SelectPolicy, Calls
    <3>5. CASE EvaluatePolicy(d)
      BY <3>1, <3>5 DEF EvaluatePolicy, Calls
    <3>10. CASE EvaluateRefused(d)
      BY <3>1, <3>10 DEF EvaluateRefused, Idle
    <3>6. CASE BuildEvent(d)
      BY <3>1, <3>6 DEF BuildEvent, Calls
    <3>7. CASE ReadHead(d)
      BY <3>1, <3>7 DEF ReadHead, Calls
    <3>8. CASE Insert(d)
      BY <3>1, <3>8 DEF Insert, Abandon, Calls, Idle
    <3>9. CASE AppendAudit(d)
      BY <3>1, <3>9 DEF AppendAudit, Idle
    <3> QED
      BY <2>2, <3>2, <3>3, <3>4, <3>5, <3>6, <3>7, <3>8, <3>9, <3>10
      DEF Score
  <2>3. ASSUME NEW p \in Processes, Operate(p)
        PROVE  \A c \in Callers : call'[c].id \in {call[c].id, 0}
    BY <2>3 DEF Operate, ActivateBegin, ActivateEnd, ReplacePolicy, MovePolicy, RestorePolicy,
         ImportWorkload,
           ChangeChampion, Restart, Idle, TypeOK
  <2>4. \A c \in Callers : call'[c].id \in {call[c].id, 0, clock'}
    BY <2>1, <2>2, <2>3 DEF Next, vars
  <2>5. \A c \in Callers : call[c].id \in Nat
    BY <1>1 DEF Calls
  <2> QED
    BY <1>2, <2>4, <2>5 DEF Bounded
<1>4. \A e \in decision_events' : e.id <= clock' /\ e.pos <= rows'
  <2>1. \A e \in decision_events : /\ e.id \in Nat /\ e.pos \in Nat
                                   /\ e.id <= clock' /\ e.pos <= rows'
    BY <1>2 DEF Bounded, TypeOK, Events
  <2>2. ASSUME NEW c \in Callers,
               call[c].at = "insert",
               decision_events' = Truncate(decision_events \cup {EventOf(c)}),
               rows' = rows + 1,
               UNCHANGED clock
        PROVE  \A e \in decision_events' : e.id <= clock' /\ e.pos <= rows'
    <3>1. EventOf(c).id <= clock' /\ EventOf(c).pos <= rows'
      BY <1>2, <2>2 DEF EventOf, Bounded
    <3>2. decision_events' \subseteq decision_events \cup {EventOf(c)}
      BY <2>2 DEF Truncate
    <3> HIDE DEF EventOf
    <3> QED
      BY <3>1, <3>2, <2>1
  <2>3. \/ decision_events' \subseteq decision_events
        \/ \E c \in Callers :
             /\ call[c].at = "insert"
             /\ decision_events' = Truncate(decision_events \cup {EventOf(c)})
             /\ rows' = rows + 1
             /\ UNCHANGED clock
    BY DEF Next, Score, Operate, Lookup, Predict, SelectPolicy, EvaluatePolicy, EvaluateRefused,
           BuildEvent, ReadHead, Insert, AppendAudit, ActivateBegin, ActivateEnd,
           ReplacePolicy, MovePolicy, RestorePolicy, ImportWorkload,
           ChangeChampion, Restart, storeVars, vars
  <2> QED
    BY <2>1, <2>2, <2>3
<1> QED
  BY <1>3, <1>4 DEF Bounded

(* Every variable keeps its type, and no call reaches a stage before it    *)
(* has read what the stages before it read: score() never evaluates a      *)
(* policy it did not select, nor records a response it did not compute.    *)
THEOREM TypeCorrect == Spec => [](TypeOK /\ Bounded)
<1>1. Init => TypeOK /\ Bounded
  BY InitType DEF Init, Bounded, Idle
<1>2. TypeOK /\ Bounded /\ [Next]_vars => TypeOK' /\ Bounded'
  BY NextType, BoundedStep
<1> QED
  BY <1>1, <1>2, PTL DEF Spec

-----------------------------------------------------------------------------
(* The decision tables of a SQLite deployment.  StoreInv is inductive for  *)
(* any number of threads and processes: the upsert's WHERE clause protects *)
(* the fingerprint, the transaction keeps cache and events together, and a *)
(* call at "append" has its event in the table.                            *)

Inserted(c) ==
  /\ call[c].at = "insert"
  /\ UpsertAllowed(call[c].request.txn, call[c].fingerprint)
  /\ idempotency_keys' = Upsert(call[c].request.txn, call[c].fingerprint, c)
  /\ decision_events' = decision_events \cup {EventOf(c)}
  /\ rows' = rows + 1
  /\ call' = [call EXCEPT ![c].at = "append"]
  /\ UNCHANGED <<audit_log, answers>>

AppendRecorded ==
  \A c \in Callers : call[c].at = "append" =>
    \E e \in decision_events : /\ e.id = call[c].id
                               /\ e.txn = call[c].request.txn
                               /\ e.fingerprint = call[c].fingerprint
                               /\ e.response = ResponseOf(c)

StoreInv == /\ TypeOK
            /\ Bounded
            /\ FingerprintConsistent
            /\ CachedIsNewestRecorded
            /\ AppendRecorded

(* A step of a SQLite deployment leaves the store alone or is an insert.   *)
LEMMA SqlStep ==
  ASSUME Backend = "sqlite", [Next]_vars
  PROVE  UNCHANGED storeVars \/ \E c \in Callers : Inserted(c)
<1>1. ASSUME NEW c \in Callers, Score(c)
      PROVE  UNCHANGED storeVars \/ Inserted(c)
  BY <1>1 DEF Score, Lookup, Predict, SelectPolicy, EvaluatePolicy, EvaluateRefused,
         BuildEvent, ReadHead, Insert, AppendAudit, storeVars, Inserted, Truncate
<1>2. ASSUME NEW p \in Processes, Operate(p)
      PROVE  UNCHANGED storeVars
  BY <1>2 DEF Operate, ActivateBegin, ActivateEnd, ReplacePolicy, MovePolicy,
         RestorePolicy, ImportWorkload, ChangeChampion, Restart, storeVars
<1>3. CASE UNCHANGED vars
  BY <1>3 DEF vars, storeVars
<1> QED
  BY <1>1, <1>2, <1>3 DEF Next

(* A call reaches "append" only by its own insert. *)
LEMMA AppendStep ==
  ASSUME TypeOK, [Next]_vars, NEW c \in Callers, call'[c].at = "append"
  PROVE  call'[c] = call[c] \/ Insert(c)
<1>1. CASE UNCHANGED vars
  BY <1>1 DEF vars
<1>2. ASSUME NEW d \in Callers, Score(d)
      PROVE  call'[c] = call[c] \/ Insert(c)
  <2>1. call \in [Callers -> Calls]
    BY DEF TypeOK
  <2>2. CASE \E r \in Requests : Lookup(d, r)
    BY <2>1, <2>2 DEF Lookup, Idle
  <2>3. CASE Predict(d)
    BY <2>1, <2>3 DEF Predict, Calls
  <2>4. CASE SelectPolicy(d)
    BY <2>1, <2>4 DEF SelectPolicy, Calls
  <2>5. CASE EvaluatePolicy(d)
    BY <2>1, <2>5 DEF EvaluatePolicy, Calls
  <2>10. CASE EvaluateRefused(d)
    BY <2>1, <2>10 DEF EvaluateRefused, Idle
  <2>6. CASE BuildEvent(d)
    BY <2>1, <2>6 DEF BuildEvent, Calls
  <2>7. CASE ReadHead(d)
    BY <2>1, <2>7 DEF ReadHead, Calls
  <2>8. CASE Insert(d)
    <3>1. CASE d = c
      BY <2>8, <3>1
    <3>2. CASE d # c
      BY <2>1, <2>8, <3>2 DEF Insert, Abandon
    <3> QED
      BY <3>1, <3>2
  <2>9. CASE AppendAudit(d)
    BY <2>1, <2>9 DEF AppendAudit, Idle
  <2> QED
    BY <1>2, <2>2, <2>3, <2>4, <2>5, <2>6, <2>7, <2>8, <2>9, <2>10
    DEF Score
<1>3. ASSUME NEW p \in Processes, Operate(p)
      PROVE  call'[c] = call[c]
  BY <1>3 DEF Operate, ActivateBegin, ActivateEnd, ReplacePolicy, MovePolicy, RestorePolicy,
         ImportWorkload,
         ChangeChampion, Restart, Idle, TypeOK
<1> QED
  BY <1>1, <1>2, <1>3 DEF Next

LEMMA FingerprintStep ==
  ASSUME Backend = "sqlite", StoreInv, [Next]_vars
  PROVE  FingerprintConsistent'
<1>1. CASE UNCHANGED storeVars
  BY <1>1 DEF storeVars, StoreInv, FingerprintConsistent
<1>2. ASSUME NEW c \in Callers, Inserted(c)
      PROVE  FingerprintConsistent'
  <2> DEFINE t == call[c].request.txn
             f == call[c].fingerprint
             d == [fingerprint |-> f, response |-> ResponseOf(c)]
  <2>1. t \in Txns /\ d \in CachedDecisions /\ d.fingerprint = f
    BY <1>2, EventType DEF StoreInv, Inserted, CachedDecisions
  <2>2. idempotency_keys' = [idempotency_keys EXCEPT ![t] = d]
    BY <1>2 DEF Inserted, Upsert
  <2>3. d # None
    BY <2>1, NoneIsNoDecision
  <2>4. idempotency_keys[t] # None => idempotency_keys[t].fingerprint = f
    BY <1>2 DEF Inserted, UpsertAllowed
  <2>5. EventOf(c).txn = t /\ EventOf(c).fingerprint = f
    BY DEF EventOf
  <2> HIDE DEF t, f, d
  <2>6. ASSUME NEW e \in decision_events'
        PROVE  /\ idempotency_keys'[e.txn] # None
               /\ idempotency_keys'[e.txn].fingerprint = e.fingerprint
    <3>1. CASE e = EventOf(c)
      BY <3>1, <2>1, <2>2, <2>3, <2>5 DEF StoreInv, TypeOK
    <3>2. CASE e \in decision_events
      BY <3>2, <2>1, <2>2, <2>3, <2>4
      DEF StoreInv, TypeOK, FingerprintConsistent, Events
    <3> QED
      BY <1>2, <3>1, <3>2 DEF Inserted
  <2> QED
    BY <2>6 DEF FingerprintConsistent
<1> QED
  BY <1>1, <1>2, SqlStep

LEMMA CachedStep ==
  ASSUME Backend = "sqlite", StoreInv, [Next]_vars
  PROVE  CachedIsNewestRecorded'
<1>1. CASE UNCHANGED storeVars
  BY <1>1 DEF storeVars, StoreInv, CachedIsNewestRecorded
<1>2. ASSUME NEW c \in Callers, Inserted(c)
      PROVE  CachedIsNewestRecorded'
  <2> DEFINE t == call[c].request.txn
             d == [fingerprint |-> call[c].fingerprint, response |-> ResponseOf(c)]
             e == EventOf(c)
  <2>1. t \in Txns
    BY <1>2, EventType DEF StoreInv, Inserted
  <2>2. /\ idempotency_keys' = [idempotency_keys EXCEPT ![t] = d]
        /\ decision_events' = decision_events \cup {e}
    BY <1>2 DEF Inserted, Upsert
  <2>3. e.txn = t /\ e.response = d.response /\ e.pos = rows + 1
    BY DEF EventOf
  <2>4. \A o \in decision_events : o.pos \in Nat /\ o.pos <= rows
    BY DEF StoreInv, TypeOK, Bounded, Events
  <2>5. rows \in Nat
    BY DEF StoreInv, TypeOK
  <2> HIDE DEF t, d, e
  <2>6. ASSUME NEW u \in Txns, idempotency_keys'[u] # None
        PROVE  \E w \in decision_events' :
                 /\ w.txn = u
                 /\ w.response = idempotency_keys'[u].response
                 /\ \A o \in decision_events' : o.txn = u => o.pos <= w.pos
    <3>1. CASE u = t
      <4>1. idempotency_keys'[u] = d
        BY <2>1, <2>2, <3>1 DEF StoreInv, TypeOK
      <4>2. \A o \in decision_events' : o.pos <= e.pos
        BY <2>2, <2>3, <2>4, <2>5
      <4> QED
        BY <2>2, <2>3, <3>1, <4>1, <4>2
    <3>2. CASE u # t
      <4>1. idempotency_keys'[u] = idempotency_keys[u]
        BY <2>2, <3>2 DEF StoreInv, TypeOK
      <4>2. PICK w \in decision_events :
              /\ w.txn = u
              /\ w.response = idempotency_keys[u].response
              /\ \A o \in decision_events : o.txn = u => o.pos <= w.pos
        BY <2>6, <4>1 DEF StoreInv, CachedIsNewestRecorded
      <4> QED
        BY <2>2, <2>3, <3>2, <4>1, <4>2
    <3> QED
      BY <3>1, <3>2
  <2> QED
    BY <2>6 DEF CachedIsNewestRecorded
<1> QED
  BY <1>1, <1>2, SqlStep

LEMMA AppendRecordedStep ==
  ASSUME Backend = "sqlite", StoreInv, [Next]_vars
  PROVE  AppendRecorded'
<1>1. decision_events \subseteq decision_events'
  BY SqlStep DEF storeVars, Inserted
<1> SUFFICES ASSUME NEW c \in Callers, call'[c].at = "append"
             PROVE  \E e \in decision_events' :
                      /\ e.id = call'[c].id
                      /\ e.txn = call'[c].request.txn
                      /\ e.fingerprint = call'[c].fingerprint
                      /\ e.response = ResponseOf(c)'
  BY DEF AppendRecorded
<1>2. CASE call'[c] = call[c]
  BY <1>1, <1>2 DEF StoreInv, AppendRecorded, ResponseOf
<1>3. CASE Insert(c)
  <2>1. call \in [Callers -> Calls]
    BY DEF StoreInv, TypeOK
  <2>2. call' # Abandon(c)
    BY <2>1 DEF Abandon, Idle
  <2>3. /\ call' = [call EXCEPT ![c].at = "append"]
        /\ EventOf(c) \in decision_events'
    BY <1>3, <2>2 DEF Insert, Truncate
  <2>4. /\ call'[c].id = call[c].id
        /\ call'[c].request = call[c].request
        /\ call'[c].fingerprint = call[c].fingerprint
        /\ ResponseOf(c)' = ResponseOf(c)
    BY <2>1, <2>3 DEF ResponseOf, Calls
  <2> QED
    BY <2>3, <2>4 DEF EventOf
<1> QED
  BY <1>2, <1>3, AppendStep DEF StoreInv

LEMMA StoreInvariant ==
  ASSUME Backend = "sqlite"
  PROVE  Spec => []StoreInv
<1>1. Init => StoreInv
  <2> SUFFICES ASSUME Init
               PROVE  StoreInv
    OBVIOUS
  <2>1. TypeOK
    BY InitType
  <2>2. /\ decision_events = {}
        /\ \A t \in Txns : idempotency_keys[t] = None
        /\ \A c \in Callers : call[c] = Idle
        /\ clock = 0
    BY DEF Init
  <2> QED
    BY <2>1, <2>2 DEF StoreInv, Bounded, FingerprintConsistent,
       CachedIsNewestRecorded, AppendRecorded, Idle
<1>2. StoreInv /\ [Next]_vars => StoreInv'
  <2> SUFFICES ASSUME StoreInv, [Next]_vars
               PROVE  StoreInv'
    OBVIOUS
  <2>1. TypeOK' /\ Bounded'
    BY NextType, BoundedStep DEF StoreInv
  <2> QED
    BY <2>1, FingerprintStep, CachedStep, AppendRecordedStep DEF StoreInv
<1> QED
  BY <1>1, <1>2, PTL DEF Spec

(* However many threads and processes race, no transaction id of a SQLite  *)
(* deployment ever has events for two different requests.                  *)
THEOREM OneFingerprintPerTransaction ==
  ASSUME Backend = "sqlite"
  PROVE  Spec => []FingerprintConsistent
<1>1. StoreInv => FingerprintConsistent
  BY DEF StoreInv
<1> QED
  BY <1>1, StoreInvariant, PTL

(* The cached decision of a transaction is always the one recorded last.   *)
THEOREM CacheFollowsEvents ==
  ASSUME Backend = "sqlite"
  PROVE  Spec => []CachedIsNewestRecorded
<1>1. StoreInv => CachedIsNewestRecorded
  BY DEF StoreInv
<1> QED
  BY <1>1, StoreInvariant, PTL

(* A bound transaction id is never unbound or bound to another request.    *)
THEOREM FingerprintNeverChanges ==
  ASSUME Backend = "sqlite"
  PROVE  Spec => FingerprintStable
<1> DEFINE Stable ==
      \A t \in Txns : idempotency_keys[t] # None =>
        /\ idempotency_keys'[t] # None
        /\ idempotency_keys'[t].fingerprint = idempotency_keys[t].fingerprint
<1>1. StoreInv /\ [Next]_vars => [Stable]_vars
  <2> SUFFICES ASSUME StoreInv, [Next]_vars
               PROVE  Stable
    OBVIOUS
  <2>1. CASE UNCHANGED storeVars
    BY <2>1 DEF storeVars
  <2>2. ASSUME NEW c \in Callers, Inserted(c)
        PROVE  Stable
    <3> DEFINE d == [fingerprint |-> call[c].fingerprint,
                     response |-> ResponseOf(c)]
    <3>1. d \in CachedDecisions /\ call[c].request.txn \in Txns
      BY <2>2, EventType DEF StoreInv, Inserted, CachedDecisions
    <3>2. d # None /\ d.fingerprint = call[c].fingerprint
      BY <3>1, NoneIsNoDecision
    <3>3. idempotency_keys' = [idempotency_keys EXCEPT ![call[c].request.txn] = d]
      BY <2>2 DEF Inserted, Upsert
    <3> HIDE DEF d
    <3> QED
      BY <2>2, <3>1, <3>2, <3>3 DEF StoreInv, TypeOK, Inserted, UpsertAllowed
  <2> QED
    BY <2>1, <2>2, SqlStep
<1> QED
  BY <1>1, StoreInvariant, PTL DEF Spec, FingerprintStable

-----------------------------------------------------------------------------
(* What leaves the engine: answers to clients and the audit sink. *)

LEMMA SqlEventsGrow ==
  ASSUME Backend = "sqlite", [Next]_vars
  PROVE  decision_events \subseteq decision_events'
  BY SqlStep DEF storeVars, Inserted

(* A step that adds an answer is a cache hit, a conflict or the end of a   *)
(* call; one that adds to the audit sink is the end of a call.             *)
LEMMA AnswerStep ==
  ASSUME [Next]_vars
  PROVE  \/ UNCHANGED <<answers, audit_log>>
         \/ \E c \in Callers : \E r \in Requests : Lookup(c, r)
         \/ \E c \in Callers : AppendAudit(c)
  BY DEF Next, Score, Operate, Predict, SelectPolicy, EvaluatePolicy, EvaluateRefused,
         BuildEvent, ReadHead, Insert, ActivateBegin, ActivateEnd,
         ReplacePolicy, MovePolicy, RestorePolicy, ImportWorkload,
         ChangeChampion, Restart, vars

LEMMA AuditStep ==
  ASSUME Backend = "sqlite", StoreInv, AuditFollowsStore, [Next]_vars
  PROVE  AuditFollowsStore'
<1>1. audit_log \subseteq {e.id : e \in decision_events'}
  BY SqlEventsGrow DEF AuditFollowsStore
<1>2. CASE UNCHANGED audit_log
  BY <1>1, <1>2 DEF AuditFollowsStore
<1>3. ASSUME NEW c \in Callers, AppendAudit(c)
      PROVE  AuditFollowsStore'
  <2>1. call[c].id \in {e.id : e \in decision_events'}
    BY <1>3, SqlEventsGrow DEF AppendAudit, StoreInv, AppendRecorded
  <2>2. audit_log' \subseteq audit_log \cup {call[c].id}
    BY <1>3 DEF AppendAudit
  <2> QED
    BY <1>1, <2>1, <2>2 DEF AuditFollowsStore
<1> QED
  BY <1>2, <1>3, AnswerStep DEF Lookup

LEMMA AnswersStep ==
  ASSUME Backend = "sqlite", StoreInv, AnswersRecorded, [Next]_vars
  PROVE  AnswersRecorded'
<1> DEFINE RecordedFor(a) ==
      \E e \in decision_events' : /\ e.txn = a.request.txn
                                  /\ e.fingerprint = a.fingerprint
                                  /\ e.response = a.response
<1>1. \A a \in answers : a.outcome = "ok" => RecordedFor(a)
  BY SqlEventsGrow DEF AnswersRecorded
<1>2. ASSUME NEW a \in answers', a \notin answers, a.outcome = "ok"
      PROVE  RecordedFor(a)
  <2>1. CASE \E c \in Callers : \E r \in Requests : Lookup(c, r)
    <3>1. PICK c \in Callers, r \in Requests : Lookup(c, r)
      BY <2>1
    <3> DEFINE cached == idempotency_keys[r.txn]
    <3>2. /\ cached # None
          /\ a.request = r
          /\ a.fingerprint = cached.fingerprint
          /\ a.response = cached.response
      BY <1>2, <3>1 DEF Lookup, Answer
    <3>3. r.txn \in Txns
      BY DEF Requests
    <3>4. PICK e \in decision_events : e.txn = r.txn /\ e.response = cached.response
      BY <3>2, <3>3 DEF StoreInv, CachedIsNewestRecorded
    <3>5. e.fingerprint = cached.fingerprint
      BY <3>4 DEF StoreInv, FingerprintConsistent
    <3> QED
      BY <3>2, <3>4, <3>5, SqlEventsGrow
  <2>2. ASSUME NEW c \in Callers, AppendAudit(c)
        PROVE  RecordedFor(a)
    <3>1. /\ a.request = call[c].request
          /\ a.fingerprint = call[c].fingerprint
          /\ a.response = ResponseOf(c)
      BY <1>2, <2>2 DEF AppendAudit, Answer
    <3> QED
      BY <2>2, <3>1, SqlEventsGrow DEF AppendAudit, StoreInv, AppendRecorded
  <2> QED
    BY <1>2, <2>1, <2>2, AnswerStep
<1> QED
  BY <1>1, <1>2 DEF AnswersRecorded

(* Every decision a client of a SQLite deployment was given, first hand or *)
(* from the cache, is in the decision_events table.                        *)
THEOREM AnswersAreRecorded ==
  ASSUME Backend = "sqlite"
  PROVE  Spec => []AnswersRecorded
<1>1. Init => AnswersRecorded
  BY DEF Init, AnswersRecorded
<1>2. StoreInv /\ AnswersRecorded /\ [Next]_vars => AnswersRecorded'
  BY AnswersStep
<1> QED
  BY <1>1, <1>2, StoreInvariant, PTL DEF Spec

(* The audit sink of a SQLite deployment holds no event that its store     *)
(* does not hold, whatever fails between the two writes.                   *)
THEOREM AuditFollowsTheStore ==
  ASSUME Backend = "sqlite"
  PROVE  Spec => []AuditFollowsStore
<1>1. Init => AuditFollowsStore
  BY DEF Init, AuditFollowsStore
<1>2. StoreInv /\ AuditFollowsStore /\ [Next]_vars => AuditFollowsStore'
  BY AuditStep
<1> QED
  BY <1>1, <1>2, StoreInvariant, PTL DEF Spec

-----------------------------------------------------------------------------
(* How often a transaction is decided. *)

(* The events of a transaction id, and the calls that looked it up in vain *)
(* and may still insert one.                                               *)
EventsOf(t) == {e \in decision_events : e.txn = t}

Deciding(t) == {c \in Callers : /\ call[c].at \notin {"idle", "append"}
                                /\ call[c].request.txn = t}

CountInv ==
  \A t \in Txns :
    /\ IsFiniteSet(EventsOf(t))
    /\ Cardinality(EventsOf(t)) + Cardinality(Deciding(t)) <= Cardinality(Callers)

LEMMA DecidingFinite ==
  ASSUME NEW S \in SUBSET Callers
  PROVE  /\ IsFiniteSet(S) /\ Cardinality(S) \in Nat
         /\ Cardinality(Callers) \in Nat
         /\ Cardinality(S) <= Cardinality(Callers)
<1>1. IsFiniteSet(S) /\ Cardinality(S) <= Cardinality(Callers)
  BY CallersAssumption, FS_Subset
<1> QED
  BY <1>1, CallersAssumption, FS_CardinalityType

(* Only a lookup that misses makes a call one that may insert; an insert   *)
(* ends that, and every other step leaves the calls or ends some.          *)
LEMMA DecidingStep ==
  ASSUME TypeOK, [Next]_vars, NEW t \in Txns,
         ~ \E c \in Callers, r \in Requests :
             Lookup(c, r) /\ r.txn = t /\ idempotency_keys[t] = None
  PROVE  Deciding(t)' \subseteq Deciding(t)
<1>1. /\ call \in [Callers -> Calls]
      /\ \A c \in Callers : call[c] \in Calls /\ call[c].at \in Stages
  BY DEF TypeOK, Calls
<1>2. ASSUME NEW d \in Callers, NEW k, call' = [call EXCEPT ![d] = k],
             \/ k.at \in {"idle", "append"}
             \/ /\ call[d].at \notin {"idle", "append"}
                /\ k.request = call[d].request
             \/ k.request.txn # t
      PROVE  Deciding(t)' \subseteq Deciding(t)
  BY <1>1, <1>2 DEF Deciding
<1>3. CASE UNCHANGED call
  BY <1>3 DEF Deciding
<1>4. ASSUME NEW d \in Callers, NEW r \in Requests, Lookup(d, r)
      PROVE  Deciding(t)' \subseteq Deciding(t)
  <2> DEFINE k == [Idle EXCEPT !.at = "predict", !.request = r,
                               !.fingerprint = Fingerprint(ProcessOf[d], r),
                               !.buildable =
                                 Buildable(ProcessOf[d],
                                           Fingerprint(ProcessOf[d], r).workload)]
  <2>1. k.request = r
    BY DEF Idle
  <2>2. \/ UNCHANGED call
        \/ call' = [call EXCEPT ![d] = k] /\ r.txn # t
    BY <1>4 DEF Lookup
  <2> HIDE DEF k
  <2> QED
    BY <1>2, <1>3, <2>1, <2>2
<1>5. ASSUME NEW d \in Callers,
             \/ Predict(d) \/ SelectPolicy(d) \/ EvaluatePolicy(d)
             \/ BuildEvent(d) \/ ReadHead(d)
      PROVE  Deciding(t)' \subseteq Deciding(t)
  <2>1. /\ call[d].at \notin {"idle", "append"}
        /\ call'[d].request = call[d].request
        /\ \A c \in Callers \ {d} : call'[c] = call[c]
    <3>1. CASE Predict(d)
      BY <1>1, <3>1 DEF Predict, Calls
    <3>2. CASE SelectPolicy(d)
      BY <1>1, <3>2 DEF SelectPolicy, Calls
    <3>3. CASE EvaluatePolicy(d)
      BY <1>1, <3>3 DEF EvaluatePolicy, Calls
    <3>4. CASE BuildEvent(d)
      BY <1>1, <3>4 DEF BuildEvent, Calls
    <3>5. CASE ReadHead(d)
      BY <1>1, <3>5 DEF ReadHead, Calls
    <3> QED
      BY <1>5, <3>1, <3>2, <3>3, <3>4, <3>5
  <2> QED
    BY <2>1 DEF Deciding
<1>6. ASSUME NEW d \in Callers,
             Insert(d) \/ AppendAudit(d) \/ EvaluateRefused(d)
      PROVE  Deciding(t)' \subseteq Deciding(t)
  <2>1. /\ call'[d].at \in {"idle", "append"}
        /\ \A c \in Callers \ {d} : call'[c] = call[c]
    <3>1. Idle.at = "idle"
      BY DEF Idle
    <3>2. CASE call' = [call EXCEPT ![d] = Idle]
      BY <1>1, <3>1, <3>2
    <3>3. CASE call' = [call EXCEPT ![d].at = "append"]
      BY <1>1, <3>3 DEF Calls
    <3> QED
      BY <1>6, <3>2, <3>3 DEF Insert, AppendAudit, Abandon, EvaluateRefused
  <2> QED
    BY <2>1 DEF Deciding
<1>7. ASSUME NEW p \in Processes, Operate(p)
      PROVE  Deciding(t)' \subseteq Deciding(t)
  <2>1. \A c \in Callers : call'[c] = call[c] \/ call'[c] = Idle
    BY <1>7 DEF Operate, ActivateBegin, ActivateEnd, ReplacePolicy, MovePolicy, RestorePolicy,
         ImportWorkload,
           ChangeChampion, Restart, TypeOK
  <2> QED
    BY <2>1 DEF Deciding, Idle
<1> QED
  BY <1>3, <1>4, <1>5, <1>6, <1>7 DEF Next, Score, vars

LEMMA CountStep ==
  ASSUME Backend = "sqlite", StoreInv, CountInv, [Next]_vars
  PROVE  CountInv'
<1> SUFFICES ASSUME NEW t \in Txns
             PROVE  /\ IsFiniteSet(EventsOf(t)')
                    /\ Cardinality(EventsOf(t)') + Cardinality(Deciding(t)')
                          <= Cardinality(Callers)
  BY DEF CountInv
<1> DEFINE n == Cardinality(EventsOf(t))
           D == Deciding(t)
           E == Deciding(t)'
<1>1. /\ TypeOK /\ D \in SUBSET Callers /\ E \in SUBSET Callers
      /\ IsFiniteSet(EventsOf(t)) /\ n + Cardinality(D) <= Cardinality(Callers)
  BY DEF StoreInv, CountInv, Deciding
<1>2. n \in Nat
  BY <1>1, FS_CardinalityType
<1>3. CASE \E c \in Callers, r \in Requests :
             Lookup(c, r) /\ r.txn = t /\ idempotency_keys[t] = None
  <2>1. EventsOf(t) = {}
    BY <1>3 DEF EventsOf, StoreInv, FingerprintConsistent
  <2>2. EventsOf(t)' = EventsOf(t)
    BY <1>3 DEF Lookup, storeVars, EventsOf
  <2>3. Cardinality(EventsOf(t)') = 0 /\ IsFiniteSet(EventsOf(t)')
    BY <2>1, <2>2, FS_EmptySet
  <2> HIDE DEF E
  <2> QED
    BY <1>1, <2>3, DecidingFinite DEF E
<1>4. CASE ~ \E c \in Callers, r \in Requests :
               Lookup(c, r) /\ r.txn = t /\ idempotency_keys[t] = None
  <2>1. E \subseteq D
    BY <1>1, <1>4, DecidingStep
  <2>2. /\ Cardinality(E) <= Cardinality(D)
        /\ Cardinality(E) \in Nat /\ Cardinality(D) \in Nat /\ IsFiniteSet(D)
    <3> HIDE DEF D, E
    <3>1. IsFiniteSet(D) /\ Cardinality(D) \in Nat /\ Cardinality(E) \in Nat
      BY <1>1, DecidingFinite
    <3> QED
      BY <2>1, <3>1, FS_Subset
  <2>3. CASE EventsOf(t)' = EventsOf(t)
    BY <1>1, <1>2, <2>2, <2>3, DecidingFinite
  <2>4. ASSUME NEW c \in Callers, Inserted(c), EventsOf(t)' # EventsOf(t)
        PROVE  /\ IsFiniteSet(EventsOf(t)')
               /\ Cardinality(EventsOf(t)') + Cardinality(E) <= Cardinality(Callers)
    <3>1. /\ EventOf(c).txn = t /\ EventsOf(t)' = EventsOf(t) \cup {EventOf(c)}
          /\ c \in D
      BY <2>4 DEF Inserted, EventsOf, EventOf, Deciding
    <3>2. c \notin E
      BY <1>1, <2>4 DEF Inserted, Deciding, TypeOK, Calls
    <3>3. /\ IsFiniteSet(EventsOf(t)')
          /\ Cardinality(EventsOf(t)') <= n + 1 /\ Cardinality(EventsOf(t)') \in Nat
      <4>1. /\ IsFiniteSet(EventsOf(t)')
            /\ Cardinality(EventsOf(t)') =
                 IF EventOf(c) \in EventsOf(t) THEN n ELSE n + 1
        BY <1>1, <3>1, FS_AddElement
      <4> QED
        BY <1>2, <4>1
    <3>4. Cardinality(E) <= Cardinality(D) - 1
      <4> HIDE DEF D, E
      <4>1. Cardinality(D \ {c}) = Cardinality(D) - 1 /\ IsFiniteSet(D \ {c})
        BY <2>2, <3>1, FS_RemoveElement
      <4>2. E \subseteq D \ {c}
        BY <2>1, <3>2
      <4> QED
        BY <4>1, <4>2, FS_Subset
    <3> HIDE DEF D, E, n
    <3> QED
      BY <1>1, <1>2, <2>2, <3>3, <3>4, DecidingFinite
  <2> QED
    BY <2>3, <2>4, SqlStep DEF storeVars, EventsOf
<1> QED
  BY <1>3, <1>4

(* Over SQLite no transaction is decided more often than there are         *)
(* callers, however many threads and processes race, fail and restart: a   *)
(* call that looks the id up after a decision hears that one.              *)
THEOREM DecidedOncePerCaller ==
  ASSUME Backend = "sqlite"
  PROVE  Spec => []DuplicatesNeedOverlap
<1>1. Init => CountInv
  <2> SUFFICES ASSUME Init, NEW t \in Txns
               PROVE  /\ IsFiniteSet(EventsOf(t))
                      /\ Cardinality(EventsOf(t)) + Cardinality(Deciding(t))
                            <= Cardinality(Callers)
    BY DEF CountInv
  <2>1. EventsOf(t) = {} /\ Deciding(t) = {}
    BY DEF Init, EventsOf, Deciding, Idle
  <2> QED
    BY <2>1, FS_EmptySet, DecidingFinite
<1>2. StoreInv /\ CountInv /\ [Next]_vars => CountInv'
  BY CountStep
<1>3. CountInv => DuplicatesNeedOverlap
  <2> SUFFICES ASSUME CountInv, NEW t \in Txns
               PROVE  Cardinality(EventsOf(t)) <= Cardinality(Callers)
    BY DEF DuplicatesNeedOverlap, EventsOf
  <2>1. Deciding(t) \in SUBSET Callers
    BY DEF Deciding
  <2>2. Cardinality(EventsOf(t)) \in Nat
    BY FS_CardinalityType DEF CountInv
  <2> QED
    BY <2>1, <2>2, DecidingFinite DEF CountInv
<1> QED
  BY <1>1, <1>2, <1>3, StoreInvariant, PTL DEF Spec
=============================================================================
