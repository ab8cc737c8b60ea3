--------------------------- MODULE ScoringEngine ---------------------------
(***************************************************************************)
(* RuntimeEngine.score and the decision store it writes, for callers that  *)
(* run in one or several processes over one store.  A score call is cut at *)
(* every point where another thread or process can act in between: cache   *)
(* lookup, prediction, the two reads that select the policy, construction  *)
(* of the audit event, the read of the chain head, the insert, and the     *)
(* append to the audit sink.                                               *)
(*                                                                         *)
(* The scoring arithmetic is abstracted: a response is the pair of the     *)
(* model and the policy that produced it.  A hash is the identity of the   *)
(* event it covers, the clock value at which the event was constructed.    *)
(***************************************************************************)
EXTENDS Naturals, FiniteSets

CONSTANTS Callers,       \* threads that call score()
          Processes,     \* runtime processes
          ProcessOf,     \* the process each caller runs in
          Txns,          \* transaction ids
          Bodies,        \* request bodies, the workload_id field left out
          Workloads,     \* workload ids
          Sent,          \* workload_id fields clients send; None: left out
          Models,        \* model ids
          Revisions,     \* policy revisions; 0 is the one a workload declares
          Healed,        \* policies a rollback by the healing executor restores
          Imported,      \* workloads of which specs are imported
          Backend,       \* "memory" or "sqlite"
          Threaded,      \* may other calls of a process run during a call?
          MemoryCap,     \* events InMemoryRuntimeStore keeps (100 in the code)
          MaxDecisions,  \* bound on the decision events ever constructed
          None

ASSUME BackendAssumption == Backend \in {"memory", "sqlite"}
ASSUME ThreadedAssumption == Threaded \in BOOLEAN
ASSUME CallersAssumption == IsFiniteSet(Callers)
ASSUME ProcessAssumption == ProcessOf \in [Callers -> Processes]
ASSUME MemoryAssumption ==
  Backend = "memory" => \A c, d \in Callers : ProcessOf[c] = ProcessOf[d]
ASSUME BoundAssumption == MemoryCap \in Nat \ {0} /\ MaxDecisions \in Nat
ASSUME SentAssumption == Sent \subseteq Workloads \cup {None}
ASSUME RevisionAssumption == 0 \in Revisions
ASSUME ImportAssumption == Imported \subseteq Workloads
ASSUME NoneAssumption == /\ None \notin Workloads
                         /\ None \notin Models
                         /\ None \notin Nat
                         /\ None \notin Txns

VARIABLES
  active_id,         \* process -> the workload registry's active id
  policy,            \* process -> RuntimeEngine.policy
  refused,           \* process -> workloads whose thresholds DecisionPolicy refuses
  stray,             \* process -> was its last activation refused, or a
                     \* threshold move rolled back since? (history)
  champion,          \* process -> the control plane's active model
  audit_error,       \* process -> _last_audit_error is not None
  activating,        \* process -> is an activation half done?
  idempotency_keys,  \* transaction id -> cached decision
  decision_events,   \* the decision_events table
  rows,              \* events inserted so far: the order of insertion
  audit_log,         \* events the audit sink holds
  call,              \* caller -> its score() call
  clock,             \* event constructions so far
  answers            \* what clients were told (history)

vars == <<active_id, policy, refused, stray, champion, audit_error, activating,
          idempotency_keys, decision_events, rows, audit_log, call, clock, answers>>

engineVars == <<active_id, policy, refused, stray, champion, activating>>
storeVars  == <<idempotency_keys, decision_events, rows>>

-----------------------------------------------------------------------------
Policies == [owner : Workloads, rev : Revisions]
Requests == [txn : Txns, body : Bodies, workload : Sent]
Fingerprints == [body : Bodies, workload : Workloads]
Responses == [model : Models, policy : Policies]
ASSUME HealedAssumption == Healed \subseteq Policies
CachedDecisions == [fingerprint : Fingerprints, response : Responses]
ASSUME NoneIsNoDecision == None \notin CachedDecisions
Hashes == Nat \cup {None}

(* A row of decision_events: id stands for the event's id, its created_at  *)
(* and its event_hash; pos is the order of insertion.                      *)
Events == [id : Nat, pos : Nat, txn : Txns, fingerprint : Fingerprints,
           response : Responses, degraded : BOOLEAN, previous_hash : Hashes]

Stages == {"idle", "predict", "select", "evaluate", "build", "head",
           "insert", "append"}

Calls == [at : Stages,
          request : Requests \cup {None},
          fingerprint : Fingerprints \cup {None},
          model : Models \cup {None},
          buildable : BOOLEAN,
          engine_policy : BOOLEAN,
          policy : Policies \cup {None},
          degraded : BOOLEAN,
          id : Nat,
          previous_hash : Hashes]

Idle == [at |-> "idle", request |-> None, fingerprint |-> None,
         model |-> None, buildable |-> FALSE, engine_policy |-> FALSE,
         policy |-> None, degraded |-> FALSE, id |-> 0, previous_hash |-> None]

Answers == [request : Requests, outcome : {"ok", "conflict"},
            fingerprint : Fingerprints, response : Responses \cup {None}]

(* A call has, at each stage, everything the stages before it read. *)
Filled(k) == /\ k.at # "idle" => /\ k.request \in Requests
                                 /\ k.fingerprint \in Fingerprints
             /\ k.at \notin {"idle", "predict"} => k.model \in Models
             /\ k.at \in {"build", "head", "insert", "append"}
                  => k.policy \in Policies

TypeOK == /\ active_id \in [Processes -> Workloads]
          /\ policy \in [Processes -> Policies]
          /\ refused \in [Processes -> SUBSET Imported]
          /\ stray \in [Processes -> BOOLEAN]
          /\ champion \in [Processes -> Models]
          /\ audit_error \in [Processes -> BOOLEAN]
          /\ activating \in [Processes -> BOOLEAN]
          /\ idempotency_keys \in [Txns -> CachedDecisions \cup {None}]
          /\ decision_events \subseteq Events
          /\ rows \in Nat
          /\ audit_log \subseteq Nat
          /\ call \in [Callers -> Calls]
          /\ \A c \in Callers : Filled(call[c])
          /\ clock \in Nat
          /\ answers \subseteq Answers

(* DecisionPolicy.from_workload, for a spec whose thresholds it accepts.   *)
(* An import checks no thresholds; the policy's constructor raises for     *)
(* some, and each of its callers below has that path of its own.           *)
FromWorkload(w) == [owner |-> w, rev |-> 0]

Buildable(p, w) == w \notin refused[p]

(* RuntimeEngine.__init__ builds the policy of the active workload, so the *)
(* specs loaded from the user directory may be refused for others only.    *)
Init == /\ \E w \in Workloads : \E bad \in SUBSET (Imported \ {w}) :
             /\ active_id = [p \in Processes |-> w]
             /\ policy = [p \in Processes |-> FromWorkload(w)]
             /\ refused = [p \in Processes |-> bad]
        /\ stray = [p \in Processes |-> FALSE]
        /\ \E m \in Models : champion = [p \in Processes |-> m]
        /\ audit_error = [p \in Processes |-> FALSE]
        /\ activating = [p \in Processes |-> FALSE]
        /\ idempotency_keys = [t \in Txns |-> None]
        /\ decision_events = {}
        /\ rows = 0
        /\ audit_log = {}
        /\ call = [c \in Callers |-> Idle]
        /\ clock = 0
        /\ answers = {}

-----------------------------------------------------------------------------
(* Locks.  A caller between the read of the chain head and the end of the  *)
(* insert holds its process's engine lock and store lock.                  *)
Recording(p) == \E c \in Callers : ProcessOf[c] = p /\ call[c].at = "insert"

EngineLockFree(p) == ~Recording(p) /\ ~activating[p]

(* The shipped server handles one HTTP request at a time; an application   *)
(* that embeds the library may call from several threads.                  *)
MayRun(p) == Threaded \/ /\ ~activating[p]
                         /\ \A c \in Callers :
                              ProcessOf[c] = p => call[c].at = "idle"

(* A call still to construct its event reserves a place below the bound. *)
InFlight == {c \in Callers :
               call[c].at \in {"predict", "select", "evaluate", "build"}}

-----------------------------------------------------------------------------
(* score(), first part: resolve the workload and hold on to its spec,      *)
(* fingerprint the normalised request, look the transaction id up.         *)
ResolveLiterally(p, r) == r.workload     \* fault: no default workload

Resolve(p, r) == IF r.workload = None THEN active_id[p] ELSE r.workload

Fingerprint(p, r) == [body |-> r.body, workload |-> Resolve(p, r)]

Answer(r, outcome, f, response) ==
  answers' = answers \cup {[request |-> r, outcome |-> outcome,
                            fingerprint |-> f, response |-> response]}

Lookup(c, r) ==
  LET p == ProcessOf[c]
      f == Fingerprint(p, r)
      cached == idempotency_keys[r.txn]
  IN /\ call[c].at = "idle"
     /\ MayRun(p)
     /\ ~Recording(p)
     /\ \/ /\ cached = None
           /\ clock + Cardinality(InFlight) < MaxDecisions
           /\ call' = [call EXCEPT ![c] = [Idle EXCEPT !.at = "predict",
                                                       !.request = r,
                                                       !.fingerprint = f,
                                                       !.buildable =
                                                         Buildable(p, f.workload)]]
           /\ UNCHANGED answers
        \/ /\ cached # None
           /\ cached.fingerprint # f      \* IdempotencyConflictError
           /\ Answer(r, "conflict", f, None)
           /\ UNCHANGED call
        \/ /\ cached # None
           /\ cached.fingerprint = f
           /\ Answer(r, "ok", f, cached.response)
           /\ UNCHANGED call
     /\ UNCHANGED <<engineVars, storeVars, audit_error, audit_log, clock>>

(* RegistryModelWrapper.predict reads the champion once. *)
Predict(c) ==
  /\ call[c].at = "predict"
  /\ call' = [call EXCEPT ![c].at = "select",
                          ![c].model = champion[ProcessOf[c]]]
  /\ UNCHANGED <<engineVars, storeVars, audit_error, audit_log, clock, answers>>

(* The condition of the policy selection: is this the active workload? *)
SelectPolicy(c) ==
  /\ call[c].at = "select"
  /\ call' = [call EXCEPT ![c].at = "evaluate",
                ![c].engine_policy =
                    call[c].fingerprint.workload = active_id[ProcessOf[c]]]
  /\ UNCHANGED <<engineVars, storeVars, audit_error, audit_log, clock, answers>>

(* Its value, a second read. *)
EvaluatePolicy(c) ==
  /\ call[c].at = "evaluate"
  /\ call[c].engine_policy \/ call[c].buildable
  /\ call' = [call EXCEPT ![c].at = "build",
                ![c].policy = IF call[c].engine_policy
                              THEN policy[ProcessOf[c]]
                              ELSE FromWorkload(call[c].fingerprint.workload)]
  /\ UNCHANGED <<engineVars, storeVars, audit_error, audit_log, clock, answers>>

(* The workload is not the active one and its spec makes no policy: the    *)
(* ValueError leaves score() before anything is recorded.                  *)
EvaluateRefused(c) ==
  /\ call[c].at = "evaluate"
  /\ ~ (call[c].engine_policy \/ call[c].buildable)
  /\ call' = [call EXCEPT ![c] = Idle]
  /\ UNCHANGED <<engineVars, storeVars, audit_error, audit_log, clock, answers>>

(* degraded_mode and created_at are fixed here, before the engine lock.    *)
(* The registry's model wrapper always reports a healthy model, so what is *)
(* left of degraded_mode is the state of the audit sink.                   *)
BuildEvent(c) ==
  /\ call[c].at = "build"
  /\ clock' = clock + 1
  /\ call' = [call EXCEPT ![c].at = "head",
                          ![c].degraded = audit_error[ProcessOf[c]],
                          ![c].id = clock + 1]
  /\ UNCHANGED <<engineVars, storeVars, audit_error, audit_log, answers>>

-----------------------------------------------------------------------------
(* The decision store.  Events are listed by insertion in memory and by    *)
(* created_at in SQLite; the chain head is the newest of that list.        *)
Key(e) == IF Backend = "memory" THEN e.pos ELSE e.id

Newest(S) == CHOOSE e \in S : \A o \in S : Key(o) <= Key(e)

HeadOf(S) == IF S = {} THEN None ELSE Newest(S).id

OldestHash ==                            \* fault: ORDER BY created_at ASC
  IF decision_events = {} THEN None
  ELSE (CHOOSE e \in decision_events :
          \A o \in decision_events : Key(e) <= Key(o)).id

LatestHash == HeadOf(decision_events)

(* record_decision, first half: take the locks and read the chain head. *)
ReadHead(c) ==
  /\ call[c].at = "head"
  /\ EngineLockFree(ProcessOf[c])
  /\ call' = [call EXCEPT ![c].at = "insert",
                          ![c].previous_hash = LatestHash]
  /\ UNCHANGED <<engineVars, storeVars, audit_error, audit_log, clock, answers>>

ResponseOf(c) == [model |-> call[c].model, policy |-> call[c].policy]

EventOf(c) == [id |-> call[c].id, pos |-> rows + 1,
               txn |-> call[c].request.txn,
               fingerprint |-> call[c].fingerprint,
               response |-> ResponseOf(c),
               degraded |-> call[c].degraded,
               previous_hash |-> call[c].previous_hash]

TruncateAlways(S) ==                     \* fault: retention in SQLite too
  {e \in S : Cardinality({o \in S : o.pos > e.pos}) < MemoryCap}

(* InMemoryRuntimeStore keeps the last MemoryCap events. *)
Truncate(S) == IF Backend = "memory"
               THEN {e \in S : Cardinality({o \in S : o.pos > e.pos}) < MemoryCap}
               ELSE S

UpsertAnything(t, f) == TRUE             \* fault: ON CONFLICT without WHERE

(* The upsert changes a row only under the same fingerprint; the in-memory *)
(* store assigns unconditionally.                                          *)
UpsertAllowed(t, f) ==
  Backend = "sqlite" /\ idempotency_keys[t] # None
    => idempotency_keys[t].fingerprint = f

UpsertForgotten(t, f, c) == idempotency_keys    \* fault: row never written

UpsertKeepsFirst(t, f, c) ==             \* fault: ON CONFLICT DO NOTHING
  [idempotency_keys EXCEPT
     ![t] = IF @ = None THEN [fingerprint |-> f, response |-> ResponseOf(c)]
                        ELSE @]

Upsert(t, f, c) == [idempotency_keys EXCEPT
                      ![t] = [fingerprint |-> f, response |-> ResponseOf(c)]]

AbandonNothing(c) ==                     \* fault: the exception is swallowed
  [call EXCEPT ![c].at = "append"]

(* An exception leaves score() before the audit append and the return. *)
Abandon(c) == [call EXCEPT ![c] = Idle]

(* record_decision, second half: one transaction for both tables.  It is   *)
(* rolled back when the upsert matches no row (ValueError) or the database *)
(* fails, and the client then gets no decision.                            *)
Insert(c) ==
  LET t == call[c].request.txn
      f == call[c].fingerprint
  IN /\ call[c].at = "insert"
     /\ \/ /\ UpsertAllowed(t, f)
           /\ idempotency_keys' = Upsert(t, f, c)
           /\ decision_events' = Truncate(decision_events \cup {EventOf(c)})
           /\ rows' = rows + 1
           /\ call' = [call EXCEPT ![c].at = "append"]
        \/ /\ Backend = "sqlite"
           /\ call' = Abandon(c)
           /\ UNCHANGED storeVars
     /\ UNCHANGED <<engineVars, audit_error, audit_log, clock, answers>>

RememberForever(p, failed) ==            \* fault: a success does not clear it
  [audit_error EXCEPT ![p] = @ \/ failed]

Remember(p, failed) == [audit_error EXCEPT ![p] = failed]

(* _append_audit_event swallows a sink failure and remembers it; either    *)
(* way the caller returns the response it computed itself.                 *)
AppendAudit(c) ==
  LET p == ProcessOf[c]
  IN /\ call[c].at = "append"
     /\ \/ /\ audit_log' = audit_log \cup {call[c].id}
           /\ audit_error' = Remember(p, FALSE)
        \/ /\ audit_error' = Remember(p, TRUE)
           /\ UNCHANGED audit_log
     /\ Answer(call[c].request, "ok", call[c].fingerprint, ResponseOf(c))
     /\ call' = [call EXCEPT ![c] = Idle]
     /\ UNCHANGED <<engineVars, storeVars, clock>>

-----------------------------------------------------------------------------
(* Operator requests that change what score() reads. *)

(* activate_workload under the engine lock: the registry's active id       *)
(* first, the policy after it.                                             *)
ActivateBegin(p, w) ==
  /\ MayRun(p)
  /\ EngineLockFree(p)
  /\ active_id' = [active_id EXCEPT ![p] = w]
  /\ activating' = [activating EXCEPT ![p] = TRUE]
  /\ UNCHANGED <<policy, refused, stray, champion, storeVars, audit_error,
                 audit_log, call, clock, answers>>

ActivateKeepsPolicy(p) ==                \* fault: the policy is not rebuilt
  /\ activating[p]
  /\ activating' = [activating EXCEPT ![p] = FALSE]
  /\ stray' = [stray EXCEPT ![p] = FALSE]
  /\ UNCHANGED <<active_id, policy, refused, champion, storeVars, audit_error,
                 audit_log, call, clock, answers>>

(* A spec that makes no policy raises after the id has changed: the engine *)
(* keeps the new id and the old policy.                                    *)
ActivateEnd(p) ==
  /\ activating[p]
  /\ activating' = [activating EXCEPT ![p] = FALSE]
  /\ \/ /\ Buildable(p, active_id[p])
        /\ policy' = [policy EXCEPT ![p] = FromWorkload(active_id[p])]
        /\ stray' = [stray EXCEPT ![p] = FALSE]
     \/ /\ ~ Buildable(p, active_id[p])
        /\ stray' = [stray EXCEPT ![p] = TRUE]
        /\ UNCHANGED policy
  /\ UNCHANGED <<active_id, refused, champion, storeVars, audit_error, audit_log,
                 call, clock, answers>>

(* import_workload under the engine lock: the spec replaces the one under  *)
(* its id, the active workload's too; the policy stays as it is.           *)
ImportWorkload(p, w, accepted) ==
  /\ MayRun(p)
  /\ EngineLockFree(p)
  /\ w \in Imported
  /\ refused' = [refused EXCEPT ![p] = IF accepted THEN @ \ {w} ELSE @ \cup {w}]
  /\ UNCHANGED <<active_id, policy, stray, champion, activating, storeVars,
                 audit_error, audit_log, call, clock, answers>>

(* The healing executor calls replace_policy for a threshold move, which   *)
(* derives the new policy from the present one, and for the rollback of    *)
(* one, which brings back the policy of that time, whatever workload has   *)
(* been activated since.  HealingActions says when it does which.          *)
ReplacePolicy(p, q) ==
  /\ MayRun(p)
  /\ EngineLockFree(p)
  /\ policy' = [policy EXCEPT ![p] = q]
  /\ UNCHANGED <<active_id, refused, champion, activating, storeVars, audit_error,
                 audit_log, call, clock, answers>>

MovePolicy(p, r) == /\ ReplacePolicy(p, [policy[p] EXCEPT !.rev = r])
                    /\ UNCHANGED stray

RestorePolicy(p, q) == /\ ReplacePolicy(p, q)
                       /\ stray' = [stray EXCEPT ![p] = TRUE]

(* A promotion or a rollback in the control plane moves the champion. *)
ChangeChampion(p, m) ==
  /\ MayRun(p)
  /\ champion' = [champion EXCEPT ![p] = m]
  /\ UNCHANGED <<active_id, policy, refused, stray, activating, storeVars,
                 audit_error, audit_log, call, clock, answers>>

(* A crash and restart: calls under way are lost, and only a SQLite store  *)
(* survives.  The active workload w is the one the config file names; that *)
(* may be another than the one active at the crash, which is saved after   *)
(* the activation, into a file that other processes and db init write too. *)
(* The specs loaded may be refused (bad), that of w excepted: it would end *)
(* the start.                                                              *)
Restart(p, w, bad) ==
  /\ w \notin bad
  /\ call' = [c \in Callers |-> IF ProcessOf[c] = p THEN Idle ELSE call[c]]
  /\ active_id' = [active_id EXCEPT ![p] = w]
  /\ policy' = [policy EXCEPT ![p] = FromWorkload(w)]
  /\ refused' = [refused EXCEPT ![p] = bad]
  /\ stray' = [stray EXCEPT ![p] = FALSE]
  /\ activating' = [activating EXCEPT ![p] = FALSE]
  /\ audit_error' = [audit_error EXCEPT ![p] = FALSE]
  /\ IF Backend = "memory"
     THEN /\ idempotency_keys' = [t \in Txns |-> None]
          /\ decision_events' = {}
          /\ UNCHANGED rows
     ELSE UNCHANGED storeVars
  /\ UNCHANGED <<champion, audit_log, clock, answers>>

Score(c) == \/ \E r \in Requests : Lookup(c, r)
            \/ Predict(c)
            \/ SelectPolicy(c)
            \/ EvaluatePolicy(c)
            \/ EvaluateRefused(c)
            \/ BuildEvent(c)
            \/ ReadHead(c)
            \/ Insert(c)
            \/ AppendAudit(c)

Operate(p) == \/ \E w \in Workloads : \/ ActivateBegin(p, w)
                                       \/ \E bad \in SUBSET Imported : Restart(p, w, bad)
                                       \/ \E ok \in BOOLEAN : ImportWorkload(p, w, ok)
              \/ ActivateEnd(p)
              \/ \E r \in Revisions : MovePolicy(p, r)
              \/ \E q \in Healed : RestorePolicy(p, q)
              \/ \E m \in Models : ChangeChampion(p, m)

Next == \/ \E c \in Callers : Score(c)
        \/ \E p \in Processes : Operate(p)

Spec == Init /\ [][Next]_vars

-----------------------------------------------------------------------------
(* Properties of every SQLite deployment, threads and processes included. *)

(* No transaction id has events for two different requests, and the cached *)
(* fingerprint is that of its events: record_decision's upsert refuses the *)
(* second of two racing calls with different fingerprints.                 *)
FingerprintConsistent ==
  \A e \in decision_events :
    /\ idempotency_keys[e.txn] # None
    /\ idempotency_keys[e.txn].fingerprint = e.fingerprint

(* Once a transaction id is bound to a fingerprint it stays bound to it,   *)
(* through races, failed inserts and restarts.                             *)
FingerprintStable ==
  [][\A t \in Txns : idempotency_keys[t] # None =>
       /\ idempotency_keys'[t] # None
       /\ idempotency_keys'[t].fingerprint = idempotency_keys[t].fingerprint]_vars

(* Every decision a client was given, first hand or from the cache, is in  *)
(* the decision_events table with exactly that model and policy.           *)
AnswersRecorded ==
  \A a \in answers : a.outcome = "ok" =>
    \E e \in decision_events : /\ e.txn = a.request.txn
                               /\ e.fingerprint = a.fingerprint
                               /\ e.response = a.response

(* What a retry will be told is the decision recorded last for that id:    *)
(* cache and event table are written by one transaction.                   *)
CachedIsNewestRecorded ==
  \A t \in Txns : idempotency_keys[t] # None =>
    \E e \in decision_events :
      /\ e.txn = t
      /\ e.response = idempotency_keys[t].response
      /\ \A o \in decision_events : o.txn = t => o.pos <= e.pos

(* The audit sink never holds an event the store does not: score() appends *)
(* to the sink only after record_decision returned.                        *)
AuditFollowsStore == audit_log \subseteq {e.id : e \in decision_events}

(* A caller decides a transaction id at most once, so no retry after a     *)
(* decision adds an event: the events of an id are at most as many as the  *)
(* callers that could look it up before any of them had recorded it.       *)
DuplicatesNeedOverlap ==
  \A t \in Txns : Cardinality({e \in decision_events : e.txn = t})
                    <= Cardinality(Callers)

-----------------------------------------------------------------------------
(* Properties of the server as shipped, one request at a time. *)

(* verify_runtime_store reports no previous_hash_mismatch: each event      *)
(* carries the hash of the event listed just before it.                    *)
ChainIntact ==
  \A e \in decision_events :
    e.previous_hash = HeadOf({o \in decision_events : Key(o) < Key(e)})

(* A decision is recorded under a policy of the workload the request was   *)
(* resolved to, however activations, imports, threshold moves and restarts *)
(* fall between requests.  The two ways another workload's policy gets in  *)
(* are named by stray: until the next accepted activation or restart, the  *)
(* policy an activation could not replace, or one a rollback restored,     *)
(* decides for the active workload.  A refused spec of a workload that is  *)
(* not active never decides anything.                                      *)
DecidedByOwnPolicy ==
  \A c \in Callers :
    call[c].at \in {"insert", "append"} /\ ~ stray[ProcessOf[c]]
      => call[c].policy.owner = call[c].fingerprint.workload

(* An event is marked degraded only when the event before it is missing    *)
(* from the audit sink.                                                    *)
DegradedMarksGap ==
  \A e \in decision_events : e.degraded =>
    LET previous == HeadOf({o \in decision_events : Key(o) < Key(e)})
    IN previous # None /\ previous \notin audit_log

(* The engine implements the idempotent service. *)
Service == INSTANCE IdempotentService
             WITH NoDecision <- None, decided <- idempotency_keys

ImplementsService == Service!Spec
=============================================================================
