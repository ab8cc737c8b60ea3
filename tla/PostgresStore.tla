--------------------------- MODULE PostgresStore ---------------------------
(***************************************************************************)
(* The Postgres backends (storage_postgres.py, PostgresRuntimeStore, and   *)
(* PostgresControlPlaneStore of control_plane_store.py) on psycopg         *)
(* connections that are not in autocommit mode.  On such a connection the  *)
(* first plain SELECT opens a transaction that nothing ends, and           *)
(* `with connection.transaction()` inside an open transaction is only a    *)
(* savepoint: what it writes stays uncommitted, with its row locks, until  *)
(* the connection closes, and is then rolled back.                         *)
(*                                                                         *)
(* A client is one store object of one process, with one connection at a   *)
(* time.  Rows are those of idempotency_keys and control_plane_snapshots;  *)
(* the hash chains are the subject of other modules.                       *)
(***************************************************************************)
EXTENDS Naturals, FiniteSets

CONSTANTS
    RuntimeClient,  \* PostgresRuntimeStore objects
    ControlClient,  \* PostgresControlPlaneStore objects
    Transaction,    \* transaction ids
    Fingerprint,    \* fingerprints of requests
    Namespace,      \* the key of the snapshot, one for every process
    NoValue,        \* no row
    MaxVersion      \* bound: states the control plane may save

ASSUME VersionAssumption == MaxVersion \in Nat \ {0}
ASSUME KeyAssumption == Namespace \notin Transaction /\ NoValue \notin Fingerprint \cup Nat
ASSUME ClientAssumption == RuntimeClient \cap ControlClient = {}

VARIABLES
    committed,      \* the committed rows: key -> value
    session,        \* per client: "closed", "idle" or "intrans"
    pending,        \* per client: rows written by its open transaction
    call,           \* per client: where its request is
    told,           \* history: the decisions answered over the open connection
    answered        \* history: all decisions ever answered

vars == <<committed, session, pending, call, told, answered>>

Client == RuntimeClient \cup ControlClient
Key == Transaction \cup {Namespace}
Value == Fingerprint \cup (1 .. MaxVersion)
Decision == Transaction \X Fingerprint

NoRows == [k \in Key |-> NoValue]
Idle == [step |-> "idle"]

\* READ COMMITTED: what a statement of the client sees.
Visible(c, k) == IF pending[c][k] # NoValue THEN pending[c][k] ELSE committed[k]

\* Mutant: a plain INSERT of the row, refused only by a committed one.
NeverLocked(c, k) == FALSE

\* Another transaction wrote the row and has not ended.
RowLocked(c, k) == \E other \in Client \ {c} : pending[other][k] # NoValue

\* _initialize: ALTER TABLE decision_events waits for every transaction that
\* has read the table; CREATE INDEX on operation_events waits for every
\* transaction that has written it.
SchemaLocked(c) ==
    IF c \in RuntimeClient
    THEN \E other \in RuntimeClient : session[other] = "intrans"
    ELSE \E other \in ControlClient : pending[other] # NoRows

\* Mutant: a block inside an open transaction rolls its writes back.
BlockForgets(c, k, v) == UNCHANGED <<committed, pending>>

\* connection.transaction() around a write of one row.
TransactionBlock(c, k, v) ==
    IF session[c] = "idle"
    THEN committed' = [committed EXCEPT ![k] = v] /\ UNCHANGED pending
    ELSE pending' = [pending EXCEPT ![c][k] = v] /\ UNCHANGED committed

-----------------------------------------------------------------------------
\* The tables may hold a decision that an earlier release committed.
Init ==
    /\ committed \in {NoRows} \cup {[NoRows EXCEPT ![t] = f] : t \in Transaction, f \in Fingerprint}
    /\ session = [c \in Client |-> "closed"]
    /\ pending = [c \in Client |-> NoRows]
    /\ call = [c \in Client |-> Idle]
    /\ told = [c \in Client |-> {}]
    /\ answered = {}

\* A store is created on the database: at start, or by DatabaseProvisioner.connect
\* while the previous store of the process is still connected.
Connect(c) ==
    /\ call[c] = Idle
    /\ call' = [call EXCEPT ![c] = [step |-> "initialize", again |-> session[c] # "closed"]]
    /\ UNCHANGED <<committed, session, pending, told, answered>>

\* The schema is in place.  replace_store closes the previous connection, and
\* what it wrote without committing is gone.
Replaced(c) ==
    /\ pending' = [pending EXCEPT ![c] = NoRows]
    /\ told' = [told EXCEPT ![c] = {}]
    /\ UNCHANGED <<committed, answered>>

\* PostgresRuntimeStore._initialize; connect then reads health().
InitializeRuntime(c) ==
    /\ c \in RuntimeClient
    /\ call[c].step = "initialize"
    /\ ~SchemaLocked(c)
    /\ Replaced(c)
    /\ session' = [session EXCEPT ![c] = IF call[c].again THEN "intrans" ELSE "idle"]
    /\ call' = [call EXCEPT ![c] = Idle]

\* PostgresControlPlaneStore._initialize.  At start the control plane loads its
\* snapshot, a SELECT, and saves the seed if there is none; replace_store saves
\* without having read.
InitializeControl(c) ==
    /\ c \in ControlClient
    /\ call[c].step = "initialize"
    /\ ~SchemaLocked(c)
    /\ Replaced(c)
    /\ session' = [session EXCEPT ![c] = IF call[c].again THEN "idle" ELSE "intrans"]
    /\ call' = [call EXCEPT ![c] =
          IF call[c].again \/ committed[Namespace] = NoValue
          THEN [step |-> "write", key |-> Namespace, value |-> 1] ELSE Idle]

\* get_decision, list_decisions, count_cached_decisions, health, list_operations:
\* plain SELECTs.
Read(c) ==
    /\ call[c] = Idle
    /\ session[c] # "closed"
    /\ session' = [session EXCEPT ![c] = "intrans"]
    /\ UNCHANGED <<committed, pending, call, told, answered>>

Answer(c, t, f) ==
    /\ told' = [told EXCEPT ![c] = @ \cup {<<t, f>>}]
    /\ answered' = answered \cup {<<t, f>>}
    /\ call' = [call EXCEPT ![c] = Idle]

Refuse(c) ==
    /\ call' = [call EXCEPT ![c] = Idle]
    /\ UNCHANGED <<told, answered>>

\* RuntimeEngine.score begins with get_cached_decision: a SELECT.
GetCachedDecision(c, t, f) ==
    /\ c \in RuntimeClient
    /\ call[c] = Idle
    /\ session[c] # "closed"
    /\ session' = [session EXCEPT ![c] = "intrans"]
    /\ \/ Visible(c, t) = f /\ Answer(c, t, f)
       \/ Visible(c, t) \notin {f, NoValue} /\ Refuse(c)
       \/ /\ Visible(c, t) = NoValue
          /\ call' = [call EXCEPT ![c] = [step |-> "write", key |-> t, value |-> f]]
          /\ UNCHANGED <<told, answered>>
    /\ UNCHANGED <<committed, pending>>

\* The upsert's WHERE clause.
UpsertAllowed(c, t, f) == Visible(c, t) \in {f, NoValue}

\* record_decision: the upsert waits for the row, then takes or refuses it.
RecordDecision(c) ==
    /\ c \in RuntimeClient
    /\ call[c].step = "write"
    /\ ~RowLocked(c, call[c].key)
    /\ \/ /\ UpsertAllowed(c, call[c].key, call[c].value)
          /\ TransactionBlock(c, call[c].key, call[c].value)
          /\ Answer(c, call[c].key, call[c].value)
       \/ /\ ~UpsertAllowed(c, call[c].key, call[c].value)
          /\ Refuse(c)
          /\ UNCHANGED <<committed, pending>>
    /\ UNCHANGED session

\* ControlPlane._persist after an operator request.
Persist(c) ==
    /\ c \in ControlClient
    /\ call[c] = Idle
    /\ session[c] # "closed"
    /\ \E v \in 1 .. MaxVersion :
          call' = [call EXCEPT ![c] = [step |-> "write", key |-> Namespace, value |-> v]]
    /\ UNCHANGED <<committed, session, pending, told, answered>>

\* save; persistence_health reads after the one in replace_store.
Save(c) ==
    /\ c \in ControlClient
    /\ call[c].step = "write"
    /\ ~RowLocked(c, Namespace)
    /\ TransactionBlock(c, Namespace, call[c].value)
    /\ session' = [session EXCEPT ![c] = "intrans"]
    /\ call' = [call EXCEPT ![c] = Idle]
    /\ UNCHANGED <<told, answered>>

\* Two transactions wait for rows of each other: the server fails one
\* statement, and the block rolls back to its savepoint.
WaitsFor(c, other) ==
    /\ call[c].step = "write"
    /\ other # c
    /\ pending[other][call[c].key] # NoValue

DeadlockDetected(c) ==
    /\ \E other \in Client : WaitsFor(c, other) /\ WaitsFor(other, c)
    /\ Refuse(c)
    /\ UNCHANGED <<committed, session, pending>>

\* Mutant: the rows outlive the connection that wrote them.
CrashKeepsRows(c) ==
    /\ session[c] # "closed" \/ call[c] # Idle
    /\ session' = [session EXCEPT ![c] = "closed"]
    /\ told' = [told EXCEPT ![c] = {}]
    /\ call' = [call EXCEPT ![c] = Idle]
    /\ UNCHANGED <<committed, pending, answered>>

\* The process ends, in order or not: the server rolls the transaction back.
Crash(c) ==
    /\ session[c] # "closed" \/ call[c] # Idle
    /\ session' = [session EXCEPT ![c] = "closed"]
    /\ pending' = [pending EXCEPT ![c] = NoRows]
    /\ told' = [told EXCEPT ![c] = {}]
    /\ call' = [call EXCEPT ![c] = Idle]
    /\ UNCHANGED <<committed, answered>>

\* The steps of a request that has begun.
Work(c) ==
    \/ InitializeRuntime(c)
    \/ InitializeControl(c)
    \/ RecordDecision(c)
    \/ Save(c)
    \/ DeadlockDetected(c)

Next == \E c \in Client :
    \/ Work(c)
    \/ Connect(c)
    \/ Read(c)
    \/ \E t \in Transaction, f \in Fingerprint : GetCachedDecision(c, t, f)
    \/ Persist(c)
    \/ Crash(c)

Spec == Init /\ [][Next]_vars

\* A request that has begun goes on as long as no lock stops it.
FairSpec == Spec /\ \A c \in Client : WF_vars(Work(c))

-----------------------------------------------------------------------------
TypeOK ==
    /\ committed \in [Key -> Value \cup {NoValue}]
    /\ session \in [Client -> {"closed", "idle", "intrans"}]
    /\ pending \in [Client -> [Key -> Value \cup {NoValue}]]
    /\ \A c \in Client : pending[c] # NoRows => session[c] = "intrans"
    /\ \A c \in Client : call[c].step \in {"idle", "initialize", "write"}
    /\ told \in [Client -> SUBSET Decision]
    /\ answered \subseteq Decision

\* As long as its connection lives, a process finds every decision it answered
\* with the fingerprint it answered it for, although none of them is committed
\* (get_cached_decision, record_decision).
AnswersFound ==
    \A c \in RuntimeClient : \A d \in told[c] : Visible(c, d[1]) = d[2]

\* Processes that share the database never stand by two fingerprints for one
\* transaction id: the row lock of the first makes the second wait, even
\* though it cannot see the row (record_decision's upsert).
OneFingerprint ==
    \A c, other \in RuntimeClient :
        \A d \in told[c], e \in told[other] : d[1] = e[1] => d[2] = e[2]

\* Refuted: a decision that was answered survives the end of the process.
AnswersDurable ==
    \A d \in answered :
        committed[d[1]] = d[2] \/ \E c \in RuntimeClient : pending[c][d[1]] = d[2]

\* Refuted: a hot swap to a Postgres database ends.
HotSwapEnds ==
    \A c \in RuntimeClient : call[c].step = "initialize" ~> call[c].step # "initialize"
=============================================================================
