--------------------------- MODULE PostgresProofs ---------------------------
(***************************************************************************)
(* Theorems about PostgresStore, for any processes, transactions and       *)
(* fingerprints: although nothing is committed, a process finds what it    *)
(* answered, and no two processes stand by different fingerprints.         *)
(***************************************************************************)
EXTENDS PostgresStore, TLAPS

-----------------------------------------------------------------------------
(* Types: what each kind of client writes, and that it writes only over an *)
(* open connection; a decision is written inside the transaction that its  *)
(* cache lookup opened.                                                    *)

Writes(c) ==
    IF c \in RuntimeClient
    THEN [step : {"write"}, key : Transaction, value : Fingerprint]
    ELSE [step : {"write"}, key : {Namespace}, value : 1 .. MaxVersion]

Calls(c) == {Idle} \cup [step : {"initialize"}, again : BOOLEAN] \cup Writes(c)

CallInv(c, r, s) ==
    /\ r \in Calls(c)
    /\ r.step = "write" => s # "closed"
    /\ r.step = "write" /\ c \in RuntimeClient => s = "intrans"

CallsInv ==
    /\ DOMAIN call = Client
    /\ \A c \in Client : CallInv(c, call[c], session[c])

TypeInv == TypeOK /\ CallsInv

LEMMA CallShape ==
  ASSUME NEW c \in Client, NEW r \in Calls(c)
  PROVE  /\ r.step \in {"idle", "initialize", "write"}
         /\ r.step = "initialize" => r.again \in BOOLEAN
         /\ r.step = "write" =>
              /\ r.key \in Key /\ r.value \in Value
              /\ c \in RuntimeClient => r.key \in Transaction /\ r.value \in Fingerprint
              /\ c \notin RuntimeClient => r.key = Namespace
BY DEF Calls, Writes, Idle, Key, Value

LEMMA IdleShape ==
  \A c \in Client : Idle \in Calls(c) /\ Idle.step = "idle"
BY DEF Calls, Idle

LEMMA WriteShape ==
  ASSUME NEW c \in Client, NEW r \in Writes(c)
  PROVE  r \in Calls(c) /\ r.step = "write"
BY DEF Calls, Writes

LEMMA RowsType ==
  /\ NoRows \in [Key -> Value \cup {NoValue}]
  /\ \A k \in Key : NoRows[k] = NoValue
BY DEF NoRows

LEMMA TypeInit ==
  Init => TypeInv
<1> SUFFICES ASSUME Init PROVE TypeInv
  OBVIOUS
<1>1. committed \in [Key -> Value \cup {NoValue}]
  BY RowsType DEF Init, Key, Value
<1>2. CallsInv
  BY IdleShape DEF Init, CallsInv, CallInv
<1>3. \A c \in Client : call[c].step = "idle"
  BY IdleShape DEF Init
<1>4. pending \in [Client -> [Key -> Value \cup {NoValue}]]
  BY RowsType DEF Init
<1> QED BY <1>1, <1>2, <1>3, <1>4 DEF Init, TypeInv, TypeOK

LEMMA OneCallChanges ==
  ASSUME CallsInv, NEW c \in Client, NEW r, CallInv(c, r, session'[c]),
         call' = [call EXCEPT ![c] = r],
         \A other \in Client \ {c} : session'[other] = session[other]
  PROVE  CallsInv' /\ \A other \in Client : call'[other].step \in {"idle", "initialize", "write"}
<1>1. DOMAIN call' = Client
  BY DEF CallsInv
<1>2. ASSUME NEW other \in Client
      PROVE  CallInv(other, call'[other], session'[other])
  <2>1. CASE other = c
    BY <2>1 DEF CallsInv
  <2>2. CASE other # c
    BY <2>2 DEF CallsInv
  <2> QED BY <2>1, <2>2
<1>3. CallsInv'
  BY <1>1, <1>2 DEF CallsInv, CallInv, Calls, Writes
<1> QED BY <1>2, <1>3, CallShape DEF CallInv

LEMMA ConnectType ==
  ASSUME TypeInv, NEW c \in Client,
         Connect(c) \/ InitializeRuntime(c) \/ InitializeControl(c)
  PROVE  TypeInv'
<1> USE ClientAssumption, VersionAssumption
<1>1. \A other \in Client \ {c} : session'[other] = session[other]
  BY DEF Connect, InitializeRuntime, InitializeControl, TypeInv, TypeOK
<1>2. CASE Connect(c)
  <2> DEFINE r == [step |-> "initialize", again |-> session[c] # "closed"]
  <2>1. r \in Calls(c) /\ r.step = "initialize"
    BY DEF Calls
  <2>2. call' = [call EXCEPT ![c] = r]
    BY <1>2 DEF Connect
  <2> HIDE DEF r
  <2>3. CallInv(c, r, session'[c])
    BY <2>1 DEF CallInv
  <2> QED BY <1>1, <1>2, <2>2, <2>3, OneCallChanges DEF Connect, TypeInv, TypeOK
<1>3. CASE InitializeRuntime(c)
  <2>1. CallInv(c, Idle, session'[c])
    BY IdleShape DEF CallInv
  <2>2. /\ session' \in [Client -> {"closed", "idle", "intrans"}]
        /\ session'[c] # "closed"
    BY <1>3 DEF InitializeRuntime, TypeInv, TypeOK
  <2> QED BY <1>1, <1>3, <2>1, <2>2, RowsType, OneCallChanges
          DEF InitializeRuntime, Replaced, TypeInv, TypeOK
<1>4. CASE InitializeControl(c)
  <2> DEFINE w == [step |-> "write", key |-> Namespace, value |-> 1]
             r == IF call[c].again \/ committed[Namespace] = NoValue THEN w ELSE Idle
  <2>1. c \notin RuntimeClient
    BY <1>4 DEF InitializeControl
  <2>2. w \in Writes(c)
    BY <2>1 DEF Writes
  <2>3. w \in Calls(c)
    BY <2>2, WriteShape
  <2>4. /\ session' \in [Client -> {"closed", "idle", "intrans"}]
        /\ session'[c] # "closed"
    BY <1>4 DEF InitializeControl, TypeInv, TypeOK
  <2>5. call' = [call EXCEPT ![c] = r]
    BY <1>4 DEF InitializeControl
  <2> HIDE DEF w
  <2>6. CallInv(c, r, session'[c])
    BY <2>1, <2>3, <2>4, IdleShape DEF CallInv
  <2> HIDE DEF r
  <2> QED BY <1>1, <1>4, <2>4, <2>5, <2>6, RowsType, OneCallChanges
          DEF InitializeControl, Replaced, TypeInv, TypeOK
<1> QED BY <1>2, <1>3, <1>4

(* A write over an open connection: the row goes to the table, or to the   *)
(* open transaction.                                                       *)
LEMMA BlockType ==
  ASSUME TypeOK, NEW c \in Client, NEW k \in Key, NEW v \in Value, TransactionBlock(c, k, v)
  PROVE  /\ committed' \in [Key -> Value \cup {NoValue}]
         /\ pending' \in [Client -> [Key -> Value \cup {NoValue}]]
         /\ \A other \in Client \ {c} : pending'[other] = pending[other]
         /\ session[c] = "idle" => pending' = pending
         /\ session[c] # "idle" =>
              committed' = committed /\ pending'[c] = [pending[c] EXCEPT ![k] = v]
BY DEF TypeOK, TransactionBlock

LEMMA RequestType ==
  ASSUME TypeInv, NEW c \in Client,
         \/ Read(c) \/ Persist(c) \/ Save(c) \/ RecordDecision(c) \/ DeadlockDetected(c)
         \/ Crash(c)
         \/ \E t \in Transaction, f \in Fingerprint : GetCachedDecision(c, t, f)
  PROVE  TypeInv'
<1> USE ClientAssumption
<1>1. \A other \in Client \ {c} : session'[other] = session[other]
  BY DEF Read, Persist, Save, RecordDecision, DeadlockDetected, Crash, GetCachedDecision,
         TypeInv, TypeOK
<1>2. \A s : CallInv(c, Idle, s)
  BY IdleShape DEF CallInv
<1>3. CASE Read(c)
  <2>1. CallsInv'
    BY <1>3, <1>1 DEF Read, TypeInv, TypeOK, CallsInv, CallInv, Calls, Writes, Idle
  <2>2. session' \in [Client -> {"closed", "idle", "intrans"}] /\ session'[c] = "intrans"
    BY <1>3 DEF Read, TypeInv, TypeOK
  <2> QED BY <1>1, <1>3, <2>1, <2>2 DEF Read, TypeInv, TypeOK
<1>4. CASE Persist(c)
  <2>1. PICK v \in 1 .. MaxVersion :
            call' = [call EXCEPT ![c] = [step |-> "write", key |-> Namespace, value |-> v]]
    BY <1>4 DEF Persist
  <2> DEFINE w == [step |-> "write", key |-> Namespace, value |-> v]
  <2>2. w \in Writes(c) /\ c \notin RuntimeClient
    BY <1>4 DEF Persist, Writes
  <2>3. w \in Calls(c)
    BY <2>2, WriteShape
  <2> HIDE DEF w
  <2>4. CallInv(c, w, session'[c])
    BY <1>4, <2>2, <2>3 DEF Persist, CallInv
  <2> QED BY <1>1, <1>4, <2>1, <2>4, OneCallChanges DEF Persist, TypeInv, TypeOK, w
<1>5. CASE Save(c)
  <2>1. Namespace \in Key /\ call[c].value \in Value
    BY <1>5, CallShape DEF Save, Key, TypeInv, CallsInv, CallInv
  <2>2. session' \in [Client -> {"closed", "idle", "intrans"}] /\ session'[c] = "intrans"
    BY <1>5 DEF Save, TypeInv, TypeOK
  <2>3. TransactionBlock(c, Namespace, call[c].value)
    BY <1>5 DEF Save
  <2>4. /\ committed' \in [Key -> Value \cup {NoValue}]
        /\ pending' \in [Client -> [Key -> Value \cup {NoValue}]]
        /\ \A other \in Client \ {c} : pending'[other] = pending[other]
    BY <2>1, <2>3, BlockType DEF TypeInv
  <2>5. CallsInv' /\ \A other \in Client : call'[other].step \in {"idle", "initialize", "write"}
    BY <1>1, <1>2, <1>5, OneCallChanges DEF Save, TypeInv
  <2> QED BY <1>1, <1>5, <2>2, <2>4, <2>5 DEF Save, TypeInv, TypeOK
<1>6. CASE RecordDecision(c)
  <2>1. call[c].key \in Transaction /\ call[c].value \in Fingerprint /\ session[c] = "intrans"
    BY <1>6, CallShape DEF RecordDecision, TypeInv, CallsInv, CallInv
  <2>2. CASE /\ TransactionBlock(c, call[c].key, call[c].value)
             /\ Answer(c, call[c].key, call[c].value)
    <3>1. /\ told' \in [Client -> SUBSET Decision]
          /\ answered' \subseteq Decision
      BY <2>1, <2>2 DEF Answer, Decision, TypeInv, TypeOK
    <3>2. call[c].key \in Key /\ call[c].value \in Value
      BY <2>1 DEF Key, Value
    <3> QED BY <1>1, <1>2, <1>6, <2>1, <2>2, <3>1, <3>2, BlockType, OneCallChanges
            DEF RecordDecision, Answer, TypeInv, TypeOK
  <2>3. CASE Refuse(c) /\ UNCHANGED <<committed, pending>>
    BY <1>1, <1>2, <1>6, <2>3, OneCallChanges DEF RecordDecision, Refuse, TypeInv, TypeOK
  <2> QED BY <1>6, <2>2, <2>3 DEF RecordDecision
<1>7. CASE DeadlockDetected(c)
  BY <1>1, <1>2, <1>7, OneCallChanges DEF DeadlockDetected, Refuse, TypeInv, TypeOK
<1>8. CASE Crash(c)
  BY <1>1, <1>2, <1>8, RowsType, OneCallChanges DEF Crash, TypeInv, TypeOK
<1>9. ASSUME NEW t \in Transaction, NEW f \in Fingerprint, GetCachedDecision(c, t, f)
      PROVE  TypeInv'
  <2>1. session' \in [Client -> {"closed", "idle", "intrans"}] /\ session'[c] = "intrans"
    BY <1>9 DEF GetCachedDecision, TypeInv, TypeOK
  <2>2. CASE Answer(c, t, f)
    <3>1. told' \in [Client -> SUBSET Decision] /\ answered' \subseteq Decision
      BY <2>2 DEF Answer, Decision, TypeInv, TypeOK
    <3> QED BY <1>1, <1>2, <1>9, <2>1, <2>2, <3>1, OneCallChanges
            DEF GetCachedDecision, Answer, TypeInv, TypeOK
  <2>3. CASE Refuse(c)
    BY <1>1, <1>2, <1>9, <2>1, <2>3, OneCallChanges
       DEF GetCachedDecision, Refuse, TypeInv, TypeOK
  <2>4. CASE /\ call' = [call EXCEPT ![c] = [step |-> "write", key |-> t, value |-> f]]
             /\ UNCHANGED <<told, answered>>
    <3> DEFINE w == [step |-> "write", key |-> t, value |-> f]
    <3>1. w \in Writes(c)
      BY <1>9 DEF GetCachedDecision, Writes
    <3>2. w \in Calls(c)
      BY <3>1, WriteShape
    <3> HIDE DEF w
    <3>3. CallInv(c, w, session'[c])
      BY <2>1, <3>2 DEF CallInv
    <3> QED BY <1>1, <1>9, <2>1, <2>4, <3>3, OneCallChanges
            DEF GetCachedDecision, TypeInv, TypeOK, w
  <2> QED BY <1>9, <2>2, <2>3, <2>4 DEF GetCachedDecision
<1> QED BY <1>3, <1>4, <1>5, <1>6, <1>7, <1>8, <1>9

LEMMA TypeStep ==
  ASSUME TypeInv, [Next]_vars
  PROVE  TypeInv'
<1>1. ASSUME NEW c \in Client, Work(c) \/ Connect(c) \/ Read(c) \/ Persist(c) \/ Crash(c)
                \/ \E t \in Transaction, f \in Fingerprint : GetCachedDecision(c, t, f)
      PROVE  TypeInv'
  BY <1>1, ConnectType, RequestType DEF Work
<1>2. CASE UNCHANGED vars
  BY <1>2 DEF vars, TypeInv, TypeOK, CallsInv, CallInv, Calls, Writes
<1> QED BY <1>1, <1>2 DEF Next

\* Type correctness of connections, transactions and rows (TypeOK): rows are
\* pending only inside an open transaction (PostgresRuntimeStore,
\* PostgresControlPlaneStore).
THEOREM TypeCorrect == Spec => []TypeOK
<1>1. TypeInv => TypeOK
  BY DEF TypeInv
<1> QED BY <1>1, TypeInit, TypeStep, PTL DEF Spec
-----------------------------------------------------------------------------
(* One process at a time holds the row of a transaction id, and it wrote   *)
(* what the committed row allows; the committed rows of decisions never    *)
(* change.                                                                 *)

LockInv ==
    \A c \in RuntimeClient, t \in Transaction : pending[c][t] # NoValue =>
        /\ committed[t] \in {NoValue, pending[c][t]}
        /\ \A other \in RuntimeClient \ {c} : pending[other][t] = NoValue

StoreInv == TypeInv /\ LockInv /\ AnswersFound

LEMMA StoreInit ==
  Init => StoreInv
BY TypeInit, RowsType DEF Init, StoreInv, LockInv, AnswersFound, Client, Key

(* A client starts over: its rows and its answers are gone together.       *)
LEMMA StartsOver ==
  ASSUME StoreInv, NEW c \in Client, committed' = committed,
         pending' = [pending EXCEPT ![c] = NoRows], told' = [told EXCEPT ![c] = {}]
  PROVE  LockInv' /\ AnswersFound'
<1> USE RowsType DEF StoreInv, TypeInv, TypeOK
<1>1. LockInv'
  BY DEF LockInv, Client, Key
<1>2. ASSUME NEW d \in RuntimeClient, NEW e \in told'[d]
      PROVE  Visible(d, e[1])' = e[2]
  <2>1. d # c /\ e \in told[d] /\ pending'[d] = pending[d]
    BY <1>2 DEF Client
  <2> QED BY <1>2, <2>1 DEF AnswersFound, Visible
<1> QED BY <1>1, <1>2 DEF AnswersFound

(* A decision is recorded: the row was free or held the same fingerprint.  *)
LEMMA Records ==
  ASSUME StoreInv, NEW c \in RuntimeClient, RecordDecision(c)
  PROVE  LockInv' /\ AnswersFound'
<1> DEFINE t == call[c].key
           f == call[c].value
<1>0. c \in Client
  BY DEF Client
<1>1. t \in Transaction /\ f \in Fingerprint /\ session[c] = "intrans" /\ t \in Key /\ f # NoValue
  BY <1>0, CallShape, KeyAssumption DEF RecordDecision, StoreInv, TypeInv, CallsInv, CallInv, Key
<1>2. CASE UNCHANGED <<committed, pending, told>>
  BY <1>2 DEF StoreInv, LockInv, AnswersFound, Visible
<1>3. CASE UpsertAllowed(c, t, f) /\ TransactionBlock(c, t, f) /\ Answer(c, t, f)
  <2> HIDE DEF t, f
  <2>1. /\ committed' = committed
        /\ pending' = [pending EXCEPT ![c][t] = f]
        /\ told' = [told EXCEPT ![c] = @ \cup {<<t, f>>}]
    BY <1>1, <1>3 DEF TransactionBlock, Answer
  <2>2. \A other \in Client \ {c} : pending[other][t] = NoValue
    BY DEF RecordDecision, RowLocked, t
  <2>3. Visible(c, t) \in {f, NoValue}
    BY <1>3 DEF UpsertAllowed
  <2>4. /\ pending'[c][t] = f
        /\ \A k \in Key \ {t} : pending'[c][k] = pending[c][k]
        /\ \A other \in Client \ {c} : pending'[other] = pending[other]
    BY <1>0, <1>1, <2>1 DEF StoreInv, TypeInv, TypeOK
  <2>5. committed[t] \in {NoValue, f}
    BY <1>1, <2>3 DEF Visible, StoreInv, LockInv
  <2>6. LockInv'
    <3> SUFFICES ASSUME NEW d \in RuntimeClient, NEW k \in Transaction, pending'[d][k] # NoValue
                 PROVE  /\ committed[k] \in {NoValue, pending'[d][k]}
                        /\ \A other \in RuntimeClient \ {d} : pending'[other][k] = NoValue
      BY <2>1 DEF LockInv
    <3>1. CASE k = t
      BY <3>1, <2>2, <2>4, <2>5 DEF Client
    <3>2. CASE k # t
      <4>1. \A other \in RuntimeClient : pending'[other][k] = pending[other][k]
        BY <3>2, <2>4 DEF Client, Key
      <4> QED BY <4>1 DEF StoreInv, LockInv
    <3> QED BY <3>1, <3>2
  <2>7. ASSUME NEW d \in RuntimeClient, NEW e \in told'[d]
        PROVE  Visible(d, e[1])' = e[2]
    <3>1. CASE d # c
      <4>1. e \in told[d] /\ pending'[d] = pending[d]
        BY <3>1, <2>1, <2>4, <2>7 DEF StoreInv, TypeInv, TypeOK, Client
      <4> QED BY <4>1, <2>1 DEF StoreInv, AnswersFound, Visible
    <3>2. CASE d = c /\ e \in told[c]
      <4>1. Visible(c, e[1]) = e[2] /\ e[1] \in Transaction /\ e[2] \in Fingerprint
        BY <3>2, <1>0 DEF StoreInv, AnswersFound, TypeInv, TypeOK, Decision
      <4>2. CASE e[1] = t
        BY <4>1, <4>2, <3>2, <1>1, <2>3, <2>4, KeyAssumption DEF Visible
      <4>3. CASE e[1] # t
        BY <4>1, <4>3, <3>2, <2>1, <2>4 DEF Visible, Key
      <4> QED BY <4>2, <4>3
    <3>3. CASE d = c /\ e = <<t, f>>
      BY <3>3, <1>1, <2>4 DEF Visible
    <3> QED BY <3>1, <3>2, <3>3, <2>1, <2>7 DEF StoreInv, TypeInv, TypeOK, Client
  <2> QED BY <2>6, <2>7 DEF AnswersFound
<1> QED BY <1>2, <1>3 DEF RecordDecision, Refuse

LEMMA StoreStep ==
  ASSUME StoreInv, [Next]_vars
  PROVE  StoreInv'
<1>0. TypeInv'
  BY TypeStep DEF StoreInv
<1> SUFFICES LockInv' /\ AnswersFound'
  BY <1>0 DEF StoreInv
<1>1. CASE UNCHANGED <<committed, pending, told>>
  BY <1>1 DEF StoreInv, LockInv, AnswersFound, Visible
<1>2. ASSUME NEW c \in Client, InitializeRuntime(c) \/ InitializeControl(c) \/ Crash(c)
      PROVE  LockInv' /\ AnswersFound'
  BY <1>2, StartsOver DEF InitializeRuntime, InitializeControl, Replaced, Crash
<1>3. ASSUME NEW c \in Client, RecordDecision(c)
      PROVE  LockInv' /\ AnswersFound'
  BY <1>3, Records DEF RecordDecision
<1>4. ASSUME NEW c \in Client, Save(c)
      PROVE  LockInv' /\ AnswersFound'
  <2>1. c \notin RuntimeClient /\ UNCHANGED told
    BY <1>4, ClientAssumption DEF Save
  <2>2. \A t \in Transaction : committed'[t] = committed[t]
    BY <1>4, KeyAssumption DEF Save, TransactionBlock, StoreInv, TypeInv, TypeOK, Key
  <2>3. \A other \in RuntimeClient : pending'[other] = pending[other]
    BY <1>4, <2>1 DEF Save, TransactionBlock, StoreInv, TypeInv, TypeOK, Client
  <2>4. \A other \in RuntimeClient : told[other] \subseteq Decision
    BY DEF StoreInv, TypeInv, TypeOK, Client
  <2>5. LockInv'
    BY <2>2, <2>3 DEF StoreInv, LockInv
  <2>6. AnswersFound'
    BY <2>1, <2>2, <2>3, <2>4 DEF StoreInv, AnswersFound, Visible, Decision
  <2> QED BY <2>5, <2>6
<1>5. ASSUME NEW c \in Client, NEW t \in Transaction, NEW f \in Fingerprint,
             GetCachedDecision(c, t, f)
      PROVE  LockInv' /\ AnswersFound'
  <2>1. UNCHANGED <<committed, pending>>
    BY <1>5 DEF GetCachedDecision
  <2>2. CASE UNCHANGED told
    BY <1>1, <2>1, <2>2
  <2>3. CASE Visible(c, t) = f /\ Answer(c, t, f)
    <3>1. \A d \in RuntimeClient : \A e \in told'[d] : e \in told[d] \/ (d = c /\ e = <<t, f>>)
      BY <2>3 DEF Answer, StoreInv, TypeInv, TypeOK, Client
    <3> QED BY <2>1, <2>3, <3>1 DEF StoreInv, LockInv, AnswersFound, Visible
  <2> QED BY <1>5, <2>2, <2>3 DEF GetCachedDecision, Refuse
<1>6. ASSUME NEW c \in Client,
             Connect(c) \/ DeadlockDetected(c) \/ Read(c) \/ Persist(c)
      PROVE  LockInv' /\ AnswersFound'
  BY <1>1, <1>6 DEF Connect, DeadlockDetected, Refuse, Read, Persist
<1> QED BY <1>1, <1>2, <1>3, <1>4, <1>5, <1>6 DEF Next, Work, vars

\* AnswersFound: a process finds every decision that it answered over its
\* connection, however many processes, reads and deadlocks there are
\* (get_cached_decision, record_decision).
THEOREM AnswersAreFound == Spec => []AnswersFound
<1>1. StoreInv => AnswersFound
  BY DEF StoreInv
<1> QED BY <1>1, StoreInit, StoreStep, PTL DEF Spec

\* OneFingerprint: no two processes stand by two fingerprints for one
\* transaction id, although neither sees what the other wrote
\* (record_decision).
THEOREM OneFingerprintEach == Spec => []OneFingerprint
<1>1. StoreInv => OneFingerprint
  <2> SUFFICES ASSUME StoreInv, NEW c \in RuntimeClient, NEW other \in RuntimeClient,
                      NEW d \in told[c], NEW e \in told[other], d[1] = e[1]
               PROVE  d[2] = e[2]
    BY DEF OneFingerprint
  <2>1. /\ Visible(c, d[1]) = d[2] /\ Visible(other, e[1]) = e[2]
        /\ d \in Decision /\ e \in Decision
    BY DEF StoreInv, AnswersFound, TypeInv, TypeOK, Client
  <2>2. d[1] \in Transaction /\ d[2] # NoValue /\ e[2] # NoValue
    BY <2>1, KeyAssumption DEF Decision
  <2> QED BY <2>1, <2>2 DEF Visible, StoreInv, LockInv
<1> QED BY <1>1, StoreInit, StoreStep, PTL DEF Spec
=============================================================================
