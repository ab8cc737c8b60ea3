---------------------------- MODULE LedgerProofs ----------------------------
(***************************************************************************)
(* Theorems about OperationsLedger: its types for any processes, and, for  *)
(* one process over its database, that the snapshot and the ledger explain *)
(* each other, that no save takes an earlier one back and that the verdict *)
(* on the hash chain is exact.                                             *)
(***************************************************************************)
EXTENDS OperationsLedger, FiniteSetTheorems, TLAPS

OneProcess == \E p : Process = {p}

-----------------------------------------------------------------------------
(* Types. *)

DriftBody == {Event("drift", m, s) : m \in Monitor, s \in {"acknowledged", "escalated"}}
IngestBody == {Event("ingest", m, a) : m \in Monitor, a \in {"proposed", "none"}}
Feedback == Event("feedback", "none", "none")
Body == {Denied, Proposal, Feedback} \cup DriftBody \cup IngestBody

\* The state after a drift event of monitor m.
Reopened(s, m) == [s EXCEPT !.drift[m] = "active", !.event_count[m] = @ + 1]

RowOK(r, now) ==
    /\ DOMAIN r = {"created_at", "body", "previous_hash", "event_hash"}
    /\ r.created_at \in 1 .. now
    /\ r.body \in Body \cup {Old, Altered}

CallOK(r, now) ==
    /\ r.step \in {"down", "idle", "saved", "head", "counted", "verified"}
    /\ r.step \in {"saved", "head"} => r.body \in Body /\ r.at \in 1 .. now
    /\ r.step = "down" => r = Down
    /\ r.step = "idle" => r = Idle

TypeInv ==
    /\ TypeOK
    /\ DOMAIN call = Process
    /\ \A p \in Process : CallOK(call[p], clock)
    /\ \A r \in operation_events : RowOK(r, clock)

LEMMA BodyShape ==
  /\ Denied \in Body /\ Feedback \in Body /\ Proposal \in Body
  /\ \A m \in Monitor, s \in {"acknowledged", "escalated"} :
       /\ Event("drift", m, s) \in Body
       /\ Event("drift", m, s).type = "drift" /\ Event("drift", m, s).target = m
       /\ StatusIn(Event("drift", m, s)) = s
  /\ \A m \in Monitor, a \in {"proposed", "none"} :
       /\ Event("ingest", m, a) \in Body
       /\ Event("ingest", m, a).type = "ingest" /\ Event("ingest", m, a).target = m
       /\ StatusIn(Event("ingest", m, a)) = "active"
  /\ \A b \in Body :
       /\ b.type \in {"drift", "ingest", "feedback", "denied", "propose"}
       /\ b.type \in OfDrift => b.target \in Monitor
       /\ b.type \notin OfDrift => b.target = "none"
  /\ Old.type = "old" /\ Altered.type = "altered" /\ Denied.type = "denied"
  /\ Proposal.type = "propose"
  /\ Feedback.type = "feedback" /\ Feedback.target = "none"
<1>1. /\ \A m \in Monitor, s \in {"acknowledged", "escalated"} :
           Event("drift", m, s) \in DriftBody
      /\ \A m \in Monitor, a \in {"proposed", "none"} : Event("ingest", m, a) \in IngestBody
  BY DEF DriftBody, IngestBody
<1> USE DEF Denied, Proposal, Feedback, Event, Old, Altered, OfDrift, StatusIn
<1>2. \A b \in DriftBody \cup IngestBody : b.type \in OfDrift /\ b.target \in Monitor
  BY DEF DriftBody, IngestBody
<1>3. /\ Denied.type = "denied" /\ Denied.target = "none"
      /\ Proposal.type = "propose" /\ Proposal.target = "none"
      /\ Feedback.type = "feedback" /\ Feedback.target = "none"
      /\ Old.type = "old" /\ Altered.type = "altered"
  OBVIOUS
<1>4. \A m, s : /\ Event("drift", m, s).type = "drift" /\ Event("drift", m, s).target = m
                /\ StatusIn(Event("drift", m, s)) = s
                /\ Event("ingest", m, s).type = "ingest" /\ Event("ingest", m, s).target = m
                /\ StatusIn(Event("ingest", m, s)) = "active"
  OBVIOUS
<1>5. OfDrift = {"drift", "ingest"}
  OBVIOUS
<1> HIDE DEF Denied, Proposal, Feedback, Event, Old, Altered, OfDrift, StatusIn
<1> QED BY <1>1, <1>2, <1>3, <1>4, <1>5 DEF Body

LEMMA SeedType ==
  Seed \in State
BY SeededAssumption, StatusAssumption DEF Seed, State

LEMMA RowShape ==
  ASSUME NEW at, NEW body, NEW previous, NEW format
  PROVE  /\ WithIntegrity(format, at, body, previous).created_at = at
         /\ WithIntegrity(format, at, body, previous).body = body
         /\ DOMAIN WithIntegrity(format, at, body, previous)
              = {"created_at", "body", "previous_hash", "event_hash"}
BY DEF WithIntegrity

LEMMA FunctionIsSequence ==
  ASSUME NEW n \in Nat, NEW S, NEW f \in [1 .. n -> S]
  PROVE  f \in Seq(S) /\ Len(f) = n
OBVIOUS

LEMMA LegacyShape ==
  ASSUME NEW unhashed \in 0 .. 1, NEW old \in 0 .. 1,
         NEW r \in ToSet(LegacyRows(unhashed, old))
  PROVE  \/ r = Unhashed(1) /\ unhashed = 1
         \/ r = WithIntegrity("legacy", unhashed + 1, Old, None) /\ old = 1
<1>0. unhashed \in Nat /\ old \in Nat
  OBVIOUS
<1> DEFINE a == [i \in 1 .. unhashed |-> Unhashed(i)]
           b == [i \in 1 .. old |-> WithIntegrity("legacy", unhashed + i, Old, None)]
           S == {a[i] : i \in 1 .. unhashed}
           T == {b[i] : i \in 1 .. old}
<1>1. a \in Seq(S) /\ Len(a) = unhashed
  <2>1. a \in [1 .. unhashed -> S]
    OBVIOUS
  <2> QED BY <1>0, <2>1, FunctionIsSequence
<1>2. b \in Seq(T) /\ Len(b) = old
  <2>1. b \in [1 .. old -> T]
    OBVIOUS
  <2> QED BY <1>0, <2>1, FunctionIsSequence
<1>3. PICK i \in DOMAIN (a \o b) : r = (a \o b)[i]
  BY DEF ToSet, LegacyRows
<1>4. /\ i \in 1 .. unhashed + old
      /\ r = IF i <= unhashed THEN a[i] ELSE b[i - unhashed]
  <2> HIDE DEF a, b, S, T
  <2> QED BY <1>1, <1>2, <1>3
<1> QED BY <1>4

LEMMA TypeInit ==
  Init => TypeInv
<1> SUFFICES ASSUME Init PROVE TypeInv
  OBVIOUS
<1>1. PICK unhashed \in 0 .. 1, old \in 0 .. 1 :
          /\ operation_events = ToSet(LegacyRows(unhashed, old))
          /\ clock = unhashed + old
  BY DEF Init
<1>2. \A r \in operation_events : RowOK(r, clock)
  <2> SUFFICES ASSUME NEW r \in operation_events PROVE RowOK(r, clock)
    OBVIOUS
  <2>1. CASE r = Unhashed(1) /\ unhashed = 1
    BY <1>1, <2>1 DEF RowOK, Unhashed
  <2>2. CASE r = WithIntegrity("legacy", unhashed + 1, Old, None) /\ old = 1
    BY <1>1, <2>2, RowShape DEF RowOK
  <2> QED BY <1>1, <2>1, <2>2, LegacyShape
<1>3. Seed \in State
  BY SeedType
<1>4. \A p \in Process : CallOK(call[p], clock)
  BY DEF Init, CallOK, Down
<1>5. clock \in Nat
  BY <1>1
<1> QED BY <1>2, <1>3, <1>4, <1>5, FaultsAssumption DEF Init, TypeInv, TypeOK, RowOK, CallOK

LEMMA OneCallChanges ==
  ASSUME TypeInv, NEW p \in Process, NEW r, CallOK(r, clock'), clock' \in Nat, clock <= clock',
         call' = [call EXCEPT ![p] = r]
  PROVE  DOMAIN call' = Process /\ \A q \in Process : CallOK(call'[q], clock')
<1>1. \A q \in Process : CallOK(call[q], clock) => CallOK(call[q], clock')
  BY DEF CallOK, TypeInv, TypeOK
<1>2. \A q \in Process : call'[q] = IF q = p THEN r ELSE call[q]
  BY DEF TypeInv
<1> QED BY <1>1, <1>2 DEF TypeInv

LEMMA AbandonType ==
  ASSUME TypeOK, NEW body \in Body, Abandon(body)
  PROVE  torn' \subseteq Monitor /\ unfinished' \in 0 .. MaxUnfinished
BY BodyShape, FaultsAssumption DEF TypeOK, Abandon

(* What a step leaves to show.                                             *)
LEMMA TypeParts ==
  ASSUME memory' \in [Process -> State], snapshot' \in State \cup {NoSnapshot},
         clock' \in Nat, faults' \in 0 .. MaxFaults,
         torn' \subseteq Monitor, unfinished' \in 0 .. MaxUnfinished,
         DOMAIN call' = Process, \A p \in Process : CallOK(call'[p], clock'),
         \A r \in operation_events' : RowOK(r, clock')
  PROVE  TypeInv'
<1>1. \A p \in Process : call'[p].step \in {"down", "idle", "saved", "head", "counted", "verified"}
  BY DEF CallOK
<1>2. \A r \in operation_events' : r.created_at \in 1 .. clock'
  BY DEF RowOK
<1> QED BY <1>1, <1>2 DEF TypeInv, TypeOK, CallOK, RowOK

LEMMA OperateType ==
  ASSUME TypeInv, NEW p \in Process, NEW new \in State, NEW body \in Body, Operate(p, new, body)
  PROVE  TypeInv'
<1>1. memory' \in [Process -> State] /\ snapshot' \in State \cup {NoSnapshot}
  BY DEF Operate, Persist, PersistFails, TypeInv, TypeOK
<1>2. \A r \in operation_events' : RowOK(r, clock')
  BY DEF Operate, Persist, Stamp, PersistFails, TypeInv, TypeOK, RowOK
<1>3. CASE Stamp(p, body) /\ UNCHANGED <<torn, unfinished>>
  <2> DEFINE r == [step |-> "saved", body |-> body, at |-> clock + 1]
  <2>1. clock' \in Nat /\ clock <= clock' /\ call' = [call EXCEPT ![p] = r]
    BY <1>3 DEF Stamp, TypeInv, TypeOK
  <2>2. CallOK(r, clock')
    BY <1>3 DEF Stamp, TypeInv, TypeOK, CallOK
  <2> HIDE DEF r
  <2>3. DOMAIN call' = Process /\ \A q \in Process : CallOK(call'[q], clock')
    BY <2>1, <2>2, OneCallChanges
  <2> QED BY <1>1, <1>2, <1>3, <2>1, <2>3, TypeParts DEF Operate, TypeInv, TypeOK
<1>4. CASE PersistFails(p, new, body)
  BY <1>1, <1>2, <1>4, AbandonType, TypeParts DEF Operate, PersistFails, TypeInv, TypeOK
<1> QED BY <1>3, <1>4 DEF Operate

LEMMA ReopenedShape ==
  ASSUME NEW s \in State, NEW m \in Monitor
  PROVE  /\ Reopened(s, m) \in State
         /\ Reopened(s, m).confirmed = s.confirmed
         /\ \A n \in Monitor :
              /\ Reopened(s, m).drift[n] = IF n = m THEN "active" ELSE s.drift[n]
              /\ Reopened(s, m).event_count[n]
                   = IF n = m THEN s.event_count[n] + 1 ELSE s.event_count[n]
<1> DEFINE d == [s.drift EXCEPT ![m] = "active"]
           e == [s.event_count EXCEPT ![m] = @ + 1]
<1>1. s.drift \in [Monitor -> DriftStatus] /\ s.event_count \in [Monitor -> Nat]
  BY DEF State
<1>2. /\ d \in [Monitor -> DriftStatus]
      /\ \A n \in Monitor : d[n] = IF n = m THEN "active" ELSE s.drift[n]
  BY <1>1 DEF DriftStatus
<1>3. /\ e \in [Monitor -> Nat]
      /\ \A n \in Monitor : e[n] = IF n = m THEN s.event_count[n] + 1 ELSE s.event_count[n]
  BY <1>1
<1>4. Reopened(s, m) = [s EXCEPT !.drift = d, !.event_count = e]
  BY DEF Reopened
<1> HIDE DEF d, e
<1>5. /\ [s EXCEPT !.drift = d, !.event_count = e] \in State
      /\ [s EXCEPT !.drift = d, !.event_count = e].drift = d
      /\ [s EXCEPT !.drift = d, !.event_count = e].event_count = e
      /\ [s EXCEPT !.drift = d, !.event_count = e].confirmed = s.confirmed
  BY <1>2, <1>3 DEF State
<1> QED BY <1>2, <1>4, <1>5, <1>3

LEMMA NewStates ==
  ASSUME TypeOK, NEW p \in Process
  PROVE  /\ \A m \in Monitor, s \in {"acknowledged", "escalated"} :
              [memory[p] EXCEPT !.drift[m] = s] \in State
         /\ \A m \in Monitor : Reopened(memory[p], m) \in State
         /\ [memory[p] EXCEPT !.confirmed = @ + 1] \in State
         /\ \A v \in ControlValue : [memory[p] EXCEPT !.control = v] \in State
<1>1. memory[p] \in State
  BY DEF TypeOK
<1>2. memory[p].drift \in [Monitor -> DriftStatus]
  BY <1>1 DEF State
<1>3. ASSUME NEW m \in Monitor, NEW s \in {"acknowledged", "escalated"}
      PROVE  [memory[p] EXCEPT !.drift[m] = s] \in State
  <2> DEFINE d == [memory[p].drift EXCEPT ![m] = s]
  <2>1. d \in [Monitor -> DriftStatus]
    BY <1>2 DEF DriftStatus
  <2>2. [memory[p] EXCEPT !.drift[m] = s] = [memory[p] EXCEPT !.drift = d]
    OBVIOUS
  <2> HIDE DEF d
  <2>3. [memory[p] EXCEPT !.drift = d] \in State
    BY <1>1, <2>1 DEF State
  <2> QED BY <2>2, <2>3
<1>4. [memory[p] EXCEPT !.confirmed = @ + 1] \in State
  BY <1>1 DEF State
<1>5. \A v \in ControlValue : [memory[p] EXCEPT !.control = v] \in State
  BY <1>1 DEF State
<1>6. \A m \in Monitor : Reopened(memory[p], m) \in State
  BY <1>1, ReopenedShape
<1> QED BY <1>3, <1>4, <1>5, <1>6

LEMMA RecordType ==
  ASSUME TypeInv, NEW p \in Process, RecordEvent(p)
  PROVE  TypeInv'
<1>0. clock \in Nat /\ Proposal \in Body
  BY BodyShape DEF TypeInv, TypeOK
<1>1. PICK r : /\ CallOK(r, clock') /\ call' = [call EXCEPT ![p] = r]
               /\ clock <= clock' /\ clock' \in Nat
  <2>1. CASE Stamp(p, Proposal)
    <3> DEFINE s == [step |-> "saved", body |-> Proposal, at |-> clock + 1]
    <3>1. clock' \in Nat /\ clock <= clock' /\ call' = [call EXCEPT ![p] = s]
      BY <1>0, <2>1 DEF Stamp
    <3>2. CallOK(s, clock')
      BY <1>0, <2>1 DEF Stamp, CallOK
    <3> HIDE DEF s
    <3> WITNESS s
    <3> QED BY <3>1, <3>2
  <2>2. CASE call' = [call EXCEPT ![p] = Idle] /\ clock' = clock
    <3>1. CallOK(Idle, clock')
      BY DEF CallOK, Idle
    <3> WITNESS Idle
    <3> QED BY <1>0, <2>2, <3>1
  <2>3. Stamp(p, Proposal) \/ (call' = [call EXCEPT ![p] = Idle] /\ clock' = clock)
    BY DEF RecordEvent
  <2> QED BY <2>1, <2>2, <2>3
<1>2. DOMAIN call' = Process /\ \A q \in Process : CallOK(call'[q], clock')
  BY <1>1, OneCallChanges
<1>3. call[p].body \in Body /\ call[p].at \in 1 .. clock
  BY DEF RecordEvent, TypeInv, CallOK
<1>r. \A s : RowOK(s, clock) => RowOK(s, clock')
  BY <1>0, <1>1 DEF RowOK
<1>4. CASE Insert(p) /\ UNCHANGED unfinished
  <2> DEFINE row == WithIntegrity("current", call[p].at, call[p].body, call[p].previous)
  <2>1. operation_events' = operation_events \cup {row}
    BY <1>4 DEF Insert
  <2>2. RowOK(row, clock)
    BY <1>3, RowShape DEF RowOK
  <2> HIDE DEF row
  <2>3. \A s \in operation_events' : RowOK(s, clock')
    BY <1>r, <2>1, <2>2 DEF TypeInv
  <2>4. torn' \subseteq Monitor
    BY <1>4 DEF Insert, TypeInv, TypeOK
  <2> QED BY <1>1, <1>2, <1>4, <2>3, <2>4, TypeParts DEF RecordEvent, TypeInv, TypeOK
<1>5. CASE Abandon(call[p].body) /\ UNCHANGED <<operation_events, written, clock>>
  BY <1>1, <1>2, <1>3, <1>5, AbandonType, TypeParts DEF RecordEvent, TypeInv, TypeOK
<1> QED BY <1>4, <1>5 DEF RecordEvent

LEMMA FaultType ==
  ASSUME TypeInv, NEW r \in operation_events, AlterRow(r) \/ LoseRow(r)
  PROVE  TypeInv'
<1>1. faults' \in 0 .. MaxFaults
  BY FaultsAssumption DEF AlterRow, LoseRow, TypeInv, TypeOK
<1>2. RowOK([r EXCEPT !.body = Altered], clock)
  BY DEF RowOK, TypeInv
<1>3. \A s \in operation_events' : RowOK(s, clock)
  BY <1>2 DEF AlterRow, LoseRow, TypeInv
<1> QED BY <1>1, <1>3, TypeParts DEF AlterRow, LoseRow, TypeInv, TypeOK

LEMMA ProcessType ==
  ASSUME TypeInv, NEW p \in Process,
         \/ Start(p) \/ Crash(p) \/ RecordOperation(p) \/ ReadHead(p) \/ CountEvents(p)
         \/ ListEvents(p) \/ AnswerReport(p)
  PROVE  TypeInv'
<1> USE DEF TypeInv
<1>0. Seed \in State /\ clock \in Nat
  BY SeedType DEF TypeOK
<1>1. CASE Start(p)
  <2>1. CallOK(Idle, clock')
    BY <1>1 DEF Start, CallOK, Idle
  <2>2. DOMAIN call' = Process /\ \A q \in Process : CallOK(call'[q], clock')
    BY <1>0, <1>1, <2>1, OneCallChanges DEF Start
  <2>3. memory' \in [Process -> State] /\ snapshot' \in State \cup {NoSnapshot}
    BY <1>0, <1>1 DEF Start, TypeOK
  <2> QED BY <1>1, <2>2, <2>3, TypeParts DEF Start, TypeOK
<1>2. CASE Crash(p)
  <2>1. CallOK(Down, clock')
    BY <1>2 DEF Crash, CallOK, Down
  <2>2. DOMAIN call' = Process /\ \A q \in Process : CallOK(call'[q], clock')
    BY <1>0, <1>2, <2>1, OneCallChanges DEF Crash
  <2>3. memory' \in [Process -> State] /\ snapshot' \in State \cup {NoSnapshot}
    BY <1>0, <1>2 DEF Crash, TypeOK
  <2>4. torn' \subseteq Monitor /\ unfinished' \in 0 .. MaxUnfinished
    BY <1>2, AbandonType DEF Crash, CallOK, TypeOK
  <2> QED BY <1>2, <2>2, <2>3, <2>4, TypeParts DEF Crash, TypeOK
<1>3. CASE RecordOperation(p)
  <2> DEFINE r == [step |-> "saved", body |-> Denied, at |-> clock + 1]
  <2>1. clock' \in Nat /\ clock <= clock' /\ call' = [call EXCEPT ![p] = r]
    BY <1>3 DEF RecordOperation, Stamp, TypeOK
  <2>2. CallOK(r, clock')
    BY <1>3, BodyShape DEF RecordOperation, Stamp, TypeOK, CallOK
  <2> HIDE DEF r
  <2>3. DOMAIN call' = Process /\ \A q \in Process : CallOK(call'[q], clock')
    BY <2>1, <2>2, OneCallChanges
  <2>4. \A s \in operation_events' : RowOK(s, clock')
    BY <1>3 DEF RecordOperation, Stamp, TypeOK, RowOK
  <2> QED BY <1>3, <2>1, <2>3, <2>4, TypeParts DEF RecordOperation, TypeOK
<1>4. CASE ReadHead(p) \/ CountEvents(p) \/ ListEvents(p) \/ AnswerReport(p)
  <2>1. PICK r : CallOK(r, clock) /\ call' = [call EXCEPT ![p] = r]
    <3>1. CASE ReadHead(p)
      <4> DEFINE h == [step |-> "head", body |-> call[p].body, at |-> call[p].at,
                       previous |-> LatestOperationHash(operation_events)]
      <4>1. CallOK(h, clock)
        BY <3>1 DEF ReadHead, CallOK
      <4>2. call' = [call EXCEPT ![p] = h]
        BY <3>1 DEF ReadHead
      <4> QED BY <4>1, <4>2
    <3>2. CASE CountEvents(p)
      <4> DEFINE h == [step |-> "counted", total |-> Cardinality(operation_events)]
      <4>1. CallOK(h, clock)
        BY DEF CallOK
      <4>2. call' = [call EXCEPT ![p] = h]
        BY <3>2 DEF CountEvents
      <4> QED BY <4>1, <4>2
    <3>3. CASE ListEvents(p)
      <4>1. PICK report : call' = [call EXCEPT ![p] = [step |-> "verified", report |-> report]]
        BY <3>3 DEF ListEvents
      <4>2. CallOK([step |-> "verified", report |-> report], clock)
        BY DEF CallOK
      <4> QED BY <4>1, <4>2
    <3>4. CASE AnswerReport(p)
      <4>1. CallOK(Idle, clock)
        BY DEF CallOK, Idle
      <4> QED BY <3>4, <4>1 DEF AnswerReport
    <3> QED BY <1>4, <3>1, <3>2, <3>3, <3>4
  <2>2. UNCHANGED <<memory, snapshot, operation_events, clock, torn, unfinished, faults>>
    BY <1>4 DEF ReadHead, CountEvents, ListEvents, AnswerReport
  <2>3. DOMAIN call' = Process /\ \A q \in Process : CallOK(call'[q], clock')
    BY <1>0, <2>1, <2>2, OneCallChanges
  <2> QED BY <2>2, <2>3, TypeParts DEF TypeOK
<1> QED BY <1>1, <1>2, <1>3, <1>4

LEMMA TypeStep ==
  ASSUME TypeInv, [Next]_vars
  PROVE  TypeInv'
<1>1. ASSUME NEW p \in Process, ProcessStep(p)
      PROVE  TypeInv'
  <2>1. CASE \E m \in Monitor, status \in {"acknowledged", "escalated"} : UpdateDrift(p, m, status)
    BY <2>1, OperateType, NewStates, BodyShape DEF UpdateDrift, TypeInv
  <2>2. CASE \E m \in Monitor, action \in {"proposed", "none"} : RecordDriftEvent(p, m, action)
    BY <2>2, OperateType, NewStates, BodyShape DEF RecordDriftEvent, Reopened, TypeInv
  <2>3. CASE AddFeedback(p)
    BY <2>3, OperateType, NewStates, BodyShape DEF AddFeedback, TypeInv, Feedback
  <2>4. ASSUME NEW value \in ControlValue, SetRuntimeControl(p, value)
        PROVE  TypeInv'
    <3>1. [memory[p] EXCEPT !.control = value] \in State
      BY NewStates DEF TypeInv
    <3>2. memory' \in [Process -> State] /\ snapshot' \in State \cup {NoSnapshot}
      BY <2>4, <3>1 DEF SetRuntimeControl, Persist, PersistFails, TypeInv, TypeOK
    <3> QED BY <2>4, <3>2, TypeParts DEF SetRuntimeControl, TypeInv, TypeOK
  <2>5. CASE RecordEvent(p)
    BY <2>5, RecordType
  <2>6. CASE \/ Start(p) \/ Crash(p) \/ RecordOperation(p) \/ ReadHead(p) \/ CountEvents(p)
             \/ ListEvents(p) \/ AnswerReport(p)
    BY <2>6, ProcessType
  <2> QED BY <1>1, <2>1, <2>3, <2>4, <2>5, <2>6, <2>2 DEF ProcessStep
<1>2. CASE UNCHANGED vars
  BY <1>2 DEF vars, TypeInv, TypeOK
<1> QED BY <1>1, <1>2, FaultType DEF Next

\* Type correctness of the control plane's state, its snapshot and the ledger,
\* for any number of processes over one database (TypeOK; control_plane.py,
\* SQLiteControlPlaneStore).
THEOREM TypeCorrect == Spec => []TypeOK
<1>1. TypeInv => TypeOK
  BY DEF TypeInv
<1> QED BY <1>1, TypeInit, TypeStep, PTL DEF Spec
-----------------------------------------------------------------------------
(* What a single process knows: it has saved a state whenever it is up,    *)
(* and that state is never ahead of the one in memory.                     *)

Ahead(old, new) ==
    /\ new.confirmed >= old.confirmed
    /\ \A m \in Monitor :
          /\ new.event_count[m] >= old.event_count[m]
          /\ old.drift[m] # "active" /\ new.drift[m] = "active"
               => new.event_count[m] > old.event_count[m]

MemoryInv ==
    /\ TypeInv
    /\ \A p \in Process : call[p] # Down =>
          snapshot \in State /\ Ahead(snapshot, memory[p])

LEMMA AheadSelf ==
  ASSUME NEW s \in State
  PROVE  Ahead(s, s)
<1>1. s.confirmed \in Nat /\ \A m \in Monitor : s.event_count[m] \in Nat
  BY DEF State
<1> QED BY <1>1 DEF Ahead

LEMMA AheadTrans ==
  ASSUME NEW r \in State, NEW s \in State, NEW t \in State, Ahead(r, s), Ahead(s, t)
  PROVE  Ahead(r, t)
<1>1. \A u \in State : u.confirmed \in Nat /\ \A m \in Monitor : u.event_count[m] \in Nat
  BY DEF State
<1>2. ASSUME NEW m \in Monitor
      PROVE  /\ t.event_count[m] >= r.event_count[m]
             /\ r.drift[m] # "active" /\ t.drift[m] = "active"
                  => t.event_count[m] > r.event_count[m]
  BY <1>1 DEF Ahead
<1>3. t.confirmed >= r.confirmed
  BY <1>1 DEF Ahead
<1> QED BY <1>2, <1>3 DEF Ahead

LEMMA NewStatesAhead ==
  ASSUME TypeOK, NEW p \in Process
  PROVE  /\ \A m \in Monitor, s \in {"acknowledged", "escalated"} :
              Ahead(memory[p], [memory[p] EXCEPT !.drift[m] = s])
         /\ \A m \in Monitor : Ahead(memory[p], Reopened(memory[p], m))
         /\ Ahead(memory[p], [memory[p] EXCEPT !.confirmed = @ + 1])
         /\ \A v \in ControlValue : Ahead(memory[p], [memory[p] EXCEPT !.control = v])
<1>1. memory[p] \in State
  BY DEF TypeOK
<1>2. ASSUME NEW m \in Monitor, NEW s \in {"acknowledged", "escalated"}
      PROVE  Ahead(memory[p], [memory[p] EXCEPT !.drift[m] = s])
  <2> DEFINE d == [memory[p].drift EXCEPT ![m] = s]
  <2>1. \A n \in Monitor : d[n] = IF n = m THEN s ELSE memory[p].drift[n]
    BY <1>1 DEF State
  <2>2. [memory[p] EXCEPT !.drift[m] = s] = [memory[p] EXCEPT !.drift = d]
    OBVIOUS
  <2> HIDE DEF d
  <2>3. Ahead(memory[p], [memory[p] EXCEPT !.drift = d])
    BY <1>1, <2>1 DEF State, Ahead
  <2> QED BY <2>2, <2>3
<1>3. Ahead(memory[p], [memory[p] EXCEPT !.confirmed = @ + 1])
  BY <1>1 DEF State, Ahead
<1>4. \A v \in ControlValue : Ahead(memory[p], [memory[p] EXCEPT !.control = v])
  BY <1>1 DEF State, Ahead
<1>5. ASSUME NEW m \in Monitor
      PROVE  Ahead(memory[p], Reopened(memory[p], m))
  <2>1. memory[p].confirmed \in Nat /\ \A n \in Monitor : memory[p].event_count[n] \in Nat
    BY <1>1 DEF State
  <2> QED BY <1>1, <2>1, ReopenedShape DEF Ahead
<1> QED BY <1>2, <1>3, <1>4, <1>5

(* The steps that change memory or snapshot of a running process.          *)
LEMMA ChangeAhead ==
  ASSUME OneProcess, MemoryInv, NEW p \in Process, call[p] # Down,
         NEW new \in State, Ahead(memory[p], new),
         memory' = [memory EXCEPT ![p] = new], snapshot' = new \/ snapshot' = snapshot
  PROVE  /\ snapshot' \in State /\ Ahead(snapshot, snapshot')
         /\ \A q \in Process : Ahead(snapshot', memory'[q])
<1>1. snapshot \in State /\ memory[p] \in State /\ Ahead(snapshot, memory[p])
  BY DEF MemoryInv, TypeInv, TypeOK
<1>2. Ahead(snapshot, new) /\ Ahead(new, new) /\ Ahead(snapshot, snapshot)
  BY <1>1, AheadTrans, AheadSelf
<1>3. \A q \in Process : memory'[q] = new
  BY DEF OneProcess, MemoryInv, TypeInv, TypeOK
<1> QED BY <1>1, <1>2, <1>3

LEMMA MemoryStep ==
  ASSUME OneProcess, MemoryInv, [Next]_vars
  PROVE  MemoryInv' /\ (snapshot # NoSnapshot => Ahead(snapshot, snapshot'))
<1> DEFINE Goal == /\ \A p \in Process : call'[p] # Down =>
                        snapshot' \in State /\ Ahead(snapshot', memory'[p])
                   /\ snapshot # NoSnapshot => Ahead(snapshot, snapshot')
<1>0. TypeInv'
  BY TypeStep DEF MemoryInv
<1>s. snapshot # NoSnapshot => snapshot \in State /\ Ahead(snapshot, snapshot)
  BY AheadSelf DEF MemoryInv, TypeInv, TypeOK
<1> SUFFICES Goal
  BY <1>0 DEF MemoryInv, Ahead
<1>1. ASSUME UNCHANGED <<memory, snapshot>>,
             \A p \in Process : call'[p] # Down => call[p] # Down
      PROVE  Goal
  BY <1>1, <1>s DEF MemoryInv
<1>2. ASSUME NEW p \in Process, NEW new \in State, Ahead(memory[p], new), call[p] = Idle,
             Persist(p, new) \/ (memory' = [memory EXCEPT ![p] = new] /\ UNCHANGED snapshot)
      PROVE  Goal
  <2>1. call[p] # Down
    BY <1>2 DEF Idle, Down
  <2> QED BY <1>2, <2>1, ChangeAhead DEF Persist
<1>3. ASSUME NEW p \in Process, Start(p)
      PROVE  Goal
  <2>1. Seed \in State
    BY SeedType
  <2>2. \A q \in Process : memory'[q] = snapshot' /\ snapshot' \in State
    BY <1>3, <1>s, <2>1 DEF Start, OneProcess, MemoryInv, TypeInv, TypeOK
  <2>3. snapshot # NoSnapshot => snapshot' = snapshot
    BY <1>3 DEF Start
  <2> QED BY <1>s, <2>2, <2>3, AheadSelf
<1>4. ASSUME NEW p \in Process, Crash(p)
      PROVE  Goal
  <2>1. \A q \in Process : call'[q] = Down
    BY <1>4 DEF Crash, OneProcess, MemoryInv, TypeInv
  <2> QED BY <1>4, <1>s, <2>1 DEF Crash
<1>5. ASSUME NEW p \in Process,
             \/ RecordOperation(p) \/ ReadHead(p) \/ RecordEvent(p) \/ CountEvents(p)
             \/ ListEvents(p) \/ AnswerReport(p)
      PROVE  Goal
  <2>1. UNCHANGED <<memory, snapshot>> /\ call[p] # Down
    BY <1>5 DEF RecordOperation, ReadHead, RecordEvent, CountEvents, ListEvents,
                AnswerReport, Idle, Down
  <2>2. \A q \in Process : call[q] # Down
    BY <2>1 DEF OneProcess
  <2> QED BY <1>1, <2>1, <2>2
<1>6. ASSUME NEW p \in Process, NEW new \in State, NEW body, Ahead(memory[p], new),
             Operate(p, new, body)
      PROVE  Goal
  <2>1. call[p] = Idle
    BY <1>6 DEF Operate
  <2>2. Persist(p, new) \/ (memory' = [memory EXCEPT ![p] = new] /\ UNCHANGED snapshot)
    BY <1>6 DEF Operate, PersistFails
  <2> HIDE DEF Goal
  <2> QED BY <1>2, <1>6, <2>1, <2>2
<1>7. ASSUME NEW p \in Process,
             \/ \E m \in Monitor, s \in {"acknowledged", "escalated"} : UpdateDrift(p, m, s)
             \/ \E m \in Monitor, a \in {"proposed", "none"} : RecordDriftEvent(p, m, a)
             \/ AddFeedback(p)
      PROVE  Goal
  <2>1. PICK new \in State : Ahead(memory[p], new) /\ \E body : Operate(p, new, body)
    <3>1. TypeOK
      BY DEF MemoryInv, TypeInv
    <3>2. CASE \E m \in Monitor, s \in {"acknowledged", "escalated"} : UpdateDrift(p, m, s)
      BY <3>1, <3>2, NewStates, NewStatesAhead DEF UpdateDrift
    <3>3. CASE \E m \in Monitor, a \in {"proposed", "none"} : RecordDriftEvent(p, m, a)
      BY <3>1, <3>3, NewStates, NewStatesAhead DEF RecordDriftEvent, Reopened
    <3>4. CASE AddFeedback(p)
      BY <3>1, <3>4, NewStates, NewStatesAhead DEF AddFeedback
    <3> QED BY <1>7, <3>2, <3>3, <3>4
  <2> HIDE DEF Goal
  <2> QED BY <1>6, <2>1
<1>8. ASSUME NEW p \in Process, NEW value \in ControlValue, SetRuntimeControl(p, value)
      PROVE  Goal
  <2>1. TypeOK
    BY DEF MemoryInv, TypeInv
  <2> QED BY <1>2, <1>8, <2>1, NewStates, NewStatesAhead DEF SetRuntimeControl, PersistFails
<1>9. ASSUME NEW r \in operation_events, AlterRow(r) \/ LoseRow(r)
      PROVE  Goal
  BY <1>1, <1>9 DEF AlterRow, LoseRow
<1>10. CASE UNCHANGED vars
  BY <1>1, <1>10 DEF vars
<1> HIDE DEF Goal
<1> QED BY <1>3, <1>4, <1>5, <1>7, <1>8, <1>9, <1>10 DEF Next, ProcessStep

\* SnapshotNeverRegresses: with one process over its database, no save takes
\* an earlier one back, across failing saves, crashes and restarts: a decided
\* monitor is active again only with a drift event that the same save stores
\* (_persist, __init__, update_drift, record_drift_event).
THEOREM SavesNeverRegress ==
  ASSUME OneProcess
  PROVE  Spec => SnapshotNeverRegresses
<1>1. Init => MemoryInv
  BY TypeInit DEF Init, MemoryInv
<1>2. MemoryInv /\ [Next]_vars => MemoryInv'
  BY MemoryStep
<1>3. MemoryInv /\ [Next]_vars =>
        [snapshot # NoSnapshot =>
            /\ snapshot'.confirmed >= snapshot.confirmed
            /\ \A m \in Monitor :
                   /\ snapshot'.event_count[m] >= snapshot.event_count[m]
                   /\ snapshot.drift[m] # "active" /\ snapshot'.drift[m] = "active"
                        => snapshot'.event_count[m] > snapshot.event_count[m]]_vars
  BY MemoryStep DEF Ahead
<1> QED BY <1>1, <1>2, <1>3, PTL DEF Spec, SnapshotNeverRegresses
-----------------------------------------------------------------------------
(* What snapshot and ledger say of each other, request under way included. *)

About(r, types, target) ==
    r.step \in {"saved", "head"} /\ r.body.type \in types /\ r.body.target = target

OfLabels == {"feedback"}

DriftOK(p, m) ==
    /\ About(call[p], OfDrift, m) =>
          /\ snapshot.drift[m] = StatusIn(call[p].body)
          /\ memory[p].drift[m] = StatusIn(call[p].body)
    /\ ~About(call[p], OfDrift, m) /\ m \notin torn =>
          /\ snapshot.drift[m] = LedgerStatus(m)
          /\ call[p] # Down => memory[p].drift[m] = snapshot.drift[m]

Labels(p) ==
    Cardinality(EventsAbout(OfLabels, "none"))
    + IF About(call[p], OfLabels, "none") THEN 1 ELSE 0

LabelOK(p) ==
    /\ Labels(p) <= snapshot.confirmed /\ snapshot.confirmed <= Labels(p) + unfinished
    /\ call[p] # Down => memory[p].confirmed <= Labels(p) + unfinished

RowsInv ==
    /\ IsFiniteSet(operation_events)
    /\ \A p \in Process : call[p].step \in {"saved", "head"} =>
          \A r \in operation_events : r.created_at < call[p].at
    /\ snapshot = NoSnapshot =>
          \A r \in operation_events : r.body.type \notin OfDrift \cup OfLabels

Explained ==
    /\ RowsInv
    /\ snapshot # NoSnapshot => \A p \in Process : LabelOK(p) /\ \A m \in Monitor : DriftOK(p, m)

ExplainInv == MemoryInv /\ (faults = 0 => Explained)

LEMMA ExplainInit ==
  Init => ExplainInv
<1> SUFFICES ASSUME Init PROVE Explained /\ MemoryInv
  BY DEF ExplainInv
<1>1. MemoryInv
  BY TypeInit DEF Init, MemoryInv
<1>2. PICK unhashed \in 0 .. 1, old \in 0 .. 1 :
          operation_events = ToSet(LegacyRows(unhashed, old))
  BY DEF Init
<1> DEFINE a == Unhashed(1)
           b == WithIntegrity("legacy", unhashed + 1, Old, None)
<1>3. \A r \in operation_events : r = a \/ r = b
  BY <1>2, LegacyShape
<1>4. a.body.type = "old" /\ b.body.type = "old"
  BY RowShape, BodyShape DEF Unhashed
<1>5. IsFiniteSet(operation_events)
  <2> HIDE DEF a, b
  <2>1. IsFiniteSet(({} \cup {a}) \cup {b})
    BY FS_EmptySet, FS_AddElement
  <2>2. operation_events \in SUBSET (({} \cup {a}) \cup {b})
    BY <1>3
  <2> QED BY <2>1, <2>2, FS_Subset
<1>6. \A r \in operation_events : r.body.type \notin OfDrift \cup OfLabels
  <2> HIDE DEF a, b
  <2> QED BY <1>3, <1>4 DEF OfDrift, OfLabels
<1>7. \A p \in Process : call[p].step = "down"
  BY DEF Init, Down
<1>8. snapshot = NoSnapshot
  BY DEF Init
<1> QED BY <1>1, <1>5, <1>6, <1>7, <1>8 DEF Explained, RowsInv

LEMMA CountIsNat ==
  ASSUME IsFiniteSet(operation_events), NEW types, NEW target
  PROVE  IsFiniteSet(EventsAbout(types, target)) /\ Cardinality(EventsAbout(types, target)) \in Nat
<1>1. EventsAbout(types, target) \in SUBSET operation_events
  BY DEF EventsAbout
<1> QED BY <1>1, FS_Subset, FS_CardinalityType

(* The ledger and what it says do not change.                              *)
LEMMA SameLedger ==
  ASSUME UNCHANGED operation_events
  PROVE  /\ \A types, target : EventsAbout(types, target)' = EventsAbout(types, target)
         /\ \A m \in Monitor : LedgerStatus(m)' = LedgerStatus(m)
<1>1. \A types, target : EventsAbout(types, target)' = EventsAbout(types, target)
  BY DEF EventsAbout
<1>2. \A m \in Monitor : LedgerStatus(m)' = StatusOf(m, EventsAbout(OfDrift, m)')
  BY DEF LedgerStatus, StatusOf
<1> QED BY <1>1, <1>2 DEF LedgerStatus

(* A step that neither begins nor ends a request that changes the state.   *)
LEMMA QuietStep ==
  ASSUME OneProcess, TypeInv, Explained, NEW p \in Process,
         UNCHANGED <<memory, snapshot, operation_events, torn, unfinished>>,
         call[p] # Down,
         \A target : \A types \in {OfDrift, OfLabels} :
            About(call'[p], types, target) <=> About(call[p], types, target),
         \A m \in Monitor : About(call[p], OfDrift, m) => call'[p].body = call[p].body,
         call'[p].step \in {"saved", "head"} =>
            \A r \in operation_events : r.created_at < call'[p].at
  PROVE  Explained'
<1>1. \A q \in Process : q = p
  BY DEF OneProcess
<1>2. RowsInv'
  BY <1>1 DEF Explained, RowsInv
<1>3. \A types, target : EventsAbout(types, target)' = EventsAbout(types, target)
  BY SameLedger
<1>4. \A m \in Monitor : LedgerStatus(m)' = LedgerStatus(m)
  BY SameLedger
<1>5. snapshot # NoSnapshot => LabelOK(p)'
  BY <1>3 DEF Explained, LabelOK, Labels
<1>6. snapshot # NoSnapshot => \A m \in Monitor : DriftOK(p, m)'
  BY <1>4 DEF Explained, DriftOK
<1> QED BY <1>1, <1>2, <1>5, <1>6 DEF Explained
LEMMA StartExplained ==
  ASSUME OneProcess, TypeInv, Explained, NEW p \in Process, Start(p)
  PROVE  Explained'
<1>1. \A q \in Process : q = p
  BY DEF OneProcess
<1>2. call[p] = Down /\ call'[p] = Idle /\ UNCHANGED <<operation_events, torn, unfinished>>
  BY DEF Start, TypeInv
<1>3. \A r : r \in {Down, Idle} => r.step \notin {"saved", "head"}
  BY DEF Down, Idle
<1>4. \A types, target : ~About(call[p], types, target) /\ ~About(call'[p], types, target)
  BY <1>2, <1>3 DEF About
<1>5. memory'[p] = snapshot' /\ unfinished \in Nat
  BY FaultsAssumption DEF Start, TypeInv, TypeOK
<1>6. \A types, target : EventsAbout(types, target)' = EventsAbout(types, target)
  BY <1>2, SameLedger
<1>7. \A m \in Monitor : LedgerStatus(m)' = LedgerStatus(m)
  BY <1>2, SameLedger
<1>c. Cardinality(EventsAbout(OfLabels, "none")) \in Nat
  BY CountIsNat DEF Explained, RowsInv
<1>8. Labels(p)' = Labels(p)
  BY <1>4, <1>6 DEF Labels
<1>9. CASE snapshot # NoSnapshot
  <2>1. snapshot' = snapshot
    BY <1>9 DEF Start
  <2>2. LabelOK(p)'
    BY <1>5, <1>8, <1>9, <2>1, <1>2 DEF Explained, LabelOK
  <2>3. \A m \in Monitor : DriftOK(p, m)'
    BY <1>2, <1>4, <1>5, <1>7, <1>9, <2>1 DEF Explained, DriftOK
  <2>4. RowsInv'
    BY <1>1, <1>2, <1>3, <1>9, <2>1 DEF Explained, RowsInv
  <2> QED BY <1>1, <2>2, <2>3, <2>4 DEF Explained
<1>10. CASE snapshot = NoSnapshot
  <2>1. snapshot' = Seed /\ Seed \in State
    BY <1>10, SeedType DEF Start
  <2>2. \A target : \A types \in {OfDrift, OfLabels} : EventsAbout(types, target) = {}
    BY <1>10 DEF Explained, RowsInv, EventsAbout
  <2>3. Labels(p) = 0
    BY <1>4, <2>2, FS_EmptySet DEF Labels
  <2>4. LabelOK(p)'
    BY <1>5, <1>8, <1>2, <2>1, <2>3 DEF LabelOK, Seed
  <2>5. \A m \in Monitor : LedgerStatus(m) = SeededStatus[m]
    BY <2>2 DEF LedgerStatus, StatusOf
  <2>6. \A m \in Monitor : DriftOK(p, m)'
    BY <1>4, <1>5, <1>7, <2>1, <2>5 DEF DriftOK, Seed
  <2>7. RowsInv'
    BY <1>1, <1>2, <1>3, <2>1, SnapshotAssumption DEF Explained, RowsInv
  <2> QED BY <1>1, <2>4, <2>6, <2>7 DEF Explained
<1> QED BY <1>9, <1>10

LEMMA CrashExplained ==
  ASSUME OneProcess, MemoryInv, Explained, NEW p \in Process, Crash(p)
  PROVE  Explained'
<1> USE DEF MemoryInv
<1>1. \A q \in Process : q = p
  BY DEF OneProcess
<1>2. /\ call'[p] = Down /\ call[p] # Down
      /\ UNCHANGED <<snapshot, operation_events>>
  BY DEF Crash, TypeInv
<1>3. \A types, target : ~About(call'[p], types, target)
  BY <1>2 DEF About, Down
<1>4. /\ \A types, target : EventsAbout(types, target)' = EventsAbout(types, target)
      /\ \A m \in Monitor : LedgerStatus(m)' = LedgerStatus(m)
  BY <1>2, SameLedger
<1>5. snapshot # NoSnapshot /\ snapshot.confirmed \in Nat
  BY <1>2, SnapshotAssumption DEF State
<1>c. Cardinality(EventsAbout(OfLabels, "none")) \in Nat
  BY CountIsNat DEF Explained, RowsInv
<1>6. /\ torn \subseteq torn'
      /\ \A m \in Monitor : About(call[p], OfDrift, m) => m \in torn'
      /\ unfinished \in Nat
      /\ unfinished' = unfinished + IF About(call[p], OfLabels, "none") THEN 1 ELSE 0
  <2>1. unfinished \in Nat
    BY FaultsAssumption DEF TypeInv, TypeOK
  <2>2. CASE call[p].step \in {"saved", "head"}
    <3>1. Abandon(call[p].body) /\ call[p].body \in Body
      BY <2>2 DEF Crash, TypeInv, CallOK
    <3>2. call[p].body.type = "feedback" => call[p].body.target = "none"
      BY <3>1, BodyShape DEF OfDrift
    <3> QED BY <2>1, <2>2, <3>1, <3>2 DEF Abandon, About, OfLabels
  <2>3. CASE call[p].step \notin {"saved", "head"}
    BY <2>1, <2>3 DEF Crash, About
  <2> QED BY <2>2, <2>3
<1>7. RowsInv'
  BY <1>1, <1>2 DEF Explained, RowsInv, Down
<1>8. LabelOK(p)'
  BY <1>2, <1>3, <1>4, <1>5, <1>6, <1>c DEF Explained, LabelOK, Labels
<1>9. \A m \in Monitor : DriftOK(p, m)'
  BY <1>2, <1>3, <1>4, <1>5, <1>6 DEF Explained, DriftOK
<1> QED BY <1>1, <1>7, <1>8, <1>9 DEF Explained

(* A request of which nothing was recorded changes at most one monitor, or *)
(* the count of labels by one.                                             *)
Changes(old, new, body) ==
    /\ \A m \in Monitor :
          IF body.type \in OfDrift /\ body.target = m THEN new.drift[m] = StatusIn(body)
          ELSE new.drift[m] = old.drift[m]
    /\ new.confirmed = old.confirmed + IF body.type = "feedback" THEN 1 ELSE 0

LEMMA OperateExplained ==
  ASSUME OneProcess, MemoryInv, Explained, NEW p \in Process, NEW new \in State, NEW body \in Body,
         Changes(memory[p], new, body), Operate(p, new, body)
  PROVE  Explained'
<1> USE DEF MemoryInv
<1>1. \A q \in Process : q = p
  BY DEF OneProcess
<1>2. call[p] # Down /\ \A types, target : ~About(call[p], types, target)
  BY DEF Operate, Idle, Down, About
<1>3. /\ \A types, target : EventsAbout(types, target)' = EventsAbout(types, target)
      /\ \A m \in Monitor : LedgerStatus(m)' = LedgerStatus(m)
  BY SameLedger DEF Operate
<1>4. snapshot \in State /\ snapshot # NoSnapshot /\ memory[p] \in State /\ unfinished \in Nat
  BY <1>2, SnapshotAssumption, FaultsAssumption DEF TypeInv, TypeOK
<1>5. Ahead(snapshot, memory[p])
  BY <1>2
<1>6. memory'[p] = new
  BY DEF Operate, Persist, PersistFails, TypeInv, TypeOK
<1>7. body.type = "feedback" => body.target = "none"
  BY BodyShape DEF OfDrift
<1>c. Cardinality(EventsAbout(OfLabels, "none")) \in Nat
  BY CountIsNat DEF Explained, RowsInv
<1>8. LabelOK(p) /\ \A m \in Monitor : DriftOK(p, m)
  BY <1>4 DEF Explained
<1>n. new.confirmed \in Nat /\ memory[p].confirmed \in Nat /\ snapshot.confirmed \in Nat
  BY <1>4 DEF State
<1>9. CASE Persist(p, new) /\ Stamp(p, body) /\ UNCHANGED <<torn, unfinished>>
  <2>1. /\ call'[p] = [step |-> "saved", body |-> body, at |-> clock + 1]
        /\ snapshot' = new
    BY <1>9 DEF Persist, Stamp, TypeInv
  <2>2. \A types, target :
           About(call'[p], types, target) <=> body.type \in types /\ body.target = target
    BY <2>1 DEF About
  <2>3. RowsInv'
    <3>1. \A r \in operation_events : r.created_at < clock + 1
      BY DEF TypeInv, TypeOK
    <3>2. operation_events' = operation_events /\ snapshot' # NoSnapshot
      BY <2>1, SnapshotAssumption DEF Operate
    <3> QED BY <1>1, <2>1, <3>1, <3>2 DEF Explained, RowsInv
  <2>4. LabelOK(p)'
    <3>1. Labels(p)' = Cardinality(EventsAbout(OfLabels, "none"))
                       + IF body.type = "feedback" THEN 1 ELSE 0
      BY <1>3, <1>7, <2>2 DEF Labels, OfLabels
    <3>2. Labels(p) = Cardinality(EventsAbout(OfLabels, "none"))
      BY <1>2, <1>c DEF Labels
    <3> QED BY <1>2, <1>4, <1>5, <1>6, <1>8, <1>9, <1>c, <1>n, <2>1, <3>1, <3>2
            DEF LabelOK, Changes, Ahead
  <2>5. ASSUME NEW m \in Monitor
        PROVE  DriftOK(p, m)'
    <3>1. CASE body.type \in OfDrift /\ body.target = m
      BY <1>6, <2>1, <2>2, <3>1 DEF DriftOK, Changes
    <3>2. CASE ~(body.type \in OfDrift /\ body.target = m)
      <4>1. m \notin torn => memory[p].drift[m] = LedgerStatus(m)
        BY <1>2, <1>8 DEF DriftOK
      <4>2. new.drift[m] = memory[p].drift[m]
        BY <3>2 DEF Changes
      <4> QED BY <1>3, <1>6, <1>9, <2>1, <2>2, <3>2, <4>1, <4>2 DEF DriftOK
    <3> QED BY <3>1, <3>2
  <2> QED BY <1>1, <2>3, <2>4, <2>5 DEF Explained
<1>10. CASE PersistFails(p, new, body)
  <2>1. call' = call /\ UNCHANGED <<snapshot, operation_events>>
    BY <1>10 DEF PersistFails, Operate
  <2>2. RowsInv'
    BY <2>1 DEF Explained, RowsInv
  <2>3. LabelOK(p)'
    <3>1. unfinished' = unfinished + IF body.type = "feedback" THEN 1 ELSE 0
      BY <1>4, <1>10 DEF PersistFails, Abandon
    <3>2. Labels(p)' = Labels(p) /\ Labels(p) \in Nat
      BY <1>3, <1>c, <2>1 DEF Labels
    <3> QED BY <1>2, <1>4, <1>6, <1>8, <1>n, <2>1, <3>1, <3>2 DEF LabelOK, Changes
  <2>4. ASSUME NEW m \in Monitor
        PROVE  DriftOK(p, m)'
    <3>1. torn' = IF body.type \in OfDrift THEN torn \cup {body.target} ELSE torn
      BY <1>10 DEF PersistFails, Abandon
    <3> QED BY <1>2, <1>3, <1>6, <1>8, <2>1, <3>1 DEF DriftOK, Changes
  <2> QED BY <1>1, <2>2, <2>3, <2>4 DEF Explained
<1> QED BY <1>9, <1>10 DEF Operate
LEMMA ControlExplained ==
  ASSUME OneProcess, MemoryInv, Explained, NEW p \in Process, NEW value \in ControlValue,
         SetRuntimeControl(p, value)
  PROVE  Explained'
<1> DEFINE new == [memory[p] EXCEPT !.control = value]
<1> USE DEF MemoryInv
<1>1. \A q \in Process : q = p
  BY DEF OneProcess
<1>2. call[p] # Down /\ \A types, target : ~About(call[p], types, target)
  BY DEF SetRuntimeControl, Idle, Down, About
<1>3. /\ \A types, target : EventsAbout(types, target)' = EventsAbout(types, target)
      /\ \A m \in Monitor : LedgerStatus(m)' = LedgerStatus(m)
  BY SameLedger DEF SetRuntimeControl
<1>4. snapshot \in State /\ snapshot # NoSnapshot /\ memory[p] \in State
  BY <1>2, SnapshotAssumption DEF TypeInv, TypeOK
<1>5. /\ new \in State /\ new.confirmed = memory[p].confirmed /\ new.drift = memory[p].drift
      /\ Ahead(snapshot, memory[p])
  BY <1>2, <1>4 DEF State
<1> HIDE DEF new
<1>6. memory'[p] = new /\ snapshot' \in {new, snapshot}
  BY DEF SetRuntimeControl, Persist, PersistFails, TypeInv, TypeOK, new
<1>7. UNCHANGED <<call, operation_events, unfinished>> /\ torn' = torn
  BY DEF SetRuntimeControl
<1>8. LabelOK(p) /\ \A m \in Monitor : DriftOK(p, m)
  BY <1>4 DEF Explained
<1>c. Labels(p)' = Labels(p) /\ Labels(p) \in Nat
  BY <1>3, <1>7, CountIsNat DEF Explained, RowsInv, Labels
<1>9. RowsInv'
  BY <1>4, <1>5, <1>6, <1>7, SnapshotAssumption DEF Explained, RowsInv
<1>10. LabelOK(p)'
  BY <1>2, <1>4, <1>5, <1>6, <1>7, <1>8, <1>c DEF LabelOK, Ahead, State
<1>11. \A m \in Monitor : DriftOK(p, m)'
  BY <1>2, <1>3, <1>5, <1>6, <1>7, <1>8 DEF DriftOK
<1> QED BY <1>1, <1>9, <1>10, <1>11 DEF Explained

(* The event inserted is newer than every row: it is what the ledger says. *)
LEMMA InsertSays ==
  ASSUME TypeInv, RowsInv, NEW p \in Process, call[p].step = "head", Insert(p)
  PROVE  /\ IsFiniteSet(operation_events')
         /\ \A r \in operation_events' : r.created_at \in 1 .. clock
         /\ \A types, target : ~About(call[p], types, target) =>
              EventsAbout(types, target)' = EventsAbout(types, target)
         /\ \A m \in Monitor : ~About(call[p], OfDrift, m) => LedgerStatus(m)' = LedgerStatus(m)
         /\ \A m \in Monitor : About(call[p], OfDrift, m) => LedgerStatus(m)' = StatusIn(call[p].body)
         /\ \A types, target : About(call[p], types, target) =>
              Cardinality(EventsAbout(types, target)') = Cardinality(EventsAbout(types, target)) + 1
<1> DEFINE row == WithIntegrity("current", call[p].at, call[p].body, call[p].previous)
<1>1. operation_events' = operation_events \cup {row}
  BY DEF Insert
<1>2. row.created_at = call[p].at /\ row.body = call[p].body
  BY RowShape
<1>3. \A r \in operation_events : r.created_at < row.created_at /\ r.created_at \in Nat
  BY <1>2 DEF RowsInv, TypeInv, TypeOK
<1>4. row.created_at \in 1 .. clock /\ clock \in Nat
  BY <1>2 DEF TypeInv, TypeOK, CallOK
<1> HIDE DEF row
<1>5. row \notin operation_events
  BY <1>3, <1>4
<1>6. \A types, target : EventsAbout(types, target)' =
         IF About(call[p], types, target) THEN EventsAbout(types, target) \cup {row}
         ELSE EventsAbout(types, target)
  BY <1>1, <1>2 DEF EventsAbout, About
<1>7. IsFiniteSet(operation_events')
  BY <1>1, FS_AddElement DEF RowsInv
<1>8. \A m \in Monitor : LedgerStatus(m)' = StatusOf(m, EventsAbout(OfDrift, m)')
  BY DEF LedgerStatus, StatusOf
<1>9. \A m \in Monitor : ~About(call[p], OfDrift, m) => LedgerStatus(m)' = LedgerStatus(m)
  BY <1>6, <1>8 DEF LedgerStatus
<1>10. ASSUME NEW m \in Monitor, About(call[p], OfDrift, m)
       PROVE  LedgerStatus(m)' = StatusIn(call[p].body)
  <2> DEFINE E == EventsAbout(OfDrift, m) \cup {row}
             Newest(r) == \A s \in E : s.created_at <= r.created_at
  <2>1. \A s \in E : s # row => s.created_at < row.created_at /\ s.created_at \in Nat
    BY <1>3 DEF EventsAbout
  <2>2. row \in E
    OBVIOUS
  <2> HIDE DEF E
  <2>3. Newest(row)
    BY <2>1, <1>4
  <2>4. \A r \in E : Newest(r) => r = row
    BY <2>1, <2>2, <1>4
  <2>5. (CHOOSE r \in E : Newest(r)) = row
    BY <2>2, <2>3, <2>4
  <2>6. StatusOf(m, E) = StatusIn(row.body)
    BY <2>2, <2>5 DEF StatusOf
  <2> QED BY <1>2, <1>6, <1>8, <1>10, <2>6 DEF E
<1>11. ASSUME NEW types, NEW target, About(call[p], types, target)
       PROVE  Cardinality(EventsAbout(types, target)') = Cardinality(EventsAbout(types, target)) + 1
  <2>1. row \notin EventsAbout(types, target)
    BY <1>5 DEF EventsAbout
  <2>2. IsFiniteSet(EventsAbout(types, target))
    BY CountIsNat DEF RowsInv
  <2> QED BY <1>6, <1>11, <2>1, <2>2, FS_AddElement
<1>12. \A r \in operation_events' : r.created_at \in 1 .. clock
  BY <1>1, <1>4 DEF TypeInv, TypeOK
<1> QED BY <1>6, <1>7, <1>9, <1>10, <1>11, <1>12

LEMMA RecordExplained ==
  ASSUME OneProcess, MemoryInv, Explained, NEW p \in Process, RecordEvent(p)
  PROVE  Explained'
<1> USE DEF MemoryInv
<1>1. \A q \in Process : q = p
  BY DEF OneProcess
<1>2. /\ call[p] # Down /\ call[p].step = "head"
      /\ call'[p] \in {Idle, [step |-> "saved", body |-> Proposal, at |-> clock + 1]}
      /\ UNCHANGED <<memory, snapshot>>
  BY DEF RecordEvent, Stamp, Down, TypeInv
<1>3. \A target : \A types \in {OfDrift, OfLabels} : ~About(call'[p], types, target)
  BY <1>2, BodyShape DEF About, Idle, OfDrift, OfLabels
<1>4. snapshot \in State /\ snapshot # NoSnapshot /\ memory[p] \in State /\ unfinished \in Nat
  BY <1>2, SnapshotAssumption, FaultsAssumption DEF TypeInv, TypeOK
<1>5. LabelOK(p) /\ \A m \in Monitor : DriftOK(p, m)
  BY <1>4 DEF Explained
<1>6. call[p].body \in Body
  BY <1>2 DEF TypeInv, CallOK
<1>c. Cardinality(EventsAbout(OfLabels, "none")) \in Nat
  BY CountIsNat DEF Explained, RowsInv
<1>n. memory[p].confirmed \in Nat /\ snapshot.confirmed \in Nat
  BY <1>4 DEF State
<1>7. ASSUME IsFiniteSet(operation_events'),
             \A r \in operation_events' : r.created_at \in 1 .. clock
      PROVE  RowsInv'
  <2>1. clock \in Nat
    BY DEF TypeInv, TypeOK
  <2>2. call'[p].step \in {"saved", "head"} =>
          \A r \in operation_events' : r.created_at < call'[p].at
    BY <1>2, <1>7, <2>1 DEF Idle
  <2> QED BY <1>1, <1>2, <1>4, <1>7, <2>2 DEF RowsInv
<1>8. CASE Insert(p) /\ UNCHANGED unfinished
  <2>1. /\ IsFiniteSet(operation_events')
        /\ \A r \in operation_events' : r.created_at \in 1 .. clock
        /\ \A types, target : ~About(call[p], types, target) =>
             EventsAbout(types, target)' = EventsAbout(types, target)
        /\ \A m \in Monitor : ~About(call[p], OfDrift, m) => LedgerStatus(m)' = LedgerStatus(m)
        /\ \A m \in Monitor : About(call[p], OfDrift, m) => LedgerStatus(m)' = StatusIn(call[p].body)
        /\ \A types, target : About(call[p], types, target) =>
             Cardinality(EventsAbout(types, target)') = Cardinality(EventsAbout(types, target)) + 1
    BY <1>2, <1>8, InsertSays DEF Explained
  <2>2. Labels(p)' = Labels(p)
    <3>1. CASE About(call[p], OfLabels, "none")
      BY <3>1, <2>1, <1>3, <1>c DEF Labels
    <3>2. CASE ~About(call[p], OfLabels, "none")
      BY <3>2, <2>1, <1>3 DEF Labels
    <3> QED BY <3>1, <3>2
  <2>3. LabelOK(p)'
    BY <1>2, <1>5, <1>8, <2>2 DEF LabelOK
  <2>4. \A m \in Monitor : m \notin torn' /\ m \in torn => About(call[p], OfDrift, m)
    BY <1>2, <1>6, <1>8, BodyShape, MonitorAssumption DEF Insert, About
  <2>5. \A m \in Monitor : DriftOK(p, m)'
    BY <1>2, <1>3, <1>5, <2>1, <2>4 DEF DriftOK
  <2> QED BY <1>1, <1>7, <2>1, <2>3, <2>5 DEF Explained
<1>9. CASE Abandon(call[p].body) /\ UNCHANGED <<operation_events, written, clock>>
  <2>1. /\ \A types, target : EventsAbout(types, target)' = EventsAbout(types, target)
        /\ \A m \in Monitor : LedgerStatus(m)' = LedgerStatus(m)
    BY <1>9, SameLedger
  <2>2. /\ torn \subseteq torn'
        /\ \A m \in Monitor : About(call[p], OfDrift, m) => m \in torn'
        /\ unfinished' = unfinished + IF About(call[p], OfLabels, "none") THEN 1 ELSE 0
    <3>1. call[p].body.type = "feedback" => call[p].body.target = "none"
      BY <1>6, BodyShape DEF OfDrift
    <3> QED BY <1>2, <1>4, <1>9, <3>1 DEF Abandon, About, OfLabels
  <2>3. LabelOK(p)'
    BY <1>2, <1>3, <1>4, <1>5, <1>c, <1>n, <2>1, <2>2 DEF LabelOK, Labels
  <2>4. \A m \in Monitor : DriftOK(p, m)'
    BY <1>2, <1>3, <1>5, <2>1, <2>2 DEF DriftOK
  <2>5. RowsInv'
    BY <1>7, <1>9 DEF Explained, RowsInv, TypeInv, TypeOK
  <2> QED BY <1>1, <2>3, <2>4, <2>5 DEF Explained
<1> QED BY <1>8, <1>9 DEF RecordEvent
LEMMA NewStatesChange ==
  ASSUME TypeOK, NEW p \in Process
  PROVE  /\ \A m \in Monitor, s \in {"acknowledged", "escalated"} :
              Changes(memory[p], [memory[p] EXCEPT !.drift[m] = s], Event("drift", m, s))
         /\ \A m \in Monitor, a \in {"proposed", "none"} :
              Changes(memory[p], Reopened(memory[p], m), Event("ingest", m, a))
         /\ Changes(memory[p], [memory[p] EXCEPT !.confirmed = @ + 1], Feedback)
<1>1. memory[p] \in State
  BY DEF TypeOK
<1>2. ASSUME NEW m \in Monitor, NEW s \in {"acknowledged", "escalated"}
      PROVE  Changes(memory[p], [memory[p] EXCEPT !.drift[m] = s], Event("drift", m, s))
  <2> DEFINE d == [memory[p].drift EXCEPT ![m] = s]
  <2>1. \A n \in Monitor : d[n] = IF n = m THEN s ELSE memory[p].drift[n]
    BY <1>1 DEF State
  <2>2. [memory[p] EXCEPT !.drift[m] = s] = [memory[p] EXCEPT !.drift = d]
    OBVIOUS
  <2> HIDE DEF d
  <2>3. Changes(memory[p], [memory[p] EXCEPT !.drift = d], Event("drift", m, s))
    BY <1>1, <2>1, BodyShape DEF State, Changes, OfDrift
  <2> QED BY <2>2, <2>3
<1>3. Changes(memory[p], [memory[p] EXCEPT !.confirmed = @ + 1], Feedback)
  BY <1>1, BodyShape DEF State, Changes, OfDrift
<1>4. ASSUME NEW m \in Monitor, NEW a \in {"proposed", "none"}
      PROVE  Changes(memory[p], Reopened(memory[p], m), Event("ingest", m, a))
  <2>1. memory[p].confirmed \in Nat
    BY <1>1 DEF State
  <2> QED BY <1>1, <2>1, ReopenedShape, BodyShape DEF Changes, OfDrift
<1> QED BY <1>2, <1>3, <1>4

LEMMA QuietRequests ==
  ASSUME OneProcess, TypeInv, Explained, NEW p \in Process,
         RecordOperation(p) \/ ReadHead(p) \/ CountEvents(p) \/ ListEvents(p) \/ AnswerReport(p)
  PROVE  Explained'
<1> USE DEF TypeInv
<1>1. /\ UNCHANGED <<memory, snapshot, operation_events, torn, unfinished>>
      /\ call[p] # Down
  BY DEF RecordOperation, ReadHead, CountEvents, ListEvents, AnswerReport, Down, Idle
<1>2. CASE RecordOperation(p)
  <2>1. call[p].step = "idle"
    BY <1>2 DEF RecordOperation, Idle
  <2>2. call'[p] = [step |-> "saved", body |-> Denied, at |-> clock + 1]
    BY <1>2 DEF RecordOperation, Stamp
  <2>3. call'[p].body.type = "denied" /\ call'[p].at = clock + 1
    BY <2>2, BodyShape
  <2>4. \A r \in operation_events : r.created_at < clock + 1
    BY DEF TypeOK
  <2>5. \A target : \A types \in {OfDrift, OfLabels} :
           ~About(call'[p], types, target) /\ ~About(call[p], types, target)
    BY <2>1, <2>3 DEF About, OfDrift, OfLabels
  <2> QED BY <1>1, <2>3, <2>4, <2>5, QuietStep
<1>3. CASE ReadHead(p)
  <2>1. /\ call[p].step = "saved" /\ call'[p].step = "head"
        /\ call'[p].body = call[p].body /\ call'[p].at = call[p].at
    BY <1>3 DEF ReadHead
  <2>2. \A r \in operation_events : r.created_at < call'[p].at
    BY <2>1 DEF Explained, RowsInv
  <2>3. \A types, target : About(call'[p], types, target) <=> About(call[p], types, target)
    BY <2>1 DEF About
  <2> QED BY <1>1, <2>1, <2>2, <2>3, QuietStep
<1>4. CASE CountEvents(p) \/ ListEvents(p) \/ AnswerReport(p)
  <2>1. call[p].step \notin {"saved", "head"} /\ call'[p].step \notin {"saved", "head"}
    BY <1>4 DEF CountEvents, ListEvents, AnswerReport, Idle
  <2>2. \A types, target : ~About(call'[p], types, target) /\ ~About(call[p], types, target)
    BY <2>1 DEF About
  <2> QED BY <1>1, <2>1, <2>2, QuietStep
<1> QED BY <1>2, <1>3, <1>4

LEMMA ExplainStep ==
  ASSUME OneProcess, ExplainInv, [Next]_vars
  PROVE  ExplainInv'
<1>0. MemoryInv' /\ MemoryInv /\ TypeInv /\ TypeOK
  BY MemoryStep DEF ExplainInv, MemoryInv, TypeInv
<1> SUFFICES ASSUME faults' = 0 PROVE Explained'
  BY <1>0 DEF ExplainInv
<1>1. ASSUME NEW r \in operation_events, AlterRow(r) \/ LoseRow(r)
      PROVE  FALSE
  BY <1>0, <1>1, FaultsAssumption DEF AlterRow, LoseRow, TypeOK
<1>2. CASE UNCHANGED vars
  <2>1. Explained
    BY <1>2 DEF vars, ExplainInv
  <2>2. /\ \A types, target : EventsAbout(types, target)' = EventsAbout(types, target)
        /\ \A m \in Monitor : LedgerStatus(m)' = LedgerStatus(m)
    BY <1>2, SameLedger DEF vars
  <2> QED BY <1>2, <2>1, <2>2 DEF vars, Explained, RowsInv, LabelOK, Labels, DriftOK
<1>3. ASSUME NEW p \in Process, ProcessStep(p)
      PROVE  Explained'
  <2>1. Explained
    <3>1. faults' = faults
      BY <1>3 DEF ProcessStep, Start, Crash, UpdateDrift, RecordDriftEvent, AddFeedback, Operate, SetRuntimeControl,
                  RecordOperation, ReadHead, RecordEvent, CountEvents, ListEvents, AnswerReport
    <3> QED BY <3>1 DEF ExplainInv
  <2>2. CASE Start(p)
    BY <1>0, <2>1, <2>2, StartExplained
  <2>3. CASE Crash(p)
    BY <1>0, <2>1, <2>3, CrashExplained
  <2>4. CASE \E m \in Monitor, status \in {"acknowledged", "escalated"} : UpdateDrift(p, m, status)
    BY <1>0, <2>1, <2>4, OperateExplained, NewStates, NewStatesChange, BodyShape DEF UpdateDrift
  <2>5. CASE AddFeedback(p)
    BY <1>0, <2>1, <2>5, OperateExplained, NewStates, NewStatesChange, BodyShape
       DEF AddFeedback, Feedback
  <2>6. CASE \E value \in ControlValue : SetRuntimeControl(p, value)
    BY <1>0, <2>1, <2>6, ControlExplained
  <2>7. CASE RecordEvent(p)
    BY <1>0, <2>1, <2>7, RecordExplained
  <2>8. CASE \E m \in Monitor, action \in {"proposed", "none"} : RecordDriftEvent(p, m, action)
    BY <1>0, <2>1, <2>8, OperateExplained, NewStates, NewStatesChange, BodyShape
       DEF RecordDriftEvent, Reopened
  <2>9. CASE \/ RecordOperation(p) \/ ReadHead(p) \/ CountEvents(p) \/ ListEvents(p)
             \/ AnswerReport(p)
    BY <1>0, <2>1, <2>9, QuietRequests
  <2> QED BY <1>3, <2>2, <2>3, <2>4, <2>5, <2>6, <2>7, <2>9, <2>8 DEF ProcessStep
<1> QED BY <1>1, <1>2, <1>3 DEF Next

\* LedgerExplainsSnapshot: with one process, whatever fails and whenever it
\* restarts, the saved status of a monitor is what its newest ledger event says
\* - a drift event sets it active - but for requests that did not finish
\* (update_drift, record_drift_event, _persist, _record_operation_unlocked,
\* __init__).
THEOREM LedgerExplains ==
  ASSUME OneProcess
  PROVE  Spec => []LedgerExplainsSnapshot
<1>1. ExplainInv => LedgerExplainsSnapshot
  BY DEF ExplainInv, Explained, DriftOK, LedgerExplainsSnapshot, InFlightAbout, InFlight,
         About, OneProcess
<1>2. ExplainInv /\ [Next]_vars => ExplainInv'
  BY ExplainStep
<1> QED BY <1>1, <1>2, ExplainInit, PTL DEF Spec

\* LabelsAccountedFor: with one process the saved count of labels is the number
\* of feedback events of the ledger, up to requests that did not finish
\* (add_feedback).
THEOREM LabelsMatchLedger ==
  ASSUME OneProcess
  PROVE  Spec => []LabelsAccountedFor
<1>1. ExplainInv => LabelsAccountedFor
  <2> SUFFICES ASSUME ExplainInv, faults = 0, snapshot # NoSnapshot
               PROVE  LabelsAccountedFor
    BY DEF LabelsAccountedFor
  <2>1. PICK p : Process = {p}
    BY DEF OneProcess
  <2>2. LabelOK(p)
    BY <2>1 DEF ExplainInv, Explained
  <2>3. Cardinality(InFlightAbout(OfLabels, "none"))
          = IF About(call[p], OfLabels, "none") THEN 1 ELSE 0
    <3>1. InFlightAbout(OfLabels, "none")
            = IF About(call[p], OfLabels, "none") THEN {p} ELSE {}
      BY <2>1 DEF InFlightAbout, InFlight, About
    <3> QED BY <3>1, FS_EmptySet, FS_Singleton
  <2> QED BY <2>2, <2>3 DEF LabelOK, Labels, LabelsAccountedFor, OfLabels
<1>2. ExplainInv /\ [Next]_vars => ExplainInv'
  BY ExplainStep
<1> QED BY <1>1, <1>2, ExplainInit, PTL DEF Spec

-----------------------------------------------------------------------------
(* The listing of the rows by created_at.                                  *)

\* Rows with a time of their own.
Dated(rows) ==
    /\ IsFiniteSet(rows)
    /\ \A r \in rows : r.created_at \in Nat
    /\ \A r, s \in rows : r.created_at = s.created_at => r = s

Rank(rows, r) == Cardinality(Older(rows, r))

LEMMA RankBounds ==
  ASSUME NEW rows, Dated(rows), NEW r \in rows
  PROVE  /\ IsFiniteSet(Older(rows, r))
         /\ Cardinality(rows) \in Nat
         /\ Rank(rows, r) \in 0 .. Cardinality(rows) - 1
<1>1. IsFiniteSet(rows) /\ Older(rows, r) \in SUBSET rows /\ Older(rows, r) # rows
  BY DEF Dated, Older
<1>2. IsFiniteSet(Older(rows, r)) /\ Cardinality(Older(rows, r)) <= Cardinality(rows)
      /\ Cardinality(Older(rows, r)) # Cardinality(rows)
  BY <1>1, FS_Subset
<1> QED BY <1>1, <1>2, FS_CardinalityType DEF Rank

LEMMA OlderRankLower ==
  ASSUME NEW rows, Dated(rows), NEW r \in rows, NEW s \in rows, r.created_at < s.created_at
  PROVE  Rank(rows, r) < Rank(rows, s)
<1>1. Older(rows, r) \in SUBSET Older(rows, s) /\ Older(rows, r) # Older(rows, s)
  BY DEF Dated, Older
<1>2. IsFiniteSet(Older(rows, s))
  BY RankBounds
<1>3. Rank(rows, r) <= Rank(rows, s) /\ Rank(rows, r) # Rank(rows, s)
  BY <1>1, <1>2, FS_Subset DEF Rank
<1> QED BY <1>3, RankBounds

LEMMA RanksDiffer ==
  ASSUME NEW rows, Dated(rows), NEW r \in rows, NEW s \in rows, Rank(rows, r) = Rank(rows, s)
  PROVE  r = s
<1>1. ~(r.created_at < s.created_at) /\ ~(s.created_at < r.created_at)
  BY OlderRankLower, RankBounds
<1> QED BY <1>1 DEF Dated

(* Every position is the rank of a row, as there are as many of both.      *)
LEMMA RanksAreTaken ==
  ASSUME NEW rows, Dated(rows), NEW i \in 0 .. Cardinality(rows) - 1
  PROVE  \E r \in rows : Rank(rows, r) = i
<1> DEFINE n == Cardinality(rows)
           f == [r \in rows |-> Rank(rows, r)]
<1>1. IsFiniteSet(rows) /\ n \in Nat
  BY FS_CardinalityType DEF Dated
<1>2. f \in Injection(rows, 0 .. n - 1)
  <2>1. f \in [rows -> 0 .. n - 1]
    BY RankBounds
  <2> QED BY <2>1, RanksDiffer DEF Injection, IsInjective
<1>3. IsFiniteSet(0 .. n - 1) /\ Cardinality(0 .. n - 1) = n
  BY <1>1, FS_Interval
<1>4. f \in Surjection(rows, 0 .. n - 1)
  BY <1>1, <1>2, <1>3, FS_Injection
<1> QED BY <1>4 DEF Surjection

LEMMA Listed ==
  ASSUME NEW rows, Dated(rows)
  PROVE  /\ Cardinality(rows) \in Nat
         /\ Chronological(rows) \in Seq(rows)
         /\ Len(Chronological(rows)) = Cardinality(rows)
         /\ \A i \in 1 .. Cardinality(rows) : /\ Chronological(rows)[i] \in rows
                                              /\ Rank(rows, Chronological(rows)[i]) = i - 1
         /\ \A r \in rows : /\ Rank(rows, r) + 1 \in 1 .. Cardinality(rows)
                            /\ Chronological(rows)[Rank(rows, r) + 1] = r
         /\ \A i, j \in 1 .. Cardinality(rows) :
              i < j => Chronological(rows)[i].created_at < Chronological(rows)[j].created_at
<1> DEFINE n == Cardinality(rows)
           c == Chronological(rows)
<1>1. n \in Nat
  BY FS_CardinalityType DEF Dated
<1>2. ASSUME NEW i \in 1 .. n
      PROVE  c[i] \in rows /\ Rank(rows, c[i]) = i - 1
  <2>1. c[i] = CHOOSE r \in rows : Rank(rows, r) = i - 1
    BY DEF Chronological, Rank
  <2>2. i - 1 \in 0 .. n - 1
    BY <1>1
  <2>3. \E r \in rows : Rank(rows, r) = i - 1
    BY <2>2, RanksAreTaken
  <2> QED BY <2>1, <2>3
<1>3. c \in [1 .. n -> rows]
  BY <1>2 DEF Chronological
<1>4. c \in Seq(rows) /\ Len(c) = n
  BY <1>1, <1>3, FunctionIsSequence
<1>5. ASSUME NEW r \in rows
      PROVE  Rank(rows, r) + 1 \in 1 .. n /\ c[Rank(rows, r) + 1] = r
  <2>1. Rank(rows, r) + 1 \in 1 .. n
    BY <1>1, RankBounds
  <2>2. Rank(rows, c[Rank(rows, r) + 1]) = Rank(rows, r) /\ c[Rank(rows, r) + 1] \in rows
    BY <1>2, <2>1, RankBounds
  <2> QED BY <2>1, <2>2, RanksDiffer
<1>6. ASSUME NEW i \in 1 .. n, NEW j \in 1 .. n, i < j
      PROVE  c[i].created_at < c[j].created_at
  <2>1. /\ c[i] \in rows /\ c[j] \in rows
        /\ Rank(rows, c[i]) = i - 1 /\ Rank(rows, c[j]) = j - 1
    BY <1>2
  <2>2. ~(c[j].created_at < c[i].created_at)
    BY <1>6, <2>1, OlderRankLower
  <2>3. c[i].created_at # c[j].created_at
    BY <1>6, <2>1 DEF Dated
  <2> QED BY <2>1, <2>2, <2>3 DEF Dated
<1> HIDE DEF n, c
<1>7. /\ n \in Nat /\ c \in Seq(rows) /\ Len(c) = n
      /\ \A i \in 1 .. n : c[i] \in rows /\ Rank(rows, c[i]) = i - 1
      /\ \A r \in rows : Rank(rows, r) + 1 \in 1 .. n /\ c[Rank(rows, r) + 1] = r
      /\ \A i, j \in 1 .. n : i < j => c[i].created_at < c[j].created_at
  BY <1>1, <1>2, <1>4, <1>5, <1>6
<1> QED BY <1>7 DEF n, c

-----------------------------------------------------------------------------
(* The chain that was written, and the rows that are left of it.           *)

PreviousAt(i) == IF i = 1 THEN None ELSE written[i - 1].event_hash

\* Rows in the order of their times, each with the hash of the one before it.
ChainInv ==
    /\ written \in Seq(ToSet(written))
    /\ \A i \in DOMAIN written :
         /\ written[i].created_at \in 1 .. clock
         /\ \E format \in {"current", "legacy"}, body \in Body \cup {Old} :
              written[i] = WithIntegrity(format, written[i].created_at, body, PreviousAt(i))
    /\ \A i, j \in DOMAIN written : i < j => written[i].created_at < written[j].created_at

\* The row as it was written, or with an altered body.
Stems(r, w) == r = w \/ r = [w EXCEPT !.body = Altered]

\* Rows without a hash are older than the chain; the others come from it.
LeftInv ==
    /\ Dated(operation_events)
    /\ \A r \in operation_events :
         /\ r.event_hash = None => \A i \in DOMAIN written : r.created_at < written[i].created_at
         /\ r.event_hash # None => \E i \in DOMAIN written : Stems(r, written[i])

LEMMA BodiesUnaltered ==
  \A body \in Body \cup {Old} : body # Altered
BY BodyShape

LEMMA PayloadIsNoNone ==
  ASSUME NEW format, NEW at, NEW body, NEW previous
  PROVE  Payload(format, at, body, previous) # None
<1>1. Len(<<format, at, body, previous>>) = 4 /\ Len(<<>>) = 0
  OBVIOUS
<1> QED BY <1>1 DEF Payload, None

LEMMA ChainRow ==
  ASSUME ChainInv, NEW i \in DOMAIN written
  PROVE  /\ written[i].created_at \in 1 .. clock
         /\ written[i].previous_hash = PreviousAt(i)
         /\ written[i].event_hash # None
         /\ written[i].body # Altered
         /\ written[i].event_hash[2] = written[i].created_at
         /\ written[i].event_hash[3] = written[i].body
         /\ \E format \in {"current", "legacy"} :
              written[i].event_hash = HashPayload(format, written[i])
         /\ DOMAIN written[i] = {"created_at", "body", "previous_hash", "event_hash"}
<1>1. PICK format \in {"current", "legacy"}, body \in Body \cup {Old} :
          written[i] = WithIntegrity(format, written[i].created_at, body, PreviousAt(i))
  BY DEF ChainInv
<1>2. /\ written[i].body = body /\ written[i].previous_hash = PreviousAt(i)
      /\ written[i].event_hash = Payload(format, written[i].created_at, body, PreviousAt(i))
      /\ DOMAIN written[i] = {"created_at", "body", "previous_hash", "event_hash"}
  BY <1>1 DEF WithIntegrity
<1>3. written[i].event_hash # None
  BY <1>2, PayloadIsNoNone
<1>4. /\ written[i].event_hash[2] = written[i].created_at
      /\ written[i].event_hash[3] = written[i].body
  BY <1>2 DEF Payload
<1>5. written[i].event_hash = HashPayload(format, written[i])
  BY <1>2 DEF HashPayload
<1> QED BY <1>2, <1>3, <1>4, <1>5, BodiesUnaltered DEF ChainInv

LEMMA HashesDiffer ==
  ASSUME ChainInv, NEW i \in DOMAIN written, NEW j \in DOMAIN written,
         \/ written[i].event_hash = written[j].event_hash
         \/ written[i].created_at = written[j].created_at
  PROVE  i = j
<1>1. written[i].created_at = written[j].created_at
  BY ChainRow
<1>2. i \in Nat /\ j \in Nat
  BY DEF ChainInv
<1>3. ~(i < j) /\ ~(j < i)
  BY <1>1, ChainRow DEF ChainInv
<1> QED BY <1>2, <1>3

LEMMA StemShape ==
  ASSUME ChainInv, NEW i \in DOMAIN written, NEW r, Stems(r, written[i])
  PROVE  /\ r.created_at = written[i].created_at
         /\ r.previous_hash = written[i].previous_hash
         /\ r.event_hash = written[i].event_hash
         /\ r = written[i] \/ r.body = Altered
BY ChainRow DEF Stems

LEMMA HashedDated ==
  ASSUME LeftInv
  PROVE  Dated(operation_events) /\ Dated(Hashed(operation_events))
<1>1. IsFiniteSet(Hashed(operation_events))
  BY FS_Subset DEF LeftInv, Dated, Hashed
<1> QED BY <1>1 DEF LeftInv, Dated, Hashed

\* The hashed rows are the first k of the chain.
Beginning(k) == Hashed(operation_events) = {written[i] : i \in 1 .. k}

LEMMA BeginningCount ==
  ASSUME ChainInv, NEW k \in 0 .. Len(written)
  PROVE  /\ IsFiniteSet({written[i] : i \in 1 .. k})
         /\ Cardinality({written[i] : i \in 1 .. k}) = k
<1> DEFINE S == {written[i] : i \in 1 .. k}
           f == [i \in 1 .. k |-> written[i]]
<1>1. Len(written) \in Nat /\ DOMAIN written = 1 .. Len(written)
  BY DEF ChainInv
<1>2. f \in Surjection(1 .. k, S)
  BY DEF Surjection
<1>3. f \in Injection(1 .. k, S)
  <2>1. f \in [1 .. k -> S]
    OBVIOUS
  <2>2. ASSUME NEW i \in 1 .. k, NEW j \in 1 .. k, f[i] = f[j]
        PROVE  i = j
    BY <1>1, <2>2, HashesDiffer
  <2> QED BY <2>1, <2>2 DEF Injection, IsInjective
<1>4. IsFiniteSet(1 .. k) /\ Cardinality(1 .. k) = k
  BY <1>1, FS_Interval
<1> QED BY <1>2, <1>3, <1>4, FS_Surjection

LEMMA RankInBeginning ==
  ASSUME ChainInv, NEW k \in 0 .. Len(written), NEW i \in 1 .. k
  PROVE  Rank({written[j] : j \in 1 .. k}, written[i]) = i - 1
<1> DEFINE S == {written[j] : j \in 1 .. k}
<1>1. Len(written) \in Nat /\ DOMAIN written = 1 .. Len(written)
  BY DEF ChainInv
<1>2. \A j \in 1 .. k : written[j].created_at < written[i].created_at <=> j < i
  <2> SUFFICES ASSUME NEW j \in 1 .. k
               PROVE  written[j].created_at < written[i].created_at <=> j < i
    OBVIOUS
  <2>1. /\ j < i => written[j].created_at < written[i].created_at
        /\ i < j => written[i].created_at < written[j].created_at
    BY <1>1 DEF ChainInv
  <2> QED BY <1>1, <2>1, ChainRow
<1>3. Older(S, written[i]) = {written[j] : j \in 1 .. i - 1}
  BY <1>1, <1>2 DEF Older
<1>4. i - 1 \in 0 .. Len(written)
  BY <1>1
<1> QED BY <1>3, <1>4, BeginningCount DEF Rank

LEMMA IntactIsBeginning ==
  ASSUME ChainInv, LeftInv
  PROVE  HashedRowsIntact <=> \E k \in 0 .. Len(written) : Beginning(k)
<1> DEFINE rows == Hashed(operation_events)
           H == Chronological(rows)
           n == Cardinality(rows)
<1>1. Dated(rows)
  BY HashedDated
<1>2. Len(written) \in Nat /\ DOMAIN written = 1 .. Len(written)
      /\ written \in Seq(ToSet(written))
  BY DEF ChainInv
<1>3. H \in Seq(rows) /\ Len(H) = n /\ n \in Nat
  BY <1>1, Listed
<1>4. HashedRowsIntact <=> n <= Len(written) /\ \A i \in 1 .. n : H[i] = written[i]
  <2> HIDE DEF H, n
  <2>1. ASSUME n <= Len(written)
        PROVE  SubSeq(H, 1, n) = SubSeq(written, 1, n) <=> \A i \in 1 .. n : H[i] = written[i]
    <3>1. SubSeq(H, 1, n) = [i \in 1 .. n |-> H[i]]
      BY <1>3
    <3>2. SubSeq(written, 1, n) = [i \in 1 .. n |-> written[i]]
      BY <1>2, <1>3, <2>1
    <3> QED BY <3>1, <3>2
  <2>2. HashedRowsIntact <=> IsPrefix(H, written)
    BY DEF HashedRowsIntact, H
  <2> QED BY <1>2, <1>3, <2>1, <2>2 DEF IsPrefix
<1>5. ASSUME n <= Len(written), \A i \in 1 .. n : H[i] = written[i]
      PROVE  \E k \in 0 .. Len(written) : Beginning(k)
  <2>1. rows = {H[i] : i \in 1 .. n}
    BY <1>1, Listed
  <2>2. rows = {written[i] : i \in 1 .. n}
    <3> HIDE DEF H, n, rows
    <3> QED BY <1>5, <2>1
  <2> QED BY <1>2, <1>3, <1>5, <2>2 DEF Beginning
<1>6. ASSUME NEW k \in 0 .. Len(written), Beginning(k)
      PROVE  n <= Len(written) /\ \A i \in 1 .. n : H[i] = written[i]
  <2>1. rows = {written[i] : i \in 1 .. k} /\ n = k
    BY <1>6, BeginningCount DEF Beginning
  <2>2. ASSUME NEW i \in 1 .. n
        PROVE  H[i] = written[i]
    <3>1. written[i] \in rows
      BY <2>1, <2>2
    <3>2. Rank(rows, written[i]) = i - 1
      BY <2>1, <2>2, RankInBeginning
    <3>3. H[Rank(rows, written[i]) + 1] = written[i]
      BY <1>1, <3>1, Listed
    <3> QED BY <1>3, <3>2, <3>3
  <2> QED BY <1>2, <2>1, <2>2
<1> QED BY <1>4, <1>5, <1>6

-----------------------------------------------------------------------------
(* The verifier's verdict.                                                 *)

LEMMA OldestOfChain ==
  ASSUME ChainInv, NEW T \in SUBSET {written[i] : i \in DOMAIN written}, T # {}
  PROVE  \E m \in DOMAIN written :
           /\ written[m] \in T
           /\ \A j \in DOMAIN written : written[j] \in T => m <= j
<1>1. Len(written) \in Nat /\ DOMAIN written = 1 .. Len(written)
  BY DEF ChainInv
<1>2. IsFiniteSet(T)
  <2>1. Len(written) \in 0 .. Len(written)
    BY <1>1
  <2>2. IsFiniteSet({written[i] : i \in 1 .. Len(written)})
    BY <2>1, BeginningCount
  <2> QED BY <1>1, <2>2, FS_Subset
<1>3. Dated(T)
  <2>1. \A r \in T : \E i \in DOMAIN written : r = written[i]
    OBVIOUS
  <2>2. \A r \in T : r.created_at \in Nat
    BY <2>1, ChainRow
  <2>3. \A r, s \in T : r.created_at = s.created_at => r = s
    BY <2>1, HashesDiffer
  <2> QED BY <1>2, <2>2, <2>3 DEF Dated
<1> DEFINE c == Chronological(T)
           n == Cardinality(T)
<1>4. n \in Nat /\ n # 0
  BY <1>2, FS_CardinalityType, FS_EmptySet
<1>5. /\ c[1] \in T
      /\ \A r \in T : \E i \in 1 .. n : r = c[i]
      /\ \A i \in 1 .. n : i # 1 => c[1].created_at < c[i].created_at
  <2>1. 1 \in 1 .. n
    BY <1>4
  <2>2. /\ \A i \in 1 .. n : c[i] \in T
        /\ \A r \in T : Rank(T, r) + 1 \in 1 .. n /\ c[Rank(T, r) + 1] = r
        /\ \A i, j \in 1 .. n : i < j => c[i].created_at < c[j].created_at
    BY <1>3, Listed
  <2> HIDE DEF c, n
  <2>3. \A r \in T : \E i \in 1 .. n : r = c[i]
    BY <2>2
  <2>4. \A i \in 1 .. n : i # 1 => c[1].created_at < c[i].created_at
    BY <2>1, <2>2
  <2> QED BY <2>1, <2>2, <2>3, <2>4
<1> HIDE DEF c, n
<1>6. PICK m \in DOMAIN written : c[1] = written[m]
  BY <1>5
<1>7. ASSUME NEW j \in DOMAIN written, written[j] \in T
      PROVE  m <= j
  <2>1. PICK i \in 1 .. n : written[j] = c[i]
    BY <1>5, <1>7
  <2>2. written[m] = written[j] \/ written[m].created_at < written[j].created_at
    BY <1>5, <1>6, <2>1
  <2>3. ~(written[j].created_at < written[m].created_at)
    BY <2>2, ChainRow
  <2> QED BY <1>1, <2>3 DEF ChainInv
<1> QED BY <1>5, <1>6, <1>7

\* Position i of the listing of all rows.
At(i) == Chronological(operation_events)[i]
Positions == 1 .. Cardinality(operation_events)

LEMMA AllListed ==
  ASSUME LeftInv
  PROVE  /\ Cardinality(operation_events) \in Nat
         /\ DOMAIN Chronological(operation_events) = Positions
         /\ \A i \in Positions : At(i) \in operation_events
         /\ \A r \in operation_events : \E i \in Positions : At(i) = r
         /\ \A i, j \in Positions : i < j => At(i).created_at < At(j).created_at
<1>1. Dated(operation_events)
  BY DEF LeftInv
<1> DEFINE n == Cardinality(operation_events)
           c == Chronological(operation_events)
<1>2. /\ n \in Nat /\ c \in Seq(operation_events) /\ Len(c) = n
      /\ \A i \in 1 .. n : c[i] \in operation_events
      /\ \A r \in operation_events : Rank(operation_events, r) + 1 \in 1 .. n
                                     /\ c[Rank(operation_events, r) + 1] = r
      /\ \A i, j \in 1 .. n : i < j => c[i].created_at < c[j].created_at
  BY <1>1, Listed
<1> HIDE DEF n, c
<1>3. /\ n \in Nat /\ DOMAIN c = 1 .. n
      /\ \A i \in 1 .. n : c[i] \in operation_events
      /\ \A r \in operation_events : \E i \in 1 .. n : c[i] = r
      /\ \A i, j \in 1 .. n : i < j => c[i].created_at < c[j].created_at
  BY <1>2
<1> QED BY <1>3 DEF n, c, At, Positions

LEMMA PredecessorInBeginning ==
  ASSUME ChainInv, LeftInv, NEW k \in 0 .. Len(written), Beginning(k),
         NEW i \in Positions, NEW j \in 1 .. k, At(i) = written[j]
  PROVE  ExpectedPreviousHash(Chronological(operation_events), i) = PreviousAt(j)
<1>1. Len(written) \in Nat /\ DOMAIN written = 1 .. Len(written) /\ j \in DOMAIN written
  BY DEF ChainInv
<1>2. /\ Cardinality(operation_events) \in Nat
      /\ \A h \in Positions : At(h) \in operation_events
      /\ \A r \in operation_events : \E h \in Positions : At(h) = r
      /\ \A g, h \in Positions : g < h => At(g).created_at < At(h).created_at
  BY AllListed
<1>3. ExpectedPreviousHash(Chronological(operation_events), i)
        = IF i = 1 THEN None ELSE At(i - 1).event_hash
  BY DEF ExpectedPreviousHash, At
<1>4. ASSUME i # 1
      PROVE  /\ i - 1 \in Positions /\ At(i - 1) \in operation_events
             /\ At(i - 1).created_at < written[j].created_at
  BY <1>2, <1>4 DEF Positions
<1>5. \A r \in operation_events :
        r.event_hash # None => \E m \in 1 .. k : r = written[m]
  BY DEF Beginning, Hashed
<1>6. CASE j = 1
  <2>1. ASSUME i # 1
        PROVE  At(i - 1).event_hash = None
    <3>1. \A m \in 1 .. k : ~(written[m].created_at < written[j].created_at)
      <4> SUFFICES ASSUME NEW m \in 1 .. k, m # 1
                   PROVE  ~(written[m].created_at < written[j].created_at)
        BY <1>1, <1>6, ChainRow
      <4>1. written[j].created_at < written[m].created_at
        BY <1>1, <1>6 DEF ChainInv
      <4> QED BY <1>1, <4>1, ChainRow
    <3> QED BY <1>4, <1>5, <2>1, <3>1
  <2> QED BY <1>3, <1>6, <2>1 DEF PreviousAt
<1>7. CASE j # 1
  <2>1. j - 1 \in 1 .. k /\ j - 1 \in DOMAIN written
        /\ written[j - 1].created_at < written[j].created_at
    BY <1>1, <1>7 DEF ChainInv
  <2>2. written[j - 1] \in operation_events
    BY <2>1 DEF Beginning, Hashed
  <2>3. PICK h \in Positions : At(h) = written[j - 1]
    BY <1>2, <2>2
  <2>4. /\ written[j - 1].created_at \in Nat /\ written[j].created_at \in Nat
    BY <1>1, <2>1, ChainRow
  <2>5. h < i
    <3>1. h \in Nat /\ i \in Nat
      BY DEF Positions
    <3>2. h # i
      BY <2>1, <2>3, <2>4
    <3>3. ~(i < h)
      BY <1>2, <2>1, <2>3, <2>4
    <3> QED BY <3>1, <3>2, <3>3
  <2>6. i # 1 /\ (h = i - 1 \/ h < i - 1)
    BY <2>5 DEF Positions
  <2>7. At(i - 1) = written[j - 1] \/ written[j - 1].created_at < At(i - 1).created_at
    BY <1>2, <1>4, <2>3, <2>6
  <2>8. At(i - 1).event_hash # None
    <3> SUFFICES ASSUME At(i - 1).event_hash = None
                 PROVE  FALSE
      OBVIOUS
    <3>1. At(i - 1).created_at < written[j - 1].created_at
      BY <1>4, <2>1, <2>6 DEF LeftInv
    <3>2. At(i - 1).created_at \in Nat
      BY <1>4, <2>6 DEF LeftInv, Dated
    <3> QED BY <2>4, <2>7, <3>1, <3>2
  <2>9. PICK m \in 1 .. k : At(i - 1) = written[m]
    BY <1>4, <1>5, <2>6, <2>8
  <2>10. m = j - 1
    <3>1. m \in DOMAIN written /\ written[m].created_at \in Nat
      BY <1>1, ChainRow
    <3>2. /\ written[m].created_at < written[j].created_at
          /\ written[m] = written[j - 1] \/ written[j - 1].created_at < written[m].created_at
      BY <1>4, <2>6, <2>7, <2>9
    <3>3. ~(m > j) /\ m # j
      BY <1>1, <2>4, <3>1, <3>2 DEF ChainInv
    <3>4. ~(m < j - 1)
      <4> SUFFICES ASSUME m < j - 1
                   PROVE  FALSE
        OBVIOUS
      <4>1. written[m].created_at < written[j - 1].created_at
        BY <2>1, <3>1 DEF ChainInv
      <4> QED BY <2>4, <3>1, <3>2, <4>1
    <3> QED BY <1>1, <3>3, <3>4
  <2> QED BY <1>3, <1>7, <2>6, <2>9, <2>10 DEF PreviousAt
<1> QED BY <1>6, <1>7

LEMMA BeginningVerifies ==
  ASSUME ChainInv, LeftInv, NEW k \in 0 .. Len(written), Beginning(k), NEW i \in Positions
  PROVE  /\ ~ Mismatch(Chronological(operation_events), i)
         /\ Warning(Chronological(operation_events), i)
              <=> At(i).event_hash = None \/ At(i).event_hash[1] = "legacy"
<1> DEFINE c == Chronological(operation_events)
<1>1. At(i) \in operation_events
  BY AllListed
<1>2. /\ Mismatch(c, i) <=>
           /\ At(i).event_hash # None
           /\ \/ At(i).previous_hash # ExpectedPreviousHash(c, i)
              \/ At(i).event_hash \notin CandidateHashes(At(i))
      /\ Warning(c, i) <=>
           \/ At(i).event_hash = None
           \/ /\ At(i).event_hash \in CandidateHashes(At(i))
              /\ At(i).event_hash # HashPayload("current", At(i))
  BY DEF Mismatch, Warning, At
<1>3. CASE At(i).event_hash = None
  BY <1>2, <1>3
<1>4. CASE At(i).event_hash # None
  <2>1. At(i) \in Hashed(operation_events)
    BY <1>1, <1>4 DEF Hashed
  <2>2. PICK j \in 1 .. k : At(i) = written[j]
    BY <2>1 DEF Beginning
  <2>3. j \in DOMAIN written
    BY DEF ChainInv
  <2>4. At(i).previous_hash = ExpectedPreviousHash(c, i)
    BY <2>2, <2>3, ChainRow, PredecessorInBeginning
  <2>5. PICK format \in {"current", "legacy"} : At(i).event_hash = HashPayload(format, At(i))
    BY <2>2, <2>3, ChainRow
  <2>6. At(i).event_hash \in CandidateHashes(At(i))
    BY <2>5 DEF CandidateHashes
  <2>7. \A f : HashPayload(f, At(i))[1] = f
    BY DEF HashPayload, Payload
  <2>8. At(i).event_hash # HashPayload("current", At(i)) <=> At(i).event_hash[1] = "legacy"
    BY <2>5, <2>7
  <2> QED BY <1>2, <1>4, <2>4, <2>6, <2>8
<1> QED BY <1>3, <1>4

LEMMA VerifiedAreUnaltered ==
  ASSUME ChainInv, LeftInv,
         \A i \in Positions : ~ Mismatch(Chronological(operation_events), i),
         NEW r \in Hashed(operation_events)
  PROVE  \E j \in DOMAIN written : r = written[j]
<1>1. r \in operation_events /\ r.event_hash # None
  BY DEF Hashed
<1>2. PICK i \in Positions : At(i) = r
  BY <1>1, AllListed
<1>3. r.event_hash \in CandidateHashes(r)
  BY <1>1, <1>2 DEF Mismatch, At
<1>4. r.event_hash[3] = r.body
  BY <1>3 DEF CandidateHashes, HashPayload, Payload
<1>5. PICK j \in DOMAIN written : Stems(r, written[j])
  BY <1>1 DEF LeftInv
<1>6. r.body # Altered
  BY <1>4, <1>5, StemShape, ChainRow
<1> QED BY <1>5, <1>6, StemShape

LEMMA VerifiedHavePredecessors ==
  ASSUME ChainInv, LeftInv,
         \A i \in Positions : ~ Mismatch(Chronological(operation_events), i),
         NEW j \in DOMAIN written, j # 1, written[j] \in Hashed(operation_events)
  PROVE  j - 1 \in DOMAIN written /\ written[j - 1] \in Hashed(operation_events)
<1>1. j - 1 \in DOMAIN written
  BY DEF ChainInv
<1>2. written[j] \in operation_events /\ written[j].event_hash # None
  BY DEF Hashed
<1>3. PICK i \in Positions : At(i) = written[j]
  BY <1>2, AllListed
<1>4. ExpectedPreviousHash(Chronological(operation_events), i) = written[j - 1].event_hash
  <2>1. written[j].previous_hash = written[j - 1].event_hash
    BY ChainRow DEF PreviousAt
  <2> QED BY <1>2, <1>3, <2>1 DEF Mismatch, At
<1>5. written[j - 1].event_hash # None
  BY <1>1, ChainRow
<1>6. i # 1 /\ At(i - 1).event_hash = written[j - 1].event_hash
  BY <1>4, <1>5 DEF ExpectedPreviousHash, At
<1>7. i - 1 \in Positions
  BY <1>6, AllListed DEF Positions
<1>8. At(i - 1) \in Hashed(operation_events)
  BY <1>5, <1>6, <1>7, AllListed DEF Hashed
<1>9. PICK m \in DOMAIN written : At(i - 1) = written[m]
  BY <1>8, VerifiedAreUnaltered
<1>10. m = j - 1
  BY <1>1, <1>6, <1>9, HashesDiffer
<1> QED BY <1>1, <1>8, <1>9, <1>10

LEMMA VerifiedIsBeginning ==
  ASSUME ChainInv, LeftInv,
         \A i \in Positions : ~ Mismatch(Chronological(operation_events), i)
  PROVE  \E k \in 0 .. Len(written) : Beginning(k)
<1> DEFINE rows == Hashed(operation_events)
           Chain == {written[i] : i \in DOMAIN written}
           Missing == {r \in Chain : r \notin rows}
<1>1. Len(written) \in Nat /\ DOMAIN written = 1 .. Len(written)
  BY DEF ChainInv
<1>2. rows \subseteq Chain
  BY VerifiedAreUnaltered
<1>3. CASE Missing = {}
  <2>1. rows = {written[i] : i \in 1 .. Len(written)}
    BY <1>1, <1>2, <1>3
  <2> QED BY <1>1, <2>1 DEF Beginning
<1>4. CASE Missing # {}
  <2>1. PICK m \in DOMAIN written :
            /\ written[m] \in Missing
            /\ \A j \in DOMAIN written : written[j] \in Missing => m <= j
    <3>1. Missing \in SUBSET Chain
      OBVIOUS
    <3> HIDE DEF Missing
    <3> QED BY <1>4, <3>1, OldestOfChain
  <2> DEFINE Late == {r \in rows : \E j \in DOMAIN written : r = written[j] /\ m <= j}
  <2>2. CASE Late # {}
    <3>1. PICK l \in DOMAIN written :
              /\ written[l] \in Late
              /\ \A j \in DOMAIN written : written[j] \in Late => l <= j
      <4>1. Late \in SUBSET Chain
        BY <1>2
      <4> HIDE DEF Late
      <4> QED BY <2>2, <4>1, OldestOfChain
    <3>2. written[l] \in rows /\ m <= l /\ m # l
      <4>1. PICK j \in DOMAIN written : written[l] = written[j] /\ m <= j
        BY <3>1
      <4>2. l = j
        BY <4>1, HashesDiffer
      <4>3. m # l
        BY <2>1, <3>1
      <4> QED BY <3>1, <4>1, <4>2, <4>3
    <3>3. l # 1 /\ m <= l - 1
      BY <1>1, <3>2
    <3>4. l - 1 \in DOMAIN written /\ written[l - 1] \in rows
      BY <3>2, <3>3, VerifiedHavePredecessors
    <3>5. written[l - 1] \in Late
      BY <3>3, <3>4
    <3> HIDE DEF Late
    <3> QED BY <1>1, <3>1, <3>4, <3>5
  <2>3. CASE Late = {}
    <3>1. m - 1 \in 0 .. Len(written)
      BY <1>1
    <3>2. ASSUME NEW j \in 1 .. m - 1
          PROVE  written[j] \in rows
      BY <1>1, <2>1
    <3>3. ASSUME NEW r \in rows
          PROVE  \E j \in 1 .. m - 1 : r = written[j]
      <4>1. PICK j \in DOMAIN written : r = written[j]
        BY <1>2
      <4>2. ~(m <= j)
        BY <2>3, <4>1
      <4> QED BY <1>1, <4>1, <4>2
    <3>4. rows = {written[i] : i \in 1 .. m - 1}
      BY <3>2, <3>3
    <3> QED BY <3>1, <3>4 DEF Beginning
  <2> QED BY <2>2, <2>3
<1> QED BY <1>3, <1>4

LEMMA VerdictOfRows ==
  ASSUME ChainInv, LeftInv, NEW total
  PROVE  VerifyEvents(Chronological(operation_events), total)
           = [status   |-> IF ~HashedRowsIntact THEN "invalid"
                           ELSE IF LegacyPresent THEN "partial" ELSE "valid",
              complete |-> Len(Chronological(operation_events)) >= total]
<1> DEFINE c == Chronological(operation_events)
<1>1. DOMAIN c = Positions
  BY AllListed
<1>2. (\E i \in Positions : Mismatch(c, i)) <=> ~HashedRowsIntact
  <2>1. HashedRowsIntact => \A i \in Positions : ~ Mismatch(c, i)
    BY IntactIsBeginning, BeginningVerifies
  <2>2. (\A i \in Positions : ~ Mismatch(c, i)) => HashedRowsIntact
    BY IntactIsBeginning, VerifiedIsBeginning
  <2> QED BY <2>1, <2>2
<1>3. HashedRowsIntact => ((\E i \in Positions : Warning(c, i)) <=> LegacyPresent)
  <2> SUFFICES ASSUME HashedRowsIntact
               PROVE  (\E i \in Positions : Warning(c, i)) <=> LegacyPresent
    OBVIOUS
  <2>1. \A i \in Positions :
          Warning(c, i) <=> At(i).event_hash = None \/ At(i).event_hash[1] = "legacy"
    BY IntactIsBeginning, BeginningVerifies
  <2>2. /\ \A i \in Positions : At(i) \in operation_events
        /\ \A r \in operation_events : \E i \in Positions : At(i) = r
    BY AllListed
  <2> HIDE DEF c
  <2> QED BY <2>1, <2>2 DEF LegacyPresent
<1> HIDE DEF c
<1>4. VerifyEvents(c, total)
        = [status   |-> IF \E i \in Positions : Mismatch(c, i) THEN "invalid"
                        ELSE IF \E i \in Positions : Warning(c, i) THEN "partial"
                        ELSE "valid",
           complete |-> Len(c) >= total]
  BY <1>1 DEF VerifyEvents
<1>5. (IF \E i \in Positions : Mismatch(c, i) THEN "invalid"
       ELSE IF \E i \in Positions : Warning(c, i) THEN "partial" ELSE "valid")
        = IF ~HashedRowsIntact THEN "invalid"
          ELSE IF LegacyPresent THEN "partial" ELSE "valid"
  BY <1>2, <1>3
<1>6. VerifyEvents(c, total)
        = [status   |-> IF ~HashedRowsIntact THEN "invalid"
                        ELSE IF LegacyPresent THEN "partial" ELSE "valid",
           complete |-> Len(c) >= total]
  BY <1>4, <1>5
<1> QED BY <1>6 DEF c

-----------------------------------------------------------------------------
(* What a request under way knows of the chain: its event will be newer    *)
(* than every row; the head it read is where the chain ends that the rows  *)
(* left come from; and the rows it counted have not become more.           *)

FlightInv(p) ==
    /\ call[p].step \in {"saved", "head"} =>
         /\ \A r \in operation_events : r.created_at < call[p].at
         /\ \A i \in DOMAIN written : written[i].created_at < call[p].at
    /\ call[p].step = "head" =>
         \E n \in 0 .. Len(written) :
            /\ call[p].previous = IF n = 0 THEN None ELSE written[n].event_hash
            /\ \A r \in Hashed(operation_events) : \E i \in 1 .. n : Stems(r, written[i])
    /\ call[p].step = "counted" =>
         call[p].total \in Nat /\ Cardinality(operation_events) <= call[p].total

VerdictInv ==
    /\ TypeInv
    /\ ChainInv
    /\ LeftInv
    /\ \A p \in Process : FlightInv(p)

LEMMA LegacyWritten ==
  ASSUME NEW unhashed \in 0 .. 1, NEW old \in 0 .. 1,
         NEW w, w = SubSeq(LegacyRows(unhashed, old), unhashed + 1, unhashed + old)
  PROVE  /\ w \in Seq(ToSet(w)) /\ Len(w) = old
         /\ old = 1 => w[1] = WithIntegrity("legacy", unhashed + 1, Old, None)
<1> DEFINE a == [i \in 1 .. unhashed |-> Unhashed(i)]
           b == [i \in 1 .. old |-> WithIntegrity("legacy", unhashed + i, Old, None)]
           S == {a[i] : i \in 1 .. unhashed} \cup {b[i] : i \in 1 .. old}
<1>0. unhashed \in Nat /\ old \in Nat
  OBVIOUS
<1>1. a \in Seq(S) /\ Len(a) = unhashed
  <2>1. a \in [1 .. unhashed -> S]
    OBVIOUS
  <2> QED BY <1>0, <2>1, FunctionIsSequence
<1>2. b \in Seq(S) /\ Len(b) = old
  <2>1. b \in [1 .. old -> S]
    OBVIOUS
  <2> QED BY <1>0, <2>1, FunctionIsSequence
<1>3. w = SubSeq(a \o b, unhashed + 1, unhashed + old)
  BY DEF LegacyRows
<1>4. w = [i \in 1 .. old |-> b[i]]
  <2> HIDE DEF a, b, S
  <2>1. a \o b \in Seq(S) /\ Len(a \o b) = unhashed + old
    BY <1>1, <1>2
  <2>2. ASSUME NEW i \in 1 .. old
        PROVE  (a \o b)[(unhashed + 1) + i - 1] = b[i]
    <3>1. unhashed + i \in 1 .. Len(a) + Len(b) /\ ~(unhashed + i <= Len(a))
          /\ unhashed + i - Len(a) = i /\ (unhashed + 1) + i - 1 = unhashed + i
      BY <1>0, <1>1, <1>2
    <3> QED BY <1>1, <1>2, <3>1
  <2>3. SubSeq(a \o b, unhashed + 1, unhashed + old)
          = [i \in 1 .. old |-> (a \o b)[(unhashed + 1) + i - 1]]
    <3>1. (unhashed + old) - (unhashed + 1) + 1 = old
      BY <1>0
    <3> QED BY <1>0, <2>1, <3>1
  <2> QED BY <1>3, <2>2, <2>3
<1> HIDE DEF b
<1>5. w \in Seq(ToSet(w)) /\ Len(w) = old
  <2>1. w \in [1 .. old -> ToSet(w)]
    BY <1>4 DEF ToSet
  <2> QED BY <1>0, <2>1, FunctionIsSequence
<1>6. old = 1 => w[1] = WithIntegrity("legacy", unhashed + 1, Old, None)
  BY <1>4 DEF b
<1> QED BY <1>5, <1>6

LEMMA VerdictInit ==
  Init => VerdictInv
<1> SUFFICES ASSUME Init PROVE VerdictInv
  OBVIOUS
<1>1. TypeInv
  BY TypeInit
<1>2. PICK unhashed \in 0 .. 1, old \in 0 .. 1 :
          /\ operation_events = ToSet(LegacyRows(unhashed, old))
          /\ written = SubSeq(LegacyRows(unhashed, old), unhashed + 1, unhashed + old)
          /\ clock = unhashed + old
  BY DEF Init
<1> DEFINE w == WithIntegrity("legacy", unhashed + 1, Old, None)
<1>3. w.created_at = unhashed + 1 /\ w.event_hash # None
  BY PayloadIsNoNone DEF WithIntegrity
<1>4. Unhashed(1).created_at = 1 /\ Unhashed(1).event_hash = None
  BY DEF Unhashed
<1>5. written \in Seq(ToSet(written)) /\ Len(written) = old /\ (old = 1 => written[1] = w)
  BY <1>2, LegacyWritten
<1>6. \A r \in operation_events :
        \/ r = Unhashed(1) /\ unhashed = 1
        \/ r = w /\ old = 1
  BY <1>2, LegacyShape
<1> HIDE DEF w
<1>7. DOMAIN written = 1 .. old /\ \A i \in DOMAIN written : i = 1 /\ old = 1
  BY <1>5
<1>8. ChainInv
  <2>1. ASSUME NEW i \in DOMAIN written
        PROVE  /\ written[i].created_at \in 1 .. clock
               /\ written[i] = WithIntegrity("legacy", written[i].created_at, Old, PreviousAt(i))
    <3>1. written[i] = w /\ i = 1 /\ old = 1
      BY <1>5, <1>7
    <3>2. PreviousAt(i) = None
      BY <3>1 DEF PreviousAt
    <3> QED BY <1>2, <1>3, <3>1, <3>2 DEF w
  <2> QED BY <1>5, <1>7, <2>1 DEF ChainInv
<1>9. LeftInv
  <2>1. IsFiniteSet(operation_events)
    <3>1. operation_events \in SUBSET ({Unhashed(1)} \cup {w})
      BY <1>6
    <3>2. IsFiniteSet({Unhashed(1)} \cup {w})
      BY FS_Singleton, FS_AddElement
    <3> QED BY <3>1, <3>2, FS_Subset
  <2>2. Dated(operation_events)
    BY <1>3, <1>4, <1>6, <2>1 DEF Dated
  <2>3. ASSUME NEW r \in operation_events, r.event_hash = None, NEW i \in DOMAIN written
        PROVE  r.created_at < written[i].created_at
    BY <1>3, <1>4, <1>5, <1>6, <1>7, <2>3
  <2>4. ASSUME NEW r \in operation_events, r.event_hash # None
        PROVE  \E i \in DOMAIN written : Stems(r, written[i])
    BY <1>4, <1>5, <1>6, <1>7, <2>4 DEF Stems
  <2> QED BY <2>2, <2>3, <2>4 DEF LeftInv
<1>10. \A p \in Process : FlightInv(p)
  BY DEF Init, Down, FlightInv
<1> QED BY <1>1, <1>8, <1>9, <1>10 DEF VerdictInv

(* Steps that leave the rows as they are.                                  *)
LEMMA SameRows ==
  ASSUME VerdictInv, TypeInv', UNCHANGED <<operation_events, written>>, clock <= clock'
  PROVE  ChainInv' /\ LeftInv'
<1>1. \A i \in DOMAIN written : written[i].created_at \in 1 .. clock'
  BY DEF VerdictInv, ChainInv, TypeInv, TypeOK
<1>2. \A i : PreviousAt(i)' = PreviousAt(i)
  BY DEF PreviousAt
<1> QED BY <1>1, <1>2 DEF VerdictInv, ChainInv, LeftInv

LEMMA QuietRows ==
  ASSUME VerdictInv, TypeInv', NEW p \in Process, Process = {p},
         UNCHANGED <<operation_events, written>>, clock <= clock',
         \/ call'[p] = call[p]
         \/ call'[p].step \in {"down", "idle", "verified"}
         \/ call'[p].step = "saved" /\ call'[p].at = clock + 1
  PROVE  VerdictInv'
<1>1. ChainInv' /\ LeftInv'
  BY SameRows
<1>2. FlightInv(p)
  BY DEF VerdictInv
<1>3. CASE call'[p] = call[p]
  BY <1>1, <1>2, <1>3 DEF VerdictInv, FlightInv
<1>4. CASE call'[p].step \in {"down", "idle", "verified"}
  BY <1>1, <1>4 DEF VerdictInv, FlightInv
<1>5. CASE call'[p].step = "saved" /\ call'[p].at = clock + 1
  <2>1. clock \in Nat /\ \A r \in operation_events : r.created_at \in 1 .. clock
    BY DEF VerdictInv, TypeInv, TypeOK
  <2>2. \A i \in DOMAIN written : written[i].created_at \in 1 .. clock
    BY DEF VerdictInv, ChainInv
  <2>3. FlightInv(p)'
    BY <1>5, <2>1, <2>2 DEF FlightInv
  <2> QED BY <1>1, <2>3 DEF VerdictInv
<1> QED BY <1>3, <1>4, <1>5

LEMMA HeadOfRows ==
  ASSUME ChainInv, LeftInv
  PROVE  \E n \in 0 .. Len(written) :
           /\ LatestOperationHash(operation_events)
                = IF n = 0 THEN None ELSE written[n].event_hash
           /\ \A r \in Hashed(operation_events) : \E i \in 1 .. n : Stems(r, written[i])
<1> DEFINE rows == Hashed(operation_events)
           H == Chronological(rows)
           k == Cardinality(rows)
<1>1. Len(written) \in Nat /\ DOMAIN written = 1 .. Len(written)
  BY DEF ChainInv
<1>2. CASE rows = {}
  BY <1>1, <1>2 DEF LatestOperationHash
<1>3. CASE rows # {}
  <2>1. Dated(rows) /\ IsFiniteSet(rows)
    BY HashedDated DEF Dated
  <2>2. /\ k \in Nat /\ Len(H) = k
        /\ \A i \in 1 .. k : H[i] \in rows
        /\ \A r \in rows : \E i \in 1 .. k : H[i] = r
        /\ \A i, j \in 1 .. k : i < j => H[i].created_at < H[j].created_at
    <3>1. /\ k \in Nat /\ Len(H) = k
          /\ \A i \in 1 .. k : H[i] \in rows
          /\ \A r \in rows : Rank(rows, r) + 1 \in 1 .. k /\ H[Rank(rows, r) + 1] = r
          /\ \A i, j \in 1 .. k : i < j => H[i].created_at < H[j].created_at
      BY <2>1, Listed
    <3> HIDE DEF H, k, rows
    <3> QED BY <3>1
  <2>3. k # 0
    BY <1>3, <2>1, FS_EmptySet
  <2>4. LatestOperationHash(operation_events) = H[k].event_hash
    BY <1>3, <2>2 DEF LatestOperationHash, Last
  <2>5. \A r \in rows : \E i \in DOMAIN written : Stems(r, written[i])
    BY DEF LeftInv, Hashed
  <2> HIDE DEF H, k, rows
  <2>6. H[k] \in rows /\ \A r \in rows : r = H[k] \/ r.created_at < H[k].created_at
    BY <2>2, <2>3
  <2>7. PICK n \in DOMAIN written : Stems(H[k], written[n])
    BY <2>5, <2>6
  <2>8. ASSUME NEW r \in rows
        PROVE  \E i \in 1 .. n : Stems(r, written[i])
    <3>1. PICK i \in DOMAIN written : Stems(r, written[i])
      BY <2>5
    <3>2. r = H[k] \/ written[i].created_at < written[n].created_at
      BY <2>6, <2>7, <3>1, StemShape
    <3>3. CASE r = H[k]
      BY <1>1, <2>7, <3>3
    <3>4. CASE written[i].created_at < written[n].created_at
      <4>1. ~(n < i)
        <5> SUFFICES ASSUME n < i
                     PROVE  FALSE
          OBVIOUS
        <5>1. written[n].created_at < written[i].created_at
          BY DEF ChainInv
        <5> QED BY <3>4, <5>1, ChainRow
      <4> QED BY <1>1, <3>1, <4>1
    <3> QED BY <3>2, <3>3, <3>4
  <2>9. H[k].event_hash = written[n].event_hash
    BY <2>7, StemShape
  <2> QED BY <1>1, <2>4, <2>8, <2>9 DEF rows
<1> QED BY <1>2, <1>3

LEMMA KeptChain ==
  ASSUME ChainInv, NEW n \in 0 .. Len(written),
         NEW previous, previous = IF n = 0 THEN None ELSE written[n].event_hash
  PROVE  Max({0} \cup {m \in DOMAIN written : written[m].event_hash = previous}) = n
<1> DEFINE S == {0} \cup {m \in DOMAIN written : written[m].event_hash = previous}
<1>1. Len(written) \in Nat /\ DOMAIN written = 1 .. Len(written)
  BY DEF ChainInv
<1>2. n \in S
  BY <1>1
<1>3. \A m \in S : m = 0 \/ m = n
  BY <1>1, ChainRow, HashesDiffer
<1>4. \A x \in S : (\A y \in S : x >= y) <=> x = n
  BY <1>1, <1>2, <1>3
<1> HIDE DEF S
<1>5. (CHOOSE x \in S : \A y \in S : x >= y) = n
  BY <1>2, <1>4
<1> QED BY <1>5 DEF Max, S

LEMMA ChainGrows ==
  ASSUME ChainInv, NEW n \in 0 .. Len(written), NEW row, NEW w,
         w = Append(SubSeq(written, 1, n), row)
  PROVE  /\ w \in Seq(ToSet(w))
         /\ DOMAIN w = 1 .. n + 1
         /\ \A i \in 1 .. n : w[i] = written[i]
         /\ w[n + 1] = row
<1> DEFINE S == ToSet(written) \cup {row}
           kept == SubSeq(written, 1, n)
<1>1. written \in Seq(S) /\ Len(written) \in Nat
  <2>1. written \in Seq(ToSet(written))
    BY DEF ChainInv
  <2> HIDE DEF ChainInv
  <2> QED BY <2>1
<1> HIDE DEF S
<1>2. kept \in Seq(S) /\ Len(kept) = n /\ \A i \in 1 .. n : kept[i] = written[i]
  BY <1>1
<1> HIDE DEF kept
<1>3. row \in S
  BY DEF S
<1>4. /\ w \in Seq(S) /\ Len(w) = n + 1
      /\ \A i \in 1 .. n : w[i] = written[i]
      /\ w[n + 1] = row
  BY <1>1, <1>2, <1>3 DEF kept
<1>5. DOMAIN w = 1 .. n + 1 /\ n + 1 \in Nat /\ w = [i \in 1 .. n + 1 |-> w[i]]
  BY <1>1, <1>4
<1>6. w \in [1 .. n + 1 -> ToSet(w)]
  BY <1>5 DEF ToSet
<1> QED BY <1>4, <1>5, <1>6, FunctionIsSequence

LEMMA InsertRows ==
  ASSUME VerdictInv, TypeInv', NEW p \in Process, call[p].step = "head", Insert(p), clock <= clock'
  PROVE  /\ ChainInv' /\ LeftInv'
         /\ \A r \in operation_events' : r.created_at \in 1 .. clock
         /\ \A i \in DOMAIN written' : written'[i].created_at \in 1 .. clock
<1> DEFINE at == call[p].at
           row == WithIntegrity("current", at, call[p].body, call[p].previous)
<1>1. PICK n \in 0 .. Len(written) :
          /\ call[p].previous = IF n = 0 THEN None ELSE written[n].event_hash
          /\ \A r \in Hashed(operation_events) : \E i \in 1 .. n : Stems(r, written[i])
  BY DEF VerdictInv, FlightInv
<1>2. /\ call[p].body \in Body /\ at \in 1 .. clock
      /\ \A r \in operation_events : r.created_at < at
      /\ \A i \in DOMAIN written : written[i].created_at < at
  BY DEF VerdictInv, TypeInv, CallOK, FlightInv
<1>3. ChainInv /\ LeftInv /\ Len(written) \in Nat /\ DOMAIN written = 1 .. Len(written)
  BY DEF VerdictInv, ChainInv
<1>4. row.created_at = at /\ row.event_hash # None
  BY PayloadIsNoNone DEF WithIntegrity
<1>5. /\ operation_events' = operation_events \cup {row}
      /\ written' = Append(SubSeq(written, 1, n), row)
  BY <1>1, <1>3, KeptChain DEF Insert
<1> HIDE DEF row
<1>6. /\ written' \in Seq(ToSet(written'))
      /\ DOMAIN written' = 1 .. n + 1
      /\ \A i \in 1 .. n : written'[i] = written[i]
      /\ written'[n + 1] = row
  <2> DEFINE w == Append(SubSeq(written, 1, n), row)
  <2>1. /\ w \in Seq(ToSet(w))
        /\ DOMAIN w = 1 .. n + 1
        /\ \A i \in 1 .. n : w[i] = written[i]
        /\ w[n + 1] = row
    BY <1>3, ChainGrows
  <2>2. written' = w
    BY <1>5
  <2> HIDE DEF w
  <2> QED BY <2>1, <2>2
<1>7. ASSUME NEW i \in DOMAIN written'
      PROVE  i = n + 1 \/ (i \in 1 .. n /\ i \in DOMAIN written)
  <2>1. i \in 1 .. n + 1
    BY <1>6
  <2> QED BY <1>3, <2>1
<1>n. clock \in Nat /\ clock' \in Nat
  BY DEF VerdictInv, TypeInv, TypeOK
<1>t. \A i \in DOMAIN written' : written'[i].created_at \in 1 .. clock
  BY <1>2, <1>3, <1>4, <1>6, <1>7, ChainRow
<1>u. \A r \in operation_events' : r.created_at \in 1 .. clock
  BY <1>2, <1>4, <1>5 DEF VerdictInv, TypeInv, TypeOK
<1>8. ChainInv'
  <2>1. \A i \in DOMAIN written' : written'[i].created_at \in 1 .. clock'
    BY <1>t, <1>n
  <2>2. PreviousAt(n + 1)' = call[p].previous
    <3>1. CASE n = 0
      BY <1>1, <3>1 DEF PreviousAt
    <3>2. CASE n # 0
      <4>1. n \in 1 .. n /\ n + 1 # 1 /\ (n + 1) - 1 = n
        BY <1>3, <3>2
      <4> QED BY <1>1, <1>6, <3>2, <4>1 DEF PreviousAt
    <3> QED BY <3>1, <3>2
  <2>3. \A i \in 1 .. n : PreviousAt(i)' = PreviousAt(i)
    <3> SUFFICES ASSUME NEW i \in 1 .. n
                 PROVE  PreviousAt(i)' = PreviousAt(i)
      OBVIOUS
    <3>1. i = 1 \/ i - 1 \in 1 .. n
      BY <1>3
    <3> QED BY <1>6, <3>1 DEF PreviousAt
  <2>4. ASSUME NEW i \in DOMAIN written'
        PROVE  \E format \in {"current", "legacy"}, body \in Body \cup {Old} :
                 written'[i]
                   = WithIntegrity(format, written'[i].created_at, body, PreviousAt(i)')
    <3>1. CASE i = n + 1
      <4>1. written'[i] = WithIntegrity("current", written'[i].created_at, call[p].body,
                                        PreviousAt(i)')
        BY <1>4, <1>6, <2>2, <3>1 DEF row
      <4> QED BY <1>2, <4>1
    <3>2. CASE i \in 1 .. n /\ i \in DOMAIN written
      <4>1. written'[i] = written[i] /\ PreviousAt(i)' = PreviousAt(i)
        BY <1>6, <2>3, <3>2
      <4>2. \E format \in {"current", "legacy"}, body \in Body \cup {Old} :
              written[i] = WithIntegrity(format, written[i].created_at, body, PreviousAt(i))
        BY <1>3, <3>2 DEF ChainInv
      <4> QED BY <4>1, <4>2
    <3> QED BY <1>7, <3>1, <3>2
  <2>5. ASSUME NEW i \in DOMAIN written', NEW j \in DOMAIN written', i < j
        PROVE  written'[i].created_at < written'[j].created_at
    <3>1. i \in 1 .. n /\ i \in DOMAIN written
      BY <1>3, <1>6, <1>7, <2>5
    <3>2. CASE j = n + 1
      BY <1>2, <1>4, <1>6, <3>1, <3>2
    <3>3. CASE j \in 1 .. n /\ j \in DOMAIN written
      BY <1>3, <1>6, <2>5, <3>1, <3>3 DEF ChainInv
    <3> QED BY <1>7, <3>2, <3>3
  <2> QED BY <1>6, <2>1, <2>4, <2>5 DEF ChainInv
<1>9. LeftInv'
  <2>1. Dated(operation_events)'
    <3>1. IsFiniteSet(operation_events')
      BY <1>3, <1>5, FS_AddElement DEF LeftInv, Dated
    <3> QED BY <1>2, <1>3, <1>4, <1>5, <3>1 DEF LeftInv, Dated
  <2>2. ASSUME NEW r \in operation_events', r.event_hash = None, NEW i \in DOMAIN written'
        PROVE  r.created_at < written'[i].created_at
    <3>1. r \in operation_events
      BY <1>4, <1>5, <2>2
    <3>2. CASE i = n + 1
      BY <1>2, <1>4, <1>6, <3>1, <3>2
    <3>3. CASE i \in 1 .. n /\ i \in DOMAIN written
      BY <1>3, <1>6, <2>2, <3>1, <3>3 DEF LeftInv
    <3> QED BY <1>7, <3>2, <3>3
  <2>3. ASSUME NEW r \in operation_events', r.event_hash # None
        PROVE  \E i \in DOMAIN written' : Stems(r, written'[i])
    <3>1. CASE r \in operation_events
      <4>1. PICK i \in 1 .. n : Stems(r, written[i])
        BY <1>1, <2>3, <3>1 DEF Hashed
      <4>2. i \in DOMAIN written' /\ written'[i] = written[i]
        BY <1>3, <1>6
      <4> QED BY <4>1, <4>2
    <3>2. CASE r = row
      <4>1. n + 1 \in DOMAIN written'
        BY <1>3, <1>6
      <4> QED BY <1>6, <3>2, <4>1 DEF Stems
    <3> QED BY <1>5, <3>1, <3>2
  <2> QED BY <2>1, <2>2, <2>3 DEF LeftInv
<1> QED BY <1>8, <1>9, <1>t, <1>u

(* A fault leaves rows that say when they were written and hold the hashes *)
(* they were written with.                                                 *)
LEMMA FaultLeaves ==
  ASSUME LeftInv, TypeInv, NEW r \in operation_events, AlterRow(r) \/ LoseRow(r)
  PROVE  /\ Dated(operation_events')
         /\ Cardinality(operation_events) \in Nat
         /\ Cardinality(operation_events') <= Cardinality(operation_events)
         /\ \A s \in operation_events' : \E q \in operation_events :
              /\ s.created_at = q.created_at /\ s.event_hash = q.event_hash
              /\ \A w : Stems(q, w) => Stems(s, w)
<1> DEFINE a == [r EXCEPT !.body = Altered]
           left == operation_events \ {r}
<1>1. IsFiniteSet(operation_events) /\ Dated(operation_events)
  BY DEF LeftInv, Dated
<1>2. operation_events' \in {left, left \cup {a}}
  BY DEF AlterRow, LoseRow
<1>3. DOMAIN r = {"created_at", "body", "previous_hash", "event_hash"}
  BY DEF TypeInv, RowOK
<1>4. a.created_at = r.created_at /\ a.event_hash = r.event_hash
  BY <1>3
<1>5. \A w : Stems(r, w) => Stems(a, w)
  BY DEF Stems
<1> HIDE DEF a
<1>6. /\ IsFiniteSet(left) /\ Cardinality(left) = Cardinality(operation_events) - 1
      /\ Cardinality(operation_events) \in Nat
  BY <1>1, FS_RemoveElement, FS_CardinalityType
<1>7. /\ IsFiniteSet(left \cup {a})
      /\ Cardinality(left \cup {a}) \in {Cardinality(left), Cardinality(left) + 1}
  <2> HIDE DEF left
  <2> QED BY <1>6, FS_AddElement
<1>8. IsFiniteSet(operation_events')
      /\ Cardinality(operation_events') <= Cardinality(operation_events)
  <2>1. CASE operation_events' = left
    BY <1>6, <2>1
  <2>2. CASE operation_events' = left \cup {a}
    <3> HIDE DEF left
    <3> QED BY <1>6, <1>7, <2>2
  <2> QED BY <1>2, <2>1, <2>2
<1>9. Dated(operation_events')
  BY <1>1, <1>2, <1>4, <1>8 DEF Dated
<1>10. \A s \in operation_events' : s \in operation_events \/ s = a
  BY <1>2
<1> QED BY <1>4, <1>5, <1>6, <1>8, <1>9, <1>10

LEMMA FaultVerdict ==
  ASSUME VerdictInv, TypeInv', NEW r \in operation_events, AlterRow(r) \/ LoseRow(r)
  PROVE  VerdictInv'
<1>1. UNCHANGED <<written, call, clock>>
  BY DEF AlterRow, LoseRow
<1>2. /\ Dated(operation_events')
      /\ Cardinality(operation_events) \in Nat
      /\ Cardinality(operation_events') <= Cardinality(operation_events)
      /\ \A s \in operation_events' : \E q \in operation_events :
              /\ s.created_at = q.created_at /\ s.event_hash = q.event_hash
              /\ \A w : Stems(q, w) => Stems(s, w)
  BY FaultLeaves DEF VerdictInv
<1>3. ChainInv'
  <2>1. \A i : PreviousAt(i)' = PreviousAt(i)
    BY <1>1 DEF PreviousAt
  <2> QED BY <1>1, <2>1 DEF VerdictInv, ChainInv
<1>4. LeftInv'
  <2>1. ASSUME NEW s \in operation_events'
        PROVE  /\ s.event_hash = None => \A i \in DOMAIN written : s.created_at < written[i].created_at
               /\ s.event_hash # None => \E i \in DOMAIN written : Stems(s, written[i])
    BY <1>2 DEF VerdictInv, LeftInv
  <2> QED BY <1>1, <1>2, <2>1 DEF LeftInv
<1>5. ASSUME NEW p \in Process
      PROVE  FlightInv(p)'
  <2>1. FlightInv(p)
    BY DEF VerdictInv
  <2>2. call[p].step \in {"saved", "head"} =>
          \A s \in operation_events' : s.created_at < call[p].at
    BY <1>2, <2>1 DEF FlightInv
  <2>3. ASSUME NEW n \in 0 .. Len(written),
               \A s \in Hashed(operation_events) : \E i \in 1 .. n : Stems(s, written[i])
        PROVE  \A s \in Hashed(operation_events') : \E i \in 1 .. n : Stems(s, written[i])
    BY <1>2, <2>3 DEF Hashed
  <2>4. call[p].step = "counted" =>
          call[p].total \in Nat /\ Cardinality(operation_events') <= call[p].total
    BY <1>2, <2>1, FS_CardinalityType DEF FlightInv, Dated
  <2>5. call[p].step = "head" =>
          \E n \in 0 .. Len(written) :
            /\ call[p].previous = IF n = 0 THEN None ELSE written[n].event_hash
            /\ \A s \in Hashed(operation_events') : \E i \in 1 .. n : Stems(s, written[i])
    BY <2>1, <2>3 DEF FlightInv
  <2>6. Hashed(operation_events)' = Hashed(operation_events')
    BY DEF Hashed
  <2> QED BY <1>1, <2>1, <2>2, <2>4, <2>5, <2>6 DEF FlightInv
<1> QED BY <1>3, <1>4, <1>5 DEF VerdictInv

LEMMA ProcessVerdict ==
  ASSUME VerdictInv, TypeInv', NEW p \in Process, Process = {p}, ProcessStep(p)
  PROVE  VerdictInv'
<1>0. DOMAIN call = Process /\ clock \in Nat /\ ChainInv /\ LeftInv
  BY DEF VerdictInv, TypeInv, TypeOK
<1>1. CASE Start(p) \/ Crash(p) \/ ListEvents(p) \/ AnswerReport(p)
  <2>1. UNCHANGED <<operation_events, written>> /\ clock' = clock
    BY <1>1 DEF Start, Crash, ListEvents, AnswerReport
  <2>2. call'[p].step \in {"down", "idle", "verified"}
    BY <1>0, <1>1 DEF Start, Crash, ListEvents, AnswerReport, Down, Idle
  <2> QED BY <1>0, <2>1, <2>2, QuietRows
<1>2. ASSUME NEW new, NEW body, Operate(p, new, body)
      PROVE  VerdictInv'
  <2>1. UNCHANGED <<operation_events, written>>
    BY <1>2 DEF Operate
  <2>2. \/ call' = call /\ clock' = clock
        \/ call'[p].step = "saved" /\ call'[p].at = clock + 1 /\ clock' = clock + 1
    BY <1>0, <1>2 DEF Operate, PersistFails, Stamp
  <2> QED BY <1>0, <2>1, <2>2, QuietRows
<1>3. CASE \E value \in ControlValue : SetRuntimeControl(p, value)
  BY <1>0, <1>3, QuietRows DEF SetRuntimeControl
<1>4. CASE RecordOperation(p)
  <2>1. UNCHANGED <<operation_events, written>>
        /\ call'[p].step = "saved" /\ call'[p].at = clock + 1 /\ clock' = clock + 1
    BY <1>0, <1>4 DEF RecordOperation, Stamp
  <2> QED BY <1>0, <2>1, QuietRows
<1>5. CASE ReadHead(p)
  <2>1. UNCHANGED <<operation_events, written, clock>>
        /\ call[p].step = "saved" /\ call'[p].step = "head" /\ call'[p].at = call[p].at
        /\ call'[p].previous = LatestOperationHash(operation_events)
    BY <1>0, <1>5 DEF ReadHead
  <2>2. ChainInv' /\ LeftInv'
    BY <1>0, <2>1, SameRows
  <2>3. FlightInv(p)
    BY DEF VerdictInv
  <2>4. FlightInv(p)'
    BY <1>0, <2>1, <2>3, HeadOfRows DEF FlightInv
  <2> QED BY <2>2, <2>4 DEF VerdictInv
<1>6. CASE RecordEvent(p)
  <2>1. /\ call[p].step = "head" /\ clock <= clock'
        /\ call'[p] \in {Idle, [step |-> "saved", body |-> Proposal, at |-> clock + 1]}
    BY <1>0, <1>6 DEF RecordEvent, Stamp
  <2>2. CASE Insert(p)
    <3>1. /\ ChainInv' /\ LeftInv'
          /\ \A r \in operation_events' : r.created_at \in 1 .. clock
          /\ \A i \in DOMAIN written' : written'[i].created_at \in 1 .. clock
      BY <2>1, <2>2, InsertRows
    <3>2. FlightInv(p)'
      BY <1>0, <2>1, <3>1 DEF FlightInv, Idle
    <3> QED BY <3>1, <3>2 DEF VerdictInv
  <2>3. CASE UNCHANGED <<operation_events, written>>
    <3>1. \/ call'[p].step \in {"down", "idle", "verified"}
          \/ call'[p].step = "saved" /\ call'[p].at = clock + 1
      BY <2>1 DEF Idle
    <3> QED BY <2>1, <2>3, <3>1, QuietRows
  <2> QED BY <1>6, <2>2, <2>3 DEF RecordEvent
<1>7. CASE CountEvents(p)
  <2>1. UNCHANGED <<operation_events, written, clock>>
        /\ call'[p].step = "counted" /\ call'[p].total = Cardinality(operation_events)
    BY <1>0, <1>7 DEF CountEvents
  <2>2. ChainInv' /\ LeftInv'
    BY <1>0, <2>1, SameRows
  <2>3. Cardinality(operation_events) \in Nat
    BY <1>0, FS_CardinalityType DEF LeftInv, Dated
  <2>4. FlightInv(p)'
    BY <2>1, <2>3 DEF FlightInv
  <2> QED BY <2>2, <2>4 DEF VerdictInv
<1>8. CASE \/ AddFeedback(p)
           \/ \E m \in Monitor, status \in {"acknowledged", "escalated"} :
                 UpdateDrift(p, m, status)
           \/ \E m \in Monitor, action \in {"proposed", "none"} : RecordDriftEvent(p, m, action)
  BY <1>2, <1>8 DEF AddFeedback, UpdateDrift, RecordDriftEvent
<1> QED BY <1>1, <1>3, <1>4, <1>5, <1>6, <1>7, <1>8 DEF ProcessStep

LEMMA VerdictStep ==
  ASSUME OneProcess, VerdictInv, [Next]_vars
  PROVE  VerdictInv'
<1>1. TypeInv'
  BY TypeStep DEF VerdictInv
<1>2. PICK p : Process = {p}
  BY DEF OneProcess
<1>3. CASE ProcessStep(p)
  BY <1>1, <1>2, <1>3, ProcessVerdict
<1>4. CASE \E r \in operation_events : AlterRow(r) \/ LoseRow(r)
  BY <1>1, <1>4, FaultVerdict
<1>5. CASE UNCHANGED vars
  <2>1. UNCHANGED <<operation_events, written, clock>> /\ call'[p] = call[p] /\ clock \in Nat
    BY <1>5 DEF vars, VerdictInv, TypeInv, TypeOK
  <2> QED BY <1>1, <1>2, <2>1, QuietRows
<1> QED BY <1>2, <1>3, <1>4, <1>5 DEF Next

\* The listing was asked for as many rows as were counted: it leaves none out.
LEMMA WholeListing ==
  ASSUME LeftInv, NEW total \in Nat, Cardinality(operation_events) <= total
  PROVE  /\ ListOperations(operation_events, IF total > 1 THEN total ELSE 1)
              = Chronological(operation_events)
         /\ Len(Chronological(operation_events)) = Cardinality(operation_events)
<1> DEFINE limit == IF total > 1 THEN total ELSE 1
           c == Chronological(operation_events)
           n == Cardinality(operation_events)
<1>1. n \in Nat /\ c \in Seq(operation_events) /\ Len(c) = n
  BY Listed DEF LeftInv
<1>2. ~(n > limit)
  BY <1>1
<1>3. ListOperations(operation_events, limit) = SubSeq(c, 1, n)
  <2> HIDE DEF limit, c, n
  <2>1. ListOperations(operation_events, limit) = SubSeq(c, 0 + 1, n)
    BY <1>2 DEF ListOperations, c, n
  <2> QED BY <2>1
<1> HIDE DEF c, n
<1>4. SubSeq(c, 1, n) = c
  BY <1>1
<1> QED BY <1>1, <1>3, <1>4 DEF c, n

\* VerdictExact: with one process, whatever was altered or lost and wherever
\* requests failed or the process stopped, the verifier says "invalid" if and
\* only if the hashed rows are not an unaltered beginning of the chain that was
\* written, and "partial" if and only if they are and a row predates the chain
\* or its present format (verify_control_plane_store, _verify_events).
THEOREM VerdictIsExact ==
  ASSUME OneProcess
  PROVE  Spec => VerdictExact
<1> DEFINE Verdict(total) ==
             [complete |-> Cardinality(operation_events) >= total,
              status |-> IF ~HashedRowsIntact THEN "invalid"
                         ELSE IF LegacyPresent THEN "partial" ELSE "valid"]
<1>1. ASSUME VerdictInv, NEW p \in Process, ListEvents(p)
      PROVE  call'[p].report = Verdict(call[p].total)
  <2> DEFINE total == call[p].total
             limit == IF total > 1 THEN total ELSE 1
  <2>1. call'[p].report = VerifyEvents(ListOperations(operation_events, limit), total)
    BY <1>1 DEF ListEvents, VerdictInv, TypeInv
  <2>2. total \in Nat /\ Cardinality(operation_events) <= total
    BY <1>1 DEF ListEvents, VerdictInv, FlightInv
  <2>3. ChainInv /\ LeftInv
    BY <1>1 DEF VerdictInv
  <2> HIDE DEF total
  <2>4. VerifyEvents(ListOperations(operation_events, limit), total) = Verdict(total)
    BY <2>2, <2>3, WholeListing, VerdictOfRows
  <2> QED BY <2>1, <2>4 DEF total
<1>2. VerdictInv /\ [Next]_vars =>
        [\A p \in Process : ListEvents(p) => call'[p].report = Verdict(call[p].total)]_vars
  BY <1>1
<1>3. VerdictInv /\ [Next]_vars => VerdictInv'
  BY VerdictStep
<1> QED BY <1>2, <1>3, VerdictInit, PTL DEF Spec, VerdictExact
=============================================================================
