----------------------------- MODULE AuthProofs -----------------------------
(***************************************************************************)
(* Theorems about AuthSessions, for any number of processes, addresses,    *)
(* roles and tokens: what the tables hold, that a role never rises along   *)
(* minted keys, that bootstrap makes at most one user per process, and     *)
(* that what has ended is never accepted again.                            *)
(***************************************************************************)
EXTENDS AuthSessions, FiniteSetTheorems, TLAPS

(* A token that a request is about to deliver, or that was delivered, was  *)
(* drawn; a request names a user, or a key, that is in its table.          *)
CallsHaveRows ==
  \A p \in Process :
    /\ call[p].step \in {"session", "key", "event"} => call[p].user \in users
    /\ call[p].step \in {"event", "answer"} => call[p].token <= drawn
    /\ call[p].step = "revoke" => keys[call[p].key] # NoRow

Delivered == \A t \in delivered : t <= drawn

TypeInv == TypeOK /\ CallsHaveRows /\ Delivered

(* The shape of a request, by the step it is at.                           *)
LEMMA RequestShape ==
  ASSUME NEW r \in Request
  PROVE  /\ r.step \in {"idle", "user", "session", "key", "event", "answer", "revoke"}
         /\ r.step \in {"user", "session", "key", "event"} => r.user \in Email
         /\ r.step = "key" => /\ r.role \in Role
                              /\ r.expires \in KeyExpiry
                              /\ r.behind \in SUBSET Role
         /\ r.step = "event" => r.kind \in Kind
         /\ r.step \in {"event", "answer"} => r.token \in Token
         /\ r.step = "revoke" => r.key \in Token
  BY DEF Request, Idle

LEMMA Continued ==
  ASSUME TypeOK, NEW p \in Process, NEW next, Continue(p, next)
  PROVE  /\ call'[p] = next
         /\ \A q \in Process : q # p => call'[q] = call[q]
         /\ next \in Request => call' \in [Process -> Request]
  BY DEF TypeOK, Continue

(* Every step of a request keeps the types and the rows behind the calls:  *)
(* users and keys only grow, and a token is drawn before it is carried.    *)
LEMMA StepKeepsTypes ==
  ASSUME TypeInv, NEW p \in Process, Step(p)
  PROVE  TypeInv'
<1> USE DEF Delivered
<1>0. /\ call[p] \in Request
      /\ \A q \in Process : call[q] \in Request
  BY DEF TypeInv, TypeOK
<1>1. ASSUME NEW e \in Email, Bootstrap(p, e) \/ Login(p, e)
      PROVE  TypeInv'
  <2> DEFINE next == [step |-> IF Login(p, e) THEN "session" ELSE "user", user |-> e]
  <2>1. /\ UNCHANGED <<users, sessions, keys, events, drawn, now, delivered, lineage>>
        /\ Continue(p, next) /\ next \in Request
        /\ next.step = "session" => e \in users
    BY <1>1 DEF Bootstrap, Login, Request
  <2>2. TypeOK'
    BY <2>1, Continued DEF TypeInv, TypeOK
  <2>3. CallsHaveRows'
    BY <2>1, Continued DEF TypeInv, CallsHaveRows
  <2> QED BY <2>1, <2>2, <2>3 DEF TypeInv
<1>2. CASE CreateUser(p)
  <2> DEFINE next == [step |-> "session", user |-> call[p].user]
  <2>1. /\ users' = users \cup {call[p].user} /\ call[p].user \in Email
        /\ UNCHANGED <<sessions, keys, events, drawn, now, delivered, lineage>>
        /\ Continue(p, next)
    BY <1>2, <1>0, RequestShape DEF CreateUser
  <2>2. next \in Request
    BY <2>1 DEF Request
  <2>3. TypeOK'
    BY <2>1, <2>2, Continued DEF TypeInv, TypeOK
  <2>4. CallsHaveRows'
    BY <2>1, <2>2, Continued DEF TypeInv, CallsHaveRows
  <2> QED BY <2>1, <2>3, <2>4 DEF TypeInv
<1>3. ASSUME NEW t \in Token, CreateSession(p, t)
      PROVE  TypeInv'
  <2> DEFINE next == [step |-> "event", kind |-> "session", user |-> call[p].user,
                      token |-> t]
             row == [user |-> call[p].user, expires |-> now + SessionTtl]
  <2>1. /\ call[p].user \in users /\ call[p].user \in Email
        /\ drawn' = t /\ t = drawn + 1 /\ t \in 0 .. MaxTokens
        /\ sessions' = [sessions EXCEPT ![t] = row]
        /\ UNCHANGED <<users, keys, events, now, delivered, lineage>>
        /\ Continue(p, next)
    BY <1>3, <1>0, RequestShape, BoundAssumption
       DEF CreateSession, Fresh, Token, TypeInv, CallsHaveRows, TypeOK
  <2>2. next \in Request
    BY <2>1 DEF Request, Kind
  <2>3. row \in Session
    BY <1>3, <2>1, BoundAssumption DEF CreateSession, Session, Time, TypeInv, TypeOK
  <2>4. /\ sessions' \in [Token -> Session \cup {NoRow}]
        /\ \A k \in Token : sessions'[k] # NoRow => sessions'[k].user \in users
    BY <2>1, <2>3 DEF TypeInv, TypeOK
  <2>5. TypeOK'
    BY <2>1, <2>2, <2>4, Continued DEF TypeInv, TypeOK
  <2>6. CallsHaveRows' /\ Delivered'
    BY <2>1, <2>2, <1>0, RequestShape, Continued, BoundAssumption
       DEF TypeInv, TypeOK, CallsHaveRows, Token
  <2> QED BY <2>5, <2>6 DEF TypeInv
<1>4. ASSUME NEW t \in Token, NEW r \in Role, NEW at \in KeyExpiry,
             RequestApiKey(p, t, r, at)
      PROVE  TypeInv'
  <2> DEFINE next == [step |-> "key", user |-> PrincipalUser(t), role |-> r,
                      expires |-> at, behind |-> Ancestry(t)]
  <2>1. /\ UNCHANGED <<users, sessions, keys, events, drawn, now, delivered, lineage>>
        /\ Continue(p, next)
    BY <1>4 DEF RequestApiKey
  <2>2. PrincipalUser(t) \in users
    BY <1>4 DEF RequestApiKey, PrincipalUser, Accepted, KeyAccepted, SessionAccepted,
                TypeInv, TypeOK
  <2>3. Ancestry(t) \in SUBSET Role
    BY RoleAssumption DEF Ancestry, KeyAccepted, TypeInv, TypeOK, Key
  <2>4. next \in Request
    BY <2>2, <2>3 DEF Request, TypeInv, TypeOK
  <2>5. TypeOK'
    BY <2>1, <2>4, Continued DEF TypeInv, TypeOK
  <2>6. CallsHaveRows'
    BY <2>1, <2>2, <2>4, Continued DEF TypeInv, CallsHaveRows
  <2> QED BY <2>1, <2>5, <2>6 DEF TypeInv
<1>5. ASSUME NEW t \in Token, InsertApiKey(p, t)
      PROVE  TypeInv'
  <2> DEFINE next == [step |-> "event", kind |-> "key", user |-> call[p].user,
                      token |-> t]
             row == [user |-> call[p].user, role |-> call[p].role,
                     expires |-> call[p].expires, revoked |-> FALSE]
  <2>1. /\ call[p].user \in users /\ call[p].user \in Email
        /\ call[p].behind \in SUBSET Role
        /\ drawn' = t /\ t = drawn + 1 /\ t \in 0 .. MaxTokens
        /\ keys' = [keys EXCEPT ![t] = row]
        /\ lineage' = [lineage EXCEPT ![t] = call[p].behind]
        /\ UNCHANGED <<users, sessions, events, now, delivered>>
        /\ Continue(p, next)
    BY <1>5, <1>0, RequestShape, BoundAssumption
       DEF InsertApiKey, Fresh, Token, TypeInv, CallsHaveRows, TypeOK
  <2>2. next \in Request
    BY <2>1 DEF Request, Kind
  <2>3. row \in Key
    BY <1>5, <1>0, RequestShape DEF InsertApiKey, Key
  <2>4. /\ keys' \in [Token -> Key \cup {NoRow}]
        /\ \A k \in Token : /\ keys'[k] # NoRow => keys'[k].user \in users
                            /\ keys[k] # NoRow => keys'[k] # NoRow
    BY <2>1, <2>3, RowAssumption DEF TypeInv, TypeOK
  <2>5. TypeOK'
    BY <2>1, <2>2, <2>4, Continued DEF TypeInv, TypeOK
  <2>6. \A q \in Process : q # p =>
          /\ call'[q] = call[q]
          /\ call'[q].step = "revoke" => keys'[call'[q].key] # NoRow
    BY <2>1, <2>4, <1>0, RequestShape, Continued DEF TypeInv, CallsHaveRows
  <2>7. drawn \in Nat /\ drawn <= drawn' /\ call'[p] = next
    BY <2>1, BoundAssumption, Continued DEF TypeInv, TypeOK
  <2>8. \A q \in Process :
          call'[q].step \in {"event", "answer"} => call'[q].token <= drawn'
    BY <2>1, <2>6, <2>7, <1>0, RequestShape DEF TypeInv, CallsHaveRows, Token
  <2>9. CallsHaveRows' /\ Delivered'
    BY <2>1, <2>6, <2>7, <2>8 DEF TypeInv, TypeOK, CallsHaveRows, Token
  <2> QED BY <2>5, <2>9 DEF TypeInv
<1>6. CASE RecordEvent(p)
  <2> DEFINE next == [step |-> "answer", token |-> call[p].token]
  <2>1. /\ UNCHANGED <<users, sessions, keys, drawn, now, delivered, lineage>>
        /\ Continue(p, next) /\ call[p].token \in Token /\ call[p].token <= drawn
        /\ events' \in [Kind -> [Email -> Nat]]
    BY <1>6, <1>0, RequestShape DEF RecordEvent, TypeInv, TypeOK, CallsHaveRows
  <2>2. next \in Request
    BY <2>1 DEF Request
  <2>3. TypeOK'
    BY <2>1, <2>2, Continued DEF TypeInv, TypeOK
  <2>4. CallsHaveRows'
    BY <2>1, <2>2, Continued DEF TypeInv, CallsHaveRows
  <2> QED BY <2>1, <2>3, <2>4 DEF TypeInv
<1>7. CASE Answer(p)
  <2>1. /\ UNCHANGED <<users, sessions, keys, events, drawn, now, lineage>>
        /\ delivered' = delivered \cup {call[p].token}
        /\ Continue(p, Idle) /\ call[p].token \in Token /\ call[p].token <= drawn
    BY <1>7, <1>0, RequestShape DEF Answer, TypeInv, CallsHaveRows
  <2>2. TypeOK'
    BY <2>1, Continued DEF TypeInv, TypeOK, Request
  <2>3. CallsHaveRows' /\ Delivered'
    BY <2>1, Continued DEF TypeInv, CallsHaveRows, Idle
  <2> QED BY <2>2, <2>3 DEF TypeInv
<1>8. ASSUME NEW t \in Token, Logout(p, t)
      PROVE  TypeInv'
  BY <1>8 DEF Logout, TypeInv, TypeOK, CallsHaveRows
<1>9. ASSUME NEW t \in Token, NEW k \in Token, RequestRevocation(p, t, k)
      PROVE  TypeInv'
  <2> DEFINE next == [step |-> "revoke", key |-> k]
  <2>1. /\ UNCHANGED <<users, sessions, keys, events, drawn, now, delivered, lineage>>
        /\ Continue(p, next) /\ next \in Request /\ keys[k] # NoRow
    BY <1>9 DEF RequestRevocation, Request
  <2>2. TypeOK'
    BY <2>1, Continued DEF TypeInv, TypeOK
  <2>3. CallsHaveRows'
    BY <2>1, Continued DEF TypeInv, CallsHaveRows
  <2> QED BY <2>1, <2>2, <2>3 DEF TypeInv
<1>10. CASE RevokeApiKey(p)
  <2> DEFINE k == call[p].key
  <2>1. /\ UNCHANGED <<users, sessions, events, drawn, now, delivered, lineage>>
        /\ Continue(p, Idle) /\ k \in Token /\ keys[k] # NoRow /\ keys[k] \in Key
        /\ keys' = [keys EXCEPT ![k].revoked = TRUE]
    BY <1>10, <1>0, RequestShape DEF RevokeApiKey, TypeInv, CallsHaveRows, TypeOK
  <2>2. /\ keys'[k] \in Key /\ keys'[k].user = keys[k].user
        /\ \A t \in Token : t # k => keys'[t] = keys[t]
        /\ keys' \in [Token -> Key \cup {NoRow}]
    BY <2>1 DEF Key, TypeInv, TypeOK
  <2>3. \A t \in Token : /\ keys'[t] # NoRow => keys'[t].user \in users
                         /\ keys[t] # NoRow => keys'[t] # NoRow
    BY <2>1, <2>2, RowAssumption DEF TypeInv, TypeOK
  <2>4. TypeOK'
    BY <2>1, <2>2, <2>3, Continued DEF TypeInv, TypeOK, Request
  <2>5. CallsHaveRows'
    BY <2>1, <2>3, <1>0, RequestShape, Continued DEF TypeInv, CallsHaveRows, Idle
  <2> QED BY <2>1, <2>4, <2>5 DEF TypeInv
<1>11. CASE Abandon(p)
  <2>1. /\ UNCHANGED <<users, sessions, keys, events, drawn, now, delivered, lineage>>
        /\ Continue(p, Idle)
    BY <1>11 DEF Abandon
  <2>2. TypeOK'
    BY <2>1, Continued DEF TypeInv, TypeOK, Request
  <2>3. CallsHaveRows'
    BY <2>1, Continued DEF TypeInv, CallsHaveRows, Idle
  <2> QED BY <2>1, <2>2, <2>3 DEF TypeInv
<1> QED BY <1>1, <1>2, <1>3, <1>4, <1>5, <1>6, <1>7, <1>8, <1>9, <1>10, <1>11 DEF Step

LEMMA TypeInvariant == Spec => []TypeInv
<1>1. Init => TypeInv
  BY BoundAssumption DEF Init, TypeInv, TypeOK, CallsHaveRows, Delivered, Idle, Request,
                         Time, Kind
<1>2. TypeInv /\ [Next]_vars => TypeInv'
  <2> SUFFICES ASSUME TypeInv, [Next]_vars PROVE TypeInv'
    OBVIOUS
  <2>1. ASSUME NEW p \in Process, Step(p) PROVE TypeInv'
    BY <2>1, StepKeepsTypes
  <2>2. CASE Tick
    BY <2>2, BoundAssumption DEF Tick, TypeInv, TypeOK, CallsHaveRows, Delivered, Time
  <2>3. CASE UNCHANGED vars
    BY <2>3 DEF vars, TypeInv, TypeOK, CallsHaveRows, Delivered
  <2> QED BY <2>1, <2>2, <2>3 DEF Next
<1> QED BY <1>1, <1>2, PTL DEF Spec

(* Type correctness: sessions and keys belong to users that exist.         *)
THEOREM TypeCorrect == Spec => []TypeOK
<1>1. TypeInv => TypeOK
  BY DEF TypeInv
<1> QED BY <1>1, TypeInvariant, PTL

-----------------------------------------------------------------------------
(* Roles along minted keys. *)

(* What a pending key request carries already keeps the roles behind it.   *)
RoleInv ==
  /\ RoleNeverRises
  /\ \A p \in Process :
       call[p].step = "key" => call[p].behind \ {Admin} \subseteq {call[p].role}

LEMMA StepKeepsRoles ==
  ASSUME TypeInv, RoleInv, NEW p \in Process, Step(p)
  PROVE  RoleInv'
<1>0. TypeOK /\ call[p] \in Request
  BY DEF TypeInv, TypeOK
<1>1. ASSUME UNCHANGED <<keys, lineage>>, NEW next, Continue(p, next), next.step # "key"
      PROVE  RoleInv'
  BY <1>1, <1>0, Continued DEF RoleInv, RoleNeverRises
<1>2. ASSUME NEW t \in Token, NEW r \in Role, NEW at \in KeyExpiry,
             RequestApiKey(p, t, r, at)
      PROVE  RoleInv'
  <2> DEFINE next == [step |-> "key", user |-> PrincipalUser(t), role |-> r,
                      expires |-> at, behind |-> Ancestry(t)]
  <2>1. UNCHANGED <<keys, lineage>> /\ Continue(p, next) /\ MayMint(t, r)
    BY <1>2 DEF RequestApiKey
  <2>2. Ancestry(t) \ {Admin} \subseteq {r}
    <3>1. CASE KeyAccepted(t)
      <4>1. lineage[t] \ {Admin} \subseteq {keys[t].role}
        BY <3>1 DEF KeyAccepted, RoleInv, RoleNeverRises
      <4>2. keys[t].role = Admin \/ r = keys[t].role
        BY <2>1, <3>1 DEF MayMint, PrincipalRole
      <4> QED BY <3>1, <4>1, <4>2 DEF Ancestry
    <3>2. CASE ~KeyAccepted(t)
      BY <3>2 DEF Ancestry
    <3> QED BY <3>1, <3>2
  <2> QED BY <2>1, <2>2, <1>0, Continued DEF RoleInv, RoleNeverRises
<1>3. ASSUME NEW t \in Token, InsertApiKey(p, t)
      PROVE  RoleInv'
  <2> DEFINE next == [step |-> "event", kind |-> "key", user |-> call[p].user,
                      token |-> t]
  <2>1. /\ keys'[t].role = call[p].role /\ lineage'[t] = call[p].behind
        /\ \A k \in Token : k # t => keys'[k] = keys[k] /\ lineage'[k] = lineage[k]
        /\ call[p].step = "key" /\ Continue(p, next)
    BY <1>3, <1>0 DEF InsertApiKey, TypeOK
  <2>2. RoleNeverRises'
    BY <2>1 DEF RoleInv, RoleNeverRises
  <2> QED BY <2>1, <2>2, <1>0, Continued DEF RoleInv
<1>4. CASE RevokeApiKey(p)
  <2> DEFINE k == call[p].key
  <2>1. /\ k \in Token /\ keys[k] # NoRow /\ keys[k] \in Key /\ lineage' = lineage
        /\ keys' = [keys EXCEPT ![k].revoked = TRUE] /\ Continue(p, Idle)
    BY <1>4, <1>0, RequestShape DEF RevokeApiKey, TypeInv, TypeOK, CallsHaveRows
  <2>2. \A t \in Token : /\ t # k => keys'[t] = keys[t]
                         /\ t = k => keys'[t].role = keys[t].role
    BY <2>1 DEF Key, TypeInv, TypeOK
  <2>3. RoleNeverRises'
    BY <2>1, <2>2 DEF RoleInv, RoleNeverRises
  <2> QED BY <2>1, <2>3, <1>0, Continued DEF RoleInv, Idle
<1>5. ASSUME NEW e \in Email, Bootstrap(p, e) \/ Login(p, e)
      PROVE  RoleInv'
  BY <1>1, <1>5 DEF Bootstrap, Login
<1>6. CASE CreateUser(p)
  BY <1>1, <1>6 DEF CreateUser
<1>7. ASSUME NEW t \in Token, CreateSession(p, t)
      PROVE  RoleInv'
  BY <1>1, <1>7 DEF CreateSession
<1>8. CASE RecordEvent(p)
  BY <1>1, <1>8 DEF RecordEvent
<1>9. CASE Answer(p)
  BY <1>1, <1>9 DEF Answer, Idle
<1>10. ASSUME NEW t \in Token, Logout(p, t)
       PROVE  RoleInv'
  BY <1>10 DEF Logout, RoleInv, RoleNeverRises
<1>11. ASSUME NEW t \in Token, NEW k \in Token, RequestRevocation(p, t, k)
       PROVE  RoleInv'
  BY <1>1, <1>11 DEF RequestRevocation
<1>12. CASE Abandon(p)
  BY <1>1, <1>12 DEF Abandon, Idle
<1> QED BY <1>2, <1>3, <1>4, <1>5, <1>6, <1>7, <1>8, <1>9, <1>10, <1>11, <1>12 DEF Step

(* A key minted with a key never has a higher role, through any chain of   *)
(* keys: once a principal behind it was not an admin, it has its role      *)
(* (create_api_key).                                                       *)
THEOREM RolesNeverRise == Spec => []RoleNeverRises
<1>1. Init => RoleInv
  BY DEF Init, RoleInv, RoleNeverRises, Idle
<1>2. TypeInv /\ RoleInv /\ [Next]_vars => RoleInv'
  <2> SUFFICES ASSUME TypeInv, RoleInv, [Next]_vars PROVE RoleInv'
    OBVIOUS
  <2>1. ASSUME NEW p \in Process, Step(p) PROVE RoleInv'
    BY <2>1, StepKeepsRoles
  <2>2. CASE Tick
    BY <2>2 DEF Tick, RoleInv, RoleNeverRises
  <2>3. CASE UNCHANGED vars
    BY <2>3 DEF vars, RoleInv, RoleNeverRises
  <2> QED BY <2>1, <2>2, <2>3 DEF Next
<1>3. RoleInv => RoleNeverRises
  BY DEF RoleInv
<1> QED BY <1>1, <1>2, <1>3, TypeInvariant, PTL DEF Spec

-----------------------------------------------------------------------------
(* What has ended. *)

(* A delivered token cannot be drawn again, rows change only towards their *)
(* end, and the clock only moves forward.                                  *)
LEMMA EndedStays ==
  ASSUME TypeInv, [Next]_vars, NEW t \in delivered, ~Accepted(t)
  PROVE  ~Accepted(t)'
<1> USE DEF Accepted, SessionAccepted, KeyAccepted, IsExpired
<1>0. t \in Token /\ t <= drawn /\ drawn \in Nat /\ now \in Nat
  BY BoundAssumption DEF TypeInv, TypeOK, Delivered, Time
<1>1. ASSUME NEW p \in Process, Step(p)
      PROVE  ~Accepted(t)'
  <2>1. ASSUME UNCHANGED <<sessions, keys, now>>
        PROVE  ~Accepted(t)'
    BY <2>1
  <2>2. ASSUME NEW u \in Token, CreateSession(p, u) \/ InsertApiKey(p, u)
        PROVE  ~Accepted(t)'
    <3>1. u # t /\ now' = now
      BY <1>0, <2>2 DEF CreateSession, InsertApiKey, Fresh
    <3>2. sessions'[t] = sessions[t] /\ keys'[t] = keys[t]
      BY <1>0, <2>2, <3>1 DEF CreateSession, InsertApiKey, TypeInv, TypeOK
    <3> QED BY <3>1, <3>2
  <2>3. ASSUME NEW u \in Token, Logout(p, u)
        PROVE  ~Accepted(t)'
    BY <1>0, <2>3 DEF Logout, TypeInv, TypeOK
  <2>4. CASE RevokeApiKey(p)
    <3> DEFINE k == call[p].key
    <3>1. /\ k \in Token /\ keys[k] # NoRow /\ keys[k] \in Key
          /\ keys' = [keys EXCEPT ![k].revoked = TRUE] /\ UNCHANGED <<sessions, now>>
      BY <2>4, RequestShape DEF RevokeApiKey, TypeInv, TypeOK, CallsHaveRows
    <3>2. /\ t # k => keys'[t] = keys[t]
          /\ t = k => keys'[t].revoked
      BY <1>0, <3>1 DEF Key, TypeInv, TypeOK
    <3> QED BY <3>1, <3>2
  <2>5. ASSUME NEW e \in Email, Bootstrap(p, e) \/ Login(p, e)
        PROVE  ~Accepted(t)'
    BY <2>1, <2>5 DEF Bootstrap, Login
  <2>6. ASSUME NEW u \in Token, NEW r \in Role, NEW at \in KeyExpiry,
               RequestApiKey(p, u, r, at)
        PROVE  ~Accepted(t)'
    BY <2>1, <2>6 DEF RequestApiKey
  <2>7. ASSUME NEW u \in Token, NEW k \in Token, RequestRevocation(p, u, k)
        PROVE  ~Accepted(t)'
    BY <2>1, <2>7 DEF RequestRevocation
  <2>8. CASE CreateUser(p) \/ RecordEvent(p) \/ Answer(p) \/ Abandon(p)
    BY <2>1, <2>8 DEF CreateUser, RecordEvent, Answer, Abandon
  <2> QED BY <1>1, <2>2, <2>3, <2>4, <2>5, <2>6, <2>7, <2>8 DEF Step
<1>2. CASE Tick
  <2>1. /\ UNCHANGED <<sessions, keys>> /\ now' = now + 1
    BY <1>2 DEF Tick
  <2>2. /\ sessions[t] # NoRow => sessions[t].expires \in Nat
        /\ keys[t] # NoRow => keys[t].expires \in Nat \cup {Never}
    <3>1. /\ sessions[t] # NoRow => sessions[t] \in Session
          /\ keys[t] # NoRow => keys[t] \in Key
      BY <1>0 DEF TypeInv, TypeOK
    <3>2. Time \subseteq Nat /\ KeyExpiry \subseteq Nat \cup {Never}
      BY ExpiryAssumption, BoundAssumption DEF Time
    <3> QED BY <3>1, <3>2 DEF Session, Key
  <2> QED BY <1>0, <2>1, <2>2
<1>3. CASE UNCHANGED vars
  BY <1>3 DEF vars
<1> QED BY <1>1, <1>2, <1>3 DEF Next

(* A delivered token that was logged out, revoked or has expired is never  *)
(* accepted again (authenticate_session, authenticate_api_key).            *)
THEOREM EndedStaysEnded == Spec => EndedIsFinal
<1>1. TypeInv /\ [Next]_vars
        => [\A t \in Token : (t \in delivered /\ ~Accepted(t)) => ~Accepted(t)']_vars
  BY EndedStays
<1> QED BY <1>1, TypeInvariant, PTL DEF Spec, EndedIsFinal

-----------------------------------------------------------------------------
(* Bootstrap. *)

(* The processes that passed the check and have not inserted yet. *)
Inserting == {p \in Process : call[p].step = "user"}

BootInv == /\ IsFiniteSet(users)
           /\ Cardinality(users) + Cardinality(Inserting) <= Cardinality(Process)

LEMMA InsertingFinite ==
  /\ IsFiniteSet(Inserting)
  /\ Cardinality(Inserting) \in Nat
  /\ Cardinality(Inserting) <= Cardinality(Process)
  /\ Cardinality(Process) \in Nat
BY ProcessAssumption, FS_Subset, FS_CardinalityType DEF Inserting

LEMMA BootKept ==
  ASSUME BootInv, users' = users, Inserting' \subseteq Inserting
  PROVE  BootInv'
BY InsertingFinite, FS_Subset, FS_CardinalityType DEF BootInv

LEMMA StepKeepsBoot ==
  ASSUME TypeInv, BootInv, NEW p \in Process, Step(p)
  PROVE  BootInv'
<1>0. TypeOK
  BY DEF TypeInv
<1>1. ASSUME users' = users, NEW next, Continue(p, next), next.step # "user"
      PROVE  BootInv'
  BY <1>0, <1>1, Continued, BootKept DEF Inserting
<1>2. ASSUME NEW e \in Email, Bootstrap(p, e)
      PROVE  BootInv'
  <2>1. users = {} /\ users' = users
    BY <1>2 DEF Bootstrap
  <2>2. /\ Inserting' \subseteq Process
        /\ Cardinality(Inserting') \in Nat
        /\ Cardinality(Inserting') <= Cardinality(Process)
    BY ProcessAssumption, FS_Subset, FS_CardinalityType DEF Inserting
  <2> QED BY <2>1, <2>2, InsertingFinite, FS_EmptySet DEF BootInv
<1>3. CASE CreateUser(p)
  <2> DEFINE next == [step |-> "session", user |-> call[p].user]
  <2>1. /\ users' = users \cup {call[p].user} /\ call[p].user \notin users
        /\ Continue(p, next) /\ p \in Inserting
    BY <1>3 DEF CreateUser, Inserting
  <2>2. Inserting' = Inserting \ {p}
    BY <2>1, <1>0, Continued DEF Inserting
  <2>3. Cardinality(Inserting') = Cardinality(Inserting) - 1
    BY <2>1, <2>2, InsertingFinite, FS_RemoveElement
  <2>4. /\ IsFiniteSet(users') /\ Cardinality(users') = Cardinality(users) + 1
    BY <2>1, FS_AddElement DEF BootInv
  <2> QED BY <2>3, <2>4, InsertingFinite, FS_CardinalityType DEF BootInv
<1>4. ASSUME NEW e \in Email, Login(p, e)
      PROVE  BootInv'
  BY <1>1, <1>4 DEF Login
<1>5. ASSUME NEW t \in Token, CreateSession(p, t) \/ InsertApiKey(p, t)
      PROVE  BootInv'
  BY <1>1, <1>5 DEF CreateSession, InsertApiKey
<1>6. ASSUME NEW t \in Token, NEW r \in Role, NEW at \in KeyExpiry,
             RequestApiKey(p, t, r, at)
      PROVE  BootInv'
  BY <1>1, <1>6 DEF RequestApiKey
<1>7. CASE RecordEvent(p)
  BY <1>1, <1>7 DEF RecordEvent
<1>8. CASE Answer(p) \/ RevokeApiKey(p) \/ Abandon(p)
  <2>1. users' = users /\ Continue(p, Idle) /\ Idle.step # "user"
    BY <1>8 DEF Answer, RevokeApiKey, Abandon, Idle
  <2> QED BY <1>1, <2>1
<1>9. ASSUME NEW t \in Token, Logout(p, t)
      PROVE  BootInv'
  BY <1>9, BootKept DEF Logout, Inserting
<1>10. ASSUME NEW t \in Token, NEW k \in Token, RequestRevocation(p, t, k)
       PROVE  BootInv'
  BY <1>1, <1>10 DEF RequestRevocation
<1> QED BY <1>2, <1>3, <1>4, <1>5, <1>6, <1>7, <1>8, <1>9, <1>10 DEF Step

(* The users that bootstrap made are no more than the processes: the check *)
(* and the insert are two transactions, and each process passes the check  *)
(* at most once before some user exists.                                   *)
THEOREM AtMostOneBootstrapEach == Spec => []OneBootstrapEach
<1>1. Init => BootInv
  <2> SUFFICES ASSUME Init PROVE BootInv
    OBVIOUS
  <2>1. users = {} /\ Inserting = {}
    BY DEF Init, Inserting, Idle
  <2> QED BY <2>1, ProcessAssumption, FS_EmptySet, FS_CardinalityType DEF BootInv
<1>2. TypeInv /\ BootInv /\ [Next]_vars => BootInv'
  <2> SUFFICES ASSUME TypeInv, BootInv, [Next]_vars PROVE BootInv'
    OBVIOUS
  <2>1. ASSUME NEW p \in Process, Step(p) PROVE BootInv'
    BY <2>1, StepKeepsBoot
  <2>2. CASE Tick
    BY <2>2, BootKept DEF Tick, Inserting
  <2>3. CASE UNCHANGED vars
    BY <2>3, BootKept DEF vars, Inserting
  <2> QED BY <2>1, <2>2, <2>3 DEF Next
<1>3. BootInv => OneBootstrapEach
  BY InsertingFinite, FS_CardinalityType DEF BootInv, OneBootstrapEach
<1> QED BY <1>1, <1>2, <1>3, TypeInvariant, PTL DEF Spec

-----------------------------------------------------------------------------
(* Tokens and their events. *)

(* The user a row belongs to, and the tokens of a user that have their     *)
(* event: delivered ones, and those whose answer is under way.             *)
Rows(kind) == IF kind = "session" THEN sessions ELSE keys

Owned(kind, e, t) == Rows(kind)[t] # NoRow /\ Rows(kind)[t].user = e

Answering(t) == \E p \in Process : call[p].step = "answer" /\ call[p].token = t

Recorded(kind, e) ==
  {t \in Token : (t \in delivered \/ Answering(t)) /\ Owned(kind, e, t)}

(* A token that was not drawn has no row, and one whose event is still to  *)
(* be recorded has at most the row that the event will be about.           *)
RowsDrawn == \A t \in Token : t > drawn => sessions[t] = NoRow /\ keys[t] = NoRow

PendingRow ==
  \A p \in Process : call[p].step = "event" =>
    \A k \in Kind, e \in Email :
      Owned(k, e, call[p].token) => k = call[p].kind /\ e = call[p].user

EventInv ==
  /\ RowsDrawn
  /\ PendingRow
  /\ \A k \in Kind, e \in Email : Cardinality(Recorded(k, e)) <= events[k][e]

LEMMA TokensFinite ==
  ASSUME NEW S \in SUBSET Token
  PROVE  IsFiniteSet(S) /\ Cardinality(S) \in Nat
<1>1. IsFiniteSet(Token)
  BY BoundAssumption, FS_Interval DEF Token
<1>2. IsFiniteSet(S)
  BY <1>1, FS_Subset
<1> QED BY <1>2, FS_CardinalityType

(* A step that makes no token recorded keeps the counts.                   *)
LEMMA CountsKept ==
  ASSUME TypeInv, EventInv, events' = events,
         \A k \in Kind, e \in Email : Recorded(k, e)' \subseteq Recorded(k, e)
  PROVE  \A k \in Kind, e \in Email : Cardinality(Recorded(k, e)') <= events'[k][e]
<1> SUFFICES ASSUME NEW k \in Kind, NEW e \in Email
             PROVE  Cardinality(Recorded(k, e)') <= events'[k][e]
  OBVIOUS
<1>1. Recorded(k, e) \in SUBSET Token /\ Recorded(k, e)' \in SUBSET Token
  BY DEF Recorded
<1>2. Cardinality(Recorded(k, e)') <= Cardinality(Recorded(k, e))
  BY <1>1, TokensFinite, FS_Subset
<1>3. Cardinality(Recorded(k, e)) <= events[k][e] /\ events[k][e] \in Nat
  BY DEF EventInv, TypeInv, TypeOK
<1> QED BY <1>1, <1>2, <1>3, TokensFinite

(* A request that leaves the rows alone and neither is at its event nor at *)
(* its answer afterwards.                                                  *)
LEMMA QuietStep ==
  ASSUME TypeInv, EventInv, UNCHANGED <<sessions, keys, events, drawn, delivered>>,
         NEW p \in Process, NEW next, Continue(p, next),
         next.step \notin {"event", "answer"}
  PROVE  EventInv'
<1>1. TypeOK
  BY DEF TypeInv
<1>2. /\ call'[p] = next
      /\ \A q \in Process : q # p => call'[q] = call[q]
  BY <1>1, Continued
<1>3. RowsDrawn' /\ PendingRow'
  BY <1>2 DEF EventInv, RowsDrawn, PendingRow, Owned, Rows
<1>4. \A k \in Kind, e \in Email : Recorded(k, e)' \subseteq Recorded(k, e)
  BY <1>2 DEF Recorded, Answering, Owned, Rows
<1> QED BY <1>3, <1>4, CountsKept DEF EventInv

(* A new row is for a token that was not drawn, so for none recorded; its  *)
(* event comes next.                                                       *)
LEMMA InsertStep ==
  ASSUME TypeInv, EventInv, NEW p \in Process, NEW t \in Token,
         CreateSession(p, t) \/ InsertApiKey(p, t)
  PROVE  EventInv'
<1> DEFINE kind == IF CreateSession(p, t) THEN "session" ELSE "key"
           next == [step |-> "event", kind |-> kind, user |-> call[p].user, token |-> t]
<1>1. /\ TypeOK /\ call[p] \in Request /\ drawn \in Nat
      /\ \A q \in Process : call[q] \in Request
  BY BoundAssumption DEF TypeInv, TypeOK
<1>2. /\ call[p].step = (IF kind = "session" THEN "session" ELSE "key")
      /\ t = drawn + 1 /\ drawn' = t
      /\ UNCHANGED <<events, delivered>> /\ Continue(p, next)
  BY DEF CreateSession, InsertApiKey, Fresh
<1>3. /\ call'[p] = next
      /\ \A q \in Process : q # p => call'[q] = call[q]
  BY <1>1, <1>2, Continued
<1>4. \A u \in Token : u # t => sessions'[u] = sessions[u] /\ keys'[u] = keys[u]
  BY <1>1 DEF CreateSession, InsertApiKey, TypeOK
<1>5. \A k \in Kind, e \in Email : Owned(k, e, t)' => k = kind /\ e = call[p].user
  <2>1. sessions[t] = NoRow /\ keys[t] = NoRow
    BY <1>1, <1>2 DEF EventInv, RowsDrawn
  <2>2. CASE CreateSession(p, t)
    <3>1. keys'[t] = NoRow /\ sessions'[t].user = call[p].user
      BY <1>1, <2>1, <2>2 DEF CreateSession, TypeOK
    <3> QED BY <2>2, <3>1 DEF Owned, Rows, Kind
  <2>3. CASE ~CreateSession(p, t)
    <3>1. sessions'[t] = NoRow /\ keys'[t].user = call[p].user
      BY <1>1, <2>1, <2>3 DEF InsertApiKey, TypeOK
    <3> QED BY <2>3, <3>1 DEF Owned, Rows, Kind
  <2> QED BY <2>2, <2>3
<1>6. RowsDrawn'
  BY <1>1, <1>2, <1>4 DEF EventInv, RowsDrawn, Token
<1>7. \A q \in Process : call[q].step \in {"event", "answer"} =>
        call[q].token \in Token /\ call[q].token # t
  BY <1>1, <1>2, RequestShape DEF TypeInv, CallsHaveRows, Token
<1>8. PendingRow'
  BY <1>3, <1>4, <1>5, <1>7 DEF EventInv, PendingRow, Owned, Rows
<1>9. \A k \in Kind, e \in Email : Recorded(k, e)' \subseteq Recorded(k, e)
  <2>1. t \notin delivered
    BY <1>1, <1>2 DEF TypeInv, Delivered, Token
  <2>2. \A u \in Token : Answering(u)' => u # t /\ Answering(u)
    BY <1>3, <1>7 DEF Answering
  <2> QED BY <1>2, <1>4, <2>1, <2>2 DEF Recorded, Owned, Rows
<1> QED BY <1>2, <1>6, <1>8, <1>9, CountsKept DEF EventInv

(* Recording an event adds at most the request's token, and only to the    *)
(* tokens of the kind and user that the event counts for.                  *)
LEMMA RecordStep ==
  ASSUME TypeInv, EventInv, NEW p \in Process, RecordEvent(p)
  PROVE  EventInv'
<1> DEFINE t == call[p].token
           next == [step |-> "answer", token |-> t]
<1>1. /\ TypeOK /\ call[p] \in Request /\ call[p].step = "event"
      /\ UNCHANGED <<sessions, keys, drawn, delivered>> /\ Continue(p, next)
  BY DEF TypeInv, TypeOK, RecordEvent
<1>2. t \in Token /\ call[p].kind \in Kind /\ call[p].user \in Email
  BY <1>1, RequestShape
<1>3. /\ call'[p] = next
      /\ \A q \in Process : q # p => call'[q] = call[q]
  BY <1>1, Continued
<1>4. RowsDrawn' /\ PendingRow'
  BY <1>1, <1>3 DEF EventInv, RowsDrawn, PendingRow, Owned, Rows
<1>5. ASSUME NEW k \in Kind, NEW e \in Email
      PROVE  Cardinality(Recorded(k, e)') <= events'[k][e]
  <2>1. /\ Recorded(k, e) \in SUBSET Token /\ Recorded(k, e)' \in SUBSET Token
        /\ Cardinality(Recorded(k, e)) <= events[k][e] /\ events[k][e] \in Nat
    BY DEF EventInv, Recorded, TypeInv, TypeOK
  <2>2. \A u \in Token : Owned(k, e, u)' = Owned(k, e, u)
    BY <1>1 DEF Owned, Rows
  <2>3. Recorded(k, e)' \subseteq Recorded(k, e) \cup {t}
    BY <1>1, <1>3, <2>2 DEF Recorded, Answering
  <2>4. CASE k = call[p].kind /\ e = call[p].user
    <3>1. events'[k][e] = events[k][e] + 1
      BY <2>4 DEF RecordEvent, TypeInv, TypeOK
    <3>2. Recorded(k, e) \cup {t} \in SUBSET Token
      BY <1>2, <2>1
    <3>3. Cardinality(Recorded(k, e) \cup {t}) <= Cardinality(Recorded(k, e)) + 1
      <4> DEFINE S == Recorded(k, e)
      <4>1. IsFiniteSet(S) /\ Cardinality(S) \in Nat
        BY <2>1, TokensFinite
      <4> HIDE DEF S
      <4>2. Cardinality(S \cup {t}) = IF t \in S THEN Cardinality(S) ELSE Cardinality(S) + 1
        BY <4>1, FS_AddElement
      <4> QED BY <4>1, <4>2 DEF S
    <3>4. Cardinality(Recorded(k, e)') <= Cardinality(Recorded(k, e) \cup {t})
      BY <2>3, <3>2, TokensFinite, FS_Subset
    <3> QED BY <2>1, <3>1, <3>2, <3>3, <3>4, TokensFinite
  <2>5. CASE ~(k = call[p].kind /\ e = call[p].user)
    <3>1. ~Owned(k, e, t)
      BY <1>1, <2>5 DEF EventInv, PendingRow
    <3>2. Recorded(k, e)' \subseteq Recorded(k, e)
      BY <2>2, <2>3, <3>1 DEF Recorded
    <3>3. Cardinality(Recorded(k, e)') <= Cardinality(Recorded(k, e))
      BY <2>1, <3>2, TokensFinite, FS_Subset
    <3>4. events'[k][e] = events[k][e]
      BY <2>5 DEF RecordEvent, TypeInv, TypeOK
    <3> QED BY <2>1, <3>3, <3>4, TokensFinite
  <2> QED BY <2>4, <2>5
<1> QED BY <1>4, <1>5 DEF EventInv

LEMMA StepKeepsEvents ==
  ASSUME TypeInv, EventInv, NEW p \in Process, Step(p)
  PROVE  EventInv'
<1>0. TypeOK
  BY DEF TypeInv
<1>1. ASSUME NEW e \in Email, Bootstrap(p, e) \/ Login(p, e)
      PROVE  EventInv'
  BY <1>1, QuietStep DEF Bootstrap, Login
<1>2. CASE CreateUser(p)
  BY <1>2, QuietStep DEF CreateUser
<1>3. ASSUME NEW t \in Token, NEW r \in Role, NEW at \in KeyExpiry,
             RequestApiKey(p, t, r, at)
      PROVE  EventInv'
  BY <1>3, QuietStep DEF RequestApiKey
<1>4. CASE Answer(p)
  <2>1. /\ UNCHANGED <<sessions, keys, events, drawn>> /\ Continue(p, Idle)
        /\ delivered' = delivered \cup {call[p].token} /\ call[p].step = "answer"
    BY <1>4 DEF Answer
  <2>2. /\ call'[p] = Idle /\ Idle.step = "idle"
        /\ \A q \in Process : q # p => call'[q] = call[q]
    BY <1>0, <2>1, Continued DEF Idle
  <2>3. RowsDrawn' /\ PendingRow'
    BY <2>1, <2>2 DEF EventInv, RowsDrawn, PendingRow, Owned, Rows
  <2>4. \A k \in Kind, e \in Email : Recorded(k, e)' \subseteq Recorded(k, e)
    BY <2>1, <2>2 DEF Recorded, Answering, Owned, Rows
  <2> QED BY <2>1, <2>3, <2>4, CountsKept DEF EventInv
<1>5. ASSUME NEW t \in Token, Logout(p, t)
      PROVE  EventInv'
  <2>1. /\ UNCHANGED <<keys, events, drawn, delivered, call>>
        /\ \A u \in Token : sessions'[u] = sessions[u] \/ sessions'[u] = NoRow
    BY <1>0, <1>5 DEF Logout, TypeOK
  <2>2. \A k \in Kind, e \in Email, u \in Token : Owned(k, e, u)' => Owned(k, e, u)
    BY <2>1 DEF Owned, Rows
  <2>3. \A q \in Process : call[q].step = "event" => call[q].token \in Token
    BY <1>0, RequestShape DEF TypeOK
  <2>4. RowsDrawn' /\ PendingRow'
    BY <2>1, <2>2, <2>3 DEF EventInv, RowsDrawn, PendingRow
  <2>5. \A k \in Kind, e \in Email : Recorded(k, e)' \subseteq Recorded(k, e)
    BY <2>1, <2>2 DEF Recorded, Answering
  <2> QED BY <2>1, <2>4, <2>5, CountsKept DEF EventInv
<1>6. ASSUME NEW t \in Token, NEW k \in Token, RequestRevocation(p, t, k)
      PROVE  EventInv'
  BY <1>6, QuietStep DEF RequestRevocation
<1>7. CASE RevokeApiKey(p)
  <2> DEFINE key == call[p].key
  <2>1. /\ key \in Token /\ keys[key] # NoRow /\ keys[key] \in Key
        /\ keys' = [keys EXCEPT ![key].revoked = TRUE] /\ Continue(p, Idle)
        /\ UNCHANGED <<sessions, events, drawn, delivered>>
    BY <1>0, <1>7, RequestShape DEF RevokeApiKey, TypeInv, TypeOK, CallsHaveRows
  <2>2. \A u \in Token : /\ u # key => keys'[u] = keys[u]
                         /\ u = key => keys'[u].user = keys[u].user
    BY <1>0, <2>1 DEF Key, TypeOK
  <2>3. \A k \in Kind, e \in Email, u \in Token : Owned(k, e, u)' => Owned(k, e, u)
    BY <2>1, <2>2 DEF Owned, Rows
  <2>4. /\ call'[p].step = "idle"
        /\ \A q \in Process : q # p => call'[q] = call[q]
    BY <1>0, <2>1, Continued DEF Idle
  <2>5. RowsDrawn'
    <3>1. drawn < key => keys[key] = NoRow
      BY <2>1 DEF EventInv, RowsDrawn
    <3> QED BY <2>1, <2>2, <3>1 DEF EventInv, RowsDrawn
  <2>6. \A q \in Process : call[q].step = "event" => call[q].token \in Token
    BY <1>0, RequestShape DEF TypeOK
  <2>7. PendingRow'
    BY <2>1, <2>3, <2>4, <2>6 DEF EventInv, PendingRow
  <2>8. \A k \in Kind, e \in Email : Recorded(k, e)' \subseteq Recorded(k, e)
    BY <2>1, <2>3, <2>4 DEF Recorded, Answering
  <2> QED BY <2>1, <2>5, <2>7, <2>8, CountsKept DEF EventInv
<1>8. CASE Abandon(p)
  BY <1>8, QuietStep DEF Abandon, Idle
<1> QED BY <1>1, <1>2, <1>3, <1>4, <1>5, <1>6, <1>7, <1>8, InsertStep, RecordStep DEF Step

(* Clients never hold more keys, or live sessions, of a user than there    *)
(* are events for: a token is delivered after its event was recorded, and  *)
(* that event is about the one row the token has (login, create_api_key).  *)
THEOREM DeliveriesAreRecorded == Spec => []DeliveredAreRecorded
<1>1. Init => EventInv
  <2> SUFFICES ASSUME Init PROVE EventInv
    OBVIOUS
  <2>1. RowsDrawn /\ PendingRow
    BY DEF Init, RowsDrawn, PendingRow, Idle
  <2>2. \A k \in Kind, e \in Email : Recorded(k, e) = {} /\ events[k][e] = 0
    BY DEF Init, Recorded, Answering, Idle
  <2> QED BY <2>1, <2>2, FS_EmptySet DEF EventInv
<1>2. TypeInv /\ EventInv /\ [Next]_vars => EventInv'
  <2> SUFFICES ASSUME TypeInv, EventInv, [Next]_vars PROVE EventInv'
    OBVIOUS
  <2>1. ASSUME NEW p \in Process, Step(p) PROVE EventInv'
    BY <2>1, StepKeepsEvents
  <2>2. CASE Tick \/ UNCHANGED vars
    <3>1. UNCHANGED <<sessions, keys, events, drawn, delivered, call>>
      BY <2>2 DEF Tick, vars
    <3> QED BY <3>1 DEF EventInv, RowsDrawn, PendingRow, Recorded, Answering, Owned, Rows
  <2> QED BY <2>1, <2>2 DEF Next
<1>3. TypeInv /\ EventInv => DeliveredAreRecorded
  <2> SUFFICES ASSUME TypeInv, EventInv, NEW e \in Email
               PROVE  /\ Cardinality({t \in delivered : Owned("session", e, t)})
                            <= events["session"][e]
                      /\ Cardinality({t \in delivered : Owned("key", e, t)})
                            <= events["key"][e]
    BY DEF DeliveredAreRecorded, Owned, Rows
  <2>1. ASSUME NEW k \in Kind
        PROVE  Cardinality({t \in delivered : Owned(k, e, t)}) <= events[k][e]
    <3> DEFINE held == {t \in delivered : Owned(k, e, t)}
    <3>1. held \subseteq Recorded(k, e) /\ Recorded(k, e) \in SUBSET Token
      BY DEF Recorded, TypeInv, TypeOK
    <3>2. Cardinality(held) <= Cardinality(Recorded(k, e))
      BY <3>1, TokensFinite, FS_Subset
    <3>3. Cardinality(held) \in Nat /\ Cardinality(Recorded(k, e)) \in Nat
      BY <3>1, TokensFinite
    <3>4. Cardinality(Recorded(k, e)) <= events[k][e] /\ events[k][e] \in Nat
      BY DEF EventInv, TypeInv, TypeOK
    <3> QED BY <3>2, <3>3, <3>4
  <2> QED BY <2>1 DEF Kind
<1> QED BY <1>1, <1>2, <1>3, TypeInvariant, PTL DEF Spec
=============================================================================
