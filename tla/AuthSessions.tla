---------------------------- MODULE AuthSessions ----------------------------
(***************************************************************************)
(* Local authentication (auth.py): LocalAuthService over SQLiteAuthStore,  *)
(* as the /v1/auth endpoints of api.py call it, by server processes that   *)
(* share one database.  Every statement of the store is a transaction of   *)
(* its own, so a request is a sequence of steps, each of which may raise   *)
(* (a locked database, a full disk) or be the last one before a crash;     *)
(* what the earlier steps wrote stays.                                     *)
(*                                                                         *)
(* A user is its e-mail address, which is unique.  A token is a random     *)
(* value, held by a client once it was delivered; its row is found by its  *)
(* hash.  Failed logins, logouts and revocations leave no trace here: of   *)
(* auth_events only the events that go with a token are counted.           *)
(***************************************************************************)
EXTENDS Naturals, FiniteSets

CONSTANTS
    Process,    \* server processes
    Email,      \* addresses that may bootstrap
    Role,       \* VALID_ROLES
    Admin,      \* ROLE_ADMIN
    NoRow,      \* no row under this hash
    Never,      \* expires_at of a key without expiry
    SessionTtl, \* session_ttl
    KeyExpiry,  \* the expires_at that clients ask for
    MaxTokens,  \* bound: session tokens and API keys that are drawn
    MaxTime     \* bound: how far the clock goes

ASSUME ProcessAssumption == IsFiniteSet(Process)
ASSUME RoleAssumption == Admin \in Role
ASSUME ExpiryAssumption == Never \notin Nat /\ KeyExpiry \subseteq Nat \cup {Never}
ASSUME BoundAssumption == SessionTtl \in Nat \ {0} /\ MaxTokens \in Nat /\ MaxTime \in Nat

VARIABLES
    users,      \* auth_users
    sessions,   \* auth_sessions: by token
    keys,       \* auth_api_keys: by token
    events,     \* auth_events: succeeded events with a token, per kind and user
    drawn,      \* how many tokens were drawn
    now,        \* the wall clock
    call,       \* per process: where its request is
    delivered,  \* history: the tokens clients hold
    lineage     \* history: per key, the roles of the principals behind it

vars == <<users, sessions, keys, events, drawn, now, call, delivered, lineage>>

Token == 1 .. MaxTokens
Time == 0 .. MaxTime
Kind == {"session", "key"}
Session == [user : Email, expires : Time]
Key == [user : Email, role : Role, expires : KeyExpiry, revoked : BOOLEAN]

ASSUME RowAssumption == NoRow \notin Session \cup Key

Idle == [step |-> "idle"]

\* secrets.token_urlsafe never draws a token twice: tokens are numbered in the
\* order they are drawn.
Fresh(t) == t = drawn + 1

IsExpired(at) == at # Never /\ at <= now

\* authenticate_session, authenticate_api_key
SessionAccepted(t) == sessions[t] # NoRow /\ ~IsExpired(sessions[t].expires)
KeyAccepted(t) == keys[t] # NoRow /\ ~keys[t].revoked /\ ~IsExpired(keys[t].expires)
Accepted(t) == SessionAccepted(t) \/ KeyAccepted(t)

\* AuthPrincipal: bootstrap makes the only users, so the role behind a session
\* is admin.
PrincipalUser(t) == IF KeyAccepted(t) THEN keys[t].user ELSE sessions[t].user
PrincipalRole(t) == IF KeyAccepted(t) THEN keys[t].role ELSE Admin
Ancestry(t) == IF KeyAccepted(t) THEN lineage[t] \cup {keys[t].role} ELSE {Admin}

Continue(p, next) == call' = [call EXCEPT ![p] = next]

-----------------------------------------------------------------------------
Init ==
    /\ users = {}
    /\ sessions = [t \in Token |-> NoRow]
    /\ keys = [t \in Token |-> NoRow]
    /\ events = [k \in Kind |-> [e \in Email |-> 0]]
    /\ drawn = 0
    /\ now = 0
    /\ call = [p \in Process |-> Idle]
    /\ delivered = {}
    /\ lineage = [t \in Token |-> {}]

\* Mutant: the endpoint is not closed by the first user.
BootstrapAlways(p, e) ==
    /\ call[p] = Idle
    /\ Continue(p, [step |-> "user", user |-> e])
    /\ UNCHANGED <<users, sessions, keys, events, drawn, now, delivered, lineage>>

\* bootstrap counts the users first, and is refused when there is one ...
Bootstrap(p, e) ==
    /\ call[p] = Idle
    /\ users = {}
    /\ Continue(p, [step |-> "user", user |-> e])
    /\ UNCHANGED <<users, sessions, keys, events, drawn, now, delivered, lineage>>

\* Mutant: the session comes before the user.
CreateUserLater(p) ==
    /\ call[p].step = "user"
    /\ call[p].user \notin users
    /\ Continue(p, [step |-> "session", user |-> call[p].user])
    /\ UNCHANGED <<users, sessions, keys, events, drawn, now, delivered, lineage>>

\* ... and inserts the user in another transaction; the address is unique.
CreateUser(p) ==
    /\ call[p].step = "user"
    /\ call[p].user \notin users
    /\ users' = users \cup {call[p].user}
    /\ Continue(p, [step |-> "session", user |-> call[p].user])
    /\ UNCHANGED <<sessions, keys, events, drawn, now, delivered, lineage>>

\* login with the right password: update_last_login comes first.
Login(p, e) ==
    /\ call[p] = Idle
    /\ e \in users
    /\ Continue(p, [step |-> "session", user |-> e])
    /\ UNCHANGED <<users, sessions, keys, events, drawn, now, delivered, lineage>>

\* _create_session
CreateSession(p, t) ==
    /\ call[p].step = "session"
    /\ Fresh(t)
    /\ drawn' = t
    /\ now + SessionTtl <= MaxTime
    /\ sessions' = [sessions EXCEPT ![t] =
          [user |-> call[p].user, expires |-> now + SessionTtl]]
    /\ Continue(p, [step |-> "event", kind |-> "session", user |-> call[p].user, token |-> t])
    /\ UNCHANGED <<users, keys, events, now, delivered, lineage>>

\* Mutant: any role can be asked for.
AnyRole(t, r) == TRUE

\* Only admins mint keys of another role than their own.
MayMint(t, r) == PrincipalRole(t) = Admin \/ r = PrincipalRole(t)

\* create_api_key, for a session or a key that was accepted a moment ago.  The
\* client names the role and the expiry, which may be in the past.
RequestApiKey(p, t, r, at) ==
    /\ call[p] = Idle
    /\ t \in delivered /\ Accepted(t)
    /\ MayMint(t, r)
    /\ Continue(p, [step |-> "key", user |-> PrincipalUser(t), role |-> r, expires |-> at,
                    behind |-> Ancestry(t)])
    /\ UNCHANGED <<users, sessions, keys, events, drawn, now, delivered, lineage>>

InsertApiKey(p, t) ==
    /\ call[p].step = "key"
    /\ Fresh(t)
    /\ drawn' = t
    /\ keys' = [keys EXCEPT ![t] =
          [user |-> call[p].user, role |-> call[p].role, expires |-> call[p].expires,
           revoked |-> FALSE]]
    /\ lineage' = [lineage EXCEPT ![t] = call[p].behind]
    /\ Continue(p, [step |-> "event", kind |-> "key", user |-> call[p].user, token |-> t])
    /\ UNCHANGED <<users, sessions, events, now, delivered>>

\* Mutant: an event that cannot be written does not stop the answer.
RecordEventOrNot(p) ==
    /\ call[p].step = "event"
    /\ \/ events' = [events EXCEPT ![call[p].kind][call[p].user] = @ + 1]
       \/ UNCHANGED events
    /\ Continue(p, [step |-> "answer", token |-> call[p].token])
    /\ UNCHANGED <<users, sessions, keys, drawn, now, delivered, lineage>>

\* _record_event of auth.bootstrap, auth.login or auth.api_key.create
RecordEvent(p) ==
    /\ call[p].step = "event"
    /\ events' = [events EXCEPT ![call[p].kind][call[p].user] = @ + 1]
    /\ Continue(p, [step |-> "answer", token |-> call[p].token])
    /\ UNCHANGED <<users, sessions, keys, drawn, now, delivered, lineage>>

\* The response with the token, or the cookie, reaches the client.
Answer(p) ==
    /\ call[p].step = "answer"
    /\ delivered' = delivered \cup {call[p].token}
    /\ Continue(p, Idle)
    /\ UNCHANGED <<users, sessions, keys, events, drawn, now, lineage>>

\* logout: whoever holds the token, accepted or not.
Logout(p, t) ==
    /\ call[p] = Idle
    /\ t \in delivered
    /\ sessions' = [sessions EXCEPT ![t] = NoRow]
    /\ UNCHANGED <<users, keys, events, drawn, now, call, delivered, lineage>>

\* revoke_api_key, for an accepted token ...
RequestRevocation(p, t, k) ==
    /\ call[p] = Idle
    /\ t \in delivered /\ Accepted(t)
    /\ keys[k] # NoRow
    /\ Continue(p, [step |-> "revoke", key |-> k])
    /\ UNCHANGED <<users, sessions, keys, events, drawn, now, delivered, lineage>>

\* Mutant: revoking a second time lifts the revocation.
ToggleApiKey(p) ==
    /\ call[p].step = "revoke"
    /\ keys' = [keys EXCEPT ![call[p].key].revoked = ~@]
    /\ Continue(p, Idle)
    /\ UNCHANGED <<users, sessions, events, drawn, now, delivered, lineage>>

\* ... updates the row, whoever owns it; ownership decides about the answer and
\* the event only.
RevokeApiKey(p) ==
    /\ call[p].step = "revoke"
    /\ keys' = [keys EXCEPT ![call[p].key].revoked = TRUE]
    /\ Continue(p, Idle)
    /\ UNCHANGED <<users, sessions, events, drawn, now, delivered, lineage>>

\* A step raises, the response is lost, or the process crashes.
Abandon(p) ==
    /\ call[p] # Idle
    /\ Continue(p, Idle)
    /\ UNCHANGED <<users, sessions, keys, events, drawn, now, delivered, lineage>>

Tick ==
    /\ now < MaxTime
    /\ now' = now + 1
    /\ UNCHANGED <<users, sessions, keys, events, drawn, call, delivered, lineage>>

Step(p) ==
    \/ \E e \in Email : Bootstrap(p, e)
    \/ CreateUser(p)
    \/ \E e \in Email : Login(p, e)
    \/ \E t \in Token : CreateSession(p, t)
    \/ \E t \in Token, r \in Role, at \in KeyExpiry : RequestApiKey(p, t, r, at)
    \/ \E t \in Token : InsertApiKey(p, t)
    \/ RecordEvent(p)
    \/ Answer(p)
    \/ \E t \in Token : Logout(p, t)
    \/ \E t, k \in Token : RequestRevocation(p, t, k)
    \/ RevokeApiKey(p)
    \/ Abandon(p)

Next == Tick \/ \E p \in Process : Step(p)

Spec == Init /\ [][Next]_vars

-----------------------------------------------------------------------------
Request ==
    {Idle}
    \cup [step : {"user", "session"}, user : Email]
    \cup [step : {"key"}, user : Email, role : Role, expires : KeyExpiry,
          behind : SUBSET Role]
    \cup [step : {"event"}, kind : Kind, user : Email, token : Token]
    \cup [step : {"answer"}, token : Token]
    \cup [step : {"revoke"}, key : Token]

TypeOK ==
    /\ users \subseteq Email
    /\ \A t \in Token : /\ sessions[t] # NoRow => sessions[t].user \in users
                        /\ keys[t] # NoRow => keys[t].user \in users
    /\ sessions \in [Token -> Session \cup {NoRow}]
    /\ keys \in [Token -> Key \cup {NoRow}]
    /\ events \in [Kind -> [Email -> Nat]]
    /\ drawn \in 0 .. MaxTokens
    /\ now \in Time
    /\ call \in [Process -> Request]
    /\ delivered \subseteq Token
    /\ lineage \in [Token -> SUBSET Role]

\* No more users than processes: the count and the insert of a bootstrap are
\* two transactions, so each process can pass the check once, and a lone server
\* has one administrator (bootstrap).
OneBootstrapEach == Cardinality(users) <= Cardinality(Process)

\* Clients never hold more keys, or live sessions, of a user than auth_events
\* has events for: the token is delivered after its event, so a request that
\* fails in between leaves a row that nobody can use (login, create_api_key).
DeliveredAreRecorded ==
    \A e \in Email :
        /\ Cardinality({t \in delivered : sessions[t] # NoRow /\ sessions[t].user = e})
              <= events["session"][e]
        /\ Cardinality({t \in delivered : keys[t] # NoRow /\ keys[t].user = e})
              <= events["key"][e]

\* Along any chain of keys minted with keys, a role other than admin is kept:
\* if any principal behind a key had it, the key has it (create_api_key).
RoleNeverRises ==
    \A t \in Token : keys[t] # NoRow => lineage[t] \ {Admin} \subseteq {keys[t].role}

\* A token that a client holds and that is no longer accepted - logged out,
\* expired, revoked - is never accepted again, whatever requests of other
\* processes were under way (authenticate_session, authenticate_api_key).
EndedIsFinal ==
    [][\A t \in Token : (t \in delivered /\ ~Accepted(t)) => ~Accepted(t)']_vars
=============================================================================
