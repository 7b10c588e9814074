-------------------------------- MODULE Auth --------------------------------
(***************************************************************************)
(* Accounts, login sessions and API keys (crates/core/src/auth, the        *)
(* handlers and extractors of crates/core/src/api, and the principal of    *)
(* crates/chat/src/policy).                                                *)
(*                                                                         *)
(* Every request is a process whose steps are its database and Redis round *)
(* trips, so requests interleave between any two of them.  The users table *)
(* holds the one account bootstrap_admin creates: its CHECK constraint     *)
(* admits only the role 'admin', so the role tests of the extractors hold. *)
(*                                                                         *)
(* Data abstracted: a login session, its refresh token and the access      *)
(* tokens that name it are the session, and a session is named by the      *)
(* login request that made it; hashing is injective; an access token that  *)
(* is absent, forged or past its exp is NoSession.                         *)
(***************************************************************************)
EXTENDS Integers, FiniteSets

CONSTANTS
    Requests,      \* HTTP requests, numbered in the order in which they begin
    Replicas,      \* processes that run bootstrap_admin when they start
    Offices,       \* the office ids an API key may name
    TenantOffices, \* SELECT id FROM m_office
    AuthFaults     \* "db": a statement errs; "redis": Redis does not answer;
                   \* "crash": a replica stops while it starts

ASSUME AuthAssumption ==
    /\ Requests \subseteq Nat \ {0}
    /\ IsFiniteSet(Replicas) /\ Replicas # {}
    /\ TenantOffices \subseteq Offices

Established == 0    \* a session of before, when the table has one
NoSession   == -1
NoKey       == -1
Sessions    == Requests \union {Established}

VARIABLES
    boot,       \* boot[b]: where the start of replica b stands
    account,    \* the users row of the administrator, and its default keys
    sessions,   \* user_sessions with the refresh_tokens row of each
    lapsed,     \* sessions whose expires_at has passed
    marks,      \* auth:revoked_refresh keys in Redis
    tokens,     \* the cookies and access tokens clients hold, as sessions
    keys,       \* api_keys, named by the request that created each
    loggedOut,  \* sessions some logout has been answered for
    req         \* the requests

authVars == <<boot, account, sessions, lapsed, marks, tokens, keys, loggedOut, req>>

SessionRow == [row : {"none", "open", "revoked"}, refresh : BOOLEAN]
KeyRow     == [offices : SUBSET Offices, all : BOOLEAN, active : BOOLEAN]
NoRequest  == [kind |-> "none", at |-> "idle", session |-> NoSession, key |-> NoKey,
               late |-> FALSE, read |-> FALSE, scope |-> {}, offices |-> {}]

Kinds  == {"none", "login", "refresh", "logout", "create_api_key", "chat"}
Steps  == {"idle", "find_user", "insert_session", "insert_refresh_token", "touch_login",
           "check_redis", "find_token", "find_owner", "revoke", "mark", "bearer",
           "profile", "insert_key", "find_key", "touch_key", "project", "ok", "error"}
HttpRequest == [kind : Kinds, at : Steps, session : Sessions \union {NoSession},
                key : Requests \union {NoKey}, late : BOOLEAN, read : BOOLEAN,
                scope : SUBSET Offices, offices : SUBSET Offices]
BootSteps == {"start", "insert", "count", "create_key", "up", "down"}

AuthTypeOK ==
    /\ boot \in [Replicas -> BootSteps]
    /\ account \in [row : BOOLEAN, active : BOOLEAN, defaultKeys : 0..Cardinality(Replicas)]
    /\ sessions \in [Sessions -> SessionRow]
    /\ lapsed \subseteq Sessions /\ marks \subseteq Sessions /\ loggedOut \subseteq Sessions
    /\ tokens \in [refresh : SUBSET Sessions, access : SUBSET Sessions]
    /\ \A k \in DOMAIN keys : k \in Requests /\ keys[k] \in KeyRow
    /\ req \in [Requests -> HttpRequest]

\* The database is new and the replicas start, or the service is in use: an
\* account, an open session, replicas that serve.
AuthInit ==
    /\ \E used \in BOOLEAN :
        /\ boot     = [b \in Replicas |-> IF used THEN "up" ELSE "start"]
        /\ account  = [row |-> used, active |-> used, defaultKeys |-> IF used THEN 1 ELSE 0]
        /\ sessions = [s \in Sessions |->
                          IF used /\ s = Established THEN [row |-> "open", refresh |-> TRUE]
                                                     ELSE [row |-> "none", refresh |-> FALSE]]
        /\ tokens   = LET held == IF used THEN {Established} ELSE {}
                      IN [refresh |-> held, access |-> held]
    /\ lapsed = {} /\ marks = {} /\ loggedOut = {}
    /\ keys = [k \in {} |-> NoKey]
    /\ req = [r \in Requests |-> NoRequest]

-----------------------------------------------------------------------------
(* AuthService::bootstrap_admin, run by every replica when it starts *)

BootstrapFind(b) ==
    /\ boot[b] = "start"
    /\ boot' = [boot EXCEPT ![b] = IF account.row THEN "up" ELSE "insert"]
    /\ UNCHANGED <<account, sessions, lapsed, marks, tokens, keys, loggedOut, req>>

\* Deviation: a conflicting INSERT is taken for a success.
UpsertAdmin(b) ==
    /\ boot[b] = "insert"
    /\ boot'    = [boot EXCEPT ![b] = "count"]
    /\ account' = [account EXCEPT !.row = TRUE, !.active = TRUE]
    /\ UNCHANGED <<sessions, lapsed, marks, tokens, keys, loggedOut, req>>

\* users.username is UNIQUE: a second INSERT errs and main returns the error.
BootstrapInsert(b) ==
    /\ boot[b] = "insert"
    /\ boot'    = [boot EXCEPT ![b] = IF account.row THEN "down" ELSE "count"]
    /\ account' = IF account.row THEN account
                                 ELSE [account EXCEPT !.row = TRUE, !.active = TRUE]
    /\ UNCHANGED <<sessions, lapsed, marks, tokens, keys, loggedOut, req>>

\* count_for_user counts the keys of the id this replica has just inserted.
BootstrapCount(b) ==
    /\ boot[b] = "count"
    /\ boot' = [boot EXCEPT ![b] = "create_key"]
    /\ UNCHANGED <<account, sessions, lapsed, marks, tokens, keys, loggedOut, req>>

BootstrapKey(b) ==
    /\ boot[b] = "create_key"
    /\ boot'    = [boot EXCEPT ![b] = "up"]
    /\ account' = [account EXCEPT !.defaultKeys = @ + 1]
    /\ UNCHANGED <<sessions, lapsed, marks, tokens, keys, loggedOut, req>>

\* A statement errs, or the process stops.
BootstrapFails(b) ==
    /\ "crash" \in AuthFaults
    /\ boot[b] \notin {"up", "down"}
    /\ boot' = [boot EXCEPT ![b] = "down"]
    /\ UNCHANGED <<account, sessions, lapsed, marks, tokens, keys, loggedOut, req>>

Restart(b) ==
    /\ boot[b] = "down"
    /\ boot' = [boot EXCEPT ![b] = "start"]
    /\ UNCHANGED <<account, sessions, lapsed, marks, tokens, keys, loggedOut, req>>

-----------------------------------------------------------------------------
(* What the repositories select *)

Serving == \E b \in Replicas : boot[b] = "up"

LiveSession(s) == sessions[s].row = "open" /\ s \notin lapsed

\* SessionRepository::find_active_refresh_token.  Both rows carry the same
\* expires_at, and nothing revokes the token row.
FindActiveRefreshToken(s) == LiveSession(s) /\ sessions[s].refresh

\* Deviation: the session is not joined, only the account.
FindAccount(s) == s # NoSession /\ account.active

\* AuthService::authenticate_access_token: the claims only name the rows.
FindAuthenticatedUser(s) == s # NoSession /\ account.active /\ LiveSession(s)

\* ApiKeyRepository::find_active_by_hash, and an owner.
FindActiveKey(k) == k # NoKey /\ keys[k].active

\* Deviation: an empty list of offices is accepted.
AnyKeyInput(offices, all) == TRUE

\* validate_create_api_key_input.
ValidKeyInput(offices, all) == all \/ offices # {}

\* intersect_office_scope: an empty scope is no restriction.
IntersectOfficeScope(scope, tenant) == IF scope = {} THEN tenant ELSE tenant \intersect scope

-----------------------------------------------------------------------------
(* The requests *)

Go(r, from, to) ==
    /\ req[r].at = from
    /\ req' = [req EXCEPT ![r].at = to]

FirstStep(kind) ==
    CASE kind = "login"   -> "find_user"
      [] kind = "refresh" -> "check_redis"
      [] kind = "logout"  -> "find_token"
      [] OTHER            -> "bearer"

\* A request is late when a logout of its session has been answered before.
Begin(r, kind, s, k) ==
    /\ Serving
    /\ req[r].at = "idle"
    /\ \A q \in Requests : q < r => req[q].at # "idle"
    /\ req' = [req EXCEPT ![r] = [NoRequest EXCEPT !.kind = kind, !.at = FirstStep(kind),
                                                   !.session = s, !.key = k,
                                                   !.late = s \in loggedOut]]
    /\ UNCHANGED <<boot, account, sessions, lapsed, marks, tokens, keys, loggedOut>>

BeginAny(r) ==
    \/ Begin(r, "login", r, NoKey)
    \/ \E kind \in {"refresh", "logout"}, s \in tokens.refresh : Begin(r, kind, s, NoKey)
    \/ \E s \in tokens.access \union {NoSession} : Begin(r, "create_api_key", s, NoKey)
    \/ \E s \in tokens.access \union {NoSession}, k \in DOMAIN keys \union {NoKey} :
           Begin(r, "chat", s, k)

\* A statement of the request errs.  Of a failing key lookup the chat
\* extractor makes a request without a key.
RequestFails(r) ==
    /\ "db" \in AuthFaults
    /\ req[r].at \notin {"idle", "check_redis", "mark", "ok", "error"}
    /\ req' = [req EXCEPT ![r].at =
                  IF @ \in {"find_key", "touch_key"} THEN "project" ELSE "error"]
    /\ UNCHANGED <<boot, account, sessions, lapsed, marks, tokens, keys, loggedOut>>

\* AuthService::login.  The credentials are good or not; the tokens are made
\* before the rows and leave the server with the answer.
LoginFindUser(r, verified) ==
    /\ Go(r, "find_user", IF account.active /\ verified THEN "insert_session" ELSE "error")
    /\ UNCHANGED <<boot, account, sessions, lapsed, marks, tokens, keys, loggedOut>>

LoginInsertSession(r) ==
    /\ Go(r, "insert_session", "insert_refresh_token")
    /\ sessions' = [sessions EXCEPT ![r].row = "open"]
    /\ UNCHANGED <<boot, account, lapsed, marks, tokens, keys, loggedOut>>

LoginInsertRefreshToken(r) ==
    /\ Go(r, "insert_refresh_token", "touch_login")
    /\ sessions' = [sessions EXCEPT ![r].refresh = TRUE]
    /\ UNCHANGED <<boot, account, lapsed, marks, tokens, keys, loggedOut>>

LoginAnswer(r) ==
    /\ Go(r, "touch_login", "ok")
    /\ tokens' = [refresh |-> tokens.refresh \union {r}, access |-> tokens.access \union {r}]
    /\ UNCHANGED <<boot, account, sessions, lapsed, marks, keys, loggedOut>>

\* AuthService::refresh.  A silent Redis is taken for "not revoked".
RefreshCheckRedis(r, answers) ==
    /\ Go(r, "check_redis", IF answers /\ req[r].session \in marks THEN "error" ELSE "find_token")
    /\ answers \/ "redis" \in AuthFaults
    /\ UNCHANGED <<boot, account, sessions, lapsed, marks, tokens, keys, loggedOut>>

RefreshFindToken(r) ==
    /\ req[r].kind = "refresh"
    /\ Go(r, "find_token", IF FindActiveRefreshToken(req[r].session) THEN "find_owner" ELSE "error")
    /\ UNCHANGED <<boot, account, sessions, lapsed, marks, tokens, keys, loggedOut>>

RefreshAnswer(r) ==
    /\ Go(r, "find_owner", IF account.active THEN "ok" ELSE "error")
    /\ tokens' = IF account.active
                 THEN [tokens EXCEPT !.access = @ \union {req[r].session}]
                 ELSE tokens
    /\ UNCHANGED <<boot, account, sessions, lapsed, marks, keys, loggedOut>>

\* AuthService::logout: an unknown token is answered like a known one.
LogoutFindToken(r) ==
    /\ req[r].kind = "logout"
    /\ Go(r, "find_token", IF FindActiveRefreshToken(req[r].session) THEN "revoke" ELSE "ok")
    /\ loggedOut' = IF FindActiveRefreshToken(req[r].session)
                    THEN loggedOut ELSE loggedOut \union {req[r].session}
    /\ UNCHANGED <<boot, account, sessions, lapsed, marks, tokens, keys>>

LogoutRevoke(r) ==
    /\ Go(r, "revoke", "mark")
    /\ sessions' = [sessions EXCEPT ![req[r].session].row = "revoked"]
    /\ UNCHANGED <<boot, account, lapsed, marks, tokens, keys, loggedOut>>

\* cache_refresh_token_revocation: best effort, for the rest of the lifetime.
LogoutAnswer(r, answers) ==
    /\ Go(r, "mark", "ok")
    /\ answers \/ "redis" \in AuthFaults
    /\ marks' = IF answers THEN marks \union ({req[r].session} \ lapsed) ELSE marks
    /\ loggedOut' = loggedOut \union {req[r].session}
    /\ UNCHANGED <<boot, account, sessions, lapsed, tokens, keys>>

\* The AuthenticatedUser extractor.
Authenticate(r) ==
    /\ Go(r, "bearer", IF ~FindAuthenticatedUser(req[r].session) THEN "error"
                       ELSE IF req[r].kind = "chat" THEN "find_key" ELSE "profile")
    /\ UNCHANGED <<boot, account, sessions, lapsed, marks, tokens, keys, loggedOut>>

\* The rest of the create_api_key handler: get_user, then the checked insert.
CreateKeyProfile(r) ==
    /\ Go(r, "profile", IF account.active THEN "insert_key" ELSE "error")
    /\ UNCHANGED <<boot, account, sessions, lapsed, marks, tokens, keys, loggedOut>>

CreateKeyInsert(r, offices, all) ==
    /\ Go(r, "insert_key", IF ValidKeyInput(offices, all) THEN "ok" ELSE "error")
    /\ keys' = IF ValidKeyInput(offices, all)
               THEN [k \in DOMAIN keys \union {r} |->
                        IF k = r THEN [offices |-> offices, all |-> all, active |-> TRUE]
                                 ELSE keys[k]]
               ELSE keys
    /\ UNCHANGED <<boot, account, sessions, lapsed, marks, tokens, loggedOut>>

\* The AuthenticatedChatClient extractor: the offices of a key that is found
\* narrow the principal; no key, or one that is not found, does not.
ChatFindKey(r) ==
    LET found == FindActiveKey(req[r].key)
    IN  /\ req[r].at = "find_key"
        /\ req' = [req EXCEPT ![r].at = IF found THEN "touch_key" ELSE "project"]
        /\ UNCHANGED <<boot, account, sessions, lapsed, marks, tokens, keys, loggedOut>>

ChatTouchKey(r) ==
    LET k == keys[req[r].key]
    IN  /\ req[r].at = "touch_key"
        /\ req' = [req EXCEPT ![r] = [@ EXCEPT !.at = "project", !.read = TRUE,
                                               !.scope = IF k.all THEN {} ELSE k.offices]]
        /\ UNCHANGED <<boot, account, sessions, lapsed, marks, tokens, keys, loggedOut>>

\* project_admin_principal: no office left is MissingOfficeScope.
ProjectPrincipal(r) ==
    LET offices == IntersectOfficeScope(req[r].scope, TenantOffices)
    IN  /\ req[r].at = "project"
        /\ req' = [req EXCEPT ![r] = [@ EXCEPT !.at = IF offices = {} THEN "error" ELSE "ok",
                                               !.offices = offices]]
        /\ UNCHANGED <<boot, account, sessions, lapsed, marks, tokens, keys, loggedOut>>

-----------------------------------------------------------------------------
(* The environment: time, and what operators do in the database *)

Lapse(s) ==
    /\ sessions[s].row # "none"
    /\ s \notin lapsed
    /\ lapsed' = lapsed \union {s}
    /\ marks'  = marks \ {s}
    /\ UNCHANGED <<boot, account, sessions, tokens, keys, loggedOut, req>>

RetireKey(k) ==
    /\ keys[k].active
    /\ keys' = [keys EXCEPT ![k].active = FALSE]
    /\ UNCHANGED <<boot, account, sessions, lapsed, marks, tokens, loggedOut, req>>

Deactivate ==
    /\ account.active
    /\ account' = [account EXCEPT !.active = FALSE]
    /\ UNCHANGED <<boot, sessions, lapsed, marks, tokens, keys, loggedOut, req>>

Step(r) ==
    \/ BeginAny(r)
    \/ RequestFails(r)
    \/ \E verified \in BOOLEAN : LoginFindUser(r, verified)
    \/ LoginInsertSession(r)
    \/ LoginInsertRefreshToken(r)
    \/ LoginAnswer(r)
    \/ \E answers \in BOOLEAN : RefreshCheckRedis(r, answers)
    \/ RefreshFindToken(r)
    \/ RefreshAnswer(r)
    \/ LogoutFindToken(r)
    \/ LogoutRevoke(r)
    \/ \E answers \in BOOLEAN : LogoutAnswer(r, answers)
    \/ Authenticate(r)
    \/ CreateKeyProfile(r)
    \/ \E offices \in SUBSET Offices, all \in BOOLEAN : CreateKeyInsert(r, offices, all)
    \/ ChatFindKey(r)
    \/ ChatTouchKey(r)
    \/ ProjectPrincipal(r)

AuthNext ==
    \/ \E b \in Replicas : \/ BootstrapFind(b)  \/ BootstrapInsert(b) \/ BootstrapCount(b)
                           \/ BootstrapKey(b)   \/ BootstrapFails(b)  \/ Restart(b)
    \/ \E r \in Requests : Step(r)
    \/ \E s \in Sessions : Lapse(s)
    \/ \E k \in DOMAIN keys : RetireKey(k)
    \/ Deactivate

AuthSpec == AuthInit /\ [][AuthNext]_authVars

-----------------------------------------------------------------------------
(* Properties *)

\* After a logout has been answered no request that begins later is let in
\* on that session: neither with an access token from before, nor with one
\* that a refresh racing the logout still got, nor by a refresh.
LoggedOutStaysOut ==
    \A r \in Requests : req[r].late /\ req[r].kind # "logout" =>
        req[r].at \notin {"profile", "insert_key", "find_key", "touch_key", "project", "ok"}

\* A chat request whose restricted key has been read acts on no other
\* office, although an empty scope means "all offices" to the projection.
RestrictedKeyRestricts ==
    \A r \in Requests : req[r].kind = "chat" /\ req[r].read /\ req[r].at = "ok" =>
        keys[req[r].key].all \/ req[r].offices \subseteq keys[req[r].key].offices

\* Replicas that start together make one default key, however their lookups
\* and inserts interleave.
OneDefaultKey == account.defaultKeys <= 1
=============================================================================
