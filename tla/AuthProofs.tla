------------------------------ MODULE AuthProofs ------------------------------
(***************************************************************************)
(* Proofs about Auth, for any number of requests, replicas and offices and *)
(* every set of faults.                                                    *)
(***************************************************************************)
EXTENDS Auth, TLAPS, FiniteSetTheorems

-----------------------------------------------------------------------------
(* The inductive invariants *)

\* Every variable has its type; how many default keys there are is left to
\* BootInv.
AuthTyped ==
    /\ boot \in [Replicas -> BootSteps]
    /\ account \in [row : BOOLEAN, active : BOOLEAN, defaultKeys : Nat]
    /\ sessions \in [Sessions -> SessionRow]
    /\ lapsed \subseteq Sessions /\ marks \subseteq Sessions /\ loggedOut \subseteq Sessions
    /\ tokens \in [refresh : SUBSET Sessions, access : SUBSET Sessions]
    /\ \A k \in DOMAIN keys : k \in Requests /\ keys[k] \in KeyRow
    /\ req \in [Requests -> HttpRequest]

\* Only the replica that inserted the account creates a key, and there is
\* none before it does.
Seeding(b) == boot[b] \in {"count", "create_key"}

BootInv ==
    /\ account.defaultKeys <= 1
    /\ ~account.row => account.defaultKeys = 0
    /\ \A b \in Replicas : Seeding(b) => account.row /\ account.defaultKeys = 0
    /\ \A b, c \in Replicas : Seeding(b) /\ Seeding(c) => b = c

\* A session whose tokens a client may hold has both its rows; a session
\* that was logged out exists and is live no more.
Held(s) == s \in Sessions /\ sessions[s].row # "none" /\ sessions[s].refresh
Out(s)  == s \in Sessions /\ sessions[s].row # "none" /\ ~LiveSession(s)

\* What the place of a request says of its session; a late request gets no
\* further than the statement that looks its session up.
RequestInv(r) ==
    /\ req[r].at \in {"idle", "find_user", "insert_session"} => sessions[r].row = "none"
    /\ req[r].at = "insert_refresh_token" => sessions[r].row # "none"
    /\ req[r].at = "touch_login" => Held(r)
    /\ req[r].at \in {"check_redis", "find_token", "find_owner", "revoke", "mark"}
          => Held(req[r].session)
    /\ req[r].at = "mark" => sessions[req[r].session].row = "revoked"
    /\ req[r].late => req[r].session \in loggedOut
    /\ req[r].late /\ req[r].kind # "logout"
          => req[r].at \in {"check_redis", "find_token", "bearer", "error"}

LogoutInv ==
    /\ \A s \in tokens.refresh \union tokens.access : Held(s)
    /\ \A s \in loggedOut : Out(s)
    /\ \A r \in Requests : RequestInv(r)

\* A key is written once, its row names an office or all of them, and a
\* request that has read its key acts within the scope of that row.
Scope(k) == IF keys[k].all THEN {} ELSE keys[k].offices

KeyInv(r) ==
    /\ r \in DOMAIN keys => req[r].at = "ok"
    /\ req[r].key \in DOMAIN keys \union {NoKey}
    /\ req[r].at = "touch_key" => req[r].key # NoKey
    /\ req[r].read =>
          /\ req[r].at \in {"project", "ok", "error"}
          /\ req[r].key # NoKey
          /\ req[r].scope = Scope(req[r].key)
          /\ req[r].at = "ok" => req[r].offices = IntersectOfficeScope(req[r].scope, TenantOffices)

KeysInv ==
    /\ \A k \in DOMAIN keys : keys[k].all \/ keys[k].offices # {}
    /\ \A r \in Requests : KeyInv(r)

-----------------------------------------------------------------------------
(* Types *)

\* A step that only moves request r leaves the rest of every request alone.
LEMMA Moved ==
    ASSUME req \in [Requests -> HttpRequest], NEW r \in Requests, NEW to \in Steps,
           req' = [req EXCEPT ![r].at = to]
    PROVE  /\ req' \in [Requests -> HttpRequest]
           /\ \A q \in Requests :
                /\ req'[q].at = IF q = r THEN to ELSE req[q].at
                /\ req'[q].kind = req[q].kind /\ req'[q].session = req[q].session
                /\ req'[q].key = req[q].key /\ req'[q].late = req[q].late
                /\ req'[q].read = req[q].read /\ req'[q].scope = req[q].scope
                /\ req'[q].offices = req[q].offices
  BY DEF HttpRequest

\* A request begins.
LEMMA RequestBegins ==
    ASSUME NEW kind \in Kinds, NEW s \in Sessions \union {NoSession},
           NEW k \in Requests \union {NoKey}, NEW late \in BOOLEAN
    PROVE  LET new == [NoRequest EXCEPT !.kind = kind, !.at = FirstStep(kind),
                                        !.session = s, !.key = k, !.late = late]
           IN  /\ new \in HttpRequest
               /\ new.kind = kind /\ new.at = FirstStep(kind) /\ new.session = s
               /\ new.key = k /\ new.late = late /\ new.read = FALSE
<1>1. FirstStep(kind) \in Steps
  BY DEF FirstStep, Steps
<1> QED BY <1>1 DEF NoRequest, HttpRequest

\* A request reads its key, or is given its offices.
LEMMA ReadKey ==
    ASSUME NEW x \in HttpRequest, NEW at \in Steps, NEW S \in SUBSET Offices
    PROVE  /\ LET y == [x EXCEPT !.at = at, !.read = TRUE, !.scope = S]
              IN  /\ y \in HttpRequest
                  /\ y.at = at /\ y.read = TRUE /\ y.scope = S /\ y.kind = x.kind
                  /\ y.session = x.session /\ y.key = x.key /\ y.late = x.late
           /\ LET y == [x EXCEPT !.at = at, !.offices = S]
              IN  /\ y \in HttpRequest
                  /\ y.at = at /\ y.offices = S /\ y.kind = x.kind /\ y.scope = x.scope
                  /\ y.session = x.session /\ y.key = x.key /\ y.late = x.late
                  /\ y.read = x.read
  BY DEF HttpRequest

\* The types are inductive: one step per operation.
LEMMA NextAuthTyped == AuthTyped /\ LogoutInv /\ KeysInv /\ [AuthNext]_authVars => AuthTyped'
<1> SUFFICES ASSUME AuthTyped, LogoutInv, KeysInv, [AuthNext]_authVars PROVE AuthTyped'
  OBVIOUS
<1>0. CASE UNCHANGED authVars
  BY <1>0 DEF AuthTyped, authVars
<1>1. ASSUME NEW b \in Replicas,
             BootstrapFind(b) \/ BootstrapCount(b) \/ BootstrapFails(b) \/ Restart(b)
      PROVE  AuthTyped'
  <2>1. PICK p \in BootSteps : boot' = [boot EXCEPT ![b] = p]
    BY <1>1 DEF BootstrapFind, BootstrapCount, BootstrapFails, Restart, BootSteps
  <2>2. UNCHANGED <<account, sessions, lapsed, marks, tokens, keys, loggedOut, req>>
    BY <1>1 DEF BootstrapFind, BootstrapCount, BootstrapFails, Restart
  <2> QED BY <2>1, <2>2 DEF AuthTyped
<1>2. ASSUME NEW b \in Replicas, BootstrapInsert(b) \/ BootstrapKey(b) PROVE AuthTyped'
  <2>1. PICK p \in BootSteps : boot' = [boot EXCEPT ![b] = p]
    BY <1>2 DEF BootstrapInsert, BootstrapKey, BootSteps
  <2>2. account' \in [row : BOOLEAN, active : BOOLEAN, defaultKeys : Nat]
    <3>1. CASE BootstrapInsert(b)
      BY <3>1 DEF AuthTyped, BootstrapInsert
    <3>2. CASE BootstrapKey(b)
      BY <3>2 DEF AuthTyped, BootstrapKey
    <3> QED BY <1>2, <3>1, <3>2
  <2>3. UNCHANGED <<sessions, lapsed, marks, tokens, keys, loggedOut, req>>
    BY <1>2 DEF BootstrapInsert, BootstrapKey
  <2> QED BY <2>1, <2>2, <2>3 DEF AuthTyped
<1>3. ASSUME NEW r \in Requests, Step(r) PROVE AuthTyped'
  <2>r. req[r] \in HttpRequest
    BY DEF AuthTyped
  <2>s. req[r].at \in {"find_token", "find_owner", "revoke", "mark"} => req[r].session \in Sessions
    BY DEF LogoutInv, RequestInv, Held
  <2>1. CASE BeginAny(r)
    <3>1. PICK kind \in Kinds, s \in Sessions \union {NoSession}, k \in Requests \union {NoKey} :
             Begin(r, kind, s, k)
      <4>1. /\ {"login", "refresh", "logout", "create_api_key", "chat"} \subseteq Kinds
            /\ r \in Sessions /\ tokens.refresh \subseteq Sessions /\ tokens.access \subseteq Sessions
            /\ DOMAIN keys \subseteq Requests
        BY DEF Kinds, Sessions, AuthTyped
      <4> QED BY <2>1, <4>1 DEF BeginAny
    <3>2. (s \in loggedOut) \in BOOLEAN
      OBVIOUS
    <3>3. [NoRequest EXCEPT !.kind = kind, !.at = FirstStep(kind), !.session = s, !.key = k,
                            !.late = s \in loggedOut] \in HttpRequest
      BY <3>2, RequestBegins
    <3> QED BY <3>1, <3>3 DEF AuthTyped, Begin
  <2>m. ASSUME NEW to \in Steps, req' = [req EXCEPT ![r].at = to],
               UNCHANGED <<boot, account, sessions, lapsed, marks, tokens, keys, loggedOut>>
        PROVE  AuthTyped'
    <3>1. req' \in [Requests -> HttpRequest]
      BY <2>m, Moved DEF AuthTyped
    <3> QED BY <2>m, <3>1 DEF AuthTyped
  <2>2. CASE RequestFails(r)
    <3>1. "project" \in Steps /\ "error" \in Steps
      BY DEF Steps
    <3>2. CASE req[r].at \in {"find_key", "touch_key"}
      BY <2>2, <2>m, <3>1, <3>2 DEF RequestFails
    <3>3. CASE req[r].at \notin {"find_key", "touch_key"}
      BY <2>2, <2>m, <3>1, <3>3 DEF RequestFails
    <3> QED BY <3>2, <3>3
  <2>3. ASSUME NEW v \in BOOLEAN, LoginFindUser(r, v) PROVE AuthTyped'
    BY <2>3, <2>m DEF LoginFindUser, Go, Steps
  <2>4. ASSUME NEW v \in BOOLEAN, RefreshCheckRedis(r, v) PROVE AuthTyped'
    BY <2>4, <2>m DEF RefreshCheckRedis, Go, Steps
  <2>5. CASE RefreshFindToken(r)
    BY <2>5, <2>m DEF RefreshFindToken, Go, Steps
  <2>6. CASE Authenticate(r)
    <3>1. PICK to \in {"error", "find_key", "profile"} : req' = [req EXCEPT ![r].at = to]
      <4>1. CASE ~FindAuthenticatedUser(req[r].session)
        BY <2>6, <4>1 DEF Authenticate, Go
      <4>2. CASE FindAuthenticatedUser(req[r].session) /\ req[r].kind = "chat"
        BY <2>6, <4>2 DEF Authenticate, Go
      <4>3. CASE FindAuthenticatedUser(req[r].session) /\ req[r].kind # "chat"
        BY <2>6, <4>3 DEF Authenticate, Go
      <4> QED BY <4>1, <4>2, <4>3
    <3> QED BY <2>6, <2>m, <3>1 DEF Authenticate, Steps
  <2>7. CASE CreateKeyProfile(r)
    BY <2>7, <2>m DEF CreateKeyProfile, Go, Steps
  <2>8. CASE ChatFindKey(r)
    BY <2>8, <2>m DEF ChatFindKey, Steps
  <2>9. CASE LoginInsertSession(r) \/ LoginInsertRefreshToken(r)
    <3>1. PICK to \in Steps : req' = [req EXCEPT ![r].at = to]
      BY <2>9 DEF LoginInsertSession, LoginInsertRefreshToken, Go, Steps
    <3>2. req' \in [Requests -> HttpRequest]
      BY <3>1, Moved DEF AuthTyped
    <3>3. r \in Sessions
      BY DEF Sessions
    <3>4. sessions' \in [Sessions -> SessionRow]
      <4>1. CASE LoginInsertSession(r)
        BY <4>1, <3>3 DEF LoginInsertSession, AuthTyped, SessionRow
      <4>2. CASE LoginInsertRefreshToken(r)
        BY <4>2, <3>3 DEF LoginInsertRefreshToken, AuthTyped, SessionRow
      <4> QED BY <2>9, <4>1, <4>2
    <3> QED BY <2>9, <3>2, <3>4 DEF LoginInsertSession, LoginInsertRefreshToken, AuthTyped
  <2>10. CASE LoginAnswer(r)
    <3>1. req' \in [Requests -> HttpRequest]
      BY <2>10, Moved DEF AuthTyped, LoginAnswer, Go, Steps
    <3>2. tokens' \in [refresh : SUBSET Sessions, access : SUBSET Sessions]
      BY <2>10 DEF AuthTyped, LoginAnswer, Sessions
    <3> QED BY <2>10, <3>1, <3>2 DEF AuthTyped, LoginAnswer
  <2>11. CASE RefreshAnswer(r)
    <3>1. req' \in [Requests -> HttpRequest]
      BY <2>11, Moved DEF AuthTyped, RefreshAnswer, Go, Steps
    <3>2. tokens' \in [refresh : SUBSET Sessions, access : SUBSET Sessions]
      BY <2>11, <2>s DEF AuthTyped, RefreshAnswer, Go
    <3> QED BY <2>11, <3>1, <3>2 DEF AuthTyped, RefreshAnswer
  <2>12. CASE LogoutFindToken(r)
    <3>1. req' \in [Requests -> HttpRequest]
      BY <2>12, Moved DEF AuthTyped, LogoutFindToken, Go, Steps
    <3> QED BY <2>12, <2>s, <3>1 DEF AuthTyped, LogoutFindToken, Go
  <2>13. CASE LogoutRevoke(r)
    <3>1. req' \in [Requests -> HttpRequest]
      BY <2>13, Moved DEF AuthTyped, LogoutRevoke, Go, Steps
    <3>2. sessions' \in [Sessions -> SessionRow]
      BY <2>13 DEF AuthTyped, LogoutRevoke, SessionRow
    <3> QED BY <2>13, <3>1, <3>2 DEF AuthTyped, LogoutRevoke
  <2>14. ASSUME NEW v \in BOOLEAN, LogoutAnswer(r, v) PROVE AuthTyped'
    <3>1. req' \in [Requests -> HttpRequest]
      BY <2>14, Moved DEF AuthTyped, LogoutAnswer, Go, Steps
    <3> QED BY <2>14, <2>s, <3>1 DEF AuthTyped, LogoutAnswer, Go
  <2>15. ASSUME NEW offices \in SUBSET Offices, NEW all \in BOOLEAN,
                CreateKeyInsert(r, offices, all)
         PROVE  AuthTyped'
    <3>1. req' \in [Requests -> HttpRequest]
      BY <2>15, Moved DEF AuthTyped, CreateKeyInsert, Go, Steps
    <3>2. [offices |-> offices, all |-> all, active |-> TRUE] \in KeyRow
      BY DEF KeyRow
    <3>3. \A k \in DOMAIN keys' : k \in Requests /\ keys'[k] \in KeyRow
      BY <2>15, <3>2 DEF AuthTyped, CreateKeyInsert
    <3> QED BY <2>15, <3>1, <3>3 DEF AuthTyped, CreateKeyInsert
  <2>16. CASE ChatTouchKey(r)
    <3>1. req[r].key \in DOMAIN keys
      BY <2>16 DEF KeysInv, KeyInv, ChatTouchKey
    <3> DEFINE S == IF keys[req[r].key].all THEN {} ELSE keys[req[r].key].offices
    <3>2. S \in SUBSET Offices
      BY <3>1 DEF AuthTyped, KeyRow
    <3>h. req' = [req EXCEPT ![r] = [req[r] EXCEPT !.at = "project", !.read = TRUE, !.scope = S]]
      BY <2>16 DEF ChatTouchKey
    <3> HIDE DEF S
    <3>3. [req[r] EXCEPT !.at = "project", !.read = TRUE, !.scope = S] \in HttpRequest
      <4>1. "project" \in Steps
        BY DEF Steps
      <4> QED BY <2>r, <3>2, <4>1, ReadKey
    <3> QED BY <2>16, <3>h, <3>3 DEF AuthTyped, ChatTouchKey
  <2>17. CASE ProjectPrincipal(r)
    <3> DEFINE S == IntersectOfficeScope(req[r].scope, TenantOffices)
    <3>1. S \in SUBSET Offices
      BY AuthAssumption DEF IntersectOfficeScope
    <3>2. \A at \in Steps : [req[r] EXCEPT !.at = at, !.offices = S] \in HttpRequest
      BY <2>r, <3>1, ReadKey
    <3>3. (IF S = {} THEN "error" ELSE "ok") \in Steps
      BY DEF Steps
    <3>4. req' = [req EXCEPT ![r] = [req[r] EXCEPT !.at = IF S = {} THEN "error" ELSE "ok",
                                                   !.offices = S]]
      BY <2>17 DEF ProjectPrincipal
    <3>5. req' \in [Requests -> HttpRequest]
      BY <3>2, <3>3, <3>4 DEF AuthTyped
    <3> QED BY <2>17, <3>5 DEF AuthTyped, ProjectPrincipal
  <2> QED
    BY <1>3, <2>1, <2>2, <2>3, <2>4, <2>5, <2>6, <2>7, <2>8, <2>9, <2>10, <2>11, <2>12, <2>13,
       <2>14, <2>15, <2>16, <2>17 DEF Step
<1>4. ASSUME NEW s \in Sessions, Lapse(s) PROVE AuthTyped'
  BY <1>4 DEF AuthTyped, Lapse
<1>5. ASSUME NEW k \in DOMAIN keys, RetireKey(k) PROVE AuthTyped'
  BY <1>5 DEF AuthTyped, RetireKey, KeyRow
<1>6. CASE Deactivate
  BY <1>6 DEF AuthTyped, Deactivate
<1> QED BY <1>0, <1>1, <1>2, <1>3, <1>4, <1>5, <1>6 DEF AuthNext

-----------------------------------------------------------------------------
(* One default key *)

\* The account is inserted once, and only its inserter seeds it.
LEMMA NextBootInv == AuthTyped /\ BootInv /\ [AuthNext]_authVars => BootInv'
<1> SUFFICES ASSUME AuthTyped, BootInv, [AuthNext]_authVars PROVE BootInv'
  OBVIOUS
<1>t. account.row \in BOOLEAN /\ account.defaultKeys \in Nat
  BY DEF AuthTyped
<1>k. ASSUME account'.row = account.row, account'.defaultKeys = account.defaultKeys,
             \A b \in Replicas : Seeding(b)' => Seeding(b)
      PROVE  BootInv'
  BY <1>k DEF BootInv
<1>1. ASSUME NEW b \in Replicas, BootstrapFind(b) \/ BootstrapFails(b) \/ Restart(b) PROVE BootInv'
  <2>1. PICK p \in {"start", "insert", "up", "down"} : boot' = [boot EXCEPT ![b] = p]
    BY <1>1 DEF BootstrapFind, BootstrapFails, Restart
  <2>2. \A c \in Replicas : Seeding(c)' => Seeding(c)
    BY <2>1 DEF AuthTyped, Seeding
  <2> QED BY <1>1, <1>k, <2>2 DEF BootstrapFind, BootstrapFails, Restart
<1>2. ASSUME NEW b \in Replicas, BootstrapInsert(b) PROVE BootInv'
  <2>1. CASE account.row
    <3>1. \A c \in Replicas : Seeding(c)' => Seeding(c)
      BY <1>2, <2>1 DEF AuthTyped, BootstrapInsert, Seeding
    <3> QED BY <1>2, <1>k, <2>1, <3>1 DEF BootstrapInsert
  <2>2. CASE ~account.row
    <3>1. account'.row /\ account'.defaultKeys = account.defaultKeys /\ account.defaultKeys = 0
      BY <1>2, <2>2 DEF AuthTyped, BootInv, BootstrapInsert
    <3>2. \A c \in Replicas : ~Seeding(c)
      BY <2>2 DEF BootInv
    <3>3. \A c \in Replicas : Seeding(c)' => c = b
      BY <1>2, <2>2, <3>2 DEF AuthTyped, BootstrapInsert, Seeding
    <3> QED BY <3>1, <3>3 DEF BootInv
  <2> QED BY <2>1, <2>2
<1>3. ASSUME NEW b \in Replicas, BootstrapCount(b) PROVE BootInv'
  <2>1. \A c \in Replicas : Seeding(c)' => Seeding(c)
    BY <1>3 DEF AuthTyped, BootstrapCount, Seeding
  <2> QED BY <1>3, <1>k, <2>1 DEF BootstrapCount
<1>4. ASSUME NEW b \in Replicas, BootstrapKey(b) PROVE BootInv'
  <2>1. Seeding(b)
    BY <1>4 DEF BootstrapKey, Seeding
  <2>2. account'.row = account.row /\ account'.defaultKeys = account.defaultKeys + 1
    BY <1>4 DEF AuthTyped, BootstrapKey
  <2>3. account.row /\ account.defaultKeys = 0
    BY <2>1 DEF BootInv
  <2>4. \A c \in Replicas : ~Seeding(c)'
    BY <1>4, <2>1 DEF AuthTyped, BootInv, BootstrapKey, Seeding
  <2> QED BY <2>2, <2>3, <2>4 DEF BootInv
<1>5. CASE Deactivate
  <2>1. account'.row = account.row /\ account'.defaultKeys = account.defaultKeys
    BY <1>5 DEF AuthTyped, Deactivate
  <2>2. boot' = boot
    BY <1>5 DEF Deactivate
  <2> QED BY <1>k, <2>1, <2>2 DEF Seeding
<1>6. CASE UNCHANGED <<boot, account>>
  BY <1>k, <1>6 DEF Seeding
<1>7. ASSUME NEW r \in Requests, Step(r) PROVE UNCHANGED <<boot, account>>
  BY <1>7 DEF Step, BeginAny, Begin, RequestFails, LoginFindUser, LoginInsertSession,
              LoginInsertRefreshToken, LoginAnswer, RefreshCheckRedis, RefreshFindToken,
              RefreshAnswer, LogoutFindToken, LogoutRevoke, LogoutAnswer, Authenticate,
              CreateKeyProfile, CreateKeyInsert, ChatFindKey, ChatTouchKey, ProjectPrincipal
<1> QED
  BY <1>1, <1>2, <1>3, <1>4, <1>5, <1>6, <1>7 DEF AuthNext, authVars, Lapse, RetireKey

-----------------------------------------------------------------------------
(* The keys *)

\* The keys change only by a new row or the retirement of one, and what a
\* request has read of its key stays what the row says.
LEMMA NextKeysInv == AuthTyped /\ KeysInv /\ [AuthNext]_authVars => KeysInv'
<1> SUFFICES ASSUME AuthTyped, KeysInv, [AuthNext]_authVars PROVE KeysInv'
  OBVIOUS
<1>a. NoKey \notin Requests
  BY AuthAssumption DEF NoKey
<1>s. ASSUME keys' = keys, NEW r \in Requests, KeyInv(r)',
             \A q \in Requests \ {r} : req'[q] = req[q]
      PROVE  KeysInv'
  BY <1>s DEF KeysInv, KeyInv, Scope
<1>m. ASSUME NEW r \in Requests, NEW to \in Steps, req' = [req EXCEPT ![r].at = to], keys' = keys,
             r \notin DOMAIN keys, to # "touch_key" \/ req[r].key # NoKey,
             ~req[r].read
      PROVE  KeysInv'
  <2>1. \A q \in Requests : /\ req'[q].at = IF q = r THEN to ELSE req[q].at
                            /\ req'[q].read = req[q].read /\ req'[q].key = req[q].key
    BY <1>m, Moved DEF AuthTyped
  <2>2. KeyInv(r)'
    BY <1>m, <2>1 DEF KeysInv, KeyInv
  <2>3. \A q \in Requests \ {r} : req'[q] = req[q]
    BY <1>m DEF AuthTyped
  <2> QED BY <1>m, <1>s, <2>2, <2>3
<1>0. CASE UNCHANGED <<keys, req>>
  BY <1>0 DEF KeysInv, KeyInv, Scope
<1>1. ASSUME NEW r \in Requests, Step(r) PROVE KeysInv'
  <2>r. req[r] \in HttpRequest /\ KeyInv(r)
    BY DEF AuthTyped, KeysInv
  <2>p. /\ req[r].at # "ok" => r \notin DOMAIN keys
        /\ req[r].at \notin {"project", "ok", "error"} => ~req[r].read
    BY <2>r DEF KeyInv
  <2>1. CASE BeginAny(r)
    <3>1. PICK kind \in Kinds, s \in Sessions \union {NoSession}, k \in DOMAIN keys \union {NoKey} :
             Begin(r, kind, s, k)
      <4>1. /\ {"login", "refresh", "logout", "create_api_key", "chat"} \subseteq Kinds
            /\ r \in Sessions /\ tokens.refresh \subseteq Sessions /\ tokens.access \subseteq Sessions
        BY DEF Kinds, Sessions, AuthTyped
      <4> QED BY <2>1, <4>1 DEF BeginAny
    <3> DEFINE new == [NoRequest EXCEPT !.kind = kind, !.at = FirstStep(kind), !.session = s,
                                        !.key = k, !.late = s \in loggedOut]
    <3>2. (s \in loggedOut) \in BOOLEAN /\ k \in Requests \union {NoKey}
      BY DEF AuthTyped
    <3>3. new.at = FirstStep(kind) /\ new.key = k /\ new.read = FALSE
      BY DEF NoRequest
    <3>4. req'[r] = new /\ keys' = keys /\ req[r].at = "idle"
      BY <3>1 DEF AuthTyped, Begin
    <3>5. FirstStep(kind) # "touch_key"
      BY DEF FirstStep
    <3>6. \A q \in Requests \ {r} : req'[q] = req[q]
      BY <3>1 DEF AuthTyped, Begin
    <3> HIDE DEF new
    <3>7. r \notin DOMAIN keys'
      BY <2>p, <3>4
    <3>8. KeyInv(r)'
      BY <3>3, <3>4, <3>5, <3>7 DEF KeyInv
    <3> QED BY <1>s, <3>4, <3>6, <3>8
  <2>2. CASE RequestFails(r)
    <3>1. PICK to \in {"project", "error"} : req' = [req EXCEPT ![r].at = to]
      <4>1. CASE req[r].at \in {"find_key", "touch_key"}
        BY <2>2, <4>1 DEF RequestFails
      <4>2. CASE req[r].at \notin {"find_key", "touch_key"}
        BY <2>2, <4>2 DEF RequestFails
      <4> QED BY <4>1, <4>2
    <3>2. keys' = keys /\ req[r].at \notin {"idle", "ok", "error"}
      BY <2>2 DEF RequestFails
    <3>t. to \in Steps
      BY DEF Steps
    <3>3. \A q \in Requests :
             /\ req'[q].at = IF q = r THEN to ELSE req[q].at
             /\ req'[q].read = req[q].read /\ req'[q].key = req[q].key
             /\ req'[q].scope = req[q].scope /\ req'[q].offices = req[q].offices
      BY <3>1, <3>t, Moved DEF AuthTyped
    <3>4. KeyInv(r)'
      BY <2>r, <2>p, <3>2, <3>3 DEF KeyInv, Scope
    <3>5. \A q \in Requests \ {r} : req'[q] = req[q]
      BY <3>1 DEF AuthTyped
    <3> QED BY <1>s, <3>2, <3>4, <3>5
  <2>3. ASSUME NEW v \in BOOLEAN, LoginFindUser(r, v) PROVE KeysInv'
    BY <2>3, <2>p, <1>m DEF LoginFindUser, Go, Steps
  <2>4. ASSUME NEW v \in BOOLEAN, RefreshCheckRedis(r, v) PROVE KeysInv'
    BY <2>4, <2>p, <1>m DEF RefreshCheckRedis, Go, Steps
  <2>5. CASE RefreshFindToken(r)
    BY <2>5, <2>p, <1>m DEF RefreshFindToken, Go, Steps
  <2>6. CASE Authenticate(r)
    <3>1. PICK to \in {"error", "find_key", "profile"} : req' = [req EXCEPT ![r].at = to]
      BY <2>6 DEF Authenticate, Go
    <3>2. to \in Steps /\ to # "touch_key"
      BY DEF Steps
    <3> QED BY <2>6, <2>p, <1>m, <3>1, <3>2 DEF Authenticate, Go
  <2>7. CASE CreateKeyProfile(r)
    BY <2>7, <2>p, <1>m DEF CreateKeyProfile, Go, Steps
  <2>8. CASE ChatFindKey(r)
    <3>1. CASE FindActiveKey(req[r].key)
      BY <2>8, <2>p, <1>m, <3>1 DEF ChatFindKey, FindActiveKey, Steps
    <3>2. CASE ~FindActiveKey(req[r].key)
      BY <2>8, <2>p, <1>m, <3>2 DEF ChatFindKey, Steps
    <3> QED BY <3>1, <3>2
  <2>9. CASE LoginInsertSession(r) \/ LoginInsertRefreshToken(r)
    <3>1. PICK to \in {"insert_refresh_token", "touch_login"} : req' = [req EXCEPT ![r].at = to]
      BY <2>9 DEF LoginInsertSession, LoginInsertRefreshToken, Go
    <3>2. to \in Steps /\ to # "touch_key" /\ keys' = keys /\ req[r].at \in {"insert_session", "insert_refresh_token"}
      BY <2>9 DEF LoginInsertSession, LoginInsertRefreshToken, Go, Steps
    <3> QED BY <2>p, <1>m, <3>1, <3>2
  <2>10. CASE LoginAnswer(r)
    BY <2>10, <2>p, <1>m DEF LoginAnswer, Go, Steps
  <2>11. CASE RefreshAnswer(r)
    BY <2>11, <2>p, <1>m DEF RefreshAnswer, Go, Steps
  <2>12. CASE LogoutFindToken(r)
    BY <2>12, <2>p, <1>m DEF LogoutFindToken, Go, Steps
  <2>13. CASE LogoutRevoke(r)
    BY <2>13, <2>p, <1>m DEF LogoutRevoke, Go, Steps
  <2>14. ASSUME NEW v \in BOOLEAN, LogoutAnswer(r, v) PROVE KeysInv'
    BY <2>14, <2>p, <1>m DEF LogoutAnswer, Go, Steps
  <2>15. ASSUME NEW offices \in SUBSET Offices, NEW all \in BOOLEAN,
                CreateKeyInsert(r, offices, all)
         PROVE  KeysInv'
    <3>1. CASE ~ValidKeyInput(offices, all)
      BY <2>15, <2>p, <1>m, <3>1 DEF CreateKeyInsert, Go, Steps
    <3>2. CASE ValidKeyInput(offices, all)
      <4>1. /\ DOMAIN keys' = DOMAIN keys \union {r}
            /\ keys'[r] = [offices |-> offices, all |-> all, active |-> TRUE]
            /\ \A k \in DOMAIN keys : k # r => keys'[k] = keys[k]
            /\ req' = [req EXCEPT ![r].at = "ok"] /\ req[r].at = "insert_key"
        BY <2>15, <3>2 DEF CreateKeyInsert, Go
      <4>2. \A q \in Requests :
               /\ req'[q].at = IF q = r THEN "ok" ELSE req[q].at
               /\ req'[q].read = req[q].read /\ req'[q].key = req[q].key
               /\ req'[q].scope = req[q].scope /\ req'[q].offices = req[q].offices
        <5>1. "ok" \in Steps
          BY DEF Steps
        <5> QED BY <4>1, <5>1, Moved DEF AuthTyped
      <4>3. r \notin DOMAIN keys /\ ~req[r].read
        BY <2>p, <4>1
      <4>4. ASSUME NEW k \in DOMAIN keys' PROVE keys'[k].all \/ keys'[k].offices # {}
        BY <3>2, <4>1 DEF KeysInv, ValidKeyInput
      <4>5. ASSUME NEW q \in Requests PROVE KeyInv(q)'
        <5>1. KeyInv(q)
          BY DEF KeysInv
        <5>2. req[q].key \in DOMAIN keys => Scope(req[q].key)' = Scope(req[q].key)
          BY <4>1, <4>2, <4>3 DEF Scope
        <5> QED BY <4>1, <4>2, <4>3, <5>1, <5>2 DEF KeyInv
      <4> QED BY <4>4, <4>5 DEF KeysInv
    <3> QED BY <3>1, <3>2
  <2>16. CASE ChatTouchKey(r)
    <3>1. req[r].key \in DOMAIN keys /\ req[r].key # NoKey
      BY <2>16, <2>r DEF KeyInv, ChatTouchKey
    <3> DEFINE S == Scope(req[r].key)
    <3>2. S \in SUBSET Offices
      BY <3>1 DEF AuthTyped, KeyRow, Scope
    <3>3. req' = [req EXCEPT ![r] = [req[r] EXCEPT !.at = "project", !.read = TRUE, !.scope = S]]
      BY <2>16 DEF ChatTouchKey, Scope
    <3>4. keys' = keys /\ req[r].at = "touch_key"
      BY <2>16 DEF ChatTouchKey
    <3>5. S' = S
      BY <3>3, <3>4, <2>r DEF Scope, AuthTyped, HttpRequest
    <3> HIDE DEF S
    <3>6. "project" \in Steps
      BY DEF Steps
    <3>7. /\ req'[r].at = "project" /\ req'[r].scope = S
          /\ req'[r].key = req[r].key
      <4> DEFINE y == [req[r] EXCEPT !.at = "project", !.read = TRUE, !.scope = S]
      <4>1. y.at = "project" /\ y.scope = S /\ y.key = req[r].key
        BY <2>r DEF HttpRequest
      <4>2. req'[r] = y
        BY <3>3 DEF AuthTyped
      <4> QED BY <4>1, <4>2
    <3>8. KeyInv(r)'
      BY <2>p, <3>1, <3>4, <3>5, <3>7 DEF KeyInv, S
    <3>9. \A q \in Requests \ {r} : req'[q] = req[q]
      BY <3>3 DEF AuthTyped
    <3> QED BY <1>s, <3>4, <3>8, <3>9
  <2>17. CASE ProjectPrincipal(r)
    <3> DEFINE S == IntersectOfficeScope(req[r].scope, TenantOffices)
               at == IF S = {} THEN "error" ELSE "ok"
    <3>1. S \in SUBSET Offices
      BY AuthAssumption DEF IntersectOfficeScope
    <3>2. at \in Steps
      BY DEF Steps
    <3>3. req' = [req EXCEPT ![r] = [req[r] EXCEPT !.at = at, !.offices = S]]
      BY <2>17 DEF ProjectPrincipal
    <3>4. keys' = keys /\ req[r].at = "project" /\ at \in {"ok", "error"}
      BY <2>17 DEF ProjectPrincipal
    <3> HIDE DEF at
    <3>5. /\ req'[r].at = at /\ req'[r].offices = S /\ req'[r].scope = req[r].scope
          /\ req'[r].key = req[r].key /\ req'[r].read = req[r].read
      <4> HIDE DEF S
      <4> DEFINE y == [req[r] EXCEPT !.at = at, !.offices = S]
      <4>1. /\ y.at = at /\ y.offices = S /\ y.scope = req[r].scope
            /\ y.key = req[r].key /\ y.read = req[r].read
        BY <2>r DEF HttpRequest
      <4>2. req'[r] = y
        BY <3>3 DEF AuthTyped
      <4> QED BY <4>1, <4>2
    <3>6. KeyInv(r)'
      BY <2>r, <2>p, <3>4, <3>5 DEF KeyInv, Scope
    <3>7. \A q \in Requests \ {r} : req'[q] = req[q]
      BY <3>3 DEF AuthTyped
    <3> QED BY <1>s, <3>4, <3>6, <3>7
  <2> QED
    BY <1>1, <2>1, <2>2, <2>3, <2>4, <2>5, <2>6, <2>7, <2>8, <2>9, <2>10, <2>11, <2>12, <2>13,
       <2>14, <2>15, <2>16, <2>17 DEF Step
<1>2. ASSUME NEW k \in DOMAIN keys, RetireKey(k) PROVE KeysInv'
  <2>1. /\ DOMAIN keys' = DOMAIN keys /\ req' = req
        /\ \A j \in DOMAIN keys : /\ keys'[j].all = keys[j].all
                                  /\ keys'[j].offices = keys[j].offices
    BY <1>2 DEF AuthTyped, RetireKey, KeyRow
  <2>2. \A j \in DOMAIN keys : Scope(j)' = Scope(j)
    BY <2>1 DEF Scope
  <2>3. ASSUME NEW q \in Requests PROVE KeyInv(q)'
    <3>1. KeyInv(q)
      BY DEF KeysInv
    <3>2. req[q].key \in DOMAIN keys => Scope(req[q].key)' = Scope(req[q].key)
      BY <2>1 DEF Scope
    <3> QED BY <2>1, <3>1, <3>2 DEF KeyInv
  <2> QED BY <2>1, <2>3 DEF KeysInv
<1> QED
  BY <1>0, <1>1, <1>2 DEF AuthNext, authVars, BootstrapFind, BootstrapInsert, BootstrapCount,
     BootstrapKey, BootstrapFails, Restart, Lapse, Deactivate

-----------------------------------------------------------------------------
(* A session that was logged out *)

\* Nothing brings a session back: what is held keeps its rows, what is out
\* stays out and what is revoked stays revoked.
Lasting ==
    \A s \in Sessions :
        /\ Held(s) => Held(s)'
        /\ Out(s) => Out(s)'
        /\ sessions[s].row = "revoked" => sessions'[s].row = "revoked"
        /\ sessions[s].row # "none" => sessions'[s].row # "none"

\* The logout invariant is inductive.
LEMMA NextLogoutInv == AuthTyped /\ LogoutInv /\ [AuthNext]_authVars => LogoutInv'
<1> SUFFICES ASSUME AuthTyped, LogoutInv, [AuthNext]_authVars PROVE LogoutInv'
  OBVIOUS
<1>r. \A r \in Requests : r \in Sessions /\ RequestInv(r)
  BY DEF Sessions, LogoutInv
<1>l. UNCHANGED <<sessions, lapsed>> => Lasting
  BY DEF Lasting, Held, Out, LiveSession
<1>q. ASSUME Lasting, NEW q \in Requests, req'[q] = req[q],
             sessions[q].row = "none" => sessions'[q].row = "none", loggedOut \subseteq loggedOut'
      PROVE  RequestInv(q)'
  <2>1. RequestInv(q) /\ q \in Sessions
    BY <1>r
  <2>2. Held(q) => Held(q)'
    BY <1>q, <2>1 DEF Lasting
  <2>3. Held(req[q].session) => Held(req[q].session)'
    BY <1>q DEF Lasting, Held
  <2>4. /\ Held(req[q].session) /\ sessions[req[q].session].row = "revoked"
             => sessions'[req[q].session].row = "revoked"
        /\ sessions[q].row # "none" => sessions'[q].row # "none"
    BY <1>q, <2>1 DEF Lasting, Held
  <2> QED BY <1>q, <2>1, <2>2, <2>3, <2>4 DEF RequestInv, Held
<1>m. ASSUME NEW r \in Requests, NEW to \in Steps, req' = [req EXCEPT ![r].at = to],
             UNCHANGED <<sessions, lapsed, tokens, loggedOut>>,
             to \notin {"idle", "find_user", "insert_refresh_token", "touch_login", "mark"},
             to = "insert_session" => req[r].at = "find_user",
             to \in {"check_redis", "find_token", "find_owner", "revoke"} => Held(req[r].session),
             req[r].late /\ req[r].kind # "logout" =>
                to \in {"check_redis", "find_token", "bearer", "error"}
      PROVE  LogoutInv'
  <2>1. \A q \in Requests :
           /\ req'[q].at = IF q = r THEN to ELSE req[q].at
           /\ req'[q].kind = req[q].kind /\ req'[q].session = req[q].session
           /\ req'[q].late = req[q].late
    BY <1>m, Moved DEF AuthTyped
  <2>2. \A q \in Requests : q # r => req'[q] = req[q]
    BY <1>m DEF AuthTyped
  <2>3. Held(req[r].session) => Held(req[r].session)'
    BY <1>m, <2>1 DEF Held
  <2>4. RequestInv(r)'
    BY <1>m, <1>r, <2>1, <2>3 DEF RequestInv, Held
  <2>5. \A q \in Requests : RequestInv(q)'
    BY <1>m, <1>l, <1>q, <2>2, <2>4
  <2> QED BY <1>m, <1>l, <2>5 DEF LogoutInv, Lasting, Held, Out
<1>0. CASE UNCHANGED <<sessions, lapsed, tokens, loggedOut, req>>
  BY <1>0, <1>l, <1>q, <1>r DEF LogoutInv, Lasting, Held, Out
<1>1. ASSUME NEW r \in Requests, Step(r) PROVE LogoutInv'
  <2>r. req[r] \in HttpRequest /\ RequestInv(r) /\ r \in Sessions
    BY <1>r DEF AuthTyped
  <2>1. CASE BeginAny(r)
    <3>0. /\ {"login", "refresh", "logout", "create_api_key", "chat"} \subseteq Kinds
          /\ r \in Sessions /\ tokens.refresh \subseteq Sessions /\ tokens.access \subseteq Sessions
          /\ DOMAIN keys \subseteq Requests
      BY DEF Kinds, Sessions, AuthTyped
    <3>1. PICK kind \in Kinds, s \in Sessions \union {NoSession}, k \in Requests \union {NoKey} :
             /\ Begin(r, kind, s, k)
             /\ kind = "login" => s = r
             /\ kind \in {"refresh", "logout"} => s \in tokens.refresh
             /\ kind # "none"
      BY <2>1, <3>0 DEF BeginAny
    <3> DEFINE new == [NoRequest EXCEPT !.kind = kind, !.at = FirstStep(kind), !.session = s,
                                        !.key = k, !.late = s \in loggedOut]
    <3>2. new.at = FirstStep(kind) /\ new.kind = kind /\ new.session = s
      BY DEF NoRequest
    <3>3. new.late <=> s \in loggedOut
      BY DEF NoRequest
    <3>4. req'[r] = new /\ req[r].at = "idle" /\ UNCHANGED <<sessions, lapsed, tokens, loggedOut>>
      BY <3>1 DEF AuthTyped, Begin
    <3>5. \A q \in Requests : q # r => req'[q] = req[q]
      BY <3>1 DEF AuthTyped, Begin
    <3> HIDE DEF new
    <3>6. sessions[r].row = "none" /\ r \notin loggedOut
      BY <2>r, <3>4 DEF RequestInv, LogoutInv, Out
    <3>7. FirstStep(kind) \in {"find_user", "check_redis", "find_token", "bearer"}
      BY DEF FirstStep
    <3>8. FirstStep(kind) = "find_user" => kind = "login"
      BY DEF FirstStep
    <3>9. FirstStep(kind) \in {"check_redis", "find_token"} => kind \in {"refresh", "logout"}
      BY DEF FirstStep
    <3>10. kind \in {"refresh", "logout"} => Held(s)
      BY <3>1 DEF LogoutInv
    <3>11. Held(s) => Held(s)'
      BY <3>4 DEF Held
    <3>12. RequestInv(r)'
      BY <3>1, <3>2, <3>3, <3>4, <3>6, <3>7, <3>8, <3>9, <3>10, <3>11 DEF RequestInv
    <3>13. \A q \in Requests : RequestInv(q)'
      BY <1>l, <1>q, <3>4, <3>5, <3>12
    <3> QED BY <1>l, <3>4, <3>13 DEF LogoutInv, Lasting, Held, Out
  <2>2. CASE RequestFails(r)
    <3>1. CASE req[r].at \in {"find_key", "touch_key"}
      <4>1. ~(req[r].late /\ req[r].kind # "logout")
        BY <2>r, <3>1 DEF RequestInv
      <4>2. "project" \in Steps
        BY DEF Steps
      <4> QED BY <2>2, <1>m, <3>1, <4>1, <4>2 DEF RequestFails
    <3>2. CASE req[r].at \notin {"find_key", "touch_key"}
      <4>1. "error" \in Steps
        BY DEF Steps
      <4> QED BY <2>2, <1>m, <3>2, <4>1 DEF RequestFails
    <3> QED BY <3>1, <3>2
  <2>l. /\ req[r].at \notin {"check_redis", "find_token", "bearer", "error"} =>
             ~(req[r].late /\ req[r].kind # "logout")
        /\ req[r].late => req[r].session \in loggedOut /\ Out(req[r].session)
        /\ req[r].at \in {"check_redis", "find_token", "find_owner", "revoke", "mark"}
             => Held(req[r].session)
    BY <2>r DEF RequestInv, LogoutInv
  <2>3. ASSUME NEW v \in BOOLEAN, LoginFindUser(r, v) PROVE LogoutInv'
    <3>1. PICK to \in {"insert_session", "error"} : req' = [req EXCEPT ![r].at = to]
      BY <2>3 DEF LoginFindUser, Go
    <3>2. to \in Steps
      BY DEF Steps
    <3> QED BY <2>3, <2>l, <1>m, <3>1, <3>2 DEF LoginFindUser, Go
  <2>4. ASSUME NEW v \in BOOLEAN, RefreshCheckRedis(r, v) PROVE LogoutInv'
    <3>1. PICK to \in {"find_token", "error"} : req' = [req EXCEPT ![r].at = to]
      BY <2>4 DEF RefreshCheckRedis, Go
    <3>2. to \in Steps
      BY DEF Steps
    <3> QED BY <2>4, <2>l, <1>m, <3>1, <3>2 DEF RefreshCheckRedis, Go
  <2>5. CASE RefreshFindToken(r)
    <3>1. req[r].late => ~FindActiveRefreshToken(req[r].session)
      BY <2>l DEF Out, FindActiveRefreshToken
    <3>2. PICK to \in {"find_owner", "error"} :
             /\ req' = [req EXCEPT ![r].at = to]
             /\ req[r].late => to = "error"
      BY <2>5, <3>1 DEF RefreshFindToken, Go
    <3>3. to \in Steps
      BY DEF Steps
    <3> QED BY <2>5, <2>l, <1>m, <3>2, <3>3 DEF RefreshFindToken, Go
  <2>6. CASE Authenticate(r)
    <3>1. req[r].late => ~FindAuthenticatedUser(req[r].session)
      BY <2>l DEF Out, FindAuthenticatedUser
    <3>2. PICK to \in {"error", "find_key", "profile"} :
             /\ req' = [req EXCEPT ![r].at = to]
             /\ req[r].late => to = "error"
      BY <2>6, <3>1 DEF Authenticate, Go
    <3>3. to \in Steps
      BY DEF Steps
    <3> QED BY <2>6, <2>l, <1>m, <3>2, <3>3 DEF Authenticate, Go
  <2>7. CASE CreateKeyProfile(r)
    <3>1. PICK to \in {"insert_key", "error"} : req' = [req EXCEPT ![r].at = to]
      BY <2>7 DEF CreateKeyProfile, Go
    <3>2. to \in Steps
      BY DEF Steps
    <3> QED BY <2>7, <2>l, <1>m, <3>1, <3>2 DEF CreateKeyProfile, Go
  <2>8. CASE ChatFindKey(r)
    <3>1. PICK to \in {"touch_key", "project"} : req' = [req EXCEPT ![r].at = to]
      BY <2>8 DEF ChatFindKey
    <3>2. to \in Steps
      BY DEF Steps
    <3> QED BY <2>8, <2>l, <1>m, <3>1, <3>2 DEF ChatFindKey
  <2>9. ASSUME NEW offices, NEW all, CreateKeyInsert(r, offices, all) PROVE LogoutInv'
    <3>1. PICK to \in {"ok", "error"} : req' = [req EXCEPT ![r].at = to]
      BY <2>9 DEF CreateKeyInsert, Go
    <3>2. to \in Steps
      BY DEF Steps
    <3> QED BY <2>9, <2>l, <1>m, <3>1, <3>2 DEF CreateKeyInsert, Go
  <2>x. ASSUME req'[r].at \in {"project", "ok", "error"}, req'[r].session = req[r].session,
               req'[r].late = req[r].late, ~(req'[r].late /\ req'[r].kind # "logout"),
               \A q \in Requests : q # r => req'[q] = req[q],
               UNCHANGED <<sessions, lapsed, tokens, loggedOut>>
        PROVE  LogoutInv'
    <3>1. RequestInv(r)'
      BY <2>r, <2>x DEF RequestInv
    <3>2. \A q \in Requests : RequestInv(q)'
      BY <1>l, <1>q, <2>x, <3>1
    <3> QED BY <1>l, <2>x, <3>2 DEF LogoutInv, Lasting, Held, Out
  <2>10. CASE ChatTouchKey(r)
    <3> DEFINE S == IF keys[req[r].key].all THEN {} ELSE keys[req[r].key].offices
               y == [req[r] EXCEPT !.at = "project", !.read = TRUE, !.scope = S]
    <3>1. req' = [req EXCEPT ![r] = y]
      BY <2>10 DEF ChatTouchKey
    <3> HIDE DEF S
    <3>2. y.at = "project" /\ y.kind = req[r].kind /\ y.session = req[r].session /\ y.late = req[r].late
      BY <2>r DEF HttpRequest
    <3> HIDE DEF y
    <3>3. req'[r] = y /\ \A q \in Requests : q # r => req'[q] = req[q]
      BY <3>1 DEF AuthTyped
    <3> QED BY <2>10, <2>l, <2>x, <3>2, <3>3 DEF ChatTouchKey
  <2>11. CASE ProjectPrincipal(r)
    <3> DEFINE S == IntersectOfficeScope(req[r].scope, TenantOffices)
               at == IF S = {} THEN "error" ELSE "ok"
               y == [req[r] EXCEPT !.at = at, !.offices = S]
    <3>1. req' = [req EXCEPT ![r] = y] /\ at \in {"error", "ok"}
      BY <2>11 DEF ProjectPrincipal
    <3> HIDE DEF S, at
    <3>2. y.at = at /\ y.kind = req[r].kind /\ y.session = req[r].session /\ y.late = req[r].late
      BY <2>r DEF HttpRequest
    <3> HIDE DEF y
    <3>3. req'[r] = y /\ \A q \in Requests : q # r => req'[q] = req[q]
      BY <3>1 DEF AuthTyped
    <3> QED BY <2>11, <2>l, <2>x, <3>1, <3>2, <3>3 DEF ProjectPrincipal
  <2>g. ASSUME NEW to \in Steps, req' = [req EXCEPT ![r].at = to], Lasting,
               \A q \in Requests : q # r /\ sessions[q].row = "none" => sessions'[q].row = "none",
               loggedOut \subseteq loggedOut',
               \A s \in loggedOut' \ loggedOut : Out(s)',
               \A s \in (tokens'.refresh \ tokens.refresh) \union (tokens'.access \ tokens.access) : Held(s)',
               RequestInv(r)'
        PROVE  LogoutInv'
    <3>1. \A q \in Requests : q # r => req'[q] = req[q]
      BY <2>g DEF AuthTyped
    <3>2. \A q \in Requests : RequestInv(q)'
      BY <1>q, <2>g, <3>1
    <3>3. ASSUME NEW s \in loggedOut' PROVE Out(s)'
      BY <2>g DEF LogoutInv, Lasting, Out
    <3>4. ASSUME NEW s \in tokens'.refresh \union tokens'.access PROVE Held(s)'
      BY <2>g DEF LogoutInv, Lasting, Held
    <3> QED BY <3>2, <3>3, <3>4 DEF LogoutInv
  <2>h. ASSUME NEW to \in Steps, req' = [req EXCEPT ![r].at = to]
        PROVE  /\ req'[r].at = to /\ req'[r].session = req[r].session
               /\ req'[r].late = req[r].late /\ req'[r].kind = req[r].kind
    BY <2>h, Moved DEF AuthTyped
  <2>s. "insert_refresh_token" \in Steps /\ "touch_login" \in Steps /\ "ok" \in Steps
        /\ "error" \in Steps /\ "revoke" \in Steps /\ "mark" \in Steps
    BY DEF Steps
  <2>12. CASE LoginInsertSession(r)
    <3>1. /\ req' = [req EXCEPT ![r].at = "insert_refresh_token"] /\ req[r].at = "insert_session"
          /\ sessions' = [sessions EXCEPT ![r].row = "open"]
          /\ UNCHANGED <<lapsed, tokens, loggedOut>>
      BY <2>12 DEF LoginInsertSession, Go
    <3>2. sessions[r].row = "none"
      BY <2>r, <3>1 DEF RequestInv
    <3>3. \A s \in Sessions : s # r => sessions'[s] = sessions[s]
      BY <3>1 DEF AuthTyped
    <3>4. Lasting
      BY <3>1, <3>2, <3>3 DEF Lasting, Held, Out, LiveSession
    <3>5. sessions'[r].row = "open"
      BY <2>r, <3>1 DEF AuthTyped, SessionRow
    <3>a. /\ req'[r].at = "insert_refresh_token" /\ req'[r].session = req[r].session
          /\ req'[r].late = req[r].late /\ req'[r].kind = req[r].kind
      BY <2>h, <2>s, <3>1
    <3>6. RequestInv(r)'
      BY <2>l, <3>1, <3>5, <3>a DEF RequestInv
    <3> QED BY <2>g, <2>s, <1>r, <3>1, <3>3, <3>4, <3>6
  <2>13. CASE LoginInsertRefreshToken(r)
    <3>1. /\ req' = [req EXCEPT ![r].at = "touch_login"] /\ req[r].at = "insert_refresh_token"
          /\ sessions' = [sessions EXCEPT ![r].refresh = TRUE]
          /\ UNCHANGED <<lapsed, tokens, loggedOut>>
      BY <2>13 DEF LoginInsertRefreshToken, Go
    <3>2. \A s \in Sessions : sessions'[s].row = sessions[s].row
      BY <3>1 DEF AuthTyped, SessionRow
    <3>3. sessions'[r].refresh /\ \A s \in Sessions : s # r => sessions'[s] = sessions[s]
      BY <2>r, <3>1 DEF AuthTyped, SessionRow
    <3>4. Lasting
      BY <3>1, <3>2, <3>3 DEF Lasting, Held, Out, LiveSession
    <3>5. Held(r)'
      BY <2>r, <3>1, <3>2, <3>3 DEF RequestInv, Held
    <3>6. RequestInv(r)'
      BY <2>h, <2>s, <2>l, <2>r, <3>1, <3>5 DEF RequestInv
    <3> QED BY <2>g, <2>s, <1>r, <3>1, <3>2, <3>4, <3>6
  <2>14. CASE LoginAnswer(r)
    <3>1. /\ req' = [req EXCEPT ![r].at = "ok"] /\ req[r].at = "touch_login"
          /\ tokens'.refresh = tokens.refresh \union {r}
          /\ tokens'.access = tokens.access \union {r}
          /\ UNCHANGED <<sessions, lapsed, loggedOut>>
      BY <2>14 DEF LoginAnswer, Go
    <3>2. Held(r)'
      BY <2>r, <3>1 DEF RequestInv, Held
    <3>a. /\ req'[r].at = "ok" /\ req'[r].session = req[r].session
          /\ req'[r].late = req[r].late /\ req'[r].kind = req[r].kind
      BY <2>h, <2>s, <3>1
    <3>3. RequestInv(r)'
      BY <2>l, <3>1, <3>a DEF RequestInv
    <3> QED BY <1>l, <2>g, <2>s, <3>1, <3>2, <3>3
  <2>15. CASE RefreshAnswer(r)
    <3>1. PICK to \in {"ok", "error"} : req' = [req EXCEPT ![r].at = to]
      BY <2>15 DEF RefreshAnswer, Go
    <3>2. /\ req[r].at = "find_owner" /\ UNCHANGED <<sessions, lapsed, loggedOut>>
          /\ tokens'.refresh = tokens.refresh
          /\ tokens'.access \subseteq tokens.access \union {req[r].session}
      BY <2>15 DEF RefreshAnswer, Go, AuthTyped
    <3>3. Held(req[r].session)'
      BY <2>h, <2>s, <2>l, <2>r, <3>1, <3>2 DEF Held
    <3>4. RequestInv(r)'
      BY <2>h, <2>s, <2>l, <2>r, <3>1, <3>2, <3>3 DEF RequestInv, Held
    <3>5. \A s \in tokens'.access \ tokens.access : Held(s)'
      BY <2>l, <3>2 DEF Held
    <3> QED BY <1>l, <2>g, <2>s, <3>1, <3>2, <3>4, <3>5
  <2>16. CASE LogoutFindToken(r)
    <3>1. PICK to \in {"revoke", "ok"} : req' = [req EXCEPT ![r].at = to]
      BY <2>16 DEF LogoutFindToken, Go
    <3>2. /\ req[r].at = "find_token" /\ UNCHANGED <<sessions, lapsed, tokens>>
          /\ req[r].kind = "logout" /\ loggedOut \subseteq loggedOut'
          /\ loggedOut' \subseteq loggedOut \union {req[r].session}
          /\ FindActiveRefreshToken(req[r].session) => loggedOut' = loggedOut
      BY <2>16 DEF LogoutFindToken, Go
    <3>3. ~FindActiveRefreshToken(req[r].session) => Out(req[r].session)
      BY <2>l, <3>2 DEF FindActiveRefreshToken, Held, Out
    <3>4. \A s \in loggedOut' \ loggedOut : Out(s)'
      BY <3>2, <3>3 DEF Out, LiveSession
    <3>5. Held(req[r].session) /\ Held(req[r].session)'
      BY <2>h, <2>l, <2>s, <3>1, <3>2 DEF Held
    <3>6. RequestInv(r)'
      BY <2>h, <2>s, <2>l, <2>r, <3>1, <3>2, <3>5 DEF RequestInv, Held
    <3> QED BY <1>l, <2>g, <2>s, <3>1, <3>2, <3>4, <3>6
  <2>17. CASE LogoutRevoke(r)
    <3> DEFINE o == req[r].session
    <3>1. /\ req' = [req EXCEPT ![r].at = "mark"] /\ req[r].at = "revoke"
          /\ sessions' = [sessions EXCEPT ![o].row = "revoked"]
          /\ UNCHANGED <<lapsed, tokens, loggedOut>>
      BY <2>17 DEF LogoutRevoke, Go
    <3>2. Held(o) /\ o \in Sessions /\ sessions[o].row # "none"
      BY <2>l, <3>1 DEF Held
    <3> HIDE DEF o
    <3>3. /\ \A s \in Sessions : s # o => sessions'[s] = sessions[s]
          /\ sessions'[o].row = "revoked" /\ sessions'[o].refresh = sessions[o].refresh
      BY <3>1, <3>2 DEF AuthTyped, SessionRow
    <3>4. Lasting
      BY <3>1, <3>2, <3>3 DEF Lasting, Held, Out, LiveSession
    <3>a. /\ req'[r].at = "mark" /\ req'[r].session = req[r].session
          /\ req'[r].late = req[r].late /\ req'[r].kind = req[r].kind
      BY <2>h, <2>s, <3>1
    <3>5. Held(req[r].session)'
      BY <3>2, <3>3, <3>a DEF Held, o
    <3>6. RequestInv(r)'
      BY <2>l, <3>1, <3>3, <3>5, <3>a DEF RequestInv, o
    <3>7. \A q \in Requests : sessions[q].row = "none" => sessions'[q].row = "none"
      BY <1>r, <3>2, <3>3
    <3> QED BY <2>g, <2>s, <3>1, <3>4, <3>6, <3>7
  <2>18. ASSUME NEW v \in BOOLEAN, LogoutAnswer(r, v) PROVE LogoutInv'
    <3>1. /\ req' = [req EXCEPT ![r].at = "ok"] /\ req[r].at = "mark"
          /\ loggedOut' = loggedOut \union {req[r].session}
          /\ UNCHANGED <<sessions, lapsed, tokens>>
      BY <2>18 DEF LogoutAnswer, Go
    <3>2. Out(req[r].session)
      BY <2>l, <2>r, <3>1 DEF RequestInv, Out, Held, LiveSession
    <3>3. \A s \in loggedOut' \ loggedOut : Out(s)'
      BY <3>1, <3>2 DEF Out, LiveSession
    <3>a. /\ req'[r].at = "ok" /\ req'[r].session = req[r].session
          /\ req'[r].late = req[r].late /\ req'[r].kind = req[r].kind
      BY <2>h, <2>s, <3>1
    <3>4. RequestInv(r)'
      BY <2>l, <3>1, <3>a DEF RequestInv
    <3> QED BY <1>l, <2>g, <2>s, <3>1, <3>3, <3>4
  <2> QED
    BY <1>1, <2>1, <2>2, <2>3, <2>4, <2>5, <2>6, <2>7, <2>8, <2>9, <2>10, <2>11, <2>12, <2>13,
       <2>14, <2>15, <2>16, <2>17, <2>18 DEF Step
<1>2. ASSUME NEW s \in Sessions, Lapse(s) PROVE LogoutInv'
  <2>1. UNCHANGED <<sessions, tokens, loggedOut, req>> /\ lapsed \subseteq lapsed'
    BY <1>2 DEF Lapse
  <2>2. Lasting
    BY <2>1 DEF Lasting, Held, Out, LiveSession
  <2> QED BY <1>q, <1>r, <2>1, <2>2 DEF LogoutInv, Lasting, Held, Out
<1> QED
  BY <1>0, <1>1, <1>2 DEF AuthNext, authVars, BootstrapFind, BootstrapInsert, BootstrapCount,
     BootstrapKey, BootstrapFails, Restart, RetireKey, Deactivate

-----------------------------------------------------------------------------
(* The theorems *)

AuthInv == AuthTyped /\ BootInv /\ LogoutInv /\ KeysInv

\* The invariants hold in both initial states: a new database and one in use.
LEMMA InitAuthInv == AuthInit => AuthInv
<1> SUFFICES ASSUME AuthInit PROVE AuthInv
  OBVIOUS
<1>a. NoKey \notin Requests /\ Established \notin Requests /\ Established \in Sessions
  BY AuthAssumption DEF NoKey, Established, Sessions
<1>n. NoRequest \in HttpRequest /\ NoRequest.at = "idle" /\ NoRequest.key = NoKey
      /\ ~NoRequest.read /\ ~NoRequest.late
  BY DEF NoRequest, HttpRequest, Kinds, Steps
<1>b. /\ lapsed = {} /\ marks = {} /\ loggedOut = {} /\ DOMAIN keys = {}
      /\ \A r \in Requests : req[r] = NoRequest
      /\ req \in [Requests -> HttpRequest]
  BY <1>n DEF AuthInit
<1>c. PICK used \in BOOLEAN :
        /\ boot     = [b \in Replicas |-> IF used THEN "up" ELSE "start"]
        /\ account  = [row |-> used, active |-> used, defaultKeys |-> IF used THEN 1 ELSE 0]
        /\ sessions = [s \in Sessions |->
                          IF used /\ s = Established THEN [row |-> "open", refresh |-> TRUE]
                                                     ELSE [row |-> "none", refresh |-> FALSE]]
        /\ tokens   = LET held == IF used THEN {Established} ELSE {}
                      IN [refresh |-> held, access |-> held]
  BY DEF AuthInit
<1>1. AuthTyped
  <2>1. boot \in [Replicas -> BootSteps]
    BY <1>c DEF BootSteps
  <2>2. account \in [row : BOOLEAN, active : BOOLEAN, defaultKeys : Nat]
    BY <1>c
  <2>3. sessions \in [Sessions -> SessionRow]
    BY <1>c DEF SessionRow
  <2>4. tokens \in [refresh : SUBSET Sessions, access : SUBSET Sessions]
    BY <1>a, <1>c
  <2> QED BY <1>b, <2>1, <2>2, <2>3, <2>4 DEF AuthTyped
<1>2. BootInv
  BY <1>c DEF BootInv, Seeding
<1>3. LogoutInv
  <2>1. \A r \in Requests : sessions[r].row = "none"
    BY <1>a, <1>c DEF Sessions
  <2>2. \A s \in tokens.refresh \union tokens.access : Held(s)
    BY <1>a, <1>c DEF Held
  <2> QED BY <1>b, <1>n, <2>1, <2>2 DEF LogoutInv, RequestInv
<1>4. KeysInv
  BY <1>b, <1>n DEF KeysInv, KeyInv
<1> QED BY <1>1, <1>2, <1>3, <1>4 DEF AuthInv

\* The invariant holds in every behaviour.
LEMMA AuthInvariant == AuthSpec => []AuthInv
<1>1. AuthInv /\ [AuthNext]_authVars => AuthInv'
  BY NextAuthTyped, NextBootInv, NextLogoutInv, NextKeysInv DEF AuthInv
<1> QED BY <1>1, InitAuthInv, PTL DEF AuthSpec

\* Every variable of the authentication has its type.
THEOREM AuthTypeCorrect == AuthSpec => []AuthTypeOK
<1>1. AuthInv => AuthTypeOK
  <2>1. Cardinality(Replicas) \in Nat /\ Cardinality(Replicas) # 0
    BY AuthAssumption, FS_CardinalityType, FS_EmptySet
  <2>2. ASSUME AuthInv PROVE account.defaultKeys \in 0..Cardinality(Replicas)
    BY <2>1, <2>2 DEF AuthInv, AuthTyped, BootInv
  <2>3. ASSUME AuthInv
        PROVE account \in [row : BOOLEAN, active : BOOLEAN, defaultKeys : 0..Cardinality(Replicas)]
    BY <2>2, <2>3 DEF AuthInv, AuthTyped
  <2> QED BY <2>3 DEF AuthInv, AuthTyped, AuthTypeOK
<1> QED BY <1>1, AuthInvariant, PTL

\* Replicas that start together, crash and start again make one default key.
THEOREM OneKey == AuthSpec => []OneDefaultKey
<1>1. AuthInv => OneDefaultKey
  BY DEF AuthInv, BootInv, OneDefaultKey
<1> QED BY <1>1, AuthInvariant, PTL

\* No request that begins after a logout was answered is let in on that
\* session, whatever refreshes and logouts race and whether Redis answers.
THEOREM LoggedOutForGood == AuthSpec => []LoggedOutStaysOut
<1>1. AuthInv => LoggedOutStaysOut
  BY DEF AuthInv, LogoutInv, RequestInv, LoggedOutStaysOut
<1> QED BY <1>1, AuthInvariant, PTL

\* A chat request that has read a restricted key acts on no other office.
THEOREM KeyRestricts == AuthSpec => []RestrictedKeyRestricts
<1>1. AuthInv => RestrictedKeyRestricts
  <2> SUFFICES ASSUME AuthInv, NEW r \in Requests, req[r].read, req[r].at = "ok",
                      ~keys[req[r].key].all
               PROVE  req[r].offices \subseteq keys[req[r].key].offices
    BY DEF RestrictedKeyRestricts
  <2>1. /\ req[r].key \in DOMAIN keys
        /\ req[r].scope = keys[req[r].key].offices
        /\ req[r].offices = IntersectOfficeScope(req[r].scope, TenantOffices)
    BY DEF AuthInv, KeysInv, KeyInv, Scope
  <2>2. req[r].scope # {}
    BY <2>1 DEF AuthInv, KeysInv
  <2> QED BY <2>1, <2>2 DEF IntersectOfficeScope
<1> QED BY <1>1, AuthInvariant, PTL
====
