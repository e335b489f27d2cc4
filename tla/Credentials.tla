---------------------------- MODULE Credentials ----------------------------
(***************************************************************************)
(* Who a request is from: the middleware of internal/auth, the session and *)
(* token endpoints of internal/api (login, refresh, logout, PATs,          *)
(* capability tokens, anonymous tokens) and the creation and deletion of   *)
(* users, as concurrent handlers over the tables they share.               *)
(*                                                                         *)
(* One action is one SQL statement or one commit.  Tokens are random and   *)
(* only their hashes are stored, so a credential is identified with the    *)
(* request that issued it, and a client can present one only after that    *)
(* request was answered.  Permission checks (authz.Check) read none of     *)
(* these tables but users; they are the free choice to answer "forbidden". *)
(***************************************************************************)
EXTENDS Naturals, FiniteSets

CONSTANTS
    Requests,     \* the HTTP requests a behaviour may serve
    UserNames,    \* values of users.name
    Passwords,    \* what is typed at /auth/login and /admin/user
    None,         \* no token, or SQL NULL
    InitialUsers, \* the users table a behaviour starts from
    Bodies,       \* what clients ask for
    MaxInFlight,  \* bound: how many requests may overlap (1 = serial clients)
    MaxFaults     \* bound: failed statements and crashes

Ops == {"idle", "login", "anon", "refresh", "logout", "issuePAT", "revokePAT",
        "issueCap", "revokeCap", "createUser", "deleteUser", "access"}

\* bearer: the Authorization header; target: the refresh token, or the id in
\* the path of a revocation; expires: whether a PAT is given an expiry.
Body == [op : Ops, bearer : Requests \cup {None}, target : Requests \cup {None},
         user : UserNames \cup {None}, pass : Passwords \cup {None},
         expires : BOOLEAN]

UserRow == [id : Nat, name : UserNames, pass : Passwords]

ASSUME CredAssumption ==
    /\ None \notin Requests
    /\ InitialUsers \subseteq UserRow
    /\ IsFiniteSet(InitialUsers)
    /\ \A u \in InitialUsers : u.id \in 1 .. Cardinality(InitialUsers)
    /\ Bodies \subseteq Body
    /\ \A b \in Bodies : b.op # "idle"
    /\ \A b \in Bodies : b.op = "createUser" => (b.user # None /\ b.pass # None)
    /\ MaxInFlight \in Nat
    /\ MaxFaults \in Nat

VARIABLES
    users,     \* rows of table users
    userSeq,   \* last id its sequence gave out
    sessions,  \* rows of table sessions
    pats,      \* rows of table pats
    caps,      \* rows of table capability_tokens
    expired,   \* credentials whose expiry has passed
    audit,     \* the requests that have a row in audit_logs
    faults,    \* number of faults so far
    pc,        \* pc[w]: the statement the handler of w runs next
    body,      \* body[w]: the request
    loc,       \* loc[w]: the user its context or its last lookup names, and
               \*         the outcome it will answer once it is audited
    status,    \* status[w]: its response
    before     \* history: the requests answered "ok" when w began

tables == <<users, userSeq, sessions, pats, caps, expired>>
vars == <<tables, audit, faults, pc, body, loc, status, before>>

SessionRow == [id : Requests, uid : Nat, refreshable : BOOLEAN]
PATRow == [id : Requests, uid : Nat, expires : BOOLEAN]
\* uid 0 is the NULL issuer of an anonymous token.
CapRow == [id : Requests, uid : Nat]

Statuses == {"none", "ok", "unauthorized", "forbidden", "notFound", "unavailable", "error"}

Labels == {"new", "done", "audit", "mw.cred", "mw.user",
           "login.user", "session.insert", "refresh.find", "refresh.user",
           "refresh.delete", "logout.find", "logout.update", "pat.insert",
           "patr.find", "patr.delete", "cap.check", "cap.insert", "capr.find",
           "capr.delete", "anon.list", "anon.insert", "user.check",
           "user.insert", "del.check", "del.find", "del.exec", "access"}

Locals == [uid : Nat, victim : Nat, outcome : Statuses]

TypeOK ==
    /\ users \subseteq UserRow
    /\ userSeq \in Nat
    /\ sessions \subseteq SessionRow
    /\ pats \subseteq PATRow
    /\ caps \subseteq CapRow
    /\ expired \subseteq Requests
    /\ audit \subseteq Requests
    /\ faults \in Nat
    /\ pc \in [Requests -> Labels]
    /\ body \in [Requests -> Body]
    /\ loc \in [Requests -> Locals]
    /\ status \in [Requests -> Statuses]
    /\ before \in [Requests -> SUBSET Requests]

-----------------------------------------------------------------------------
(* Queries and control. *)

UserExists(id) == \E u \in users : u.id = id

\* GetUser: First, the lowest id among the rows of that name.
IsFirstUser(u, name) ==
    u \in users /\ u.name = name /\ \A x \in users : x.name = name => u.id <= x.id

\* What the prefix of the token that request t was answered with says it is.
KindOf(t) ==
    CASE body[t].op \in {"login", "refresh"} -> "session"
      [] body[t].op = "issuePAT"             -> "pat"
      [] body[t].op \in {"issueCap", "anon"} -> "cap"
      [] OTHER                               -> "none"

\* A client has the tokens it was sent, and no others.
Holds(t) == t # None => (status[t] = "ok" /\ KindOf(t) # "none")

InFlight(w) == pc[w] \notin {"new", "done"}

Goto(w, label) == pc' = [pc EXCEPT ![w] = label]

Respond(w, s) ==
    /\ Goto(w, "done")
    /\ status' = [status EXCEPT ![w] = s]

\* Answer outcome once the audit row is written.
Conclude(w, outcome) ==
    /\ loc' = [loc EXCEPT ![w].outcome = outcome]
    /\ Goto(w, "audit")
    /\ UNCHANGED status

\* Paths the middleware lets through without a token: public always, and the
\* resource API (here "access") when no token is presented.
PassesWithoutToken(b) == b.op \in {"login", "anon"} \/ (b.op = "access" /\ b.bearer = None)

\* What a handler itself asks of the context the middleware filled in.
ContextRefusal(op, kind) ==
    CASE op \in {"issuePAT", "revokePAT", "issueCap", "revokeCap"} /\ kind = "cap" -> "unauthorized"
      [] op = "logout" /\ kind # "session" -> "unauthorized"
      [] op \in {"createUser", "deleteUser"} /\ kind # "session" -> "forbidden"
      [] OTHER -> "none"

FirstLabel(op) ==
    CASE op = "login"      -> "login.user"
      [] op = "anon"       -> "anon.list"
      [] op = "refresh"    -> "refresh.find"
      [] op = "logout"     -> "logout.find"
      [] op = "issuePAT"   -> "pat.insert"
      [] op = "revokePAT"  -> "patr.find"
      [] op = "issueCap"   -> "cap.check"
      [] op = "revokeCap"  -> "capr.find"
      [] op = "createUser" -> "user.check"
      [] op = "deleteUser" -> "del.check"
      [] OTHER             -> "access"

Idle == [op |-> "idle", bearer |-> None, target |-> None, user |-> None,
         pass |-> None, expires |-> FALSE]

\* Users that were created earlier, nobody logged in.
Init ==
    /\ users = InitialUsers
    /\ userSeq = Cardinality(InitialUsers)
    /\ sessions = {} /\ pats = {} /\ caps = {} /\ expired = {}
    /\ audit = {}
    /\ faults = 0
    /\ pc = [w \in Requests |-> "new"]
    /\ body = [w \in Requests |-> Idle]
    /\ loc = [w \in Requests |-> [uid |-> 0, victim |-> 0, outcome |-> "none"]]
    /\ status = [w \in Requests |-> "none"]
    /\ before = [w \in Requests |-> {}]

-----------------------------------------------------------------------------
(* AuthMiddleware. *)

Arrive(w) ==
    /\ pc[w] = "new"
    /\ Cardinality({u \in Requests : InFlight(u)}) < MaxInFlight
    /\ \E b \in Bodies :
         /\ Holds(b.bearer)
         /\ b.op = "refresh" => (Holds(b.target) /\ KindOf(b.target) = "session")
         /\ body' = [body EXCEPT ![w] = b]
         /\ \/ PassesWithoutToken(b) /\ Goto(w, FirstLabel(b.op)) /\ UNCHANGED status
            \/ /\ ~PassesWithoutToken(b) /\ b.bearer # None
               /\ Goto(w, "mw.cred") /\ UNCHANGED status
            \/ ~PassesWithoutToken(b) /\ b.bearer = None /\ Respond(w, "unauthorized")
    /\ before' = [before EXCEPT ![w] = {u \in Requests : status[u] = "ok"}]
    /\ UNCHANGED <<tables, audit, faults, loc>>

\* Mutation: the expiry is not compared.
LiveCredEver(t) ==
    CASE KindOf(t) = "session" -> {r \in sessions : r.id = t}
      [] KindOf(t) = "pat"     -> {r \in pats : r.id = t}
      [] OTHER                 -> {r \in caps : r.id = t}

\* The row that resolveSession, resolvePAT or resolveCapabilityToken accepts.
LiveCred(t) ==
    CASE KindOf(t) = "session" -> {r \in sessions : r.id = t /\ t \notin expired}
      [] KindOf(t) = "pat"     -> {r \in pats : r.id = t /\ t \notin expired}
      [] OTHER                 -> {r \in caps : r.id = t /\ t \notin expired}

\* The context is complete: run the handler, or let it refuse the context.
EnterHandler(w) ==
    LET refusal == ContextRefusal(body[w].op, KindOf(body[w].bearer))
    IN IF refusal = "none"
       THEN Goto(w, FirstLabel(body[w].op)) /\ UNCHANGED status
       ELSE Respond(w, refusal)

MwCredential(w) ==
    /\ pc[w] = "mw.cred"
    /\ \/ \E r \in LiveCred(body[w].bearer) :
            /\ KindOf(body[w].bearer) # "cap"
            /\ loc' = [loc EXCEPT ![w].uid = r.uid]
            /\ Goto(w, "mw.user")
            /\ UNCHANGED status
       \/ /\ LiveCred(body[w].bearer) # {} /\ KindOf(body[w].bearer) = "cap"
          /\ EnterHandler(w)
          /\ UNCHANGED loc
       \/ /\ LiveCred(body[w].bearer) = {}
          /\ Respond(w, "unauthorized")
          /\ UNCHANGED loc
    /\ UNCHANGED <<tables, audit, faults, body, before>>

MwUser(w) ==
    /\ pc[w] = "mw.user"
    /\ \/ UserExists(loc[w].uid) /\ EnterHandler(w)
       \/ ~UserExists(loc[w].uid) /\ Respond(w, "unauthorized")
    /\ UNCHANGED <<tables, audit, faults, body, loc, before>>

\* Any other endpoint: it is served, as whoever the context says.
Access(w) ==
    /\ pc[w] = "access"
    /\ Respond(w, "ok")
    /\ UNCHANGED <<tables, audit, faults, body, loc, before>>

-----------------------------------------------------------------------------
(* /auth/login, /auth/refresh, /auth/logout. *)

LoginUser(w) ==
    /\ pc[w] = "login.user"
    /\ \/ \E u \in users :
            /\ IsFirstUser(u, body[w].user) /\ u.pass = body[w].pass
            /\ loc' = [loc EXCEPT ![w].uid = u.id]
            /\ Goto(w, "session.insert")
            /\ UNCHANGED status
       \/ /\ ~\E u \in users : IsFirstUser(u, body[w].user) /\ u.pass = body[w].pass
          /\ Conclude(w, "unauthorized")
    /\ UNCHANGED <<tables, audit, faults, body, before>>

\* NewSession.  The foreign key refuses a user that is gone by now; Login
\* audits that as a denial, Refresh answers at once.
NewSession(w) ==
    /\ pc[w] = "session.insert"
    /\ \/ /\ UserExists(loc[w].uid)
          /\ sessions' = sessions \cup {[id |-> w, uid |-> loc[w].uid, refreshable |-> TRUE]}
          /\ \/ body[w].op = "login" /\ Conclude(w, "ok")
             \/ body[w].op = "refresh" /\ Goto(w, "refresh.delete") /\ UNCHANGED <<loc, status>>
       \/ /\ ~UserExists(loc[w].uid)
          /\ \/ body[w].op = "login" /\ Conclude(w, "unauthorized")
             \/ body[w].op = "refresh" /\ Respond(w, "unauthorized") /\ UNCHANGED loc
          /\ UNCHANGED sessions
    /\ UNCHANGED <<users, userSeq, pats, caps, expired, audit, faults, body, before>>

\* Mutation: the row is found by the session it belongs to, not by the hash
\* that Logout clears, and its expiry is not compared.
RefreshableEver(t) == {s \in sessions : s.id = t}

Refreshable(t) == {s \in sessions : s.id = t /\ s.refreshable /\ t \notin expired}

RefreshFind(w) ==
    /\ pc[w] = "refresh.find"
    /\ \/ \E s \in Refreshable(body[w].target) :
            /\ loc' = [loc EXCEPT ![w].uid = s.uid]
            /\ Goto(w, "refresh.user")
            /\ UNCHANGED status
       \/ /\ Refreshable(body[w].target) = {}
          /\ Respond(w, "unauthorized")
          /\ UNCHANGED loc
    /\ UNCHANGED <<tables, audit, faults, body, before>>

RefreshUser(w) ==
    /\ pc[w] = "refresh.user"
    /\ \/ UserExists(loc[w].uid) /\ Goto(w, "session.insert") /\ UNCHANGED status
       \/ ~UserExists(loc[w].uid) /\ Respond(w, "unauthorized")
    /\ UNCHANGED <<tables, audit, faults, body, loc, before>>

\* Mutation: the DELETE matches no row.
WithoutNothing(rows, t) == rows

\* DELETE ... WHERE id.
Without(rows, t) == {r \in rows : r.id # t}

\* The old session goes after the new one is in the table.
RefreshDelete(w) ==
    /\ pc[w] = "refresh.delete"
    /\ sessions' = Without(sessions, body[w].target)
    /\ Conclude(w, "ok")
    /\ UNCHANGED <<users, userSeq, pats, caps, expired, audit, faults, body, before>>

\* Logout looks the session up again, and does not compare its expiry.
LogoutFind(w) ==
    /\ pc[w] = "logout.find"
    /\ \/ (\E s \in sessions : s.id = body[w].bearer)
          /\ Goto(w, "logout.update") /\ UNCHANGED status
       \/ (\A s \in sessions : s.id # body[w].bearer) /\ Respond(w, "unauthorized")
    /\ UNCHANGED <<tables, audit, faults, body, loc, before>>

\* InvalidateSession: UPDATE ... WHERE id, no error when the row is gone.
LogoutUpdate(w) ==
    /\ pc[w] = "logout.update"
    /\ sessions' = {IF s.id = body[w].bearer THEN [s EXCEPT !.refreshable = FALSE] ELSE s :
                       s \in sessions}
    /\ expired' = expired \cup {body[w].bearer}
    /\ Conclude(w, "ok")
    /\ UNCHANGED <<users, userSeq, pats, caps, audit, faults, body, before>>

-----------------------------------------------------------------------------
(* Personal access tokens, capability tokens, anonymous tokens. *)

IssuePAT(w) ==
    /\ pc[w] = "pat.insert"
    /\ \/ /\ UserExists(loc[w].uid)
          /\ pats' = pats \cup {[id |-> w, uid |-> loc[w].uid, expires |-> body[w].expires]}
          /\ Conclude(w, "ok")
       \/ /\ ~UserExists(loc[w].uid)
          /\ Respond(w, "error")
          /\ UNCHANGED <<pats, loc>>
    /\ UNCHANGED <<users, userSeq, sessions, caps, expired, audit, faults, body, before>>

\* Mutation: the owner of the row is not compared.
MayRevokeAny(w, rows) == {r \in rows : r.id = body[w].target}

\* The rows the caller may revoke by the id in the path.
MayRevoke(w, rows) == {r \in rows : r.id = body[w].target /\ r.uid = loc[w].uid}

\* The lookup and the check of ownership that both revocations start with.
RevokeFind(w, rows, label) ==
    /\ \/ MayRevoke(w, rows) # {} /\ Goto(w, label) /\ UNCHANGED status
       \/ /\ MayRevoke(w, rows) = {}
          /\ Respond(w, IF \E r \in rows : r.id = body[w].target
                        THEN "unauthorized" ELSE "notFound")
    /\ UNCHANGED <<tables, audit, faults, body, loc, before>>

RevokePATFind(w) == pc[w] = "patr.find" /\ RevokeFind(w, pats, "patr.delete")

RevokePATDelete(w) ==
    /\ pc[w] = "patr.delete"
    /\ pats' = Without(pats, body[w].target)
    /\ Conclude(w, "ok")
    /\ UNCHANGED <<users, userSeq, sessions, caps, expired, audit, faults, body, before>>

\* Every entry asked for is checked against the caller's own permissions.
IssueCapCheck(w) ==
    /\ pc[w] = "cap.check"
    /\ \/ Goto(w, "cap.insert") /\ UNCHANGED status
       \/ Respond(w, "unauthorized")
    /\ UNCHANGED <<tables, audit, faults, body, loc, before>>

\* One transaction: the token, its permissions and their join rows.
IssueCapInsert(w) ==
    /\ pc[w] = "cap.insert"
    /\ \/ /\ UserExists(loc[w].uid)
          /\ caps' = caps \cup {[id |-> w, uid |-> loc[w].uid]}
          /\ Conclude(w, "ok")
       \/ /\ ~UserExists(loc[w].uid)
          /\ Respond(w, "error")
          /\ UNCHANGED <<caps, loc>>
    /\ UNCHANGED <<users, userSeq, sessions, pats, expired, audit, faults, body, before>>

RevokeCapFind(w) == pc[w] = "capr.find" /\ RevokeFind(w, caps, "capr.delete")

RevokeCapDelete(w) ==
    /\ pc[w] = "capr.delete"
    /\ caps' = Without(caps, body[w].target)
    /\ Conclude(w, "ok")
    /\ UNCHANGED <<users, userSeq, sessions, pats, expired, audit, faults, body, before>>

\* 503 when no anonymous permissions are configured.
AnonList(w) ==
    /\ pc[w] = "anon.list"
    /\ \/ Goto(w, "anon.insert") /\ UNCHANGED status
       \/ Respond(w, "unavailable")
    /\ UNCHANGED <<tables, audit, faults, body, loc, before>>

AnonInsert(w) ==
    /\ pc[w] = "anon.insert"
    /\ caps' = caps \cup {[id |-> w, uid |-> 0]}
    /\ Conclude(w, "ok")
    /\ UNCHANGED <<users, userSeq, sessions, pats, expired, audit, faults, body, before>>

-----------------------------------------------------------------------------
(* POST /admin/user, DELETE /admin/user/{name}. *)

\* requireMetaUser: the permission the handler asks for first.
RequireMeta(w) ==
    /\ \/ pc[w] = "user.check" /\ Goto(w, "user.insert") /\ UNCHANGED status
       \/ pc[w] = "del.check" /\ Goto(w, "del.find") /\ UNCHANGED status
       \/ pc[w] \in {"user.check", "del.check"} /\ Respond(w, "forbidden")
    /\ UNCHANGED <<tables, audit, faults, body, loc, before>>

\* Mutation: the hash is computed and not assigned.
CreateUserWithoutPass(w) ==
    /\ pc[w] = "user.insert"
    /\ users' = users \cup {[id |-> userSeq + 1, name |-> body[w].user, pass |-> None]}
    /\ userSeq' = userSeq + 1
    /\ Conclude(w, "ok")
    /\ UNCHANGED <<sessions, pats, caps, expired, audit, faults, body, before>>

\* The table has no unique constraint on name, and the handler looks for none.
CreateUser(w) ==
    /\ pc[w] = "user.insert"
    /\ users' = users \cup {[id |-> userSeq + 1, name |-> body[w].user, pass |-> body[w].pass]}
    /\ userSeq' = userSeq + 1
    /\ Conclude(w, "ok")
    /\ UNCHANGED <<sessions, pats, caps, expired, audit, faults, body, before>>

DeleteUserFind(w) ==
    /\ pc[w] = "del.find"
    /\ \/ \E u \in users :
            /\ IsFirstUser(u, body[w].user)
            /\ loc' = [loc EXCEPT ![w].victim = u.id]
            /\ Goto(w, "del.exec")
            /\ UNCHANGED status
       \/ /\ \A u \in users : u.name # body[w].user
          /\ Respond(w, "error")
          /\ UNCHANGED loc
    /\ UNCHANGED <<tables, audit, faults, body, before>>

\* Mutation: the rows of the associations are not selected.
OwnedByOthersForgotten(rows, uid) == rows

OwnedByOthers(rows, uid) == {r \in rows : r.uid # uid}

\* One commit: the user and, by association or cascade, its credentials.
DeleteUserExec(w) ==
    /\ pc[w] = "del.exec"
    /\ users' = {u \in users : u.id # loc[w].victim}
    /\ sessions' = OwnedByOthers(sessions, loc[w].victim)
    /\ pats' = OwnedByOthers(pats, loc[w].victim)
    /\ caps' = OwnedByOthers(caps, loc[w].victim)
    /\ Conclude(w, "ok")
    /\ UNCHANGED <<userSeq, expired, audit, faults, body, before>>

-----------------------------------------------------------------------------
(* The common tail, time, faults, and the specification. *)

WriteAudit(w) ==
    /\ pc[w] = "audit"
    /\ audit' = audit \cup {w}
    /\ Respond(w, loc[w].outcome)
    /\ UNCHANGED <<tables, faults, body, loc, before>>

\* WriteAudit only logs a failed insert; the handler answers as if it had not.
WriteAuditFails(w) ==
    /\ pc[w] = "audit"
    /\ faults < MaxFaults
    /\ faults' = faults + 1
    /\ Respond(w, loc[w].outcome)
    /\ UNCHANGED <<tables, audit, body, loc, before>>

\* Time passes the expires_at of a session or an anonymous token, or the
\* expiry of a PAT that has one.
Expire(t) ==
    /\ t \notin expired
    /\ \/ \E s \in sessions : s.id = t
       \/ \E p \in pats : p.id = t /\ p.expires
       \/ \E c \in caps : c.id = t /\ c.uid = 0
    /\ expired' = expired \cup {t}
    /\ UNCHANGED <<users, userSeq, sessions, pats, caps, audit, faults, pc, body, loc,
                   status, before>>

\* A statement fails (500, or 401 where the code takes every error for a bad
\* credential), or the process dies and the connection with it.  What earlier
\* statements committed stays.
Fail(w) ==
    /\ InFlight(w)
    /\ faults < MaxFaults
    /\ faults' = faults + 1
    /\ Respond(w, "error")
    /\ UNCHANGED <<tables, audit, body, loc, before>>

Step(w) ==
    \/ MwCredential(w) \/ MwUser(w) \/ Access(w)
    \/ LoginUser(w) \/ NewSession(w)
    \/ RefreshFind(w) \/ RefreshUser(w) \/ RefreshDelete(w)
    \/ LogoutFind(w) \/ LogoutUpdate(w)
    \/ IssuePAT(w) \/ RevokePATFind(w) \/ RevokePATDelete(w)
    \/ IssueCapCheck(w) \/ IssueCapInsert(w) \/ RevokeCapFind(w) \/ RevokeCapDelete(w)
    \/ AnonList(w) \/ AnonInsert(w)
    \/ RequireMeta(w) \/ CreateUser(w) \/ DeleteUserFind(w) \/ DeleteUserExec(w)
    \/ WriteAudit(w)

\* Every request sent has been answered: the clients may stop.
Terminated ==
    /\ \A w \in Requests : ~InFlight(w)
    /\ UNCHANGED vars

Next ==
    \/ \E w \in Requests :
         \/ Arrive(w) \/ Step(w) \/ Expire(w)
         \/ WriteAuditFails(w) \/ Fail(w)
    \/ Terminated

Spec == Init /\ [][Next]_vars

-----------------------------------------------------------------------------
(* What holds however the requests interleave and whatever fails. *)

\* Every credential belongs to a user that exists, although a user may be
\* deleted between the lookup of a handler and its insert: deleting a user
\* leaves nothing that could authenticate anybody.
CredentialsOwned ==
    /\ \A s \in sessions : UserExists(s.uid)
    /\ \A p \in pats : UserExists(p.uid)
    /\ \A c \in caps : c.uid # 0 => UserExists(c.uid)

\* The request c, once answered, was to put an end to token t: it logged t
\* out, exchanged it, revoked it, or deleted the user it belongs to.
Ends(c, t) ==
    \/ body[c].op = "logout" /\ body[c].bearer = t
    \/ body[c].op \in {"refresh", "revokePAT", "revokeCap"} /\ body[c].target = t
    \/ body[c].op = "deleteUser" /\ loc[c].victim = loc[t].uid /\ body[t].op # "anon"

\* Authenticated(w): the middleware has looked at the bearer token of w (a
\* public path ignores it) and accepted it.
Authenticated(w) ==
    /\ ~PassesWithoutToken(body[w]) /\ body[w].bearer # None
    /\ pc[w] \notin {"new", "mw.cred", "mw.user"}
    /\ status[w] # "unauthorized"

\* Revocation is final: a token that was logged out, exchanged, revoked, or
\* whose user was deleted, by a request answered before this one began, does
\* not authenticate it, whatever the two handlers raced with.
RevokedTokensAreDead ==
    \A w \in Requests :
      (Authenticated(w) /\ status[w] # "error") =>
        \A c \in before[w] : ~Ends(c, body[w].bearer)

\* An exchanged or logged-out refresh token starts no new session.
RevokedRefreshIsDead ==
    \A w \in Requests :
      (body[w].op = "refresh" /\ status[w] = "ok") =>
        \A c \in before[w] : ~Ends(c, body[w].target)

\* A PAT or a capability token is removed only by the user it belongs to, or
\* with that user, although ownership is checked a statement before the DELETE.
OnlyTheOwnerRevokes ==
    [][\A r \in pats \cup caps :
         \/ r \in pats' \cup caps'
         \/ ~UserExists(r.uid)'
         \/ \E w \in Requests : /\ pc[w] \in {"patr.delete", "capr.delete"}
                                /\ body[w].target = r.id /\ loc[w].uid = r.uid]_vars

\* Where a request is in its handler agrees with what it asked for: the
\* strengthening that makes TypeOK inductive.
Routed ==
    \A w \in Requests :
      /\ pc[w] \in {"user.check", "user.insert"} =>
           body[w] \in Bodies /\ body[w].op = "createUser"
      /\ pc[w] \in {"mw.cred", "mw.user"} => body[w] \in Bodies /\ body[w].bearer # None
      /\ pc[w] \in {"logout.find", "logout.update"} => body[w].bearer # None

-----------------------------------------------------------------------------
(* What holds when clients take turns, and what overlapping requests break. *)

\* A refresh token is exchanged for one session: no two refreshes of it succeed.
RefreshedOnce ==
    \A v, w \in Requests :
      (/\ body[v].op = "refresh" /\ body[w].op = "refresh"
       /\ body[v].target = body[w].target
       /\ status[v] = "ok" /\ status[w] = "ok") => v = w
=============================================================================
