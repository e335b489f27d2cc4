-------------------------- MODULE CredentialsProofs --------------------------
(***************************************************************************)
(* Invariants of Credentials, proved for any requests, users, bodies and   *)
(* bounds.                                                                 *)
(***************************************************************************)
EXTENDS Credentials, FiniteSetTheorems, TLAPS

-----------------------------------------------------------------------------
(* Type correctness. *)

LEMMA FirstLabelType ==
    ASSUME NEW op
    PROVE  /\ FirstLabel(op) \in Labels
           /\ FirstLabel(op) \in {"user.check", "user.insert"} => op = "createUser"
           /\ FirstLabel(op) \in {"logout.find", "logout.update"} => op = "logout"
           /\ FirstLabel(op) \notin {"mw.cred", "mw.user", "patr.delete", "capr.delete"}
  BY DEF FirstLabel, Labels

LEMMA RefusalType ==
    ASSUME NEW op, NEW kind
    PROVE  ContextRefusal(op, kind) \in Statuses
  BY DEF ContextRefusal, Statuses

\* Answering keeps the types and leaves the handler.
LEMMA RespondType ==
    ASSUME TypeOK, Routed, NEW w \in Requests, NEW s \in Statuses, Respond(w, s),
           UNCHANGED body
    PROVE  /\ pc' \in [Requests -> Labels]
           /\ status' \in [Requests -> Statuses]
           /\ Routed'
  BY DEF TypeOK, Respond, Goto, Routed, Labels

LEMMA ConcludeType ==
    ASSUME TypeOK, Routed, NEW w \in Requests, NEW s \in Statuses, Conclude(w, s),
           UNCHANGED body
    PROVE  /\ pc' \in [Requests -> Labels]
           /\ status' \in [Requests -> Statuses]
           /\ loc' \in [Requests -> Locals]
           /\ Routed'
  BY DEF TypeOK, Conclude, Goto, Routed, Labels, Locals

\* The statements that neither the middleware's nor the admin's labels name.
LEMMA GotoType ==
    ASSUME TypeOK, Routed, NEW w \in Requests, UNCHANGED body,
           NEW label \in Labels, Goto(w, label),
           label \notin {"user.check", "user.insert", "mw.cred", "mw.user",
                         "logout.find", "logout.update"}
    PROVE  pc' \in [Requests -> Labels] /\ Routed'
  BY DEF TypeOK, Goto, Routed

LEMMA EnterType ==
    ASSUME TypeOK, Routed, NEW w \in Requests, EnterHandler(w), UNCHANGED body,
           pc[w] \in {"mw.cred", "mw.user"}
    PROVE  /\ pc' \in [Requests -> Labels]
           /\ status' \in [Requests -> Statuses]
           /\ Routed'
<1> DEFINE refusal == ContextRefusal(body[w].op, KindOf(body[w].bearer))
<1>1. CASE refusal = "none"
  <2>1. Goto(w, FirstLabel(body[w].op)) /\ UNCHANGED status
    BY <1>1 DEF EnterHandler
  <2>2. QED
    BY <2>1, FirstLabelType DEF TypeOK, Goto, Routed
<1>2. CASE refusal # "none"
  <2>1. Respond(w, refusal)
    BY <1>2 DEF EnterHandler
  <2>2. QED
    BY <2>1, RefusalType, RespondType
<1>3. QED
  BY <1>1, <1>2

LEMMA TypeInit == Init => TypeOK /\ Routed
<1> SUFFICES ASSUME Init PROVE TypeOK /\ Routed
  OBVIOUS
<1>1. userSeq \in Nat
  BY CredAssumption, FS_CardinalityType DEF Init
<1>2. Idle \in Body
  BY DEF Idle, Body, Ops
<1>3. TypeOK
  BY <1>1, <1>2, CredAssumption DEF Init, TypeOK, Labels, Statuses, Locals
<1>4. Routed
  BY DEF Init, Routed
<1>5. QED
  BY <1>3, <1>4

LEMMA TypeStep ==
    ASSUME TypeOK, Routed, [Next]_vars
    PROVE  TypeOK' /\ Routed'
<1> USE DEF TypeOK, tables
<1>1. ASSUME NEW w \in Requests, MwCredential(w) PROVE TypeOK' /\ Routed'
  <2>1. CASE LiveCred(body[w].bearer) = {} /\ Respond(w, "unauthorized") /\ UNCHANGED loc
    BY <1>1, <2>1, RespondType DEF MwCredential, Statuses
  <2>2. CASE EnterHandler(w) /\ UNCHANGED loc
    BY <1>1, <2>2, EnterType DEF MwCredential
  <2>3. ASSUME NEW r \in LiveCred(body[w].bearer), KindOf(body[w].bearer) # "cap",
               loc' = [loc EXCEPT ![w].uid = r.uid], Goto(w, "mw.user"), UNCHANGED status
        PROVE  TypeOK' /\ Routed'
    <3>1. r.uid \in Nat
      BY <2>3 DEF LiveCred, SessionRow, PATRow, CapRow
    <3>2. pc' \in [Requests -> Labels] /\ loc' \in [Requests -> Locals]
      BY <2>3, <3>1 DEF Goto, Labels, Locals
    <3>3. Routed'
      BY <1>1, <2>3 DEF MwCredential, Routed, Goto
    <3>4. QED
      BY <1>1, <2>3, <3>2, <3>3 DEF MwCredential
  <2>4. QED
    BY <1>1, <2>1, <2>2, <2>3 DEF MwCredential
<1>2. ASSUME NEW w \in Requests, MwUser(w) PROVE TypeOK' /\ Routed'
  BY <1>2, EnterType, RespondType DEF MwUser, Statuses
<1>3. ASSUME NEW w \in Requests, Access(w) PROVE TypeOK' /\ Routed'
  BY <1>3, RespondType DEF Access, Statuses
<1>4. ASSUME NEW w \in Requests, LoginUser(w) PROVE TypeOK' /\ Routed'
  <2>1. ASSUME NEW u \in users, loc' = [loc EXCEPT ![w].uid = u.id],
               Goto(w, "session.insert"), UNCHANGED status
        PROVE  TypeOK' /\ Routed'
    <3>1. loc' \in [Requests -> Locals]
      BY <2>1 DEF Locals, UserRow
    <3>2. pc' \in [Requests -> Labels] /\ Routed'
      BY <1>4, <2>1, GotoType DEF LoginUser, Labels
    <3>3. QED
      BY <1>4, <2>1, <3>1, <3>2 DEF LoginUser
  <2>2. CASE Conclude(w, "unauthorized")
    BY <1>4, <2>2, ConcludeType DEF LoginUser, Statuses
  <2>3. QED
    BY <1>4, <2>1, <2>2 DEF LoginUser
<1>5. ASSUME NEW w \in Requests, NewSession(w) PROVE TypeOK' /\ Routed'
  <2>1. sessions' \subseteq SessionRow
    <3>1. [id |-> w, uid |-> loc[w].uid, refreshable |-> TRUE] \in SessionRow
      BY DEF SessionRow, Locals
    <3>2. QED
      BY <1>5, <3>1 DEF NewSession
  <2>2. CASE Conclude(w, "ok") \/ Conclude(w, "unauthorized")
    BY <1>5, <2>1, <2>2, ConcludeType DEF NewSession, Statuses
  <2>3. CASE Goto(w, "refresh.delete") /\ UNCHANGED <<loc, status>>
    BY <1>5, <2>1, <2>3, GotoType DEF NewSession, Labels
  <2>4. CASE Respond(w, "unauthorized") /\ UNCHANGED loc
    BY <1>5, <2>1, <2>4, RespondType DEF NewSession, Statuses
  <2>5. QED
    BY <1>5, <2>2, <2>3, <2>4 DEF NewSession
<1>6. ASSUME NEW w \in Requests, RefreshFind(w) PROVE TypeOK' /\ Routed'
  <2>1. ASSUME NEW s \in Refreshable(body[w].target), UNCHANGED status,
               loc' = [loc EXCEPT ![w].uid = s.uid], Goto(w, "refresh.user")
        PROVE  TypeOK' /\ Routed'
    <3>1. s.uid \in Nat
      BY <2>1 DEF Refreshable, SessionRow
    <3>2. loc' \in [Requests -> Locals]
      BY <2>1, <3>1 DEF Locals
    <3>3. pc' \in [Requests -> Labels] /\ Routed'
      BY <1>6, <2>1, GotoType DEF RefreshFind, Labels
    <3>4. QED
      BY <1>6, <2>1, <3>2, <3>3 DEF RefreshFind
  <2>2. CASE Respond(w, "unauthorized") /\ UNCHANGED loc
    BY <1>6, <2>2, RespondType DEF RefreshFind, Statuses
  <2>3. QED
    BY <1>6, <2>1, <2>2 DEF RefreshFind
<1>7. ASSUME NEW w \in Requests, RefreshUser(w) PROVE TypeOK' /\ Routed'
  BY <1>7, GotoType, RespondType DEF RefreshUser, Statuses, Labels
<1>8. ASSUME NEW w \in Requests, RefreshDelete(w) PROVE TypeOK' /\ Routed'
  BY <1>8, ConcludeType DEF RefreshDelete, Without, Statuses
<1>9. ASSUME NEW w \in Requests, LogoutFind(w) PROVE TypeOK' /\ Routed'
  <2>1. CASE Respond(w, "unauthorized")
    BY <1>9, <2>1, RespondType DEF LogoutFind, Statuses
  <2>2. CASE Goto(w, "logout.update") /\ UNCHANGED status
    BY <1>9, <2>2 DEF LogoutFind, Goto, Routed, Labels
  <2>3. QED
    BY <1>9, <2>1, <2>2 DEF LogoutFind
<1>10. ASSUME NEW w \in Requests, LogoutUpdate(w) PROVE TypeOK' /\ Routed'
  <2>1. body[w].bearer \in Requests
    BY <1>10 DEF LogoutUpdate, Routed, Body
  <2>2. sessions' \subseteq SessionRow
    <3> SUFFICES ASSUME NEW s \in sessions
                 PROVE  /\ s \in SessionRow
                        /\ [s EXCEPT !.refreshable = FALSE] \in SessionRow
      BY <1>10 DEF LogoutUpdate
    <3> QED
      BY DEF SessionRow
  <2>3. QED
    BY <1>10, <2>1, <2>2, ConcludeType DEF LogoutUpdate, Statuses
<1>11. ASSUME NEW w \in Requests, IssuePAT(w) PROVE TypeOK' /\ Routed'
  BY <1>11, ConcludeType, RespondType DEF IssuePAT, PATRow, Body, Locals, Statuses
<1>12. ASSUME NEW w \in Requests, RevokePATFind(w) PROVE TypeOK' /\ Routed'
  BY <1>12, GotoType, RespondType DEF RevokePATFind, RevokeFind, Statuses, Labels
<1>13. ASSUME NEW w \in Requests, RevokePATDelete(w) PROVE TypeOK' /\ Routed'
  BY <1>13, ConcludeType DEF RevokePATDelete, Without, Statuses
<1>14. ASSUME NEW w \in Requests, IssueCapCheck(w) PROVE TypeOK' /\ Routed'
  BY <1>14, GotoType, RespondType DEF IssueCapCheck, Statuses, Labels
<1>15. ASSUME NEW w \in Requests, IssueCapInsert(w) PROVE TypeOK' /\ Routed'
  BY <1>15, ConcludeType, RespondType DEF IssueCapInsert, CapRow, Locals, Statuses
<1>16. ASSUME NEW w \in Requests, RevokeCapFind(w) PROVE TypeOK' /\ Routed'
  BY <1>16, GotoType, RespondType DEF RevokeCapFind, RevokeFind, Statuses, Labels
<1>17. ASSUME NEW w \in Requests, RevokeCapDelete(w) PROVE TypeOK' /\ Routed'
  BY <1>17, ConcludeType DEF RevokeCapDelete, Without, Statuses
<1>18. ASSUME NEW w \in Requests, AnonList(w) PROVE TypeOK' /\ Routed'
  BY <1>18, GotoType, RespondType DEF AnonList, Statuses, Labels
<1>19. ASSUME NEW w \in Requests, AnonInsert(w) PROVE TypeOK' /\ Routed'
  BY <1>19, ConcludeType DEF AnonInsert, CapRow, Statuses
<1>20. ASSUME NEW w \in Requests, RequireMeta(w) PROVE TypeOK' /\ Routed'
  <2>1. CASE Respond(w, "forbidden")
    BY <1>20, <2>1, RespondType DEF RequireMeta, Statuses
  <2>2. CASE pc[w] = "user.check" /\ Goto(w, "user.insert") /\ UNCHANGED status
    BY <1>20, <2>2 DEF RequireMeta, Goto, Routed, Labels
  <2>3. CASE Goto(w, "del.find") /\ UNCHANGED status
    BY <1>20, <2>3, GotoType DEF RequireMeta, Labels
  <2>4. QED
    BY <1>20, <2>1, <2>2, <2>3 DEF RequireMeta
<1>21. ASSUME NEW w \in Requests, CreateUser(w) PROVE TypeOK' /\ Routed'
  <2>1. body[w].user \in UserNames /\ body[w].pass \in Passwords
    BY <1>21, CredAssumption DEF CreateUser, Routed, Body
  <2>2. users' \subseteq UserRow /\ userSeq' \in Nat
    BY <1>21, <2>1 DEF CreateUser, UserRow
  <2>3. QED
    BY <1>21, <2>2, ConcludeType DEF CreateUser, Statuses
<1>22. ASSUME NEW w \in Requests, DeleteUserFind(w) PROVE TypeOK' /\ Routed'
  <2>1. ASSUME NEW u \in users, loc' = [loc EXCEPT ![w].victim = u.id],
               Goto(w, "del.exec"), UNCHANGED status
        PROVE  TypeOK' /\ Routed'
    <3>1. loc' \in [Requests -> Locals]
      BY <2>1 DEF Locals, UserRow
    <3>2. pc' \in [Requests -> Labels] /\ Routed'
      BY <1>22, <2>1, GotoType DEF DeleteUserFind, Labels
    <3>3. QED
      BY <1>22, <2>1, <3>1, <3>2 DEF DeleteUserFind
  <2>2. CASE Respond(w, "error") /\ UNCHANGED loc
    BY <1>22, <2>2, RespondType DEF DeleteUserFind, Statuses
  <2>3. QED
    BY <1>22, <2>1, <2>2 DEF DeleteUserFind
<1>23. ASSUME NEW w \in Requests, DeleteUserExec(w) PROVE TypeOK' /\ Routed'
  BY <1>23, ConcludeType DEF DeleteUserExec, OwnedByOthers, Statuses
<1>24. ASSUME NEW w \in Requests, WriteAudit(w) PROVE TypeOK' /\ Routed'
  BY <1>24, RespondType DEF WriteAudit, Locals
<1>25. ASSUME NEW w \in Requests, Fail(w) PROVE TypeOK' /\ Routed'
  BY <1>25, RespondType DEF Fail, Statuses
<1>26. ASSUME NEW w \in Requests, Arrive(w) PROVE TypeOK' /\ Routed'
  <2> PICK b \in Bodies :
        /\ body' = [body EXCEPT ![w] = b]
        /\ \/ PassesWithoutToken(b) /\ Goto(w, FirstLabel(b.op)) /\ UNCHANGED status
           \/ b.bearer # None /\ Goto(w, "mw.cred") /\ UNCHANGED status
           \/ Respond(w, "unauthorized")
    BY <1>26 DEF Arrive
  <2>1. body' \in [Requests -> Body] /\ before' \in [Requests -> SUBSET Requests]
    BY <1>26, CredAssumption DEF Arrive
  <2>2. pc' \in [Requests -> Labels] /\ status' \in [Requests -> Statuses]
    BY FirstLabelType DEF Goto, Respond, Labels, Statuses
  <2>3. Routed'
    BY FirstLabelType DEF Routed, Goto, Respond, PassesWithoutToken
  <2>4. QED
    BY <1>26, <2>1, <2>2, <2>3 DEF Arrive
<1>27. ASSUME NEW w \in Requests, Expire(w) PROVE TypeOK' /\ Routed'
  BY <1>27 DEF Expire, Routed
<1>28. ASSUME NEW w \in Requests, WriteAuditFails(w) PROVE TypeOK' /\ Routed'
  BY <1>28, RespondType DEF WriteAuditFails, Locals
<1>29. CASE Terminated \/ UNCHANGED vars
  BY <1>29 DEF Terminated, vars, Routed
<1>30. QED
  BY <1>1, <1>2, <1>3, <1>4, <1>5, <1>6, <1>7, <1>8, <1>9, <1>10, <1>11, <1>12, <1>13, <1>14, <1>15, <1>16, <1>17, <1>18, <1>19, <1>20, <1>21, <1>22, <1>23, <1>24, <1>25, <1>26, <1>27, <1>28, <1>29 DEF Next, Step

\* Type correctness: no handler inserts a row its columns cannot hold or runs a
\* statement its code does not have.
THEOREM TypeCorrect == Spec => []TypeOK
<1>1. Init => TypeOK /\ Routed
  BY TypeInit
<1>2. TypeOK /\ Routed /\ [Next]_vars => TypeOK' /\ Routed'
  BY TypeStep
<1>3. QED
  BY <1>1, <1>2, PTL DEF Spec
-----------------------------------------------------------------------------
(* No credential outlives its user. *)

\* A step that deletes no user and adds no credential.
LEMMA OwnedKept ==
    ASSUME CredentialsOwned, users \subseteq users',
           sessions' \subseteq sessions, pats' \subseteq pats, caps' \subseteq caps
    PROVE  CredentialsOwned'
  BY DEF CredentialsOwned, UserExists

LEMMA OwnedStep ==
    ASSUME TypeOK, CredentialsOwned, [Next]_vars
    PROVE  CredentialsOwned'
<1> USE DEF tables
<1>1. ASSUME NEW w \in Requests, NewSession(w) PROVE CredentialsOwned'
  BY <1>1 DEF NewSession, CredentialsOwned, UserExists
<1>2. ASSUME NEW w \in Requests, LogoutUpdate(w) PROVE CredentialsOwned'
  <2>1. UNCHANGED <<users, pats, caps>>
    BY <1>2 DEF LogoutUpdate
  <2>2. \A s \in sessions' : UserExists(s.uid)
    <3> SUFFICES ASSUME NEW s \in sessions
                 PROVE  UserExists(s.uid) /\ UserExists([s EXCEPT !.refreshable = FALSE].uid)
      BY <1>2 DEF LogoutUpdate
    <3>1. s \in SessionRow
      BY DEF TypeOK
    <3>2. [s EXCEPT !.refreshable = FALSE].uid = s.uid
      BY <3>1 DEF SessionRow
    <3>3. QED
      BY <3>2 DEF CredentialsOwned
  <2>3. QED
    BY <2>1, <2>2 DEF CredentialsOwned, UserExists
<1>3. ASSUME NEW w \in Requests, IssuePAT(w) PROVE CredentialsOwned'
  BY <1>3 DEF IssuePAT, CredentialsOwned, UserExists
<1>4. ASSUME NEW w \in Requests, IssueCapInsert(w) PROVE CredentialsOwned'
  BY <1>4 DEF IssueCapInsert, CredentialsOwned, UserExists
<1>5. ASSUME NEW w \in Requests, AnonInsert(w) PROVE CredentialsOwned'
  BY <1>5 DEF AnonInsert, CredentialsOwned, UserExists
<1>6. ASSUME NEW w \in Requests, DeleteUserExec(w) PROVE CredentialsOwned'
  BY <1>6 DEF DeleteUserExec, OwnedByOthers, CredentialsOwned, UserExists
<1>7. ASSUME NEW w \in Requests,
             \/ RefreshDelete(w) \/ RevokePATDelete(w) \/ RevokeCapDelete(w)
             \/ CreateUser(w)
      PROVE CredentialsOwned'
  BY <1>7, OwnedKept DEF RefreshDelete, RevokePATDelete, RevokeCapDelete, CreateUser, Without
<1>8. ASSUME NEW w \in Requests,
             \/ MwCredential(w) \/ MwUser(w) \/ Access(w) \/ LoginUser(w)
             \/ RefreshFind(w) \/ RefreshUser(w) \/ LogoutFind(w)
             \/ RevokePATFind(w) \/ RevokeCapFind(w) \/ IssueCapCheck(w) \/ AnonList(w)
             \/ RequireMeta(w) \/ DeleteUserFind(w)
      PROVE CredentialsOwned'
  <2>1. UNCHANGED tables
    BY <1>8 DEF MwCredential, MwUser, Access, LoginUser, RefreshFind, RefreshUser,
                LogoutFind, RevokePATFind, RevokeCapFind, RevokeFind, IssueCapCheck,
                AnonList, RequireMeta, DeleteUserFind
  <2>2. QED
    BY <2>1, OwnedKept
<1>9. ASSUME NEW w \in Requests,
             \/ Arrive(w) \/ WriteAudit(w) \/ WriteAuditFails(w)
             \/ Expire(w) \/ Fail(w)
      PROVE CredentialsOwned'
  BY <1>9, OwnedKept DEF Arrive, WriteAudit, WriteAuditFails, Expire, Fail
<1>10. CASE Terminated \/ UNCHANGED vars
  BY <1>10, OwnedKept DEF Terminated, vars
<1>11. QED
  BY <1>1, <1>2, <1>3, <1>4, <1>5, <1>6, <1>7, <1>8, <1>9, <1>10 DEF Next, Step

\* Deleting a user leaves nothing that could authenticate anybody, whatever
\* login, refresh or token request was between its lookup of that user and its
\* insert: the foreign keys and the single commit of DeleteUser see to it.
THEOREM NoCredentialOutlivesItsUser == Spec => []CredentialsOwned
<1>1. Init => CredentialsOwned
  BY DEF Init, CredentialsOwned
<1>2. TypeOK /\ CredentialsOwned /\ [Next]_vars => CredentialsOwned'
  BY OwnedStep
<1>3. QED
  BY <1>1, <1>2, TypeCorrect, PTL DEF Spec
-----------------------------------------------------------------------------
(* Only the owner revokes. *)

\* Request t has run its insert, when p says where requests are.
Issued(t, p) == t \in Requests /\ p[t] \in {"audit", "done"}

\* An id names one row, and no row of that id is inserted again.
IdsNameRows(rows, p) ==
    /\ \A r \in rows : Issued(r.id, p)
    /\ \A r, q \in rows : r.id = q.id => r = q

\* What RevokeFind saw still holds at the DELETE: the row, if it is there, is
\* the caller's own.
StillOwned(rows, label, p, b, l) ==
    \A w \in Requests :
      p[w] = label =>
        /\ Issued(b[w].target, p)
        /\ \A r \in rows : r.id = b[w].target => r.uid = l[w].uid

OwnershipInv ==
    /\ IdsNameRows(pats, pc) /\ StillOwned(pats, "patr.delete", pc, body, loc)
    /\ IdsNameRows(caps, pc) /\ StillOwned(caps, "capr.delete", pc, body, loc)

\* A step of a handler that goes to label and inserts no row.
LEMMA OwnershipFrame ==
    ASSUME TypeOK, OwnershipInv, NEW w \in Requests, NEW label, Goto(w, label),
           pc[w] \in {"audit", "done"} => label = "done",
           label \notin {"patr.delete", "capr.delete"},
           \A u \in Requests : u # w => body'[u] = body[u] /\ loc'[u] = loc[u],
           pats' \subseteq pats, caps' \subseteq caps
    PROVE  OwnershipInv'
<1> USE DEF TypeOK
<1>1. \A t : Issued(t, pc) => Issued(t, pc')
  BY DEF Issued, Goto
<1>2. \A u \in Requests : pc'[u] \in {"patr.delete", "capr.delete"} =>
        pc'[u] = pc[u] /\ body'[u] = body[u] /\ loc'[u] = loc[u]
  BY DEF Goto
<1>3. IdsNameRows(pats', pc') /\ IdsNameRows(caps', pc')
  BY <1>1 DEF OwnershipInv, IdsNameRows
<1>4. /\ StillOwned(pats', "patr.delete", pc', body', loc')
      /\ StillOwned(caps', "capr.delete", pc', body', loc')
  BY <1>1, <1>2 DEF OwnershipInv, StillOwned
<1>5. QED
  BY <1>3, <1>4 DEF OwnershipInv

\* The insert of a token, whose id is the request's own.
LEMMA IssuedOnce ==
    ASSUME NEW p \in [Requests -> Labels], NEW b, NEW l, NEW l1,
           NEW rows, NEW row, NEW label, NEW w \in Requests,
           IdsNameRows(rows, p), StillOwned(rows, label, p, b, l), row.id = w,
           p[w] \notin {"audit", "done"}, label # "audit",
           \A u \in Requests : u # w => l1[u] = l[u]
    PROVE  /\ IdsNameRows(rows \cup {row}, [p EXCEPT ![w] = "audit"])
           /\ StillOwned(rows \cup {row}, label, [p EXCEPT ![w] = "audit"], b, l1)
<1> DEFINE p1 == [p EXCEPT ![w] = "audit"]
<1>1. \A t : Issued(t, p) => t # w /\ Issued(t, p1)
  BY DEF Issued
<1>2. \A r \in rows : r.id # w
  BY <1>1 DEF IdsNameRows
<1>3. IdsNameRows(rows \cup {row}, p1)
  BY <1>1, <1>2 DEF IdsNameRows, Issued
<1>4. ASSUME NEW u \in Requests, p1[u] = label
      PROVE  /\ Issued(b[u].target, p1)
             /\ \A r \in rows \cup {row} : r.id = b[u].target => r.uid = l1[u].uid
  <2>1. u # w /\ p[u] = label
    BY <1>4
  <2>2. Issued(b[u].target, p) /\ \A r \in rows : r.id = b[u].target => r.uid = l[u].uid
    BY <2>1 DEF StillOwned
  <2>3. QED
    BY <1>1, <2>1, <2>2
<1>5. QED
  BY <1>3, <1>4 DEF StillOwned

\* The step of another request to its insert or past it leaves a table alone.
LEMMA OtherTable ==
    ASSUME NEW p \in [Requests -> Labels], NEW b, NEW l, NEW l1,
           NEW rows, NEW label, NEW next, NEW w \in Requests,
           IdsNameRows(rows, p), StillOwned(rows, label, p, b, l),
           p[w] \notin {"audit", "done"}, label # next,
           \A u \in Requests : u # w => l1[u] = l[u]
    PROVE  /\ IdsNameRows(rows, [p EXCEPT ![w] = next])
           /\ StillOwned(rows, label, [p EXCEPT ![w] = next], b, l1)
<1> DEFINE p1 == [p EXCEPT ![w] = next]
<1>1. \A t : Issued(t, p) => Issued(t, p1)
  BY DEF Issued
<1>2. IdsNameRows(rows, p1)
  BY <1>1 DEF IdsNameRows
<1>3. StillOwned(rows, label, p1, b, l1)
  BY <1>1 DEF StillOwned
<1>4. QED
  BY <1>2, <1>3

\* The lookup of a revocation found the caller's row.
LEMMA FoundOwned ==
    ASSUME TypeOK, NEW rows, NEW label, NEW w \in Requests, IdsNameRows(rows, pc),
           StillOwned(rows, label, pc, body, loc), pc[w] \notin {"audit", "done"},
           MayRevoke(w, rows) # {}
    PROVE  /\ IdsNameRows(rows, [pc EXCEPT ![w] = label])
           /\ StillOwned(rows, label, [pc EXCEPT ![w] = label], body, loc)
<1> DEFINE p1 == [pc EXCEPT ![w] = label]
<1> USE DEF TypeOK
<1>1. PICK q \in rows : q.id = body[w].target /\ q.uid = loc[w].uid
  BY DEF MayRevoke
<1>2. /\ Issued(body[w].target, pc)
      /\ \A r \in rows : r.id = body[w].target => r.uid = loc[w].uid
  BY <1>1 DEF IdsNameRows
<1>3. \A t : Issued(t, pc) => Issued(t, p1)
  BY DEF Issued
<1>4. IdsNameRows(rows, p1)
  BY <1>3 DEF IdsNameRows
<1>5. StillOwned(rows, label, p1, body, loc)
  BY <1>2, <1>3 DEF StillOwned
<1>6. QED
  BY <1>4, <1>5

LEMMA OwnershipStep ==
    ASSUME TypeOK, OwnershipInv, [Next]_vars
    PROVE  OwnershipInv'
<1> USE DEF TypeOK, tables
<1>1. ASSUME NEW w \in Requests, IssuePAT(w) PROVE OwnershipInv'
  <2>1. CASE UserExists(loc[w].uid)
    <3> DEFINE row == [id |-> w, uid |-> loc[w].uid, expires |-> body[w].expires]
    <3>1. /\ pats' = pats \cup {row} /\ UNCHANGED <<caps, body>>
          /\ pc[w] \notin {"audit", "done"} /\ pc' = [pc EXCEPT ![w] = "audit"]
          /\ \A u \in Requests : u # w => loc'[u] = loc[u]
      BY <1>1, <2>1 DEF IssuePAT, Conclude, Goto
    <3>2. row.id = w
      OBVIOUS
    <3> HIDE DEF row
    <3>3. IdsNameRows(pats', pc') /\ StillOwned(pats', "patr.delete", pc', body', loc')
      BY <3>1, <3>2, IssuedOnce DEF OwnershipInv
    <3>4. IdsNameRows(caps', pc') /\ StillOwned(caps', "capr.delete", pc', body', loc')
      BY <3>1, OtherTable DEF OwnershipInv
    <3>5. QED
      BY <3>3, <3>4 DEF OwnershipInv
  <2>2. CASE ~UserExists(loc[w].uid)
    BY <1>1, <2>2, OwnershipFrame DEF IssuePAT, Respond
  <2>3. QED
    BY <2>1, <2>2
<1>2. ASSUME NEW w \in Requests, IssueCapInsert(w) PROVE OwnershipInv'
  <2>1. CASE UserExists(loc[w].uid)
    <3> DEFINE row == [id |-> w, uid |-> loc[w].uid]
    <3>1. /\ caps' = caps \cup {row} /\ UNCHANGED <<pats, body>>
          /\ pc[w] \notin {"audit", "done"} /\ pc' = [pc EXCEPT ![w] = "audit"]
          /\ \A u \in Requests : u # w => loc'[u] = loc[u]
      BY <1>2, <2>1 DEF IssueCapInsert, Conclude, Goto
    <3>2. row.id = w
      OBVIOUS
    <3> HIDE DEF row
    <3>3. IdsNameRows(caps', pc') /\ StillOwned(caps', "capr.delete", pc', body', loc')
      BY <3>1, <3>2, IssuedOnce DEF OwnershipInv
    <3>4. IdsNameRows(pats', pc') /\ StillOwned(pats', "patr.delete", pc', body', loc')
      BY <3>1, OtherTable DEF OwnershipInv
    <3>5. QED
      BY <3>3, <3>4 DEF OwnershipInv
  <2>2. CASE ~UserExists(loc[w].uid)
    BY <1>2, <2>2, OwnershipFrame DEF IssueCapInsert, Respond
  <2>3. QED
    BY <2>1, <2>2
<1>3. ASSUME NEW w \in Requests, AnonInsert(w) PROVE OwnershipInv'
  <2> DEFINE row == [id |-> w, uid |-> 0]
  <2>1. /\ caps' = caps \cup {row} /\ UNCHANGED <<pats, body>>
        /\ pc[w] \notin {"audit", "done"} /\ pc' = [pc EXCEPT ![w] = "audit"]
        /\ \A u \in Requests : u # w => loc'[u] = loc[u]
    BY <1>3 DEF AnonInsert, Conclude, Goto
  <2>2. row.id = w
    OBVIOUS
  <2> HIDE DEF row
  <2>3. IdsNameRows(caps', pc') /\ StillOwned(caps', "capr.delete", pc', body', loc')
    BY <2>1, <2>2, IssuedOnce DEF OwnershipInv
  <2>4. IdsNameRows(pats', pc') /\ StillOwned(pats', "patr.delete", pc', body', loc')
    BY <2>1, OtherTable DEF OwnershipInv
  <2>5. QED
    BY <2>3, <2>4 DEF OwnershipInv
<1>4. ASSUME NEW w \in Requests, RevokePATFind(w) PROVE OwnershipInv'
  <2>1. CASE MayRevoke(w, pats) # {}
    <3>1. /\ UNCHANGED <<pats, caps, body, loc>> /\ pc' = [pc EXCEPT ![w] = "patr.delete"]
          /\ pc[w] \notin {"audit", "done"}
      BY <1>4, <2>1 DEF RevokePATFind, RevokeFind, Goto
    <3>2. IdsNameRows(pats', pc') /\ StillOwned(pats', "patr.delete", pc', body', loc')
      BY <2>1, <3>1, FoundOwned DEF OwnershipInv
    <3>3. IdsNameRows(caps', pc') /\ StillOwned(caps', "capr.delete", pc', body', loc')
      BY <3>1, OtherTable DEF OwnershipInv
    <3>4. QED
      BY <3>2, <3>3 DEF OwnershipInv
  <2>2. CASE MayRevoke(w, pats) = {}
    BY <1>4, <2>2, OwnershipFrame DEF RevokePATFind, RevokeFind, Respond
  <2>3. QED
    BY <2>1, <2>2
<1>5. ASSUME NEW w \in Requests, RevokeCapFind(w) PROVE OwnershipInv'
  <2>1. CASE MayRevoke(w, caps) # {}
    <3>1. /\ UNCHANGED <<pats, caps, body, loc>> /\ pc' = [pc EXCEPT ![w] = "capr.delete"]
          /\ pc[w] \notin {"audit", "done"}
      BY <1>5, <2>1 DEF RevokeCapFind, RevokeFind, Goto
    <3>2. IdsNameRows(caps', pc') /\ StillOwned(caps', "capr.delete", pc', body', loc')
      BY <2>1, <3>1, FoundOwned DEF OwnershipInv
    <3>3. IdsNameRows(pats', pc') /\ StillOwned(pats', "patr.delete", pc', body', loc')
      BY <3>1, OtherTable DEF OwnershipInv
    <3>4. QED
      BY <3>2, <3>3 DEF OwnershipInv
  <2>2. CASE MayRevoke(w, caps) = {}
    BY <1>5, <2>2, OwnershipFrame DEF RevokeCapFind, RevokeFind, Respond
  <2>3. QED
    BY <2>1, <2>2
<1>6. ASSUME NEW w \in Requests, MwCredential(w) \/ MwUser(w) PROVE OwnershipInv'
  <2>1. CASE EnterHandler(w) /\ UNCHANGED <<loc, body, pats, caps>> /\ pc[w] \in {"mw.cred", "mw.user"}
    BY <2>1, OwnershipFrame, FirstLabelType DEF EnterHandler, Respond
  <2>2. CASE Respond(w, "unauthorized") /\ UNCHANGED <<loc, body, pats, caps>>
    BY <2>2, OwnershipFrame DEF Respond
  <2>3. ASSUME NEW r, loc' = [loc EXCEPT ![w].uid = r.uid], Goto(w, "mw.user"),
               UNCHANGED <<body, pats, caps>>, pc[w] = "mw.cred"
        PROVE  OwnershipInv'
    BY <2>3, OwnershipFrame
  <2>4. QED
    BY <1>6, <2>1, <2>2, <2>3 DEF MwCredential, MwUser
<1>7. ASSUME NEW w \in Requests, LoginUser(w) \/ NewSession(w) PROVE OwnershipInv'
  BY <1>7, OwnershipFrame DEF LoginUser, NewSession, Conclude, Respond
<1>8. ASSUME NEW w \in Requests,
             \/ RefreshFind(w) \/ RefreshUser(w) \/ RefreshDelete(w)
             \/ LogoutFind(w) \/ LogoutUpdate(w) \/ Access(w)
      PROVE OwnershipInv'
  BY <1>8, OwnershipFrame DEF RefreshFind, RefreshUser, RefreshDelete, LogoutFind,
                              LogoutUpdate, Access, Conclude, Respond
<1>9. ASSUME NEW w \in Requests,
             \/ RevokePATDelete(w) \/ RevokeCapDelete(w) \/ IssueCapCheck(w) \/ AnonList(w)
      PROVE OwnershipInv'
  BY <1>9, OwnershipFrame DEF RevokePATDelete, RevokeCapDelete, IssueCapCheck, AnonList,
                              Without, Conclude, Respond
<1>10. ASSUME NEW w \in Requests,
             \/ RequireMeta(w) \/ CreateUser(w) \/ DeleteUserFind(w) \/ DeleteUserExec(w)
      PROVE OwnershipInv'
  BY <1>10, OwnershipFrame DEF RequireMeta, CreateUser, DeleteUserFind, DeleteUserExec,
                              OwnedByOthers, Conclude, Respond
<1>11. ASSUME NEW w \in Requests,
             \/ WriteAudit(w) \/ WriteAuditFails(w) \/ Fail(w)
      PROVE OwnershipInv'
  BY <1>11, OwnershipFrame DEF WriteAudit, WriteAuditFails, Fail, Respond
<1>12. ASSUME NEW w \in Requests, Arrive(w) PROVE OwnershipInv'
  <2>1. PICK b \in Bodies :
        /\ body' = [body EXCEPT ![w] = b]
        /\ \/ Goto(w, FirstLabel(b.op))
           \/ Goto(w, "mw.cred")
           \/ Goto(w, "done")
    BY <1>12 DEF Arrive, Respond
  <2>2. pc[w] = "new" /\ UNCHANGED <<loc, pats, caps>>
    BY <1>12 DEF Arrive
  <2>3. QED
    BY <2>1, <2>2, OwnershipFrame, FirstLabelType
<1>13. ASSUME NEW t \in Requests, Expire(t) PROVE OwnershipInv'
  BY <1>13 DEF Expire, OwnershipInv, IdsNameRows, StillOwned, Issued
<1>14. CASE Terminated \/ UNCHANGED vars
  BY <1>14 DEF Terminated, vars, OwnershipInv, IdsNameRows, StillOwned, Issued
<1>15. QED
  BY <1>1, <1>2, <1>3, <1>4, <1>5, <1>6, <1>7, <1>8, <1>9, <1>10, <1>11, <1>12, <1>13, <1>14 DEF Next, Step

\* The step of OnlyTheOwnerRevokes: only three statements remove a token.
LEMMA RemovalStep ==
    ASSUME TypeOK, OwnershipInv, [Next]_vars, NEW r \in pats \cup caps
    PROVE  \/ r \in pats' \cup caps'
           \/ ~UserExists(r.uid)'
           \/ \E w \in Requests : /\ pc[w] \in {"patr.delete", "capr.delete"}
                                  /\ body[w].target = r.id /\ loc[w].uid = r.uid
<1> USE DEF tables
<1>1. ASSUME NEW w \in Requests, RevokePATDelete(w), r \notin pats' \cup caps'
      PROVE  pc[w] = "patr.delete" /\ body[w].target = r.id /\ loc[w].uid = r.uid
  BY <1>1 DEF RevokePATDelete, Without, OwnershipInv, StillOwned
<1>2. ASSUME NEW w \in Requests, RevokeCapDelete(w), r \notin pats' \cup caps'
      PROVE  pc[w] = "capr.delete" /\ body[w].target = r.id /\ loc[w].uid = r.uid
  BY <1>2 DEF RevokeCapDelete, Without, OwnershipInv, StillOwned
<1>3. ASSUME NEW w \in Requests, DeleteUserExec(w), r \notin pats' \cup caps'
      PROVE  ~UserExists(r.uid)'
  BY <1>3 DEF DeleteUserExec, OwnedByOthers, UserExists
<1>4. ASSUME NEW w \in Requests,
             \/ MwCredential(w) \/ MwUser(w) \/ Access(w) \/ LoginUser(w) \/ NewSession(w)
             \/ RefreshFind(w) \/ RefreshUser(w) \/ RefreshDelete(w)
             \/ LogoutFind(w) \/ LogoutUpdate(w) \/ IssuePAT(w) \/ RevokePATFind(w)
      PROVE  r \in pats' \cup caps'
  BY <1>4 DEF MwCredential, MwUser, Access, LoginUser, NewSession, RefreshFind, RefreshUser,
              RefreshDelete, LogoutFind, LogoutUpdate, IssuePAT, RevokePATFind, RevokeFind
<1>5. ASSUME NEW w \in Requests,
             \/ IssueCapCheck(w) \/ IssueCapInsert(w) \/ RevokeCapFind(w)
             \/ AnonList(w) \/ AnonInsert(w)
             \/ RequireMeta(w) \/ CreateUser(w) \/ DeleteUserFind(w)
             \/ WriteAudit(w) \/ WriteAuditFails(w) \/ Arrive(w)
             \/ Expire(w) \/ Fail(w)
      PROVE  r \in pats' \cup caps'
  BY <1>5 DEF IssueCapCheck, IssueCapInsert, RevokeCapFind, RevokeFind, AnonList, AnonInsert,
              RequireMeta, CreateUser, DeleteUserFind, WriteAudit, WriteAuditFails,
              Arrive, Expire, Fail
<1>6. CASE Terminated \/ UNCHANGED vars
  BY <1>6 DEF Terminated, vars
<1>7. QED
  BY <1>1, <1>2, <1>3, <1>4, <1>5, <1>6 DEF Next, Step

\* A PAT or a capability token goes only by the hand of its owner or with its
\* owner, although the handlers compare the owner a statement before they
\* delete by id.
THEOREM TokensGoWithTheirOwner == Spec => OnlyTheOwnerRevokes
<1>1. Init => OwnershipInv
  BY DEF Init, OwnershipInv, IdsNameRows, StillOwned
<1>2. TypeOK /\ OwnershipInv /\ [Next]_vars => OwnershipInv'
  BY OwnershipStep
<1>3. TypeOK /\ OwnershipInv /\ [Next]_vars =>
        [\A r \in pats \cup caps :
           \/ r \in pats' \cup caps'
           \/ ~UserExists(r.uid)'
           \/ \E w \in Requests : /\ pc[w] \in {"patr.delete", "capr.delete"}
                                  /\ body[w].target = r.id /\ loc[w].uid = r.uid]_vars
  BY RemovalStep
<1>4. QED
  BY <1>1, <1>2, <1>3, TypeCorrect, PTL DEF Spec, OnlyTheOwnerRevokes

-----------------------------------------------------------------------------
(* Revocation is final: the inductive invariant. *)

\* A request is at a statement of its own endpoint, and is answered when it is done.
Placed(w) ==
    LET op == body[w].op
    IN /\ pc[w] \in {"mw.cred", "mw.user"} => ~PassesWithoutToken(body[w])
       /\ pc[w] = "login.user" => op = "login"
       /\ pc[w] = "session.insert" => op \in {"login", "refresh"}
       /\ pc[w] \in {"refresh.find", "refresh.user", "refresh.delete"} => op = "refresh"
       /\ pc[w] \in {"logout.find", "logout.update"} => op = "logout" /\ body[w].bearer # None
       /\ pc[w] = "pat.insert" => op = "issuePAT"
       /\ pc[w] \in {"patr.find", "patr.delete"} => op = "revokePAT"
       /\ pc[w] \in {"cap.check", "cap.insert"} => op = "issueCap"
       /\ pc[w] \in {"capr.find", "capr.delete"} => op = "revokeCap"
       /\ pc[w] \in {"anon.list", "anon.insert"} => op = "anon"
       /\ pc[w] \in {"user.check", "user.insert"} => op = "createUser"
       /\ pc[w] \in {"del.check", "del.find", "del.exec"} => op = "deleteUser"
       /\ pc[w] = "access" => op \in {"access", "idle"}
       /\ pc[w] # "done" => status[w] = "none"

\* A client presents tokens it was sent, and history is of answered requests.
Held(w) ==
    /\ pc[w] # "new" /\ body[w].bearer # None => pc[body[w].bearer] = "done"
    /\ pc[w] # "new" /\ body[w].op = "refresh" /\ body[w].target # None =>
         pc[body[w].target] = "done" /\ body[body[w].target].op \in {"login", "refresh"}
    /\ \A c \in before[w] : pc[c] = "done" /\ status[c] = "ok"

\* Request t has run the insert of a token of those endpoints.
Has(t, ops) == t \in Requests /\ pc[t] \in {"audit", "done"} /\ body[t].op \in ops

\* A row belongs to the user its request was let in as.
RowsOK ==
    /\ \A s \in sessions : /\ pc[s.id] \in {"refresh.delete", "audit", "done"}
                           /\ body[s.id].op \in {"login", "refresh"} /\ s.uid = loc[s.id].uid
    /\ \A p \in pats : Has(p.id, {"issuePAT"}) /\ p.uid = loc[p.id].uid
    /\ \A c \in caps : /\ Has(c.id, {"issueCap", "anon"})
                       /\ body[c.id].op = "issueCap" => c.uid # 0 /\ c.uid = loc[c.id].uid

UserIds == \A u \in users : u.id \in 1 .. userSeq

\* What the lookup of a revocation or a deletion has established.
Found(w) ==
    /\ pc[w] = "patr.delete" => Has(body[w].target, {"issuePAT"})
    /\ pc[w] = "capr.delete" => Has(body[w].target, {"issueCap", "anon"})
    /\ pc[w] = "del.exec" => loc[w].victim <= userSeq

\* What an answered request has put an end to.
EndOK(c) ==
    (pc[c] = "audit" /\ loc[c].outcome = "ok") \/ status[c] = "ok" =>
        /\ body[c].op = "logout" => body[c].bearer \in expired
        /\ body[c].op = "refresh" => \A s \in sessions : s.id # body[c].target
        /\ body[c].op = "revokePAT" =>
             Has(body[c].target, {"issuePAT"}) /\ \A p \in pats : p.id # body[c].target
        /\ body[c].op = "revokeCap" =>
             Has(body[c].target, {"issueCap", "anon"}) /\ \A k \in caps : k.id # body[c].target
        /\ body[c].op = "deleteUser" => ~UserExists(loc[c].victim) /\ loc[c].victim <= userSeq

\* Past the lookup of its token, no request of its history has ended that token.
BearerOK(w) ==
    ~PassesWithoutToken(body[w]) /\ body[w].bearer # None /\ pc[w] \notin {"new", "mw.cred"}
      /\ status[w] \notin {"unauthorized", "error"} =>
        \A c \in before[w] : ~Ends(c, body[w].bearer)

RefreshOK(w) ==
    body[w].op = "refresh" /\ (pc[w] \in {"refresh.user", "session.insert", "refresh.delete", "audit"}
                               \/ status[w] = "ok") =>
        body[w].target # None /\ \A c \in before[w] : ~Ends(c, body[w].target)

RequestsOK ==
    \A w \in Requests : Placed(w) /\ Held(w) /\ Found(w) /\ EndOK(w) /\ BearerOK(w) /\ RefreshOK(w)

EndsInv == RowsOK /\ UserIds /\ RequestsOK

-----------------------------------------------------------------------------
(* What a step does to the request that takes it, to the others and to the tables. *)

Acts(w) == Arrive(w) \/ Step(w) \/ WriteAuditFails(w) \/ Fail(w)

Still(u) ==
    /\ pc'[u] = pc[u] /\ body'[u] = body[u] /\ loc'[u] = loc[u]
    /\ status'[u] = status[u] /\ before'[u] = before[u]

\* The statements that only read.
Looks(w) ==
    \/ MwCredential(w) \/ MwUser(w) \/ LoginUser(w) \/ RefreshFind(w) \/ RefreshUser(w)
    \/ LogoutFind(w) \/ RevokePATFind(w) \/ RevokeCapFind(w) \/ IssueCapCheck(w)
    \/ AnonList(w) \/ RequireMeta(w) \/ DeleteUserFind(w)

\* The end of a request.
Answers(w) == Access(w) \/ WriteAudit(w) \/ WriteAuditFails(w) \/ Fail(w)

\* The statements that write.
Writes(w) ==
    \/ NewSession(w) \/ RefreshDelete(w) \/ LogoutUpdate(w) \/ IssuePAT(w) \/ RevokePATDelete(w)
    \/ IssueCapInsert(w) \/ RevokeCapDelete(w) \/ AnonInsert(w) \/ CreateUser(w) \/ DeleteUserExec(w)

LEMMA ActsSplit ==
    ASSUME NEW w \in Requests, Acts(w)
    PROVE  Arrive(w) \/ Looks(w) \/ Writes(w) \/ Answers(w)
  BY DEF Acts, Step, Looks, Writes, Answers

\* Statements that read leave the tables and the other requests alone.
LEMMA LooksFacts ==
    ASSUME TypeOK, NEW w \in Requests, Looks(w)
    PROVE  /\ users' = users /\ userSeq' = userSeq /\ sessions' = sessions
           /\ pats' = pats /\ caps' = caps /\ expired' = expired
           /\ body' = body /\ before' = before
           /\ pc[w] \notin {"new", "audit", "done", "refresh.delete"}
           /\ \A u \in Requests : u # w => Still(u)
<1> USE DEF TypeOK, Still, Goto, Respond, Conclude, tables
<1>1. CASE MwCredential(w)
  BY <1>1 DEF MwCredential, EnterHandler
<1>2. CASE MwUser(w)
  BY <1>2 DEF MwUser, EnterHandler
<1>3. CASE LoginUser(w) \/ DeleteUserFind(w)
  BY <1>3 DEF LoginUser, DeleteUserFind
<1>4. CASE RefreshFind(w) \/ RefreshUser(w) \/ LogoutFind(w)
  BY <1>4 DEF RefreshFind, RefreshUser, LogoutFind
<1>5. CASE RevokePATFind(w) \/ RevokeCapFind(w)
  BY <1>5 DEF RevokePATFind, RevokeCapFind, RevokeFind
<1>6. CASE IssueCapCheck(w) \/ AnonList(w) \/ RequireMeta(w)
  BY <1>6 DEF IssueCapCheck, AnonList, RequireMeta
<1>7. QED
  BY <1>1, <1>2, <1>3, <1>4, <1>5, <1>6 DEF Looks

LEMMA AnswersFacts ==
    ASSUME TypeOK, NEW w \in Requests, Answers(w)
    PROVE  /\ users' = users /\ userSeq' = userSeq /\ sessions' = sessions
           /\ pats' = pats /\ caps' = caps /\ expired' = expired
           /\ body' = body /\ before' = before /\ loc' = loc
           /\ pc[w] \notin {"new", "done"} /\ pc'[w] = "done"
           /\ \/ status'[w] = "error"
              \/ pc[w] = "access" /\ status'[w] = "ok"
              \/ pc[w] = "audit" /\ status'[w] = loc[w].outcome
           /\ \A u \in Requests : u # w => Still(u)
  BY DEF TypeOK, Still, Goto, Respond, tables, Answers, Access, WriteAudit, WriteAuditFails, Fail, InFlight

LEMMA WritesFacts ==
    ASSUME TypeOK, NEW w \in Requests, Writes(w)
    PROVE  /\ body' = body /\ before' = before /\ expired \subseteq expired' /\ userSeq' \in Nat
           /\ userSeq <= userSeq'
           /\ loc'[w].uid = loc[w].uid /\ loc'[w].victim = loc[w].victim
           /\ pc[w] \notin {"new", "audit", "done", "mw.cred", "mw.user"}
           /\ pc'[w] \in {"audit", "done", "refresh.delete"}
           /\ pc'[w] = "refresh.delete" => pc[w] = "session.insert" /\ body[w].op = "refresh" /\ status' = status
           /\ pc'[w] = "audit" => status' = status
           /\ pc'[w] = "done" => status'[w] # "ok"
           /\ \A u \in Requests : u # w => Still(u)
<1> USE DEF TypeOK, Locals, Still, Goto, Respond, Conclude, tables
<1>1. CASE NewSession(w)
  BY <1>1 DEF NewSession
<1>2. CASE RefreshDelete(w) \/ LogoutUpdate(w)
  BY <1>2 DEF RefreshDelete, LogoutUpdate
<1>3. CASE IssuePAT(w) \/ IssueCapInsert(w) \/ AnonInsert(w)
  BY <1>3 DEF IssuePAT, IssueCapInsert, AnonInsert
<1>4. CASE RevokePATDelete(w) \/ RevokeCapDelete(w)
  BY <1>4 DEF RevokePATDelete, RevokeCapDelete
<1>5. CASE CreateUser(w) \/ DeleteUserExec(w)
  BY <1>5 DEF CreateUser, DeleteUserExec
<1>6. QED
  BY <1>1, <1>2, <1>3, <1>4, <1>5 DEF Writes

\* A request arrives with a body of Bodies and goes to its endpoint or the middleware.
ArrivesWith(w, b) ==
    /\ Holds(b.bearer)
    /\ b.op = "refresh" => Holds(b.target) /\ KindOf(b.target) = "session"
    /\ body'[w] = b
    /\ \/ PassesWithoutToken(b) /\ pc'[w] = FirstLabel(b.op) /\ status' = status
       \/ ~PassesWithoutToken(b) /\ b.bearer # None /\ pc'[w] = "mw.cred" /\ status' = status
       \/ ~PassesWithoutToken(b) /\ pc'[w] = "done" /\ status'[w] = "unauthorized"

LEMMA ArriveFacts ==
    ASSUME TypeOK, NEW w \in Requests, Arrive(w)
    PROVE  /\ users' = users /\ userSeq' = userSeq /\ sessions' = sessions
           /\ pats' = pats /\ caps' = caps /\ expired' = expired /\ loc' = loc
           /\ pc[w] = "new"
           /\ before'[w] = {u \in Requests : status[u] = "ok"}
           /\ \E b \in Body : ArrivesWith(w, b)
           /\ \A u \in Requests : u # w => Still(u)
<1> USE DEF TypeOK, Still, tables
<1>1. PICK b \in Bodies :
        /\ Holds(b.bearer)
        /\ b.op = "refresh" => (Holds(b.target) /\ KindOf(b.target) = "session")
        /\ body' = [body EXCEPT ![w] = b]
        /\ \/ PassesWithoutToken(b) /\ Goto(w, FirstLabel(b.op)) /\ UNCHANGED status
           \/ /\ ~PassesWithoutToken(b) /\ b.bearer # None
              /\ Goto(w, "mw.cred") /\ UNCHANGED status
           \/ ~PassesWithoutToken(b) /\ b.bearer = None /\ Respond(w, "unauthorized")
  BY Zenon DEF Arrive
<1>2. /\ users' = users /\ userSeq' = userSeq /\ sessions' = sessions
      /\ pats' = pats /\ caps' = caps /\ expired' = expired /\ loc' = loc
      /\ pc[w] = "new"
      /\ before' = [before EXCEPT ![w] = {u \in Requests : status[u] = "ok"}]
  BY DEF Arrive
<1>3. b \in Body
  BY CredAssumption
<1>4. ArrivesWith(w, b)
  BY <1>1, <1>2 DEF ArrivesWith, Goto, Respond
<1>5. \A u \in Requests : u # w => Still(u)
  BY <1>1, <1>2 DEF Goto, Respond
<1>6. QED
  BY <1>2, <1>3, <1>4, <1>5

\* Only the request that runs moves, and an answered one runs no more.
LEMMA OthersStill ==
    ASSUME TypeOK, NEW w \in Requests, Acts(w)
    PROVE  /\ pc[w] # "done"
           /\ \A u \in Requests : u # w \/ pc[u] = "done" => Still(u)
           /\ pc[w] # "new" => body'[w] = body[w] /\ before'[w] = before[w]
  BY ActsSplit, ArriveFacts, LooksFacts, WritesFacts, AnswersFacts

\* From its last statement on a request keeps the user and the victim it found.
LEMMA TailStep ==
    ASSUME TypeOK, NEW w \in Requests, Acts(w), NEW u \in Requests,
           pc[u] \in {"refresh.delete", "audit", "done"}
    PROVE  /\ pc'[u] \in {"refresh.delete", "audit", "done"} /\ body'[u] = body[u]
           /\ pc[u] \in {"audit", "done"} => pc'[u] \in {"audit", "done"}
           /\ loc'[u].uid = loc[u].uid /\ loc'[u].victim = loc[u].victim
<1>1. CASE u # w \/ pc[u] = "done"
  BY <1>1, OthersStill DEF Still
<1>2. CASE u = w /\ pc[u] # "done"
  <2>1. CASE Writes(w)
    BY <1>2, <2>1, WritesFacts
  <2>2. CASE Answers(w)
    BY <1>2, <2>2, AnswersFacts
  <2>3. QED
    BY <1>2, <2>1, <2>2, ActsSplit, ArriveFacts, LooksFacts
<1>3. QED
  BY <1>1, <1>2

-----------------------------------------------------------------------------
(* Rows. *)

LEMMA SessionRows ==
    ASSUME TypeOK, NEW w \in Requests, Acts(w), NEW s \in sessions'
    PROVE  \/ \E q \in sessions : q.id = s.id /\ q.uid = s.uid
           \/ /\ NewSession(w) /\ UserExists(loc[w].uid)
              /\ s = [id |-> w, uid |-> loc[w].uid, refreshable |-> TRUE]
<1>1. CASE NewSession(w)
  BY <1>1 DEF NewSession
<1>2. CASE LogoutUpdate(w)
  <2>1. PICK q \in sessions : s = IF q.id = body[w].bearer THEN [q EXCEPT !.refreshable = FALSE] ELSE q
    BY <1>2 DEF LogoutUpdate
  <2>2. QED
    BY <2>1 DEF TypeOK, SessionRow
<1>3. CASE RefreshDelete(w) \/ DeleteUserExec(w)
  BY <1>3 DEF RefreshDelete, DeleteUserExec, Without, OwnedByOthers
<1>4. CASE \/ IssuePAT(w) \/ RevokePATDelete(w) \/ IssueCapInsert(w) \/ RevokeCapDelete(w)
           \/ AnonInsert(w) \/ CreateUser(w)
  BY <1>4 DEF IssuePAT, RevokePATDelete, IssueCapInsert, RevokeCapDelete, AnonInsert, CreateUser
<1>5. QED
  BY <1>1, <1>2, <1>3, <1>4, ActsSplit, ArriveFacts, LooksFacts, AnswersFacts DEF Writes

LEMMA PATRows ==
    ASSUME TypeOK, NEW w \in Requests, Acts(w), NEW p \in pats'
    PROVE  \/ p \in pats
           \/ IssuePAT(w) /\ pc'[w] = "audit" /\ p = [id |-> w, uid |-> loc[w].uid, expires |-> body[w].expires]
<1>1. CASE IssuePAT(w)
  BY <1>1 DEF IssuePAT, Conclude, Goto, TypeOK
<1>2. CASE RevokePATDelete(w) \/ DeleteUserExec(w)
  BY <1>2 DEF RevokePATDelete, DeleteUserExec, Without, OwnedByOthers
<1>3. CASE \/ NewSession(w) \/ LogoutUpdate(w) \/ RefreshDelete(w) \/ IssueCapInsert(w) \/ RevokeCapDelete(w)
           \/ AnonInsert(w) \/ CreateUser(w)
  BY <1>3 DEF NewSession, LogoutUpdate, RefreshDelete, IssueCapInsert, RevokeCapDelete, AnonInsert, CreateUser
<1>4. QED
  BY <1>1, <1>2, <1>3, ActsSplit, ArriveFacts, LooksFacts, AnswersFacts DEF Writes

LEMMA CapRows ==
    ASSUME TypeOK, NEW w \in Requests, Acts(w), NEW k \in caps'
    PROVE  \/ k \in caps
           \/ /\ IssueCapInsert(w) /\ UserExists(loc[w].uid) /\ pc'[w] = "audit"
              /\ k = [id |-> w, uid |-> loc[w].uid]
           \/ AnonInsert(w) /\ pc'[w] = "audit" /\ k = [id |-> w, uid |-> 0]
<1>1. CASE IssueCapInsert(w)
  BY <1>1 DEF IssueCapInsert, Conclude, Goto, TypeOK
<1>2. CASE AnonInsert(w)
  BY <1>2 DEF AnonInsert, Conclude, Goto, TypeOK
<1>3. CASE RevokeCapDelete(w) \/ DeleteUserExec(w)
  BY <1>3 DEF RevokeCapDelete, DeleteUserExec, Without, OwnedByOthers
<1>4. CASE \/ NewSession(w) \/ LogoutUpdate(w) \/ RefreshDelete(w) \/ IssuePAT(w) \/ RevokePATDelete(w)
           \/ CreateUser(w)
  BY <1>4 DEF NewSession, LogoutUpdate, RefreshDelete, IssuePAT, RevokePATDelete, CreateUser
<1>5. QED
  BY <1>1, <1>2, <1>3, <1>4, ActsSplit, ArriveFacts, LooksFacts, AnswersFacts DEF Writes

LEMMA UserRows ==
    ASSUME TypeOK, NEW w \in Requests, Acts(w)
    PROVE  /\ \A u \in users' : u \in users \/ (u.id = userSeq + 1 /\ userSeq' = userSeq + 1)
           /\ userSeq \in Nat /\ userSeq' \in Nat /\ userSeq <= userSeq' /\ expired \subseteq expired'
<1>0. userSeq \in Nat
  BY DEF TypeOK
<1>1. CASE CreateUser(w)
  <2>1. /\ users' = users \cup {[id |-> userSeq + 1, name |-> body[w].user, pass |-> body[w].pass]}
        /\ userSeq' = userSeq + 1 /\ expired' = expired
    BY <1>1 DEF CreateUser
  <2>2. QED
    BY <1>0, <2>1
<1>2. CASE DeleteUserExec(w)
  <2>1. users' \subseteq users /\ userSeq' = userSeq /\ expired \subseteq expired'
    BY <1>2 DEF DeleteUserExec
  <2>2. QED
    BY <1>0, <2>1
<1>3. CASE \/ NewSession(w) \/ LogoutUpdate(w) \/ RefreshDelete(w) \/ IssuePAT(w) \/ RevokePATDelete(w)
           \/ IssueCapInsert(w) \/ RevokeCapDelete(w) \/ AnonInsert(w)
  <2>1. users' \subseteq users /\ userSeq' = userSeq /\ expired \subseteq expired'
    BY <1>3 DEF NewSession, LogoutUpdate, RefreshDelete, IssuePAT, RevokePATDelete, IssueCapInsert,
       RevokeCapDelete, AnonInsert
  <2>2. QED
    BY <1>0, <2>1
<1>4. CASE Arrive(w) \/ Looks(w) \/ Answers(w)
  <2>1. users' = users /\ userSeq' = userSeq /\ expired' = expired
    BY <1>4, ArriveFacts, LooksFacts, AnswersFacts
  <2>2. QED
    BY <1>0, <2>1
<1>5. QED
  BY <1>1, <1>2, <1>3, <1>4, ActsSplit DEF Writes

LEMMA UserIdsStep ==
    ASSUME TypeOK, UserIds, NEW w \in Requests, Acts(w)
    PROVE  UserIds'
<1> SUFFICES ASSUME NEW u \in users' PROVE u.id \in 1 .. userSeq'
  BY DEF UserIds
<1>1. QED
  BY UserRows DEF UserIds, TypeOK, UserRow

LEMMA HasStep ==
    ASSUME TypeOK, NEW w \in Requests, Acts(w), NEW t, NEW ops, Has(t, ops)
    PROVE  Has(t, ops)'
  BY TailStep DEF Has

LEMMA RowsStep ==
    ASSUME TypeOK, UserIds, RowsOK, NEW w \in Requests, Acts(w), Placed(w)
    PROVE  RowsOK'
<1>1. ASSUME NEW s \in sessions'
      PROVE  /\ pc'[s.id] \in {"refresh.delete", "audit", "done"}
             /\ body'[s.id].op \in {"login", "refresh"} /\ s.uid = loc'[s.id].uid
  <2>1. CASE \E q \in sessions : q.id = s.id /\ q.uid = s.uid
    <3>1. PICK q \in sessions : q.id = s.id /\ q.uid = s.uid
      BY <2>1
    <3>2. q.id \in Requests
      BY DEF TypeOK, SessionRow
    <3>3. QED
      BY <3>1, <3>2, TailStep DEF RowsOK
  <2>2. CASE NewSession(w) /\ UserExists(loc[w].uid) /\ s = [id |-> w, uid |-> loc[w].uid, refreshable |-> TRUE]
    <3>1. Writes(w) /\ pc[w] = "session.insert" /\ pc'[w] \in {"audit", "refresh.delete"}
      BY <2>2 DEF Writes, NewSession, Conclude, Goto, TypeOK
    <3>2. body'[w] = body[w] /\ loc'[w].uid = loc[w].uid
      BY <3>1, WritesFacts
    <3>3. body[w].op \in {"login", "refresh"}
      BY <3>1 DEF Placed
    <3>4. QED
      BY <2>2, <3>1, <3>2, <3>3
  <2>3. QED
    BY <2>1, <2>2, SessionRows
<1>2. ASSUME NEW p \in pats' PROVE Has(p.id, {"issuePAT"})' /\ p.uid = loc'[p.id].uid
  <2>1. CASE p \in pats
    <3>1. Has(p.id, {"issuePAT"}) /\ p.uid = loc[p.id].uid
      BY <2>1 DEF RowsOK
    <3>2. QED
      BY <3>1, TailStep DEF Has
  <2>2. CASE IssuePAT(w) /\ pc'[w] = "audit" /\ p = [id |-> w, uid |-> loc[w].uid, expires |-> body[w].expires]
    <3>1. Writes(w) /\ pc[w] = "pat.insert"
      BY <2>2 DEF Writes, IssuePAT
    <3>2. body'[w] = body[w] /\ loc'[w].uid = loc[w].uid
      BY <3>1, WritesFacts
    <3>3. QED
      BY <2>2, <3>1, <3>2 DEF Placed, Has
  <2>3. QED
    BY <2>1, <2>2, PATRows
<1>3. ASSUME NEW k \in caps'
      PROVE  /\ Has(k.id, {"issueCap", "anon"})'
             /\ body'[k.id].op = "issueCap" => k.uid # 0 /\ k.uid = loc'[k.id].uid
  <2>1. CASE k \in caps
    <3>1. /\ Has(k.id, {"issueCap", "anon"})
          /\ body[k.id].op = "issueCap" => k.uid # 0 /\ k.uid = loc[k.id].uid
      BY <2>1 DEF RowsOK
    <3>2. QED
      BY <3>1, TailStep DEF Has
  <2>2. CASE IssueCapInsert(w) /\ UserExists(loc[w].uid) /\ pc'[w] = "audit" /\ k = [id |-> w, uid |-> loc[w].uid]
    <3>1. Writes(w) /\ pc[w] = "cap.insert"
      BY <2>2 DEF Writes, IssueCapInsert
    <3>2. body'[w] = body[w] /\ loc'[w].uid = loc[w].uid
      BY <3>1, WritesFacts
    <3>3. loc[w].uid # 0
      BY <2>2 DEF UserExists, UserIds, TypeOK
    <3>4. QED
      BY <2>2, <3>1, <3>2, <3>3 DEF Placed, Has
  <2>3. CASE AnonInsert(w) /\ pc'[w] = "audit" /\ k = [id |-> w, uid |-> 0]
    <3>1. Writes(w) /\ pc[w] = "anon.insert"
      BY <2>3 DEF Writes, AnonInsert
    <3>2. body'[w] = body[w]
      BY <3>1, WritesFacts
    <3>3. QED
      BY <2>3, <3>1, <3>2 DEF Placed, Has
  <2>4. QED
    BY <2>1, <2>2, <2>3, CapRows
<1>4. QED
  BY <1>1, <1>2, <1>3 DEF RowsOK

-----------------------------------------------------------------------------
(* Requests. *)

\* The endpoint of a label the router gives out.
LEMMA FirstLabelPlace ==
    ASSUME TypeOK, NEW w \in Requests, NEW b \in Body, body'[w] = b, pc'[w] = FirstLabel(b.op),
           b.op = "logout" => b.bearer # None, status'[w] = "none"
    PROVE  Placed(w)'
<1>1. b.op \in Ops
  BY DEF Body
<1>2. QED
  BY <1>1 DEF Placed, FirstLabel, Ops

LEMMA EnterPlace ==
    ASSUME TypeOK, Routed, NEW w \in Requests, EnterHandler(w), body' = body, Placed(w),
           pc[w] \in {"mw.cred", "mw.user"}
    PROVE  /\ Placed(w)'
           /\ pc'[w] # "done" => status'[w] = "none" /\ pc'[w] = FirstLabel(body[w].op)
           /\ pc'[w] = "done" => status'[w] # "ok"
<1> DEFINE refusal == ContextRefusal(body[w].op, KindOf(body[w].bearer))
<1>0. body[w] \in Body /\ body[w].bearer # None /\ status[w] = "none" /\ pc[w] \in Labels
  BY DEF TypeOK, Routed, Placed
<1>1. CASE refusal = "none"
  <2>1. pc'[w] = FirstLabel(body[w].op) /\ status' = status
    BY <1>1 DEF EnterHandler, Goto, TypeOK
  <2>2. FirstLabel(body[w].op) # "done"
    BY DEF FirstLabel
  <2>3. QED
    BY <1>0, <2>1, <2>2, FirstLabelPlace
<1>2. CASE refusal # "none"
  <2>1. pc'[w] = "done" /\ status'[w] = refusal
    BY <1>2 DEF EnterHandler, Respond, Goto, TypeOK
  <2>2. refusal # "ok"
    BY DEF ContextRefusal
  <2>3. QED
    BY <2>1, <2>2 DEF Placed
<1>3. QED
  BY <1>1, <1>2

\* A statement that reads sends a request on, or answers it with a refusal.
LEMMA LooksPlace ==
    ASSUME TypeOK, Routed, NEW w \in Requests, Looks(w), Placed(w)
    PROVE  /\ Placed(w)'
           /\ status'[w] # "ok" /\ ~(pc'[w] = "audit" /\ loc'[w].outcome = "ok")
<1>0. body' = body /\ status[w] = "none" /\ pc[w] \notin {"new", "audit", "done"}
  BY LooksFacts DEF Placed
<1> DEFINE Goal == Placed(w)' /\ status'[w] # "ok" /\ ~(pc'[w] = "audit" /\ loc'[w].outcome = "ok")
<1>1. ASSUME pc'[w] = "done", status'[w] # "ok" PROVE Goal
  BY <1>1 DEF Placed
<1>2. ASSUME pc'[w] = "audit", status'[w] = "none", loc'[w].outcome # "ok" PROVE Goal
  BY <1>2 DEF Placed
<1>3. CASE MwCredential(w) \/ MwUser(w)
  <2>1. CASE EnterHandler(w)
    <3>1. pc[w] \in {"mw.cred", "mw.user"} /\ body[w].op \in Ops
      BY <1>3 DEF MwCredential, MwUser, TypeOK, Body
    <3>2. FirstLabel(body[w].op) # "audit"
      BY DEF FirstLabel
    <3>3. QED
      BY <1>0, <2>1, <3>1, <3>2, EnterPlace
  <2>2. CASE Respond(w, "unauthorized")
    BY <1>1, <2>2 DEF Respond, Goto, TypeOK
  <2>3. CASE pc[w] = "mw.cred" /\ pc' = [pc EXCEPT ![w] = "mw.user"] /\ status' = status
    BY <1>0, <2>3 DEF Placed, TypeOK
  <2>4. QED
    BY <1>3, <2>1, <2>2, <2>3 DEF MwCredential, MwUser, Goto
<1>4. CASE LoginUser(w)
  <2>1. CASE Conclude(w, "unauthorized")
    BY <1>0, <1>2, <2>1 DEF Conclude, Goto, TypeOK, Locals
  <2>2. CASE pc[w] = "login.user" /\ pc' = [pc EXCEPT ![w] = "session.insert"] /\ status' = status
    BY <1>0, <2>2 DEF Placed, TypeOK
  <2>3. QED
    BY <1>4, <2>1, <2>2 DEF LoginUser, Goto
<1>5. ASSUME NEW s \in {"unauthorized", "notFound", "unavailable", "forbidden", "error"}, Respond(w, s)
      PROVE  Goal
  BY <1>1, <1>5 DEF Respond, Goto, TypeOK
<1>6. CASE RefreshFind(w) \/ RefreshUser(w) \/ LogoutFind(w)
  <2>1. CASE Respond(w, "unauthorized")
    BY <1>5, <2>1
  <2>2. CASE status' = status
    BY <1>0, <1>6, <2>2 DEF RefreshFind, RefreshUser, LogoutFind, Respond, Goto, Placed, TypeOK
  <2>3. QED
    BY <1>6, <2>1, <2>2 DEF RefreshFind, RefreshUser, LogoutFind
<1>7. CASE RevokePATFind(w) \/ RevokeCapFind(w)
  <2>1. CASE Respond(w, "unauthorized") \/ Respond(w, "notFound")
    BY <1>5, <2>1
  <2>2. CASE status' = status
    BY <1>0, <1>7, <2>2 DEF RevokePATFind, RevokeCapFind, RevokeFind, Respond, Goto, Placed, TypeOK
  <2>3. QED
    BY <1>7, <2>1, <2>2 DEF RevokePATFind, RevokeCapFind, RevokeFind
<1>8. CASE IssueCapCheck(w) \/ AnonList(w) \/ RequireMeta(w)
  <2>1. CASE Respond(w, "unauthorized") \/ Respond(w, "unavailable") \/ Respond(w, "forbidden")
    BY <1>5, <2>1
  <2>2. CASE status' = status
    BY <1>0, <1>8, <2>2 DEF IssueCapCheck, AnonList, RequireMeta, Respond, Goto, Placed, TypeOK
  <2>3. QED
    BY <1>8, <2>1, <2>2 DEF IssueCapCheck, AnonList, RequireMeta
<1>9. CASE DeleteUserFind(w)
  <2>1. CASE Respond(w, "error")
    BY <1>5, <2>1
  <2>2. CASE status' = status
    BY <1>0, <1>9, <2>2 DEF DeleteUserFind, Respond, Goto, Placed, TypeOK
  <2>3. QED
    BY <1>9, <2>1, <2>2 DEF DeleteUserFind
<1>10. QED
  BY <1>3, <1>4, <1>6, <1>7, <1>8, <1>9 DEF Looks

LEMMA PlacedStep ==
    ASSUME TypeOK, Routed, NEW w \in Requests, Acts(w), Placed(w)
    PROVE  Placed(w)'
<1>1. CASE Arrive(w)
  <2>1. PICK b \in Body : ArrivesWith(w, b)
    BY <1>1, ArriveFacts
  <2>2. status[w] = "none"
    BY <1>1, ArriveFacts DEF Placed
  <2>3. CASE PassesWithoutToken(b) /\ pc'[w] = FirstLabel(b.op) /\ status' = status
    BY <2>1, <2>2, <2>3, FirstLabelPlace DEF ArrivesWith, PassesWithoutToken
  <2>4. CASE ~PassesWithoutToken(b) /\ pc'[w] = "mw.cred" /\ status' = status
    BY <2>1, <2>2, <2>4 DEF ArrivesWith, Placed, PassesWithoutToken
  <2>5. CASE pc'[w] = "done"
    BY <2>5 DEF Placed
  <2>6. QED
    BY <2>1, <2>3, <2>4, <2>5 DEF ArrivesWith
<1>2. CASE Looks(w)
  BY <1>2, LooksPlace
<1>3. CASE Writes(w)
  BY <1>3, WritesFacts DEF Placed
<1>4. CASE Answers(w)
  BY <1>4, AnswersFacts DEF Placed
<1>5. QED
  BY <1>1, <1>2, <1>3, <1>4, ActsSplit

LEMMA HeldStep ==
    ASSUME TypeOK, NEW w \in Requests, Acts(w), \A u \in Requests : Placed(u),
           NEW u \in Requests, Held(u)
    PROVE  Held(u)'
<1>0. /\ \A t \in Requests : pc[t] = "done" => Still(t)
      /\ body[u] \in Body /\ before[u] \subseteq Requests
  BY OthersStill DEF TypeOK
<1>1. CASE ~(u = w /\ pc[w] = "new")
  <2>1. body'[u] = body[u] /\ before'[u] = before[u] /\ (pc'[u] # "new" => pc[u] # "new")
    <3>1. CASE u # w
      BY <3>1, OthersStill DEF Still
    <3>2. CASE u = w
      BY <1>1, <3>2, OthersStill
    <3>3. QED
      BY <3>1, <3>2
  <2>2. QED
    BY <1>0, <2>1 DEF Held, Still, Body
<1>2. CASE u = w /\ pc[w] = "new"
  <2>1. Arrive(w)
    BY <1>2, ActsSplit, LooksFacts, WritesFacts, AnswersFacts
  <2>2. PICK b \in Body : ArrivesWith(w, b)
    BY <2>1, ArriveFacts
  <2>3. \A t \in Requests : status[t] = "ok" => pc[t] = "done"
    BY DEF Placed
  <2>4. \A c \in before'[w] : pc'[c] = "done" /\ status'[c] = "ok"
    BY <1>0, <2>1, <2>3, ArriveFacts DEF Still
  <2>5. b.bearer # None => pc'[b.bearer] = "done"
    BY <1>0, <2>2, <2>3 DEF ArrivesWith, Holds, Still, Body
  <2>6. ASSUME b.op = "refresh", b.target # None
        PROVE  pc'[b.target] = "done" /\ body'[b.target].op \in {"login", "refresh"}
    <3>1. b.target \in Requests /\ status[b.target] = "ok" /\ KindOf(b.target) = "session"
      BY <2>2, <2>6 DEF ArrivesWith, Holds, Body
    <3>2. body[b.target].op \in {"login", "refresh"}
      BY <3>1 DEF KindOf
    <3>3. QED
      BY <1>0, <2>3, <3>1, <3>2 DEF Still
  <2>7. QED
    BY <1>2, <2>2, <2>4, <2>5, <2>6 DEF Held, ArrivesWith
<1>3. QED
  BY <1>1, <1>2

LEMMA FoundStep ==
    ASSUME TypeOK, RowsOK, UserIds, NEW w \in Requests, Acts(w), NEW u \in Requests, Found(u)
    PROVE  Found(u)'
<1>0. userSeq <= userSeq' /\ userSeq \in Nat /\ userSeq' \in Nat
  BY UserRows
<1>1. CASE u # w
  <2>1. pc'[u] = pc[u] /\ body'[u] = body[u] /\ loc'[u] = loc[u] /\ loc[u].victim \in Nat
    BY <1>1, OthersStill DEF Still, TypeOK, Locals
  <2>2. pc[u] = "patr.delete" => Has(body[u].target, {"issuePAT"})'
    BY <2>1, HasStep DEF Found, Has
  <2>3. pc[u] = "capr.delete" => Has(body[u].target, {"issueCap", "anon"})'
    BY <2>1, HasStep DEF Found, Has
  <2>4. QED
    BY <1>0, <2>1, <2>2, <2>3 DEF Found, Has
<1>2. CASE u = w
  <2> SUFFICES Found(w)'
    BY <1>2
  <2>1. ASSUME pc'[w] \notin {"patr.delete", "capr.delete", "del.exec"} PROVE Found(w)'
    BY <2>1 DEF Found
  <2>2. CASE RevokePATFind(w)
    <3>1. /\ body' = body
          /\ pc'[w] = "patr.delete" => \E r \in pats : r.id = body[w].target
          /\ pc'[w] \notin {"capr.delete", "del.exec"}
      BY <2>2 DEF RevokePATFind, RevokeFind, MayRevoke, Goto, Respond, TypeOK
    <3>2. pc'[w] = "patr.delete" => Has(body[w].target, {"issuePAT"})'
      BY <3>1, HasStep DEF RowsOK, Has
    <3>3. QED
      BY <3>1, <3>2 DEF Found, Has
  <2>3. CASE RevokeCapFind(w)
    <3>1. /\ body' = body
          /\ pc'[w] = "capr.delete" => \E r \in caps : r.id = body[w].target
          /\ pc'[w] \notin {"patr.delete", "del.exec"}
      BY <2>3 DEF RevokeCapFind, RevokeFind, MayRevoke, Goto, Respond, TypeOK
    <3>2. pc'[w] = "capr.delete" => Has(body[w].target, {"issueCap", "anon"})'
      BY <3>1, HasStep DEF RowsOK, Has
    <3>3. QED
      BY <3>1, <3>2 DEF Found, Has
  <2>4. CASE DeleteUserFind(w)
    <3>1. /\ userSeq' = userSeq
          /\ pc'[w] = "del.exec" => \E x \in users : loc' = [loc EXCEPT ![w].victim = x.id]
          /\ pc'[w] \notin {"patr.delete", "capr.delete"}
      BY <2>4 DEF DeleteUserFind, Goto, Respond, TypeOK, tables
    <3>2. pc'[w] = "del.exec" => loc'[w].victim <= userSeq
      BY <1>0, <3>1 DEF UserIds, TypeOK, Locals
    <3>3. QED
      BY <3>1, <3>2 DEF Found
  <2>5. CASE Arrive(w)
    <3>1. PICK b \in Body : ArrivesWith(w, b)
      BY <2>5, ArriveFacts
    <3>2. FirstLabel(b.op) \notin {"patr.delete", "capr.delete", "del.exec"}
      BY DEF FirstLabel
    <3>3. QED
      BY <2>1, <3>1, <3>2 DEF ArrivesWith
  <2>6. CASE MwCredential(w) \/ MwUser(w)
    <3>1. FirstLabel(body[w].op) \notin {"patr.delete", "capr.delete", "del.exec"}
      BY DEF FirstLabel
    <3>2. QED
      BY <2>1, <2>6, <3>1 DEF MwCredential, MwUser, EnterHandler, Goto, Respond, TypeOK
  <2>7. CASE LoginUser(w) \/ RefreshFind(w) \/ RefreshUser(w) \/ LogoutFind(w)
    BY <2>1, <2>7 DEF LoginUser, RefreshFind, RefreshUser, LogoutFind, Conclude, Goto, Respond, TypeOK
  <2>8. CASE IssueCapCheck(w) \/ AnonList(w) \/ RequireMeta(w)
    BY <2>1, <2>8 DEF IssueCapCheck, AnonList, RequireMeta, Goto, Respond, TypeOK
  <2>9. CASE Writes(w) \/ Answers(w)
    BY <2>1, <2>9, WritesFacts, AnswersFacts
  <2>10. QED
    BY <1>2, <2>2, <2>3, <2>4, <2>5, <2>6, <2>7, <2>8, <2>9, ActsSplit DEF Looks
<1>3. QED
  BY <1>1, <1>2

-----------------------------------------------------------------------------
(* What has ended stays ended. *)

\* An ended token is not issued again, an expiry is not undone, a user does not come back.
LEMMA EndStep ==
    ASSUME TypeOK, NEW w \in Requests, Acts(w), \A u \in Requests : Placed(u) /\ Held(u),
           NEW c \in Requests, EndOK(c), Still(c)
    PROVE  EndOK(c)'
<1> SUFFICES ASSUME (pc[c] = "audit" /\ loc[c].outcome = "ok") \/ status[c] = "ok" PROVE EndOK(c)'
  BY DEF EndOK, Still
<1>0. pc[c] # "new" /\ body'[c] = body[c] /\ loc'[c] = loc[c] /\ pc[w] # "done" /\ w # None
  BY OthersStill, CredAssumption DEF Placed, Still
<1>1. body[c].op = "logout" => body[c].bearer \in expired'
  BY UserRows DEF EndOK
<1>2. ASSUME body[c].op = "refresh", NEW s \in sessions', s.id = body[c].target PROVE FALSE
  <2>1. s.id = w
    BY <1>2, SessionRows DEF EndOK
  <2>2. QED
    BY <1>0, <1>2, <2>1 DEF Held
<1>3. body[c].op = "revokePAT" =>
        Has(body[c].target, {"issuePAT"})' /\ \A p \in pats' : p.id # body[c].target
  <2> SUFFICES ASSUME body[c].op = "revokePAT"
               PROVE  Has(body[c].target, {"issuePAT"})' /\ \A p \in pats' : p.id # body[c].target
    OBVIOUS
  <2>1. Has(body[c].target, {"issuePAT"}) /\ \A p \in pats : p.id # body[c].target
    BY DEF EndOK
  <2>2. Has(body[c].target, {"issuePAT"})'
    BY <1>0, <2>1, HasStep DEF Has
  <2>3. IssuePAT(w) => body[c].target # w
    BY <2>1 DEF IssuePAT, Has
  <2>4. QED
    BY <2>1, <2>2, <2>3, PATRows
<1>4. body[c].op = "revokeCap" =>
        Has(body[c].target, {"issueCap", "anon"})' /\ \A k \in caps' : k.id # body[c].target
  <2> SUFFICES ASSUME body[c].op = "revokeCap"
               PROVE  Has(body[c].target, {"issueCap", "anon"})' /\ \A k \in caps' : k.id # body[c].target
    OBVIOUS
  <2>1. Has(body[c].target, {"issueCap", "anon"}) /\ \A k \in caps : k.id # body[c].target
    BY DEF EndOK
  <2>2. Has(body[c].target, {"issueCap", "anon"})'
    BY <1>0, <2>1, HasStep DEF Has
  <2>3. IssueCapInsert(w) \/ AnonInsert(w) => body[c].target # w
    BY <2>1 DEF IssueCapInsert, AnonInsert, Has
  <2>4. QED
    BY <2>1, <2>2, <2>3, CapRows
<1>5. body[c].op = "deleteUser" => ~UserExists(loc[c].victim)' /\ loc[c].victim <= userSeq'
  <2> SUFFICES ASSUME body[c].op = "deleteUser"
               PROVE  ~UserExists(loc[c].victim)' /\ loc[c].victim <= userSeq'
    OBVIOUS
  <2>1. ~UserExists(loc[c].victim) /\ loc[c].victim <= userSeq /\ loc[c].victim \in Nat
    BY DEF EndOK, TypeOK, Locals
  <2>2. \A x \in users' : x.id # loc[c].victim
    BY <2>1, UserRows DEF UserExists
  <2>3. QED
    BY <1>0, <2>1, <2>2, UserRows DEF UserExists
<1>6. QED
  BY <1>0, <1>1, <1>2, <1>3, <1>4, <1>5 DEF EndOK, Has, UserExists

\* The DELETE or UPDATE of a revocation ends what the request is about.
LEMMA OwnEndStep ==
    ASSUME TypeOK, Routed, NEW w \in Requests, Acts(w), Placed(w), Found(w), EndOK(w)
    PROVE  EndOK(w)'
<1> DEFINE Over == (pc'[w] = "audit" /\ loc'[w].outcome = "ok") \/ status'[w] = "ok"
<1>1. CASE Arrive(w)
  <2>1. PICK b \in Body : ArrivesWith(w, b)
    BY <1>1, ArriveFacts
  <2>2. status[w] = "none" /\ FirstLabel(b.op) # "audit"
    BY <1>1, ArriveFacts DEF Placed, FirstLabel
  <2>3. ~Over
    BY <2>1, <2>2 DEF ArrivesWith
  <2>4. QED
    BY <2>3 DEF EndOK
<1>2. CASE Looks(w)
  BY <1>2, LooksPlace DEF EndOK
<1>3. CASE Answers(w)
  <2>1. CASE status'[w] = "error"
    BY <1>3, <2>1, AnswersFacts DEF EndOK
  <2>2. CASE pc[w] = "access"
    BY <1>3, <2>2, AnswersFacts DEF EndOK, Placed
  <2>3. CASE pc[w] = "audit" /\ status'[w] = loc[w].outcome
    <3>1. /\ users' = users /\ userSeq' = userSeq /\ sessions' = sessions
          /\ pats' = pats /\ caps' = caps /\ expired' = expired
          /\ body' = body /\ loc' = loc /\ pc'[w] = "done"
      BY <1>3, AnswersFacts
    <3>2. \A t, ops : Has(t, ops) => Has(t, ops)'
      BY HasStep
    <3>3. QED
      BY <2>3, <3>1, <3>2 DEF EndOK, UserExists, Has
  <2>4. QED
    BY <1>3, <2>1, <2>2, <2>3, AnswersFacts
<1>4. ASSUME Writes(w), body[w].op \notin {"logout", "refresh", "revokePAT", "revokeCap", "deleteUser"}
      PROVE  EndOK(w)'
  BY <1>4, WritesFacts DEF EndOK
<1>5. CASE NewSession(w)
  <2>1. CASE body[w].op = "login"
    BY <1>4, <1>5, <2>1 DEF Writes
  <2>2. CASE body[w].op # "login"
    <3>1. status[w] = "none" /\ pc[w] = "session.insert"
      BY <1>5 DEF NewSession, Placed
    <3>2. ~Over
      BY <1>5, <2>2, <3>1 DEF NewSession, Conclude, Respond, Goto, TypeOK
    <3>3. QED
      BY <3>2 DEF EndOK
  <2>3. QED
    BY <2>1, <2>2
<1>6. CASE IssuePAT(w) \/ IssueCapInsert(w) \/ AnonInsert(w) \/ CreateUser(w)
  <2>1. body[w].op \in {"issuePAT", "issueCap", "anon", "createUser"}
    BY <1>6 DEF IssuePAT, IssueCapInsert, AnonInsert, CreateUser, Placed
  <2>2. QED
    BY <1>4, <1>6, <2>1 DEF Writes
<1>7. CASE RefreshDelete(w)
  <2>1. body[w].op = "refresh" /\ body' = body /\ sessions' = Without(sessions, body[w].target)
    BY <1>7 DEF RefreshDelete, Placed
  <2>2. QED
    BY <2>1 DEF EndOK, Without
<1>8. CASE LogoutUpdate(w)
  <2>1. body[w].op = "logout" /\ body' = body /\ expired' = expired \cup {body[w].bearer}
    BY <1>8 DEF LogoutUpdate, Placed
  <2>2. QED
    BY <2>1 DEF EndOK
<1>9. CASE RevokePATDelete(w)
  <2>1. /\ body[w].op = "revokePAT" /\ body' = body /\ pats' = Without(pats, body[w].target)
        /\ Has(body[w].target, {"issuePAT"})
    BY <1>9 DEF RevokePATDelete, Placed, Found
  <2>2. Has(body[w].target, {"issuePAT"})'
    BY <2>1, HasStep DEF Has
  <2>3. QED
    BY <2>1, <2>2 DEF EndOK, Without, Has
<1>10. CASE RevokeCapDelete(w)
  <2>1. /\ body[w].op = "revokeCap" /\ body' = body /\ caps' = Without(caps, body[w].target)
        /\ Has(body[w].target, {"issueCap", "anon"})
    BY <1>10 DEF RevokeCapDelete, Placed, Found
  <2>2. Has(body[w].target, {"issueCap", "anon"})'
    BY <2>1, HasStep DEF Has
  <2>3. QED
    BY <2>1, <2>2 DEF EndOK, Without, Has
<1>11. CASE DeleteUserExec(w)
  <2>1. /\ body[w].op = "deleteUser" /\ body' = body /\ userSeq' = userSeq
        /\ users' = {u \in users : u.id # loc[w].victim} /\ loc[w].victim <= userSeq
    BY <1>11 DEF DeleteUserExec, Placed, Found
  <2>2. loc'[w].victim = loc[w].victim
    BY <1>11, WritesFacts DEF Writes
  <2>3. QED
    BY <2>1, <2>2 DEF EndOK, UserExists
<1>12. QED
  BY <1>1, <1>2, <1>3, <1>5, <1>6, <1>7, <1>8, <1>9, <1>10, <1>11, ActsSplit DEF Writes

\* No row is left of a token that an answered request has ended.
LEMMA EndedIsGone ==
    ASSUME TypeOK, RowsOK, CredentialsOwned, NEW c \in Requests, NEW t \in Requests,
           EndOK(c), Held(c), pc[c] = "done", status[c] = "ok", Ends(c, t)
    PROVE  /\ \A s \in sessions : s.id = t => t \in expired
           /\ LiveCred(t) = {}
<1>0. t # None
  BY CredAssumption
<1> DEFINE NoSession == \A s \in sessions : s.id # t
           NoPAT == \A p \in pats : p.id # t
           NoCap == \A k \in caps : k.id # t
<1>1. t \in expired \/ (NoSession /\ NoPAT /\ NoCap)
  <2>1. CASE body[c].op = "logout" /\ body[c].bearer = t
    BY <2>1 DEF EndOK
  <2>2. CASE body[c].op = "refresh" /\ body[c].target = t
    <3>1. NoSession
      BY <2>2 DEF EndOK
    <3>2. body[t].op \in {"login", "refresh"}
      BY <1>0, <2>2 DEF Held
    <3>3. NoPAT /\ NoCap
      BY <3>2 DEF RowsOK, Has
    <3>4. QED
      BY <3>1, <3>3
  <2>3. CASE body[c].op = "revokePAT" /\ body[c].target = t
    <3>1. NoPAT /\ body[t].op = "issuePAT"
      BY <2>3 DEF EndOK, Has
    <3>2. NoSession /\ NoCap
      BY <3>1 DEF RowsOK, Has
    <3>3. QED
      BY <3>1, <3>2
  <2>4. CASE body[c].op = "revokeCap" /\ body[c].target = t
    <3>1. NoCap /\ body[t].op \in {"issueCap", "anon"}
      BY <2>4 DEF EndOK, Has
    <3>2. NoSession /\ NoPAT
      BY <3>1 DEF RowsOK, Has
    <3>3. QED
      BY <3>1, <3>2
  <2>5. CASE body[c].op = "deleteUser" /\ loc[c].victim = loc[t].uid /\ body[t].op # "anon"
    <3>1. ~UserExists(loc[t].uid)
      BY <2>5 DEF EndOK
    <3>2. NoSession /\ NoPAT
      BY <3>1 DEF RowsOK, CredentialsOwned
    <3>3. ASSUME NEW k \in caps, k.id = t PROVE FALSE
      <4>1. body[t].op = "issueCap" /\ k.uid # 0 /\ k.uid = loc[t].uid
        BY <2>5, <3>3 DEF RowsOK, Has
      <4>2. QED
        BY <3>1, <4>1 DEF CredentialsOwned
    <3>4. QED
      BY <3>2, <3>3
  <2>6. QED
    BY <2>1, <2>2, <2>3, <2>4, <2>5 DEF Ends
<1>2. QED
  BY <1>1 DEF LiveCred

LEMMA BearerStep ==
    ASSUME TypeOK, Routed, RowsOK, CredentialsOwned, NEW w \in Requests, Acts(w),
           \A u \in Requests : Placed(u) /\ Held(u) /\ EndOK(u),
           NEW u \in Requests, BearerOK(u)
    PROVE  BearerOK(u)'
<1> SUFFICES ASSUME ~PassesWithoutToken(body'[u]), body'[u].bearer # None, pc'[u] \notin {"new", "mw.cred"},
                    status'[u] \notin {"unauthorized", "error"}, NEW c \in before'[u]
             PROVE  ~Ends(c, body[u].bearer)'
  BY DEF BearerOK, PassesWithoutToken
<1>0. body[u] \in Body /\ before[u] \subseteq Requests
  BY DEF TypeOK
<1>1. ASSUME body'[u] = body[u], before'[u] = before[u], pc[u] # "new", ~Ends(c, body[u].bearer)
      PROVE  ~Ends(c, body[u].bearer)'
  <2>1. /\ c \in Requests /\ pc[c] = "done"
        /\ body[u].bearer \in Requests /\ pc[body[u].bearer] = "done"
    BY <1>0, <1>1 DEF Held, Body
  <2>2. Still(c) /\ Still(body[u].bearer)
    BY <2>1, OthersStill
  <2>3. QED
    BY <1>1, <2>1, <2>2 DEF Ends, Still
<1>2. ASSUME body'[u] = body[u], before'[u] = before[u], pc[u] \notin {"new", "mw.cred"},
             status[u] \notin {"unauthorized", "error"}
      PROVE  ~Ends(c, body[u].bearer)'
  BY <1>1, <1>2 DEF BearerOK
<1>3. CASE u # w
  BY <1>2, <1>3, OthersStill DEF Still
<1>4. CASE u = w /\ pc[w] = "new"
  <2>1. Arrive(w)
    BY <1>4, ActsSplit, LooksFacts, WritesFacts, AnswersFacts
  <2>2. PICK b \in Body : ArrivesWith(w, b)
    BY <2>1, ArriveFacts
  <2>3. QED
    BY <1>4, <2>2 DEF ArrivesWith
<1>5. CASE u = w /\ pc[w] = "mw.cred"
  <2>1. body'[w] = body[w] /\ before'[w] = before[w]
    BY <1>5, OthersStill
  <2>2. Looks(w)
    BY <1>5, ActsSplit, ArriveFacts, WritesFacts, AnswersFacts DEF Answers
  <2>3. LiveCred(body[w].bearer) # {}
    <3>1. MwCredential(w)
      BY <1>5, <2>2 DEF Looks, MwUser, LoginUser, RefreshFind, RefreshUser, LogoutFind, RevokePATFind,
         RevokeCapFind, IssueCapCheck, AnonList, RequireMeta, DeleteUserFind
    <3>2. CASE Respond(w, "unauthorized")
      BY <1>5, <3>2 DEF Respond, TypeOK
    <3>3. QED
      BY <3>1, <3>2 DEF MwCredential
  <2>4. /\ c \in Requests /\ pc[c] = "done" /\ status[c] = "ok" /\ body[w].bearer \in Requests
    BY <1>0, <1>5, <2>1 DEF Held, Body
  <2>5. ~Ends(c, body[w].bearer)
    BY <2>3, <2>4, EndedIsGone
  <2>6. QED
    BY <1>1, <1>5, <2>1, <2>5
<1>6. CASE u = w /\ pc[w] \notin {"new", "mw.cred"}
  <2>1. body'[w] = body[w] /\ before'[w] = before[w] /\ pc[w] # "done"
    BY <1>6, OthersStill
  <2>2. status[w] = "none"
    BY <2>1 DEF Placed
  <2>3. QED
    BY <1>2, <1>6, <2>1, <2>2
<1>7. QED
  BY <1>3, <1>4, <1>5, <1>6

\* A refresh is past its lookup.
Refreshing(w) == pc[w] \in {"refresh.user", "session.insert", "refresh.delete", "audit"} \/ status[w] = "ok"

\* The only way there is a lookup that finds the session live.
LEMMA RefreshEnters ==
    ASSUME TypeOK, Routed, NEW w \in Requests, Acts(w), Placed(w), body'[w].op = "refresh",
           ~Refreshing(w), Refreshing(w)'
    PROVE  pc[w] = "refresh.find" /\ \E s \in Refreshable(body[w].target) : TRUE
<1>0. pc[w] \in Labels /\ pc[w] # "done" /\ status[w] = "none"
  BY OthersStill DEF TypeOK, Placed
<1>1. CASE Arrive(w)
  <2>1. PICK b \in Body : ArrivesWith(w, b)
    BY <1>1, ArriveFacts
  <2>2. FirstLabel(b.op) = "refresh.find"
    BY <2>1 DEF ArrivesWith, FirstLabel
  <2>3. QED
    BY <1>0, <2>1, <2>2 DEF ArrivesWith, Refreshing
<1>2. ASSUME pc[w] # "new" PROVE body[w].op = "refresh" /\ pc[w] \in {"mw.cred", "mw.user", "refresh.find"}
  <2>1. body[w].op = "refresh"
    BY <1>2, OthersStill
  <2>2. QED
    BY <1>0, <1>2, <2>1 DEF Labels, Placed, Refreshing
<1>3. CASE MwCredential(w) \/ MwUser(w)
  <2>1. pc[w] \in {"mw.cred", "mw.user"} /\ body' = body
    BY <1>3 DEF MwCredential, MwUser
  <2>2. CASE EnterHandler(w)
    <3>1. FirstLabel(body[w].op) = "refresh.find"
      BY <1>2, <2>1 DEF FirstLabel
    <3>2. QED
      BY <2>1, <2>2, <3>1, EnterPlace DEF Refreshing
  <2>3. CASE Respond(w, "unauthorized") \/ (Goto(w, "mw.user") /\ status' = status)
    BY <1>0, <2>3 DEF Respond, Goto, TypeOK, Refreshing
  <2>4. QED
    BY <1>3, <2>2, <2>3 DEF MwCredential, MwUser
<1>4. CASE RefreshFind(w)
  <2>1. CASE Respond(w, "unauthorized")
    BY <2>1 DEF Respond, Goto, TypeOK, Refreshing
  <2>2. QED
    BY <1>4, <2>1 DEF RefreshFind
<1>5. CASE Answers(w)
  BY <1>2, <1>5, AnswersFacts DEF Refreshing
<1>6. CASE Writes(w)
  BY <1>2, <1>6 DEF Writes, NewSession, RefreshDelete, LogoutUpdate, IssuePAT, RevokePATDelete,
     IssueCapInsert, RevokeCapDelete, AnonInsert, CreateUser, DeleteUserExec
<1>7. CASE \/ LoginUser(w) \/ RefreshUser(w) \/ LogoutFind(w) \/ RevokePATFind(w) \/ RevokeCapFind(w)
           \/ IssueCapCheck(w) \/ AnonList(w) \/ RequireMeta(w) \/ DeleteUserFind(w)
  BY <1>2, <1>7 DEF LoginUser, RefreshUser, LogoutFind, RevokePATFind, RevokeCapFind, IssueCapCheck,
     AnonList, RequireMeta, DeleteUserFind
<1>8. QED
  BY <1>1, <1>3, <1>4, <1>5, <1>6, <1>7, ActsSplit DEF Looks

LEMMA RefreshStep ==
    ASSUME TypeOK, Routed, RowsOK, CredentialsOwned, NEW w \in Requests, Acts(w),
           \A u \in Requests : Placed(u) /\ Held(u) /\ EndOK(u),
           NEW u \in Requests, RefreshOK(u)
    PROVE  RefreshOK(u)'
<1> SUFFICES ASSUME body'[u].op = "refresh", Refreshing(u)'
             PROVE  body'[u].target # None /\ \A c \in before'[u] : ~Ends(c, body[u].target)'
  BY DEF RefreshOK, Refreshing
<1>0. body[u] \in Body /\ before[u] \subseteq Requests
  BY DEF TypeOK
<1>1. ASSUME body'[u] = body[u], before'[u] = before[u], pc[u] # "new", body[u].target # None,
             \A c \in before[u] : ~Ends(c, body[u].target)
      PROVE  body'[u].target # None /\ \A c \in before'[u] : ~Ends(c, body[u].target)'
  <2> SUFFICES ASSUME NEW c \in before[u] PROVE ~Ends(c, body[u].target)'
    BY <1>1
  <2>1. /\ c \in Requests /\ pc[c] = "done"
        /\ body[u].target \in Requests /\ pc[body[u].target] = "done"
    BY <1>0, <1>1 DEF Held, Body
  <2>2. Still(c) /\ Still(body[u].target)
    BY <2>1, OthersStill
  <2>3. QED
    BY <1>1, <2>1, <2>2 DEF Ends, Still
<1>2. CASE Refreshing(u)
  <2>1. pc[u] # "new"
    BY <1>2 DEF Refreshing, Placed
  <2>2. body'[u] = body[u] /\ before'[u] = before[u]
    BY <2>1, OthersStill DEF Still
  <2>3. QED
    BY <1>1, <1>2, <2>1, <2>2 DEF RefreshOK, Refreshing
<1>3. CASE ~Refreshing(u)
  <2>1. u = w
    BY <1>3, OthersStill DEF Still, Refreshing
  <2>2. pc[w] = "refresh.find" /\ \E s \in Refreshable(body[w].target) : TRUE
    BY <1>3, <2>1, RefreshEnters
  <2>3. PICK s \in sessions : s.id = body[w].target /\ body[w].target \notin expired
    BY <2>2 DEF Refreshable
  <2>4. body[w].target \in Requests
    BY <2>3 DEF TypeOK, SessionRow
  <2>5. \A c \in before[w] : ~Ends(c, body[w].target)
    BY <1>0, <2>1, <2>3, <2>4, EndedIsGone DEF Held
  <2>6. QED
    BY <1>1, <2>1, <2>2, <2>4, <2>5, OthersStill, CredAssumption
<1>4. QED
  BY <1>2, <1>3

-----------------------------------------------------------------------------
(* The invariant is inductive. *)

LEMMA EndsInit == Init => EndsInv
<1> SUFFICES ASSUME Init PROVE EndsInv
  OBVIOUS
<1>1. RowsOK /\ UserIds
  BY CredAssumption DEF Init, RowsOK, UserIds
<1>2. ASSUME NEW w \in Requests
      PROVE  Placed(w) /\ Held(w) /\ Found(w) /\ EndOK(w) /\ BearerOK(w) /\ RefreshOK(w)
  BY DEF Init, Placed, Held, Found, EndOK, BearerOK, RefreshOK, Idle
<1>3. QED
  BY <1>1, <1>2 DEF EndsInv, RequestsOK

LEMMA EndsStep ==
    ASSUME TypeOK, Routed, CredentialsOwned, EndsInv, [Next]_vars
    PROVE  EndsInv'
<1>0. /\ RowsOK /\ UserIds
      /\ \A u \in Requests : Placed(u) /\ Held(u) /\ Found(u) /\ EndOK(u) /\ BearerOK(u) /\ RefreshOK(u)
  BY DEF EndsInv, RequestsOK
<1>1. ASSUME NEW w \in Requests, Acts(w) PROVE EndsInv'
  <2>1. RowsOK' /\ UserIds'
    BY <1>0, <1>1, RowsStep, UserIdsStep
  <2>2. ASSUME NEW u \in Requests PROVE Placed(u)'
    <3>1. CASE u = w
      BY <1>0, <1>1, <3>1, PlacedStep
    <3>2. CASE u # w
      <4>1. Still(u)
        BY <1>1, <3>2, OthersStill
      <4>2. QED
        BY <1>0, <4>1 DEF Still, Placed, PassesWithoutToken
    <3>3. QED
      BY <3>1, <3>2
  <2>3. ASSUME NEW u \in Requests PROVE EndOK(u)'
    <3>1. CASE u = w
      BY <1>0, <1>1, <3>1, OwnEndStep
    <3>2. CASE u # w
      BY <1>0, <1>1, <3>2, OthersStill, EndStep
    <3>3. QED
      BY <3>1, <3>2
  <2>4. \A u \in Requests : Held(u)' /\ Found(u)'
    BY <1>0, <1>1, HeldStep, FoundStep
  <2>5. \A u \in Requests : BearerOK(u)' /\ RefreshOK(u)'
    BY <1>0, <1>1, BearerStep, RefreshStep
  <2>6. QED
    BY <2>1, <2>2, <2>3, <2>4, <2>5 DEF EndsInv, RequestsOK
<1>2. ASSUME users' = users, userSeq' = userSeq, sessions' = sessions, pats' = pats, caps' = caps,
             expired \subseteq expired', pc' = pc, body' = body, loc' = loc, status' = status,
             before' = before
      PROVE  EndsInv'
  <2>1. RowsOK' /\ UserIds'
    BY <1>0, <1>2 DEF RowsOK, UserIds, Has
  <2>2. ASSUME NEW u \in Requests PROVE Placed(u)' /\ Held(u)' /\ Found(u)'
    BY <1>0, <1>2 DEF Placed, Held, Found, Has, PassesWithoutToken
  <2>3. ASSUME NEW u \in Requests PROVE EndOK(u)'
    BY <1>0, <1>2 DEF EndOK, Has, UserExists
  <2>4. ASSUME NEW u \in Requests PROVE BearerOK(u)' /\ RefreshOK(u)'
    BY <1>0, <1>2 DEF BearerOK, RefreshOK, Ends, PassesWithoutToken
  <2>5. QED
    BY <2>1, <2>2, <2>3, <2>4 DEF EndsInv, RequestsOK
<1>3. ASSUME NEW t \in Requests, Expire(t) PROVE EndsInv'
  BY <1>2, <1>3 DEF Expire
<1>4. CASE Terminated \/ UNCHANGED vars
  BY <1>2, <1>4 DEF Terminated, vars, tables
<1>5. QED
  BY <1>1, <1>3, <1>4 DEF Next, Acts

LEMMA EndsInductive == Spec => []EndsInv
<1>1. Init => TypeOK /\ Routed
  BY TypeInit
<1>2. TypeOK /\ Routed /\ [Next]_vars => TypeOK' /\ Routed'
  BY TypeStep
<1>3. TypeOK /\ Routed /\ CredentialsOwned /\ EndsInv /\ [Next]_vars => EndsInv'
  BY EndsStep
<1>4. QED
  BY <1>1, <1>2, <1>3, EndsInit, NoCredentialOutlivesItsUser, PTL DEF Spec

\* A token that a logout, a refresh, a revocation or the deletion of its user has ended,
\* in a request answered before this one began, does not get it past AuthMiddleware.
THEOREM EndedTokensAreDead == Spec => []RevokedTokensAreDead
<1>1. EndsInv => RevokedTokensAreDead
  BY DEF EndsInv, RequestsOK, BearerOK, RevokedTokensAreDead, Authenticated
<1>2. QED
  BY <1>1, EndsInductive, PTL

\* A refresh token whose session was logged out, exchanged or deleted with its user in a
\* request answered before Refresh began starts no session.
THEOREM EndedRefreshIsDead == Spec => []RevokedRefreshIsDead
<1>1. EndsInv => RevokedRefreshIsDead
  BY DEF EndsInv, RequestsOK, RefreshOK, RevokedRefreshIsDead
<1>2. QED
  BY <1>1, EndsInductive, PTL
=============================================================================
