-------------------------- MODULE RevocationProofs --------------------------
(***************************************************************************)
(* What a revocation and a grant that were answered mean, proved of Authz   *)
(* for any requests, principals, earlier permissions, bodies and bounds.   *)
(***************************************************************************)
EXTENDS AuthzProofs

-----------------------------------------------------------------------------
(* The inductive invariant. *)

\* Ids are primary keys, and are not given out twice.
IdInv ==
    /\ \A u \in principals : u.id <= idSeq
    /\ \A u, x \in principals : u.id = x.id => u = x

\* A permission belongs to a principal that exists, and to the one its grant
\* named; but for a bootstrap, that is the first of the name.
OwnerOK(l) ==
    /\ l.owner \in principals
    /\ l.perm.to = [kind |-> l.owner.kind, name |-> l.owner.name]
    /\ OpOf(l.perm.src) \in {"initial", "grant", "bootstrap"}
    /\ OpOf(l.perm.src) # "bootstrap" => IsFirst(l.owner, l.owner.kind, l.owner.name)

OwnerInv ==
    /\ \A l \in links : OwnerOK(l)
    /\ \A p \in anon : p.to = Anon /\ OpOf(p.src) \in {"initial", "anonAdd"}
    /\ \A c \in caps : \A p \in c.perms : OpOf(p.src) \in {"issueCap", "anonToken"}

\* The row a handler has found, if it is still there, is that of its target.
FoundOK(w) ==
    pc[w] \in {"grant.link", "revoke.read", "revoke.delete", "user.link", "del.exec"} =>
        /\ loc[w].pid <= idSeq
        /\ body[w].target.kind \in {"user", "sa"}
        /\ \A u \in principals : u.id = loc[w].pid =>
             /\ u.kind = body[w].target.kind /\ u.name = body[w].target.name
             /\ pc[w] # "user.link" => IsFirst(u, u.kind, u.name)

\* Answers are final, and history names only what was answered.
AnswerOK(w) ==
    /\ status[w] = "ok" => pc[w] = "done"
    /\ \A u \in before[w] : status[u] = "ok"
    /\ pc[w] = "new" => before[w] = {}

\* Entry k of revocation v names the permission.
Hits(v, k, p) ==
    /\ p.verb = body[v].entries[k].verb
    /\ matchesDeletePattern(p.pat, body[v].entries[k].pat)

\* The permission was given to the target of v before v arrived.
GivenBefore(v, p) ==
    /\ Precedes(p.src, v) /\ OpOf(p.src) \in {"initial", "grant"}
    /\ p.to = body[v].target

\* How far a removal has come.
RemovalOK(v) ==
    LET op == body[v].op
        entries == body[v].entries
    IN /\ pc[v] \in {"revoke.read", "revoke.delete"} => \A l \in links : GivenBefore(v, l.perm) =>
            /\ l.owner.id = loc[v].pid
            /\ \A k \in 1 .. Len(entries) : k < loc[v].i => ~Hits(v, k, l.perm)
       /\ pc[v] = "revoke.delete" => \A l \in links :
            GivenBefore(v, l.perm) /\ Hits(v, loc[v].i, l.perm) => l.perm \in loc[v].rows
       /\ pc[v] = "del.exec" => \A l \in links : GivenBefore(v, l.perm) => l.owner.id = loc[v].pid
       /\ status[v] = "ok" /\ op \in {"revoke", "delete"} => body[v].target.kind \in {"user", "sa"}
       /\ status[v] = "ok" /\ op = "revoke" => \A l \in links : GivenBefore(v, l.perm) =>
            \A k \in 1 .. Len(entries) : ~Hits(v, k, l.perm)
       /\ status[v] = "ok" /\ op = "delete" => \A l \in links : ~GivenBefore(v, l.perm)
       /\ status[v] = "ok" /\ op = "anonDel" =>
            \A p \in anon : Precedes(p.src, v) => p.key # <<body[v].ref, 1>>

HandlersInv == \A w \in Requests : FoundOK(w) /\ AnswerOK(w) /\ RemovalOK(w)

-----------------------------------------------------------------------------
(* What a step does to the tables, and which steps lead where. *)

Quiet == UNCHANGED <<principals, idSeq, links, anon, caps>>

LEMMA StepEffects ==
    ASSUME TypeOK, NEW w \in Requests, PlaceOK(w), Step(w)
    PROVE  \/ Quiet
           \/ GrantLink(w) \/ BootstrapLink(w) \/ RevokeDelete(w)
           \/ AddAnonPermission(w) \/ DeleteAnonPermission(w)
           \/ AnonTokenInsert(w) \/ IssueCapInsert(w)
           \/ CreateUser(w) \/ DeleteUserExec(w)
  <1>1. ASSUME UNCHANGED tables PROVE Quiet
    BY <1>1 DEF tables, Quiet
  <1>2. CASE CheckFind(w) \/ CheckPerms(w) \/ checkAnon(w)
    <2>1. ASSUME NEW verdict, NEW rows, Decide(w, verdict, rows) PROVE UNCHANGED tables
      BY <2>1 DEF Decide
    <2>2. UNCHANGED tables
      BY <1>2, <2>1, CheckFindFacts, CheckPermsFacts, checkAnonFacts
    <2>3. QED
      BY <1>1, <2>2
  <1>3. CASE OwnFind(w) \/ OwnPerms(w) \/ OwnAnon(w)
    BY <1>1, <1>3, OwnFindFacts, OwnPermsFacts, OwnAnonFacts
  <1>4. CASE GrantFind(w) \/ RevokeRead(w) \/ QueryFind(w) \/ DeleteUserFind(w)
    BY <1>1, <1>4, GrantFindFacts, RevokeReadFacts, QueryFindFacts, DeleteUserFindFacts
  <1>5. CASE ListAnonPermissions(w) \/ AnonTokenList(w) \/ QueryPerms(w)
    BY <1>1, <1>5, ListAnonFacts, AnonTokenListFacts, QueryPermsFacts
  <1>6. QED
    BY <1>2, <1>3, <1>4, <1>5 DEF Step

\* A handler is only at the statements its endpoint leads to, and answers "ok"
\* only after the last of them.
Control(w) ==
    LET op == body[w].op
    IN /\ status'[w] = "ok" => pc'[w] = "done"
       /\ status'[w] = "ok" /\ op \in {"revoke", "delete", "anonDel"} =>
            RevokeRead(w) \/ RevokeDelete(w) \/ DeleteUserExec(w) \/ DeleteAnonPermission(w)
       /\ status'[w] = "ok" /\ op \in {"grant", "bootstrap", "anonAdd"} =>
            GrantLink(w) \/ BootstrapLink(w) \/ AddAnonPermission(w)
       /\ pc'[w] \in {"revoke.read", "revoke.delete"} =>
            (GrantFind(w) /\ op # "grant") \/ RevokeRead(w) \/ RevokeDelete(w)
       /\ pc'[w] = "del.exec" => DeleteUserFind(w)
       /\ pc'[w] = "grant.link" => (GrantFind(w) /\ op = "grant") \/ GrantLink(w)
       /\ pc'[w] = "user.link" => CreateUser(w) \/ BootstrapLink(w)
       /\ pc'[w] = "anon.add" => AddAnonPermission(w) \/ loc'[w].i = 1

\* Where nothing of the kind begins or ends.
LEMMA ControlElsewhere ==
    ASSUME NEW w \in Requests,
           pc'[w] \notin {"revoke.read", "revoke.delete", "del.exec", "grant.link", "user.link", "anon.add"},
           status'[w] = "ok" => /\ pc'[w] = "done"
                                /\ body[w].op \notin {"revoke", "delete", "anonDel", "grant",
                                                      "bootstrap", "anonAdd"}
    PROVE  Control(w)
  BY DEF Control

LEMMA ControlDecide ==
    ASSUME TypeOK, NEW w \in Requests, PlaceOK(w), pc[w] \in Checks,
           NEW verdict, NEW rows \in SUBSET Perm, Decide(w, verdict, rows)
    PROVE  Control(w)
  <1> DEFINE n == AfterCheck(w, verdict)
  <1>1. /\ pc'[w] = n.pc /\ status'[w] = n.status /\ loc'[w].i = n.i
        /\ AfterOK(w, verdict, n) /\ body[w].op \in CheckOps
    BY DecideFacts, AfterCheckFacts DEF PlaceOK
  <1> HIDE DEF n
  <1>2. CASE body[w].op \in MetaOps
    <2>1. \/ n.pc = "done" /\ n.status # "ok"
          \/ n.pc = HandlerLabel[body[w].op] /\ n.i = 1 /\ n.status # "ok"
      BY <1>1, <1>2 DEF AfterOK
    <2>2. CASE n.pc = "done" /\ n.status # "ok"
      BY <1>1, <2>2 DEF Control
    <2>3. CASE n.pc = HandlerLabel[body[w].op] /\ n.i = 1 /\ n.status # "ok"
      <3>1. n.pc \in {"user.insert", "del.find", "grant.find", "anon.add", "anon.del", "anon.read",
                      "query.find"}
        BY <1>2, <2>3, MetaOpsAre, HandlerLabelsAre
      <3>2. QED
        BY <1>1, <2>3, <3>1 DEF Control
    <2>4. QED
      BY <2>1, <2>2, <2>3
  <1>3. CASE body[w].op \in {"issueCap", "nslist", "nsquery", "use"}
    <2>1. n.pc \in Checks \cup Owns \cup {"cap.insert", "done"} /\ (n.status = "ok" => n.pc = "done")
      BY <1>1, <1>3 DEF AfterOK
    <2>2. QED
      BY <1>1, <1>3, <2>1, ControlElsewhere DEF Checks, Owns
  <1>4. QED
    BY <1>1, <1>2, <1>3 DEF CheckOps

LEMMA StepControl ==
    ASSUME TypeOK, NEW w \in Requests, PlaceOK(w), AnswerOK(w), Step(w) \/ Fail(w)
    PROVE  Control(w)
  <1>1. ASSUME Advances(w), status' = status PROVE status'[w] # "ok"
    BY <1>1 DEF Advances, AnswerOK
  <1>2. CASE CheckFind(w) \/ CheckPerms(w) \/ checkAnon(w)
    <2>1. CASE \E verdict, rows : rows \in SUBSET Perm /\ Decide(w, verdict, rows)
      <3>1. pc[w] \in Checks
        BY <1>2, CheckFindFacts, CheckPermsFacts, checkAnonFacts DEF Checks
      <3>2. QED
        BY <2>1, <3>1, ControlDecide
    <2>2. CASE pc'[w] \in {"check.perms", "check.anon"} /\ status' = status /\ Advances(w)
      BY <1>1, <2>2, ControlElsewhere
    <2>3. Granting(w, OwnRows(w)) \in SUBSET Perm /\ Granting(w, ListAnon) \in SUBSET Perm
      BY OwnedType
    <2>4. QED
      BY <1>2, <2>1, <2>2, <2>3, CheckFindFacts, CheckPermsFacts, checkAnonFacts
  <1>3. CASE OwnFind(w)
    BY <1>1, <1>3, OwnFindFacts, ControlElsewhere DEF Looks
  <1>4. CASE OwnPerms(w)
    BY <1>1, <1>4, OwnPermsFacts, ControlElsewhere
  <1>5. CASE OwnAnon(w)
    <2>1. body[w].op \in {"nslist", "nsquery"}
      BY <1>5, OwnAnonFacts DEF PlaceOK, Owns
    <2>2. QED
      BY <1>1, <1>5, <2>1, OwnAnonFacts, ControlElsewhere DEF Checks
  <1>6. CASE GrantFind(w)
    BY <1>1, <1>6, GrantFindFacts DEF Looks, Control
  <1>7. CASE GrantLink(w)
    <2>1. /\ body[w].op = "grant" /\ Advances(w)
          /\ \/ pc'[w] = "done"
             \/ pc'[w] = "grant.link" /\ status' = status
      BY <1>7, GrantLinkCalls, AddPermissionFacts
    <2>2. QED
      BY <1>1, <1>7, <2>1 DEF Control
  <1>8. CASE RevokeRead(w)
    <2>1. /\ body[w].op = "revoke" /\ Advances(w)
          /\ \/ pc'[w] = "done"
             \/ pc'[w] \in {"revoke.read", "revoke.delete"} /\ status' = status
      BY <1>8, RevokeReadFacts DEF Continues, PlaceOK
    <2>2. QED
      BY <1>1, <1>8, <2>1 DEF Control
  <1>9. CASE RevokeDelete(w)
    <2>1. /\ body[w].op = "revoke" /\ Advances(w)
          /\ \/ pc'[w] = "done"
             \/ pc'[w] \in {"revoke.read", "revoke.delete"} /\ status' = status
      BY <1>9, RevokeDeleteFacts DEF Continues, PlaceOK
    <2>2. QED
      BY <1>1, <1>9, <2>1 DEF Control
  <1>10. CASE AddAnonPermission(w)
    <2>1. /\ body[w].op = "anonAdd" /\ Advances(w)
          /\ \/ pc'[w] = "done"
             \/ pc'[w] = "anon.add" /\ status' = status
      BY <1>10, AddAnonFacts DEF Continues, PlaceOK
    <2>2. QED
      BY <1>1, <1>10, <2>1 DEF Control
  <1>11. CASE DeleteAnonPermission(w)
    BY <1>11, DeleteAnonFacts DEF Control, PlaceOK
  <1>12. CASE ListAnonPermissions(w)
    BY <1>12, ListAnonFacts, ControlElsewhere DEF PlaceOK
  <1>13. CASE AnonTokenList(w)
    BY <1>1, <1>13, AnonTokenListFacts, ControlElsewhere
  <1>14. CASE AnonTokenInsert(w)
    BY <1>14, AnonTokenInsertFacts, ControlElsewhere DEF PlaceOK
  <1>15. CASE IssueCapInsert(w)
    BY <1>15, IssueCapInsertFacts, ControlElsewhere DEF PlaceOK
  <1>16. CASE QueryFind(w)
    BY <1>1, <1>16, QueryFindFacts, ControlElsewhere DEF Looks
  <1>17. CASE QueryPerms(w)
    BY <1>17, QueryPermsFacts, ControlElsewhere DEF PlaceOK
  <1>18. CASE CreateUser(w)
    BY <1>1, <1>18, CreateUserFacts DEF Control, PlaceOK
  <1>19. CASE BootstrapLink(w)
    <2>1. /\ body[w].op = "bootstrap" /\ Advances(w)
          /\ \/ pc'[w] = "done"
             \/ pc'[w] = "user.link" /\ status' = status
      BY <1>19, BootstrapLinkCalls, AddPermissionFacts
    <2>2. QED
      BY <1>1, <1>19, <2>1 DEF Control
  <1>20. CASE DeleteUserFind(w)
    BY <1>1, <1>20, DeleteUserFindFacts DEF Looks, Control
  <1>21. CASE DeleteUserExec(w)
    BY <1>21, DeleteUserExecFacts DEF Control, PlaceOK
  <1>22. CASE Fail(w)
    <2>1. CASE pc[w] \in Checks /\ Decide(w, "error", {})
      BY <2>1, ControlDecide
    <2>2. CASE pc'[w] = "done" /\ (status'[w] = "error" \/ (status'[w] = "ok" /\ body[w].op \in {"query", "self"}))
      BY <2>2, ControlElsewhere
    <2>3. QED
      BY <1>22, <2>1, <2>2, FailFacts
  <1>23. QED
    BY <1>2, <1>3, <1>4, <1>5, <1>6, <1>7, <1>8, <1>9, <1>10, <1>11, <1>12, <1>13, <1>14, <1>15, <1>16,
       <1>17, <1>18, <1>19, <1>20, <1>21, <1>22 DEF Step

-----------------------------------------------------------------------------
(* Principals. *)

\* Rows go, and new ones have a new id.
PrincipalsStep ==
    /\ idSeq' \in Nat /\ idSeq <= idSeq'
    /\ \A x \in principals' : x \in principals \/ (x.id = idSeq + 1 /\ idSeq' = idSeq + 1)
    /\ \A x, y \in principals' : x \notin principals /\ y \notin principals => x = y

LEMMA PrincipalsMove ==
    ASSUME TypeOK, NEW w \in Requests, PlaceOK(w), Step(w)
    PROVE  PrincipalsStep
  <1>1. idSeq \in Nat
    BY DEF TypeOK
  <1>2. ASSUME principals' = principals, idSeq' = idSeq
        PROVE  PrincipalsStep
    BY <1>1, <1>2 DEF PrincipalsStep
  <1>3. CASE Quiet
    BY <1>2, <1>3 DEF Quiet
  <1>4. CASE GrantLink(w)
    BY <1>2, <1>4, GrantLinkCalls, AddPermissionFacts
  <1>5. CASE BootstrapLink(w)
    BY <1>2, <1>5, BootstrapLinkCalls, AddPermissionFacts
  <1>6. CASE RevokeDelete(w) \/ AddAnonPermission(w) \/ DeleteAnonPermission(w)
    BY <1>2, <1>6, RevokeDeleteFacts, AddAnonFacts, DeleteAnonFacts
  <1>7. CASE AnonTokenInsert(w) \/ IssueCapInsert(w)
    BY <1>2, <1>7, AnonTokenInsertFacts, IssueCapInsertFacts
  <1>8. CASE CreateUser(w)
    BY <1>1, <1>8, CreateUserFacts DEF PrincipalsStep
  <1>9. CASE DeleteUserExec(w)
    BY <1>1, <1>9, DeleteUserExecFacts DEF PrincipalsStep
  <1>10. QED
    BY <1>3, <1>4, <1>5, <1>6, <1>7, <1>8, <1>9, StepEffects

LEMMA IdKept ==
    ASSUME TypeOK, IdInv, PrincipalsStep
    PROVE  IdInv'
  <1>1. idSeq \in Nat /\ \A u \in principals : u.id \in Nat
    BY DEF TypeOK, Principal
  <1>2. ASSUME NEW u \in principals' PROVE u.id <= idSeq'
    BY <1>1 DEF IdInv, PrincipalsStep
  <1>3. ASSUME NEW u \in principals', NEW x \in principals', u.id = x.id PROVE u = x
    BY <1>1, <1>3 DEF IdInv, PrincipalsStep
  <1>4. QED
    BY <1>2, <1>3 DEF IdInv

\* The first row of a name is the first for as long as it exists.
LEMMA FirstKept ==
    ASSUME TypeOK, IdInv, PrincipalsStep, NEW u \in principals', NEW kind, NEW name,
           IsFirst(u, kind, name)
    PROVE  IsFirst(u, kind, name)'
  <1>1. idSeq \in Nat /\ u.id \in Nat /\ u.id <= idSeq
    BY DEF TypeOK, Principal, IsFirst, IdInv
  <1>2. \A x \in principals' : x.kind = kind /\ x.name = name => u.id <= x.id
    BY <1>1 DEF PrincipalsStep, IsFirst
  <1>3. QED
    BY <1>2 DEF IsFirst

LEMMA FirstIsOne ==
    ASSUME TypeOK, NEW u \in principals, NEW x \in principals, NEW kind, NEW name,
           IsFirst(u, kind, name), IsFirst(x, kind, name)
    PROVE  u.id = x.id
  BY DEF TypeOK, Principal, IsFirst

LEMMA FoundKept ==
    ASSUME TypeOK, IdInv, PrincipalsStep, NEW v \in Requests, FoundOK(v),
           pc'[v] = pc[v], body'[v] = body[v], loc'[v] = loc[v]
    PROVE  FoundOK(v)'
  <1> SUFFICES ASSUME pc[v] \in {"grant.link", "revoke.read", "revoke.delete", "user.link", "del.exec"}
               PROVE  /\ loc[v].pid <= idSeq'
                      /\ body[v].target.kind \in {"user", "sa"}
                      /\ \A u \in principals' : u.id = loc[v].pid =>
                           /\ u.kind = body[v].target.kind /\ u.name = body[v].target.name
                           /\ pc[v] # "user.link" => IsFirst(u, u.kind, u.name)'
    BY DEF FoundOK
  <1>1. loc[v].pid \in Nat /\ idSeq \in Nat /\ loc[v].pid <= idSeq /\ body[v].target.kind \in {"user", "sa"}
    BY TypeOfLoc DEF FoundOK, TypeOK
  <1>2. ASSUME NEW u \in principals', u.id = loc[v].pid
        PROVE  /\ u.kind = body[v].target.kind /\ u.name = body[v].target.name
               /\ pc[v] # "user.link" => IsFirst(u, u.kind, u.name)'
    <2>1. u \in principals
      BY <1>1, <1>2 DEF PrincipalsStep
    <2>2. QED
      BY <1>2, <2>1, FirstKept DEF FoundOK
  <1>3. QED
    BY <1>1, <1>2 DEF PrincipalsStep

\* A lookup by the name of the target.
LEMMA FoundLooks ==
    ASSUME TypeOK, IdInv, NEW w \in Requests, body'[w] = body[w],
           principals' = principals, idSeq' = idSeq,
           NEW u \in principals, IsFirst(u, body[w].target.kind, body[w].target.name),
           loc'[w].pid = u.id
    PROVE  FoundOK(w)'
  <1>1. /\ u.kind = body[w].target.kind /\ u.name = body[w].target.name
        /\ u.kind \in {"user", "sa"} /\ u.id <= idSeq
    BY DEF IsFirst, TypeOK, Principal, IdInv
  <1>2. \A x \in principals : x.id = u.id => x = u
    BY DEF IdInv
  <1>3. IsFirst(u, u.kind, u.name)'
    BY <1>1 DEF IsFirst
  <1>4. QED
    BY <1>1, <1>2, <1>3 DEF FoundOK

LEMMA FoundMoves ==
    ASSUME TypeOK, IdInv, NEW w \in Requests, PlaceOK(w), FoundOK(w), AnswerOK(w), Step(w) \/ Fail(w)
    PROVE  FoundOK(w)'
  <1> DEFINE places == {"grant.link", "revoke.read", "revoke.delete", "user.link", "del.exec"}
  <1>1. Control(w)
    BY StepControl
  <1>2. CASE pc'[w] \notin places
    BY <1>2 DEF FoundOK
  <1>3. CASE GrantFind(w) /\ pc'[w] \in places
    <2>1. Looks(w, body[w].target.kind, body[w].target.name,
                IF body[w].op = "grant" THEN "grant.link" ELSE "revoke.read", "notFound")
      BY <1>3, GrantFindFacts
    <2>2. pc'[w] # "done"
      BY <1>3
    <2>3. PICK u \in principals : /\ IsFirst(u, body[w].target.kind, body[w].target.name)
                                  /\ loc'[w].pid = u.id
      BY <2>1, <2>2 DEF Looks
    <2>4. principals' = principals /\ idSeq' = idSeq /\ body'[w] = body[w]
      BY <1>3, GrantFindFacts DEF tables, Advances
    <2>5. QED
      BY <2>3, <2>4, FoundLooks
  <1>4. CASE DeleteUserFind(w) /\ pc'[w] \in places
    <2>1. Looks(w, "user", body[w].target.name, "del.exec", "error") /\ pc[w] = "del.find"
      BY <1>4, DeleteUserFindFacts
    <2>2. body[w].target.kind = "user"
      BY <2>1, AuthzAssumption DEF PlaceOK
    <2>3. pc'[w] # "done"
      BY <1>4
    <2>4. PICK u \in principals : /\ IsFirst(u, body[w].target.kind, body[w].target.name)
                                  /\ loc'[w].pid = u.id
      BY <2>1, <2>2, <2>3 DEF Looks
    <2>5. principals' = principals /\ idSeq' = idSeq /\ body'[w] = body[w]
      BY <1>4, DeleteUserFindFacts DEF tables, Advances
    <2>6. QED
      BY <2>4, <2>5, FoundLooks
  <1>5. ASSUME principals' = principals, idSeq' = idSeq, body'[w] = body[w], loc'[w].pid = loc[w].pid,
               pc[w] \in places, pc[w] = "user.link" <=> pc'[w] = "user.link"
        PROVE  FoundOK(w)'
    BY <1>5 DEF FoundOK, IsFirst
  <1>6. CASE GrantLink(w) /\ pc'[w] \in places
    <2>1. /\ principals' = principals /\ idSeq' = idSeq /\ body'[w] = body[w]
          /\ loc'[w].pid = loc[w].pid /\ pc[w] = "grant.link" /\ pc'[w] \in {"grant.link", "done"}
      BY <1>6, GrantLinkCalls, AddPermissionFacts DEF Advances
    <2>2. QED
      BY <1>5, <2>1
  <1>7. CASE BootstrapLink(w) /\ pc'[w] \in places
    <2>1. /\ principals' = principals /\ idSeq' = idSeq /\ body'[w] = body[w]
          /\ loc'[w].pid = loc[w].pid /\ pc[w] = "user.link" /\ pc'[w] \in {"user.link", "done"}
      BY <1>7, BootstrapLinkCalls, AddPermissionFacts DEF Advances
    <2>2. QED
      BY <1>5, <1>7, <2>1
  <1>8. CASE RevokeRead(w) /\ pc'[w] \in places
    <2>1. /\ principals' = principals /\ idSeq' = idSeq /\ body'[w] = body[w]
          /\ loc'[w].pid = loc[w].pid /\ pc[w] = "revoke.read"
          /\ pc'[w] \in {"revoke.read", "revoke.delete", "done"}
      BY <1>8, RevokeReadFacts DEF Advances, Continues, tables
    <2>2. QED
      BY <1>5, <2>1
  <1>9. CASE RevokeDelete(w) /\ pc'[w] \in places
    <2>1. /\ principals' = principals /\ idSeq' = idSeq /\ body'[w] = body[w]
          /\ loc'[w].pid = loc[w].pid /\ pc[w] = "revoke.delete"
          /\ pc'[w] \in {"revoke.read", "revoke.delete", "done"}
      BY <1>9, RevokeDeleteFacts DEF Advances, Continues
    <2>2. QED
      BY <1>5, <2>1
  <1>10. CASE CreateUser(w) /\ pc'[w] \in places
    <2>1. /\ loc'[w].pid = idSeq + 1 /\ idSeq' = idSeq + 1 /\ body'[w] = body[w]
          /\ pc[w] = "user.insert" /\ pc'[w] = "user.link"
          /\ principals' = principals \cup
                {[id |-> idSeq + 1, kind |-> "user", name |-> body[w].target.name]}
      BY <1>10, CreateUserFacts DEF Advances
    <2>2. body[w].target.kind = "user"
      BY <2>1, AuthzAssumption DEF PlaceOK
    <2>3. idSeq \in Nat /\ \A u \in principals : u.id \in Nat /\ u.id <= idSeq
      BY DEF IdInv, TypeOK, Principal
    <2>4. ASSUME NEW u \in principals', u.id = idSeq + 1
          PROVE  u.kind = "user" /\ u.name = body[w].target.name
      BY <2>1, <2>3, <2>4
    <2>5. QED
      BY <2>1, <2>2, <2>3, <2>4 DEF FoundOK
  <1>11. QED
    BY <1>1, <1>2, <1>3, <1>4, <1>6, <1>7, <1>8, <1>9, <1>10 DEF Control

-----------------------------------------------------------------------------
(* Rows and their owners. *)

LEMMA OpKept ==
    ASSUME NEW p \in Perm, RowOK(p), Onward
    PROVE  OpOf(p.src)' = OpOf(p.src)
  <1>1. CASE p.src = None
    BY <1>1 DEF OpOf
  <1>2. CASE p.src # None
    <2>1. p.src \in Requests /\ pc[p.src] # "new"
      BY <1>2 DEF Perm, RowOK
    <2>2. body'[p.src] = body[p.src]
      BY <2>1 DEF Onward
    <2>3. QED
      BY <2>2 DEF OpOf
  <1>3. QED
    BY <1>1, <1>2

\* Rows that a step of w adds are its own, and none is left without its owner.
TablesStep(w) ==
    /\ \A l \in links' : \/ l \in links
                         \/ /\ pc[w] \in {"grant.link", "user.link"}
                            /\ l.owner \in principals /\ l.owner.id = loc[w].pid
                            /\ l.perm.src = w /\ l.perm.to = body[w].target
    /\ \A p \in anon' : p \in anon \/ (p.src = w /\ p.to = Anon /\ body[w].op = "anonAdd")
    /\ \A c \in caps' : \/ c \in caps
                        \/ /\ body[w].op \in {"issueCap", "anonToken"}
                           /\ \A p \in c.perms : p.src = w
    /\ \A l \in links' : l.owner \in principals => l.owner \in principals'

LEMMA TablesMove ==
    ASSUME TypeOK, NEW w \in Requests, PlaceOK(w), Step(w)
    PROVE  TablesStep(w)
  <1>1. CASE Quiet
    BY <1>1 DEF Quiet, TablesStep
  <1>2. ASSUME NEW entries, UNCHANGED <<principals, anon, caps>>, pc[w] \in {"grant.link", "user.link"},
               \/ links' = links
               \/ \E u \in principals :
                    /\ u.id = loc[w].pid
                    /\ links' = links \cup
                         {[owner |-> u, perm |-> PermOf(w, body[w].target, entries[loc[w].i])]}
        PROVE  TablesStep(w)
    BY <1>2 DEF TablesStep, PermOf
  <1>3. CASE GrantLink(w)
    <2>1. /\ UNCHANGED <<principals, anon, caps>> /\ pc[w] = "grant.link"
          /\ \/ links' = links
             \/ \E u \in principals :
                  /\ u.id = loc[w].pid
                  /\ links' = links \cup
                       {[owner |-> u, perm |-> PermOf(w, body[w].target, body[w].entries[loc[w].i])]}
      BY <1>3, GrantLinkCalls, AddPermissionFacts
    <2>2. QED
      BY <1>2, <2>1
  <1>4. CASE BootstrapLink(w)
    <2>1. /\ UNCHANGED <<principals, anon, caps>> /\ pc[w] = "user.link"
          /\ \/ links' = links
             \/ \E u \in principals :
                  /\ u.id = loc[w].pid
                  /\ links' = links \cup
                       {[owner |-> u, perm |-> PermOf(w, body[w].target, bootstrapGrants[loc[w].i])]}
      BY <1>4, BootstrapLinkCalls, AddPermissionFacts
    <2>2. QED
      BY <1>2, <2>1
  <1>5. CASE RevokeDelete(w)
    BY <1>5, RevokeDeleteFacts DEF TablesStep
  <1>6. CASE AddAnonPermission(w)
    <2>1. /\ body[w].op = "anonAdd" /\ UNCHANGED <<principals, links, caps>>
          /\ anon' = anon \cup {PermOf(w, Anon, body[w].entries[loc[w].i])}
      BY <1>6, AddAnonFacts DEF PlaceOK
    <2>2. QED
      BY <2>1 DEF TablesStep, PermOf
  <1>7. CASE DeleteAnonPermission(w)
    BY <1>7, DeleteAnonFacts DEF TablesStep
  <1>8. CASE AnonTokenInsert(w)
    <2>1. /\ body[w].op = "anonToken" /\ UNCHANGED <<principals, links, anon>>
          /\ caps' = caps \cup {[id |-> w, issuer |-> 0, perms |-> Copies(w)]}
          /\ loc[w].rows \subseteq Perm
      BY <1>8, AnonTokenInsertFacts, TypeOfLoc DEF PlaceOK
    <2>2. \A p \in Copies(w) : p.src = w
      BY <2>1 DEF Copies, Perm
    <2>3. QED
      BY <2>1, <2>2 DEF TablesStep
  <1>9. CASE IssueCapInsert(w)
    <2>1. /\ body[w].op = "issueCap" /\ UNCHANGED <<principals, links, anon>>
          /\ \/ caps' = caps \cup {[id |-> w, issuer |-> loc[w].uid, perms |-> Asked(w)]}
             \/ caps' = caps
      BY <1>9, IssueCapInsertFacts DEF PlaceOK
    <2>2. \A p \in Asked(w) : p.src = w
      BY DEF Asked
    <2>3. QED
      BY <2>1, <2>2 DEF TablesStep
  <1>10. CASE CreateUser(w)
    BY <1>10, CreateUserFacts DEF TablesStep
  <1>11. CASE DeleteUserExec(w)
    BY <1>11, DeleteUserExecFacts DEF TablesStep
  <1>12. QED
    BY <1>1, <1>3, <1>4, <1>5, <1>6, <1>7, <1>8, <1>9, <1>10, <1>11, StepEffects

LEMMA OwnerKept ==
    ASSUME TypeOK, RowInv, IdInv, OwnerInv, NEW w \in Requests, PlaceOK(w), FoundOK(w),
           Onward, body'[w] = body[w], PrincipalsStep, TablesStep(w)
    PROVE  OwnerInv'
  <1>1. OpOf(w)' = body[w].op
    BY AuthzAssumption DEF OpOf
  <1>2. ASSUME NEW l \in links', l \in links
        PROVE  OwnerOK(l)'
    <2>1. OwnerOK(l) /\ l.perm \in Perm /\ RowOK(l.perm)
      BY <1>2 DEF OwnerInv, TypeOK, Link, RowInv
    <2>2. l.owner \in principals' /\ OpOf(l.perm.src)' = OpOf(l.perm.src)
      BY <2>1, OpKept DEF TablesStep, OwnerOK
    <2>3. IsFirst(l.owner, l.owner.kind, l.owner.name) => IsFirst(l.owner, l.owner.kind, l.owner.name)'
      BY <2>2, FirstKept
    <2>4. QED
      BY <2>1, <2>2, <2>3 DEF OwnerOK
  <1>3. ASSUME NEW l \in links', l \notin links
        PROVE  OwnerOK(l)'
    <2>1. /\ pc[w] \in {"grant.link", "user.link"} /\ l.owner \in principals /\ l.owner.id = loc[w].pid
          /\ l.perm.src = w /\ l.perm.to = body[w].target /\ l.owner \in principals'
      BY <1>3 DEF TablesStep
    <2>2. /\ l.owner.kind = body[w].target.kind /\ l.owner.name = body[w].target.name
          /\ pc[w] # "user.link" => IsFirst(l.owner, l.owner.kind, l.owner.name)
      BY <2>1 DEF FoundOK
    <2>3. body[w].target = [kind |-> l.owner.kind, name |-> l.owner.name]
      BY <2>2, TypeOfBody DEF Who
    <2>4. pc[w] # "user.link" => IsFirst(l.owner, l.owner.kind, l.owner.name)'
      BY <2>1, <2>2, FirstKept
    <2>5. /\ body[w].op \in {"grant", "bootstrap"}
          /\ body[w].op # "bootstrap" => pc[w] # "user.link"
      BY <2>1 DEF PlaceOK
    <2>6. QED
      BY <1>1, <2>1, <2>3, <2>4, <2>5 DEF OwnerOK
  <1>4. ASSUME NEW p \in anon'
        PROVE  p.to = Anon /\ OpOf(p.src)' \in {"initial", "anonAdd"}
    <2>1. CASE p \in anon
      <3>1. p \in Perm /\ RowOK(p) /\ p.to = Anon /\ OpOf(p.src) \in {"initial", "anonAdd"}
        BY <2>1 DEF TypeOK, RowInv, OwnerInv
      <3>2. QED
        BY <3>1, OpKept
    <2>2. CASE p \notin anon
      BY <1>1, <2>2 DEF TablesStep
    <2>3. QED
      BY <2>1, <2>2
  <1>5. ASSUME NEW c \in caps', NEW p \in c.perms
        PROVE  OpOf(p.src)' \in {"issueCap", "anonToken"}
    <2>1. CASE c \in caps
      <3>1. p \in Perm /\ RowOK(p) /\ OpOf(p.src) \in {"issueCap", "anonToken"}
        BY <2>1 DEF TypeOK, Cap, RowInv, OwnerInv
      <3>2. QED
        BY <3>1, OpKept
    <2>2. CASE c \notin caps
      BY <1>1, <2>2 DEF TablesStep
    <2>3. QED
      BY <2>1, <2>2
  <1>6. QED
    BY <1>2, <1>3, <1>4, <1>5 DEF OwnerInv

-----------------------------------------------------------------------------
(* Answers. *)

LEMMA AnswersMove ==
    ASSUME NEW w \in Requests, \A v \in Requests : AnswerOK(v), before \in [Requests -> SUBSET Requests],
           Others(w), pc[w] # "done", pc'[w] # "new", status'[w] = "ok" => pc'[w] = "done",
           before'[w] = before[w] \/ before'[w] = {u \in Requests : status[u] = "ok"}
    PROVE  \A v \in Requests : AnswerOK(v)' /\ w \notin before[v] /\ (status[v] = "ok" => v # w)
  <1>1. status[w] # "ok"
    BY DEF AnswerOK
  <1>2. ASSUME NEW v \in Requests
        PROVE  w \notin before[v] /\ (status[v] = "ok" => v # w)
    BY <1>1 DEF AnswerOK
  <1>3. \A u \in Requests : status[u] = "ok" => status'[u] = "ok"
    BY <1>1 DEF Others
  <1>4. ASSUME NEW v \in Requests, v # w
        PROVE  AnswerOK(v)'
    BY <1>3, <1>4 DEF AnswerOK, Others
  <1>5. \A u \in before'[w] : status[u] = "ok" /\ u \in Requests
    BY DEF AnswerOK
  <1>6. AnswerOK(w)'
    BY <1>3, <1>5 DEF AnswerOK
  <1>7. QED
    BY <1>2, <1>4, <1>6

-----------------------------------------------------------------------------
(* Removals. *)

\* Nothing is given to the target of a removal in its past.
LEMMA GivenKept ==
    ASSUME TypeOK, RowInv, NEW w \in Requests, NEW v \in Requests, Onward, TablesStep(w),
           w \notin before[v], before'[v] = before[v], body'[v] = body[v]
    PROVE  /\ \A l \in links' : GivenBefore(v, l.perm)' => l \in links /\ GivenBefore(v, l.perm)
           /\ \A p \in anon' : Precedes(p.src, v)' => p \in anon /\ Precedes(p.src, v)
  <1>1. w # None
    BY AuthzAssumption
  <1>2. \A src : Precedes(src, v)' <=> Precedes(src, v)
    BY DEF Precedes
  <1>3. ~Precedes(w, v)
    BY <1>1 DEF Precedes
  <1>4. ASSUME NEW l \in links', GivenBefore(v, l.perm)'
        PROVE  l \in links /\ GivenBefore(v, l.perm)
    <2>1. Precedes(l.perm.src, v) /\ OpOf(l.perm.src)' \in {"initial", "grant"} /\ l.perm.to = body[v].target
      BY <1>2, <1>4 DEF GivenBefore
    <2>2. l \in links
      BY <1>3, <2>1 DEF TablesStep
    <2>3. l.perm \in Perm /\ RowOK(l.perm)
      BY <2>2 DEF TypeOK, Link, RowInv
    <2>4. QED
      BY <2>1, <2>2, <2>3, OpKept DEF GivenBefore
  <1>5. ASSUME NEW p \in anon', Precedes(p.src, v)'
        PROVE  p \in anon /\ Precedes(p.src, v)
    BY <1>2, <1>3, <1>5 DEF TablesStep
  <1>6. QED
    BY <1>4, <1>5

LEMMA RemovalKept ==
    ASSUME TypeOK, RowInv, NEW w \in Requests, NEW v \in Requests, v # w, Others(w), Onward, TablesStep(w),
           w \notin before[v], RemovalOK(v)
    PROVE  RemovalOK(v)'
  <1>1. /\ pc'[v] = pc[v] /\ body'[v] = body[v] /\ loc'[v] = loc[v]
        /\ status'[v] = status[v] /\ before'[v] = before[v]
    BY DEF Others
  <1>2. /\ \A l \in links' : GivenBefore(v, l.perm)' => l \in links /\ GivenBefore(v, l.perm)
        /\ \A p \in anon' : Precedes(p.src, v)' => p \in anon /\ Precedes(p.src, v)
    BY <1>1, GivenKept
  <1>3. \A k, p : Hits(v, k, p)' <=> Hits(v, k, p)
    BY <1>1 DEF Hits
  <1>4. QED
    BY <1>1, <1>2, <1>3 DEF RemovalOK

\* Where no removal begins, goes on or ends.
LEMMA RemovalElsewhere ==
    ASSUME NEW w \in Requests, pc'[w] \notin {"revoke.read", "revoke.delete", "del.exec"},
           status'[w] = "ok" => body'[w].op \notin {"revoke", "delete", "anonDel"}
    PROVE  RemovalOK(w)'
  BY DEF RemovalOK

\* What was given to the target belongs to the row that a lookup finds.
LEMMA GivenToFirst ==
    ASSUME TypeOK, OwnerInv, NEW w \in Requests, NEW l \in links, GivenBefore(w, l.perm),
           NEW u \in principals, IsFirst(u, body[w].target.kind, body[w].target.name)
    PROVE  l.owner.id = u.id
  <1>1. /\ OwnerOK(l) /\ l.perm.to = body[w].target /\ OpOf(l.perm.src) # "bootstrap"
    BY DEF OwnerInv, GivenBefore
  <1>2. /\ l.owner.kind = body[w].target.kind /\ l.owner.name = body[w].target.name
        /\ IsFirst(l.owner, l.owner.kind, l.owner.name) /\ l.owner \in principals
    BY <1>1 DEF OwnerOK
  <1>3. QED
    BY <1>2, FirstIsOne

LEMMA RemovalMoves ==
    ASSUME TypeOK, RowInv, OwnerInv, NEW w \in Requests, PlaceOK(w), FoundOK(w), AnswerOK(w),
           RemovalOK(w), w \notin before[w], TablesStep(w), Advances(w), Step(w) \/ Fail(w)
    PROVE  RemovalOK(w)'
  <1>1. Control(w) /\ body'[w] = body[w] /\ before'[w] = before[w] /\ Onward
    BY StepControl, AdvancesOnward DEF Advances
  <1>2. /\ \A l \in links' : GivenBefore(w, l.perm)' => l \in links /\ GivenBefore(w, l.perm)
        /\ \A p \in anon' : Precedes(p.src, w)' => p \in anon /\ Precedes(p.src, w)
    BY <1>1, GivenKept
  <1>3. \A k, p : Hits(w, k, p)' <=> Hits(w, k, p)
    BY <1>1 DEF Hits
  <1>4. loc[w].i \in Nat /\ Len(body[w].entries) \in Nat
    BY TypeOfLoc, TypeOfBody
  <1>5. status[w] # "ok"
    BY DEF AnswerOK, Advances
  <1>6. CASE GrantFind(w)
    <2>1. /\ Looks(w, body[w].target.kind, body[w].target.name,
                   IF body[w].op = "grant" THEN "grant.link" ELSE "revoke.read", "notFound")
          /\ loc'[w].i = 1
      BY <1>6, GrantFindFacts DEF PlaceOK, KeepsPlace
    <2>2. CASE pc'[w] # "revoke.read"
      <3>1. pc'[w] \notin {"revoke.read", "revoke.delete", "del.exec"} /\ status'[w] # "ok"
        BY <1>5, <2>1, <2>2 DEF Looks
      <3>2. QED
        BY <3>1, RemovalElsewhere
    <2>3. CASE pc'[w] = "revoke.read"
      <3>1. PICK u \in principals : /\ IsFirst(u, body[w].target.kind, body[w].target.name)
                                    /\ loc'[w].pid = u.id /\ status' = status
        BY <2>1, <2>3 DEF Looks
      <3>2. \A l \in links' : GivenBefore(w, l.perm)' => l.owner.id = loc'[w].pid
        BY <1>2, <3>1, GivenToFirst
      <3>3. QED
        BY <1>5, <2>1, <2>3, <3>1, <3>2 DEF RemovalOK
    <2>4. QED
      BY <2>2, <2>3
  <1>7. CASE RevokeRead(w)
    <2>1. /\ pc[w] = "revoke.read" /\ body[w].op = "revoke" /\ loc'[w].pid = loc[w].pid
          /\ loc[w].i \in 1 .. Len(body[w].entries)
          /\ body[w].target.kind \in {"user", "sa"} /\ links' = links
      BY <1>7, RevokeReadFacts DEF PlaceOK, FoundOK, tables
    <2>2. ASSUME NEW l \in links, GivenBefore(w, l.perm)
          PROVE  /\ l.owner.id = loc[w].pid
                 /\ \A k \in 1 .. Len(body[w].entries) : k < loc[w].i => ~Hits(w, k, l.perm)
                 /\ Hits(w, loc[w].i, l.perm) => l.perm \in Revoked(w)
      <3>1. /\ l.owner.id = loc[w].pid
            /\ \A k \in 1 .. Len(body[w].entries) : k < loc[w].i => ~Hits(w, k, l.perm)
        BY <2>1, <2>2 DEF RemovalOK
      <3>2. l.perm \in OwnedBy(loc[w].pid)
        BY <3>1 DEF OwnedBy
      <3>3. QED
        BY <3>1, <3>2 DEF Revoked, Hits
    <2>3. CASE pc'[w] = "revoke.delete" /\ status' = status /\ loc'[w].rows = Revoked(w) /\ loc'[w].i = loc[w].i
      BY <1>1, <1>2, <1>3, <1>5, <2>1, <2>2, <2>3 DEF RemovalOK
    <2>4. CASE Revoked(w) = {} /\ Continues(w, body[w].entries, "revoke.read")
      <3>1. ASSUME NEW l \in links, GivenBefore(w, l.perm), NEW k \in 1 .. Len(body[w].entries), k <= loc[w].i
            PROVE  ~Hits(w, k, l.perm)
        BY <1>4, <2>2, <2>4, <3>1
      <3>2. CASE pc'[w] = "done" /\ loc[w].i = Len(body[w].entries)
        BY <1>1, <1>2, <1>3, <1>4, <2>1, <3>1, <3>2 DEF RemovalOK
      <3>3. CASE pc'[w] = "revoke.read" /\ status' = status /\ loc'[w].i = loc[w].i + 1
        <4>1. ASSUME NEW l \in links', GivenBefore(w, l.perm)'
              PROVE  /\ l.owner.id = loc'[w].pid
                     /\ \A k \in 1 .. Len(body[w].entries) : k < loc'[w].i => ~Hits(w, k, l.perm)'
          BY <1>2, <1>3, <1>4, <2>1, <2>2, <3>1, <3>3, <4>1
        <4>2. QED
          BY <1>1, <1>5, <3>3, <4>1 DEF RemovalOK
      <3>4. QED
        BY <2>4, <3>2, <3>3 DEF Continues
    <2>5. QED
      BY <1>7, <2>3, <2>4, RevokeReadFacts
  <1>8. CASE RevokeDelete(w)
    <2>1. /\ pc[w] = "revoke.delete" /\ body[w].op = "revoke" /\ loc'[w].pid = loc[w].pid
          /\ loc[w].i \in 1 .. Len(body[w].entries) /\ body[w].target.kind \in {"user", "sa"}
      BY <1>8, RevokeDeleteFacts DEF PlaceOK, FoundOK
    <2>2. PICK p \in loc[w].rows :
                /\ links' = {l \in links : ~(l.owner.id = loc[w].pid /\ l.perm = p)}
                /\ \/ /\ pc' = pc /\ status' = status
                      /\ loc'[w].rows = loc[w].rows \ {p} /\ loc'[w].i = loc[w].i
                   \/ /\ loc[w].rows = {p} /\ loc'[w].rows = loc[w].rows
                      /\ Continues(w, body[w].entries, "revoke.read")
      BY <1>8, RevokeDeleteFacts
    <2>3. ASSUME NEW l \in links', GivenBefore(w, l.perm)'
          PROVE  /\ l.owner.id = loc[w].pid /\ l.perm # p
                 /\ \A k \in 1 .. Len(body[w].entries) : k < loc[w].i => ~Hits(w, k, l.perm)
                 /\ Hits(w, loc[w].i, l.perm) => l.perm \in loc[w].rows
      BY <1>2, <2>1, <2>2, <2>3 DEF RemovalOK
    <2>4. CASE pc' = pc /\ status' = status /\ loc'[w].rows = loc[w].rows \ {p} /\ loc'[w].i = loc[w].i
      BY <1>1, <1>3, <1>5, <2>1, <2>3, <2>4 DEF RemovalOK
    <2>5. CASE loc[w].rows = {p} /\ Continues(w, body[w].entries, "revoke.read")
      <3>1. ASSUME NEW l \in links', GivenBefore(w, l.perm)', NEW k \in 1 .. Len(body[w].entries), k <= loc[w].i
            PROVE  ~Hits(w, k, l.perm)
        BY <1>4, <2>3, <2>5, <3>1
      <3>2. CASE pc'[w] = "done" /\ loc[w].i = Len(body[w].entries)
        BY <1>1, <1>3, <1>4, <2>1, <3>1, <3>2 DEF RemovalOK
      <3>3. CASE pc'[w] = "revoke.read" /\ status' = status /\ loc'[w].i = loc[w].i + 1
        <4>1. ASSUME NEW l \in links', GivenBefore(w, l.perm)'
              PROVE  /\ l.owner.id = loc'[w].pid
                     /\ \A k \in 1 .. Len(body[w].entries) : k < loc'[w].i => ~Hits(w, k, l.perm)'
          BY <1>3, <1>4, <2>1, <2>3, <3>1, <3>3, <4>1
        <4>2. QED
          BY <1>1, <1>5, <3>3, <4>1 DEF RemovalOK
      <3>4. QED
        BY <2>5, <3>2, <3>3 DEF Continues
    <2>6. QED
      BY <2>2, <2>4, <2>5
  <1>9. CASE DeleteUserFind(w)
    <2>1. Looks(w, "user", body[w].target.name, "del.exec", "error") /\ pc[w] = "del.find"
      BY <1>9, DeleteUserFindFacts
    <2>2. body[w].target.kind = "user"
      BY <2>1, AuthzAssumption DEF PlaceOK
    <2>3. CASE pc'[w] # "del.exec"
      <3>1. pc'[w] \notin {"revoke.read", "revoke.delete", "del.exec"} /\ status'[w] # "ok"
        BY <1>5, <2>1, <2>3 DEF Looks
      <3>2. QED
        BY <3>1, RemovalElsewhere
    <2>4. CASE pc'[w] = "del.exec"
      <3>1. PICK u \in principals : /\ IsFirst(u, body[w].target.kind, body[w].target.name)
                                    /\ loc'[w].pid = u.id /\ status' = status
        BY <2>1, <2>2, <2>4 DEF Looks
      <3>2. \A l \in links' : GivenBefore(w, l.perm)' => l.owner.id = loc'[w].pid
        BY <1>2, <3>1, GivenToFirst
      <3>3. QED
        BY <1>5, <2>4, <3>1, <3>2 DEF RemovalOK
    <2>5. QED
      BY <2>3, <2>4
  <1>10. CASE DeleteUserExec(w)
    <2>1. /\ pc[w] = "del.exec" /\ body[w].op = "delete" /\ body[w].target.kind \in {"user", "sa"}
          /\ pc'[w] = "done" /\ links' = {l \in links : l.owner.id # loc[w].pid}
      BY <1>10, DeleteUserExecFacts DEF PlaceOK, FoundOK
    <2>2. \A l \in links' : ~GivenBefore(w, l.perm)'
      BY <1>2, <2>1 DEF RemovalOK
    <2>3. QED
      BY <1>1, <2>1, <2>2 DEF RemovalOK
  <1>11. CASE DeleteAnonPermission(w)
    <2>1. /\ body[w].op = "anonDel" /\ pc'[w] = "done"
          /\ anon' = {p \in anon : p.key # <<body[w].ref, 1>>}
      BY <1>11, DeleteAnonFacts DEF PlaceOK
    <2>2. QED
      BY <1>1, <2>1 DEF RemovalOK
  <1>12. CASE ~(GrantFind(w) \/ RevokeRead(w) \/ RevokeDelete(w) \/ DeleteUserFind(w)
                \/ DeleteUserExec(w) \/ DeleteAnonPermission(w))
    BY <1>1, <1>12, RemovalElsewhere DEF Control
  <1>13. QED
    BY <1>6, <1>7, <1>8, <1>9, <1>10, <1>11, <1>12

-----------------------------------------------------------------------------
(* A revocation is final. *)

\* What a request is allowed by, or shows, was in a table when it was read.
LEMMA ReadsStored ==
    ASSUME TypeOK, NEW w \in Requests, PlaceOK(w), Step(w) \/ Fail(w)
    PROVE  \A p \in used'[w] : p \in used[w] \/ Stored(p)
  <1>1. ASSUME NEW rows, used'[w] \subseteq used[w] \cup rows, \A p \in rows : Stored(p)
        PROVE  \A p \in used'[w] : p \in used[w] \/ Stored(p)
    BY <1>1
  <1>2. ASSUME pc[w] \in Checks, NEW verdict, NEW rows \in SUBSET Perm, Decide(w, verdict, rows),
               \A p \in rows : Stored(p)
        PROVE  \A p \in used'[w] : p \in used[w] \/ Stored(p)
    BY <1>1, <1>2, DecideFacts
  <1>3. CASE CheckFind(w) \/ CheckPerms(w) \/ checkAnon(w)
    <2>1. pc[w] \in Checks
      BY <1>3, CheckFindFacts, CheckPermsFacts, checkAnonFacts DEF Checks
    <2>2. Granting(w, OwnRows(w)) \in SUBSET Perm /\ Granting(w, ListAnon) \in SUBSET Perm /\ {} \in SUBSET Perm
      BY OwnedType
    <2>3. CASE used' = used
      BY <2>3
    <2>4. CASE \/ \E verdict : Decide(w, verdict, {})
               \/ \E verdict : Decide(w, verdict, Granting(w, OwnRows(w)))
               \/ \E verdict : Decide(w, verdict, Granting(w, ListAnon))
      BY <1>2, <2>1, <2>2, <2>4, RowsAreStored
    <2>5. QED
      BY <1>3, <2>3, <2>4, CheckFindFacts, CheckPermsFacts, checkAnonFacts
  <1>4. CASE OwnPerms(w)
    BY <1>1, <1>4, OwnPermsFacts, RowsAreStored
  <1>5. CASE OwnAnon(w)
    BY <1>1, <1>5, OwnAnonFacts, RowsAreStored
  <1>6. CASE ListAnonPermissions(w)
    BY <1>1, <1>6, ListAnonFacts, RowsAreStored
  <1>7. CASE AnonTokenList(w)
    BY <1>1, <1>7, AnonTokenListFacts, RowsAreStored
  <1>8. CASE QueryPerms(w)
    BY <1>1, <1>8, QueryPermsFacts, RowsAreStored
  <1>9. CASE used' = used
    BY <1>9
  <1>10. CASE OwnFind(w) \/ GrantFind(w) \/ QueryFind(w) \/ DeleteUserFind(w)
    BY <1>9, <1>10, OwnFindFacts, GrantFindFacts, QueryFindFacts, DeleteUserFindFacts
  <1>11. CASE GrantLink(w) \/ BootstrapLink(w)
    BY <1>9, <1>11, GrantLinkCalls, BootstrapLinkCalls, AddPermissionFacts
  <1>12. CASE RevokeRead(w) \/ RevokeDelete(w) \/ AddAnonPermission(w) \/ DeleteAnonPermission(w)
    BY <1>9, <1>12, RevokeReadFacts, RevokeDeleteFacts, AddAnonFacts, DeleteAnonFacts
  <1>13. CASE AnonTokenInsert(w) \/ IssueCapInsert(w) \/ CreateUser(w) \/ DeleteUserExec(w)
    BY <1>9, <1>13, AnonTokenInsertFacts, IssueCapInsertFacts, CreateUserFacts, DeleteUserExecFacts
  <1>14. CASE Fail(w)
    BY <1>2, <1>9, <1>14, FailFacts
  <1>15. QED
    BY <1>3, <1>4, <1>5, <1>6, <1>7, <1>8, <1>10, <1>11, <1>12, <1>13, <1>14 DEF Step

\* v took p away.
Taken(v, p) ==
    /\ OpOf(p.src) \in {"initial", "grant", "anonAdd"}
    /\ Precedes(p.src, v)
    /\ Removes(v, p.to, p.verb, p.pat, p.key)

FinalOK(w) == \A p \in used[w], v \in before[w] : ~Taken(v, p)

\* Nothing that an answered removal took away is in a table.
LEMMA TakenIsGone ==
    ASSUME TypeOK, OwnerInv, NEW v \in Requests, RemovalOK(v), status[v] = "ok", NEW p, Stored(p)
    PROVE  ~Taken(v, p)
  <1> SUFFICES ASSUME Taken(v, p) PROVE FALSE
    OBVIOUS
  <1>1. /\ OpOf(p.src) \in {"initial", "grant", "anonAdd"} /\ Precedes(p.src, v)
        /\ Removes(v, p.to, p.verb, p.pat, p.key)
    BY DEF Taken
  <1>2. ASSUME body[v].op \in {"revoke", "delete"}
        PROVE  body[v].target.kind \in {"user", "sa"}
    BY <1>2 DEF RemovalOK
  <1>3. CASE p \in anon
    <2>1. (p.to = Anon /\ body[v].target # Anon) \/ body[v].op = "anonDel"
      BY <1>1, <1>2, <1>3 DEF OwnerInv, Removes, Anon
    <2>2. body[v].op = "anonDel" /\ p.key = <<body[v].ref, 1>>
      BY <1>1, <1>3, <2>1 DEF OwnerInv, Removes
    <2>3. QED
      BY <1>1, <1>3, <2>2 DEF RemovalOK
  <1>4. CASE \E l \in links : p = l.perm
    <2>1. PICK l \in links : p = l.perm
      BY <1>4
    <2>2. OwnerOK(l) /\ l.owner.kind \in {"user", "sa"}
      BY <2>1 DEF OwnerInv, TypeOK, Link, Principal
    <2>3. p.to # Anon /\ OpOf(p.src) \in {"initial", "grant"}
      BY <1>1, <2>1, <2>2 DEF OwnerOK, Anon
    <2>4. body[v].op \in {"revoke", "delete"} /\ body[v].target = p.to
      BY <1>1, <2>3 DEF Removes
    <2>5. GivenBefore(v, p)
      BY <1>1, <2>3, <2>4 DEF GivenBefore
    <2>6. body[v].op = "revoke"
      BY <2>1, <2>4, <2>5 DEF RemovalOK
    <2>7. PICK k \in DOMAIN body[v].entries : Hits(v, k, p)
      BY <1>1, <2>3, <2>6 DEF Removes, Hits
    <2>8. k \in 1 .. Len(body[v].entries)
      BY TypeOfBody
    <2>9. QED
      BY <2>1, <2>5, <2>6, <2>7, <2>8 DEF RemovalOK
  <1>5. CASE \E c \in caps : p \in c.perms
    BY <1>1, <1>5 DEF OwnerInv
  <1>6. QED
    BY <1>3, <1>4, <1>5 DEF Stored

LEMMA TakenKept ==
    ASSUME NEW v \in Requests, NEW p \in Perm, RowOK(p), Onward,
           body'[v] = body[v], before'[v] = before[v], ~Taken(v, p)
    PROVE  ~Taken(v, p)'
  BY OpKept DEF Taken, Precedes, Removes

LEMMA FinalMoves ==
    ASSUME TypeOK, RowInv, OwnerInv, NEW w \in Requests, FinalOK(w), before'[w] = before[w],
           \A v \in before[w] : /\ v \in Requests /\ status[v] = "ok" /\ RemovalOK(v)
                                /\ body'[v] = body[v] /\ before'[v] = before[v],
           Onward,
           \A p \in used'[w] : p \in used[w] \/ Stored(p)
    PROVE  FinalOK(w)'
  <1> SUFFICES ASSUME NEW p \in used'[w], NEW v \in before[w] PROVE ~Taken(v, p)'
    BY DEF FinalOK
  <1>1. p \in Perm /\ RowOK(p)
    BY StoredFacts DEF TypeOK, RowInv
  <1>2. ~Taken(v, p)
    BY TakenIsGone DEF FinalOK
  <1>3. QED
    BY <1>1, <1>2, TakenKept

-----------------------------------------------------------------------------
(* The invariant. *)

RevocationInv ==
    Inv /\ IdInv /\ OwnerInv /\ HandlersInv /\ \A w \in Requests : FinalOK(w)

LEMMA InitRevocation == Init => RevocationInv
  <1> SUFFICES ASSUME Init PROVE RevocationInv
    OBVIOUS
  <1>1. Inv
    BY InitInv
  <1>2. IdInv
    BY AuthzAssumption, FS_CardinalityType DEF Init, IdInv
  <1>3. \A l \in links : OwnerOK(l)
    <2> SUFFICES ASSUME NEW l \in links PROVE OwnerOK(l)
      OBVIOUS
    <2>1. l \in InitialGrants /\ l.owner # Anon /\ l.owner \in principals
      BY AuthzAssumption DEF Init
    <2>2. /\ l.perm.src = None /\ l.perm.to = [kind |-> l.owner.kind, name |-> l.owner.name]
          /\ \A x \in principals : x.kind = l.owner.kind /\ x.name = l.owner.name => l.owner.id <= x.id
      BY <2>1, AuthzAssumption DEF Init
    <2>3. QED
      BY <2>1, <2>2 DEF OwnerOK, OpOf, IsFirst
  <1>4. \A p \in anon : p.to = Anon /\ p.src = None
    BY AuthzAssumption DEF Init
  <1>5. OwnerInv
    BY <1>3, <1>4 DEF OwnerInv, OpOf, Init
  <1>6. \A w \in Requests : pc[w] = "new" /\ status[w] = "none" /\ used[w] = {} /\ before[w] = {}
    BY DEF Init
  <1>7. HandlersInv
    BY <1>6 DEF HandlersInv, FoundOK, AnswerOK, RemovalOK
  <1>8. \A w \in Requests : FinalOK(w)
    BY <1>6 DEF FinalOK
  <1>9. QED
    BY <1>1, <1>2, <1>5, <1>7, <1>8 DEF RevocationInv

LEMMA RevocationInvStep ==
    ASSUME RevocationInv, NEW w \in Requests, Step(w) \/ Fail(w)
    PROVE  IdInv' /\ OwnerInv' /\ HandlersInv' /\ \A v \in Requests : FinalOK(v)'
  <1>1. /\ TypeOK /\ PlaceInv /\ RowInv /\ IdInv /\ OwnerInv
        /\ \A v \in Requests : PlaceOK(v) /\ FoundOK(v) /\ AnswerOK(v) /\ RemovalOK(v) /\ FinalOK(v)
    BY DEF RevocationInv, Inv, PlaceInv, HandlersInv
  <1>2. Advances(w)
    BY <1>1, PlaceStep, FailFacts
  <1>3. Onward /\ Others(w) /\ body' = body /\ before' = before /\ pc[w] # "done" /\ pc'[w] # "new"
    BY <1>2, AdvancesOnward DEF Advances
  <1>4. PrincipalsStep /\ TablesStep(w)
    <2>1. CASE Step(w)
      BY <1>1, <2>1, PrincipalsMove, TablesMove
    <2>2. CASE Fail(w)
      <3>1. UNCHANGED tables
        BY <1>1, <2>2, FailFacts
      <3>2. QED
        BY <1>1, <3>1 DEF tables, PrincipalsStep, TablesStep, TypeOK
    <2>3. QED
      BY <2>1, <2>2
  <1>5. Control(w)
    BY <1>1, StepControl
  <1>6. \A v \in Requests : AnswerOK(v)' /\ w \notin before[v] /\ (status[v] = "ok" => v # w)
    BY <1>1, <1>3, <1>5, AnswersMove DEF Control, TypeOK
  <1>7. IdInv'
    BY <1>1, <1>4, IdKept
  <1>8. OwnerInv'
    BY <1>1, <1>3, <1>4, OwnerKept
  <1>9. ASSUME NEW v \in Requests PROVE FoundOK(v)' /\ RemovalOK(v)' /\ FinalOK(v)'
    <2>1. \A u \in before[v] : u \in Requests /\ status[u] = "ok" /\ RemovalOK(u)
      BY <1>1 DEF AnswerOK, TypeOK
    <2>2. \A p \in used'[v] : p \in used[v] \/ Stored(p)
      BY <1>1, <1>3, ReadsStored DEF Others
    <2>3. FinalOK(v)'
      BY <1>1, <1>3, <2>1, <2>2, FinalMoves
    <2>4. FoundOK(v)' /\ RemovalOK(v)'
      <3>1. CASE v = w
        BY <1>1, <1>2, <1>4, <1>6, <3>1, FoundMoves, RemovalMoves
      <3>2. CASE v # w
        BY <1>1, <1>3, <1>4, <1>6, <3>2, FoundKept, RemovalKept DEF Others
      <3>3. QED
        BY <3>1, <3>2
    <2>5. QED
      BY <2>3, <2>4
  <1>10. QED
    BY <1>6, <1>7, <1>8, <1>9 DEF HandlersInv

\* An arrival begins no removal.
LEMMA RevocationInvArrive ==
    ASSUME RevocationInv, NEW w \in Requests, Arrive(w)
    PROVE  IdInv' /\ OwnerInv' /\ HandlersInv' /\ \A v \in Requests : FinalOK(v)'
  <1>1. /\ TypeOK /\ PlaceInv /\ RowInv /\ IdInv /\ OwnerInv
        /\ \A v \in Requests : PlaceOK(v) /\ FoundOK(v) /\ AnswerOK(v) /\ RemovalOK(v) /\ FinalOK(v)
    BY DEF RevocationInv, Inv, PlaceInv, HandlersInv
  <1>2. /\ Others(w) /\ pc[w] = "new" /\ pc'[w] # "new" /\ used' = used /\ body'[w] \in Bodies
        /\ links' = links /\ anon' = anon /\ caps' = caps /\ principals' = principals /\ idSeq' = idSeq
        /\ before'[w] = {u \in Requests : status[u] = "ok"}
        /\ \/ pc'[w] = EntryLabel(body'[w]) /\ status' = status
           \/ pc'[w] = "done" /\ status'[w] # "ok"
    BY <1>1, ArriveFacts DEF tables
  <1>3. Onward
    BY <1>2 DEF Onward, Others
  <1>4. status[w] # "ok" /\ status'[w] # "ok"
    BY <1>1, <1>2 DEF AnswerOK
  <1>5. pc'[w] \notin {"grant.link", "revoke.read", "revoke.delete", "user.link", "del.exec"}
    <2>1. EntryOK(body'[w]) /\ body'[w].op \in Ops \ {"idle"}
      BY <1>2, EntryFacts, AuthzAssumption DEF Body
    <2>2. QED
      BY <1>2, <2>1 DEF EntryOK, Ops, Checks, Owns
  <1>6. PrincipalsStep /\ TablesStep(w)
    BY <1>1, <1>2 DEF PrincipalsStep, TablesStep, TypeOK
  <1>7. \A v \in Requests : AnswerOK(v)' /\ w \notin before[v] /\ (status[v] = "ok" => v # w)
    BY <1>1, <1>2, <1>4, AnswersMove DEF TypeOK
  <1>8. IdInv'
    BY <1>1, <1>6, IdKept
  <1>9. OwnerInv'
    <2>1. \A l \in links : OwnerOK(l)'
      <3> SUFFICES ASSUME NEW l \in links PROVE OwnerOK(l)'
        OBVIOUS
      <3>1. OwnerOK(l) /\ l.perm \in Perm /\ RowOK(l.perm)
        BY <1>1 DEF OwnerInv, TypeOK, Link, RowInv
      <3>2. QED
        BY <1>2, <1>3, <3>1, OpKept DEF OwnerOK, IsFirst
    <2>2. \A p \in anon : p.to = Anon /\ OpOf(p.src)' \in {"initial", "anonAdd"}
      BY <1>1, <1>3, OpKept DEF OwnerInv, TypeOK, RowInv
    <2>3. ASSUME NEW c \in caps, NEW p \in c.perms
          PROVE  OpOf(p.src)' \in {"issueCap", "anonToken"}
      <3>1. p \in Perm /\ RowOK(p) /\ OpOf(p.src) \in {"issueCap", "anonToken"}
        BY <1>1 DEF TypeOK, Cap, RowInv, OwnerInv
      <3>2. QED
        BY <1>3, <3>1, OpKept
    <2>4. QED
      BY <1>2, <2>1, <2>2, <2>3 DEF OwnerInv
  <1>10. FoundOK(w)' /\ RemovalOK(w)'
    BY <1>4, <1>5, RemovalElsewhere DEF FoundOK
  <1>11. FinalOK(w)'
    BY <1>1, <1>2 DEF PlaceOK, FinalOK
  <1>12. ASSUME NEW v \in Requests, v # w PROVE FoundOK(v)' /\ RemovalOK(v)' /\ FinalOK(v)'
    <2>1. FoundOK(v)' /\ RemovalOK(v)'
      BY <1>1, <1>2, <1>3, <1>6, <1>7, <1>12, FoundKept, RemovalKept DEF Others
    <2>2. \A u \in before[v] : /\ u \in Requests /\ status[u] = "ok" /\ RemovalOK(u)
                               /\ body'[u] = body[u] /\ before'[u] = before[u]
      BY <1>1, <1>2, <1>7 DEF AnswerOK, TypeOK, Others
    <2>3. FinalOK(v)'
      BY <1>1, <1>2, <1>3, <1>12, <2>2, FinalMoves DEF Others
    <2>4. QED
      BY <2>1, <2>3
  <1>13. QED
    BY <1>7, <1>8, <1>9, <1>10, <1>11, <1>12 DEF HandlersInv

LEMMA NextRevocation ==
    ASSUME RevocationInv, [Next]_vars
    PROVE  RevocationInv'
  <1>1. Inv'
    BY NextInv DEF RevocationInv
  <1>2. ASSUME principals' = principals, idSeq' = idSeq, links' = links, anon' = anon, caps' = caps,
               pc' = pc, body' = body, loc' = loc, status' = status, used' = used, before' = before
        PROVE  RevocationInv'
    BY <1>1, <1>2 DEF RevocationInv, IdInv, OwnerInv, OwnerOK, IsFirst, OpOf, HandlersInv, FoundOK, AnswerOK,
       RemovalOK, GivenBefore, Precedes, Hits, FinalOK, Taken, Removes
  <1>3. CASE UNCHANGED vars
    BY <1>2, <1>3 DEF vars, tables, history
  <1>4. CASE Expire
    BY <1>2, <1>4, ExpireFacts DEF RevocationInv, Inv
  <1>5. ASSUME NEW w \in Requests, Arrive(w) \/ Step(w) \/ Fail(w)
        PROVE  RevocationInv'
    BY <1>1, <1>5, RevocationInvStep, RevocationInvArrive DEF RevocationInv
  <1>6. QED
    BY <1>3, <1>4, <1>5 DEF Next, Terminated

LEMMA RevocationInvHolds == Spec => []RevocationInv
  <1>1. Init => RevocationInv
    BY InitRevocation
  <1>2. RevocationInv /\ [Next]_vars => RevocationInv'
    BY NextRevocation
  <1>3. QED
    BY <1>1, <1>2, PTL DEF Spec

\* RevokePermissions, DeleteAnonPermission and DeleteUserByName: once a
\* revocation, or the deletion of a user, is answered, what it names and was
\* granted before it arrived allows nothing, is shown to nobody and is copied
\* into no token by any later request, for any number of requests, entries and
\* users of one name, and although the rows are read, and deleted one commit
\* at a time, while others grant, revoke and delete.
THEOREM RevocationsAreFinal == Spec => []RevocationIsFinal
  <1>1. RevocationInv => RevocationIsFinal
    BY DEF RevocationInv, FinalOK, Taken, RevocationIsFinal
  <1>2. QED
    BY <1>1, RevocationInvHolds, PTL

-----------------------------------------------------------------------------
(* A grant that was answered is whole. *)

\* The permissions that were granted, not copied into a token.
Rows == anon \cup {l.perm : l \in links}

\* What entry k of grant g gives is in the tables, or a removal named it.
Kept(g, k) ==
    LET e == EntriesOf(g)[k]
    IN \/ \E p \in Rows : p.src = g /\ p.key = <<g, k>>
       \/ Undone(g, Recipient(g), e.verb, e.pat, <<g, k>>)

\* A row is what its entry asked for.
RowOfEntry(p) ==
    p.src # None =>
        \E k \in DOMAIN EntriesOf(p.src) :
            /\ p.key = <<p.src, k>> /\ p.to = Recipient(p.src)
            /\ p.verb = EntriesOf(p.src)[k].verb /\ p.pat = EntriesOf(p.src)[k].pat

\* How far a grant has come, and what a revocation is about to delete.
GrantOK(g) ==
    /\ pc[g] \in {"grant.link", "anon.add", "user.link"} =>
         \A k \in DOMAIN EntriesOf(g) : k < loc[g].i => Kept(g, k)
    /\ g \in Granted => \A k \in DOMAIN EntriesOf(g) : Kept(g, k)
    /\ pc[g] = "revoke.delete" => \A p \in loc[g].rows : Hits(g, loc[g].i, p)

GrantInv ==
    /\ \A p \in Rows : RowOfEntry(p)
    /\ \A g \in Requests : GrantOK(g)

\* A row that a step deletes is one that its request names.
LEMMA RowsLost ==
    ASSUME TypeOK, OwnerInv, NEW w \in Requests, PlaceOK(w), FoundOK(w), GrantOK(w), Step(w),
           NEW p \in Rows, p \notin Rows'
    PROVE  Removes(w, p.to, p.verb, p.pat, p.key)
  <1>1. \/ p \in anon /\ p \notin anon'
        \/ \E l \in links : p = l.perm /\ l \notin links'
    BY DEF Rows
  <1>2. ASSUME anon' = anon, \A l \in links : l \in links' PROVE FALSE
    BY <1>1, <1>2
  <1>3. CASE Quiet
    BY <1>2, <1>3 DEF Quiet
  <1>4. CASE GrantLink(w)
    BY <1>2, <1>4, GrantLinkCalls, AddPermissionFacts
  <1>5. CASE BootstrapLink(w)
    BY <1>2, <1>5, BootstrapLinkCalls, AddPermissionFacts
  <1>6. CASE AnonTokenInsert(w) \/ IssueCapInsert(w) \/ CreateUser(w)
    BY <1>2, <1>6, AnonTokenInsertFacts, IssueCapInsertFacts, CreateUserFacts
  <1>7. CASE AddAnonPermission(w)
    BY <1>1, <1>7, AddAnonFacts
  <1>8. CASE DeleteAnonPermission(w)
    <2>1. /\ body[w].op = "anonDel" /\ links' = links
          /\ anon' = {x \in anon : x.key # <<body[w].ref, 1>>}
      BY <1>8, DeleteAnonFacts DEF PlaceOK
    <2>2. p \in anon /\ p.key = <<body[w].ref, 1>> /\ p.to = Anon
      BY <1>1, <2>1 DEF OwnerInv
    <2>3. QED
      BY <2>1, <2>2 DEF Removes
  <1>9. ASSUME NEW l \in links, p = l.perm, l.owner.id = loc[w].pid, pc[w] \in {"revoke.delete", "del.exec"}
        PROVE  body[w].target = p.to
    <2>1. OwnerOK(l)
      BY DEF OwnerInv
    <2>2. l.owner.kind = body[w].target.kind /\ l.owner.name = body[w].target.name
      BY <1>9, <2>1 DEF FoundOK, OwnerOK
    <2>3. QED
      BY <1>9, <2>1, <2>2, TypeOfBody DEF OwnerOK, Who
  <1>10. CASE DeleteUserExec(w)
    <2>1. /\ pc[w] = "del.exec" /\ body[w].op = "delete" /\ anon' = anon
          /\ links' = {l \in links : l.owner.id # loc[w].pid}
      BY <1>10, DeleteUserExecFacts DEF PlaceOK
    <2>2. PICK l \in links : p = l.perm /\ l.owner.id = loc[w].pid
      BY <1>1, <2>1
    <2>3. QED
      BY <1>9, <2>1, <2>2 DEF Removes
  <1>11. CASE RevokeDelete(w)
    <2>1. pc[w] = "revoke.delete" /\ body[w].op = "revoke" /\ anon' = anon
      BY <1>11, RevokeDeleteFacts DEF PlaceOK
    <2>2. PICK q \in loc[w].rows : links' = {l \in links : ~(l.owner.id = loc[w].pid /\ l.perm = q)}
      BY <1>11, RevokeDeleteFacts
    <2>3. PICK l \in links : p = l.perm /\ l.owner.id = loc[w].pid /\ p = q
      BY <1>1, <2>1, <2>2
    <2>4. Hits(w, loc[w].i, p) /\ loc[w].i \in DOMAIN body[w].entries
      BY <2>1, <2>2, <2>3, TypeOfBody DEF GrantOK, PlaceOK
    <2>5. QED
      BY <1>9, <2>1, <2>3, <2>4 DEF Removes, Hits
  <1>12. QED
    BY <1>3, <1>4, <1>5, <1>6, <1>7, <1>8, <1>10, <1>11, StepEffects

\* A removal that named an entry has done so for good.
LEMMA UndoneKept ==
    ASSUME NEW g \in Requests, Onward, before'[g] = before[g], NEW to, NEW verb, NEW pat, NEW key,
           Undone(g, to, verb, pat, key)
    PROVE  Undone(g, to, verb, pat, key)'
  <1>1. PICK v \in Requests : pc[v] # "new" /\ v \notin before[g] /\ Removes(v, to, verb, pat, key)
    BY DEF Undone
  <1>2. pc'[v] # "new" /\ body'[v] = body[v]
    BY <1>1 DEF Onward
  <1>3. Removes(v, to, verb, pat, key)'
    BY <1>1, <1>2 DEF Removes
  <1>4. QED
    BY <1>1, <1>2, <1>3 DEF Undone

LEMMA EntriesKept ==
    ASSUME NEW g \in Requests, body'[g] = body[g]
    PROVE  EntriesOf(g)' = EntriesOf(g) /\ Recipient(g)' = Recipient(g)
  BY DEF EntriesOf, Recipient

LEMMA KeptKept ==
    ASSUME NEW g \in Requests, NEW k, Kept(g, k), body'[g] = body[g], before'[g] = before[g], Onward,
           NEW w \in Requests, w \notin before[g],
           \A p \in Rows : RowOfEntry(p),
           \A p \in Rows : p \in Rows' \/ (pc[w] # "new" /\ Removes(w, p.to, p.verb, p.pat, p.key))
    PROVE  Kept(g, k)'
  <1> DEFINE e == EntriesOf(g)[k]
  <1>1. EntriesOf(g)' = EntriesOf(g) /\ Recipient(g)' = Recipient(g)
    BY EntriesKept
  <1>2. CASE Undone(g, Recipient(g), e.verb, e.pat, <<g, k>>)
    <2>1. Undone(g, Recipient(g), e.verb, e.pat, <<g, k>>)'
      <3>1. \A r, x, y, z : Undone(g, r, x, y, z) => Undone(g, r, x, y, z)'
        BY UndoneKept
      <3>2. QED
        BY <1>1, <1>2, <3>1
    <2>2. QED
      BY <2>1 DEF Kept
  <1>3. CASE \E p \in Rows : p.src = g /\ p.key = <<g, k>>
    <2>1. PICK p \in Rows : p.src = g /\ p.key = <<g, k>>
      BY <1>3
    <2>2. CASE p \in Rows'
      BY <2>1, <2>2 DEF Kept
    <2>3. CASE pc[w] # "new" /\ Removes(w, p.to, p.verb, p.pat, p.key)
      <3>1. p.to = Recipient(g) /\ p.verb = e.verb /\ p.pat = e.pat
        BY <2>1, AuthzAssumption DEF RowOfEntry
      <3>2. Undone(g, Recipient(g), e.verb, e.pat, <<g, k>>)
        BY <2>1, <2>3, <3>1 DEF Undone
      <3>3. QED
        BY <1>2, <3>2
    <2>4. QED
      BY <2>1, <2>2, <2>3
  <1>4. QED
    BY <1>2, <1>3 DEF Kept

\* The row that entry i of grant w makes, and the entry is given.
LEMMA NewRow ==
    ASSUME TypeOK, NEW w \in Requests, body'[w] = body[w], NEW p \in Rows',
           loc[w].i \in DOMAIN EntriesOf(w), p = PermOf(w, Recipient(w), EntriesOf(w)[loc[w].i])
    PROVE  RowOfEntry(p)' /\ \A k : k = loc[w].i => Kept(w, k)'
  <1>1. EntriesOf(w)' = EntriesOf(w) /\ Recipient(w)' = Recipient(w)
    BY EntriesKept
  <1>2. /\ p.src = w /\ p.key = <<w, loc[w].i>> /\ p.to = Recipient(w)
        /\ p.verb = EntriesOf(w)[loc[w].i].verb /\ p.pat = EntriesOf(w)[loc[w].i].pat
    BY DEF PermOf
  <1>3. RowOfEntry(p)'
    BY <1>1, <1>2 DEF RowOfEntry
  <1>4. ASSUME NEW k, k = loc[w].i PROVE Kept(w, k)'
    BY <1>2, <1>4 DEF Kept
  <1>5. QED
    BY <1>3, <1>4

\* The step of a grant that adds a row, and goes on or answers.
Adds(w) ==
    /\ loc[w].i \in DOMAIN EntriesOf(w) /\ DOMAIN EntriesOf(w) = 1 .. Len(EntriesOf(w))
    /\ PermOf(w, Recipient(w), EntriesOf(w)[loc[w].i]) \in Rows'
    /\ \A p \in Rows' : p \in Rows \/ p = PermOf(w, Recipient(w), EntriesOf(w)[loc[w].i])
    /\ \/ pc'[w] = "done" /\ loc[w].i = Len(EntriesOf(w))
       \/ pc'[w] \in {"grant.link", "anon.add", "user.link"} /\ status' = status /\ loc'[w].i = loc[w].i + 1
    /\ pc[w] \in {"grant.link", "anon.add", "user.link"}

\* The step that adds none.
Refused(w) == (\A p \in Rows' : p \in Rows) /\ (pc'[w] = "done" => status'[w] # "ok")

LEMMA GrantSteps ==
    ASSUME TypeOK, NEW w \in Requests, PlaceOK(w), GrantLink(w) \/ BootstrapLink(w) \/ AddAnonPermission(w)
    PROVE  Adds(w) \/ (Refused(w) /\ pc'[w] = "done")
  <1> DEFINE new == PermOf(w, Recipient(w), EntriesOf(w)[loc[w].i])
  <1>0. ASSUME NEW u, NEW p, links' = links \cup {[owner |-> u, perm |-> p]}, anon' = anon
        PROVE  p \in Rows' /\ \A q \in Rows' : q \in Rows \/ q = p
    <2>1. [owner |-> u, perm |-> p] \in links' /\ [owner |-> u, perm |-> p].perm = p
      BY <1>0
    <2>2. p \in Rows'
      BY <2>1, Zenon DEF Rows
    <2>3. ASSUME NEW q \in Rows', q \notin anon' PROVE q \in Rows \/ q = p
      <3>1. PICK l \in links' : q = l.perm
        BY <2>3, Zenon DEF Rows
      <3>2. CASE l \in links
        BY <3>1, <3>2, Zenon DEF Rows
      <3>3. CASE l \notin links
        BY <1>0, <3>1, <3>3
      <3>4. QED
        BY <3>2, <3>3
    <2>4. QED
      BY <1>0, <2>2, <2>3 DEF Rows
  <1>1. CASE GrantLink(w)
    <2>1. /\ EntriesOf(w) = body[w].entries /\ Recipient(w) = body[w].target
          /\ loc[w].i \in 1 .. Len(body[w].entries) /\ pc[w] = "grant.link"
          /\ DOMAIN body[w].entries = 1 .. Len(body[w].entries) /\ anon' = anon
      BY <1>1, GrantLinkCalls, AddPermissionFacts, TypeOfBody DEF EntriesOf, Recipient
    <2>2. CASE links' = links /\ pc'[w] = "done" /\ status'[w] = "error"
      BY <2>1, <2>2 DEF Refused, Rows
    <2>3. CASE /\ \E u \in principals :
                      /\ u.id = loc[w].pid
                      /\ links' = links \cup
                           {[owner |-> u, perm |-> PermOf(w, body[w].target, body[w].entries[loc[w].i])]}
               /\ \/ pc'[w] = "done" /\ loc[w].i = Len(body[w].entries)
                  \/ pc'[w] = "grant.link" /\ status' = status /\ loc'[w].i = loc[w].i + 1
      <3>1. PICK u : links' = links \cup {[owner |-> u, perm |-> new]}
        BY <2>1, <2>3
      <3>2. new \in Rows' /\ \A q \in Rows' : q \in Rows \/ q = new
        BY <1>0, <2>1, <3>1
      <3>3. QED
        BY <2>1, <2>3, <3>2 DEF Adds
    <2>4. QED
      BY <1>1, <2>2, <2>3, GrantLinkCalls, AddPermissionFacts
  <1>2. CASE BootstrapLink(w)
    <2>1. /\ EntriesOf(w) = bootstrapGrants /\ Recipient(w) = body[w].target
          /\ loc[w].i \in 1 .. Len(bootstrapGrants) /\ pc[w] = "user.link"
          /\ bootstrapGrants \in Seq(Entry) /\ anon' = anon
      BY <1>2, BootstrapLinkCalls, AddPermissionFacts DEF EntriesOf, Recipient
    <2>2. DOMAIN bootstrapGrants = 1 .. Len(bootstrapGrants)
      BY <2>1
    <2>3. CASE links' = links /\ pc'[w] = "done" /\ status'[w] = "error"
      BY <2>1, <2>3 DEF Refused, Rows
    <2>4. CASE /\ \E u \in principals :
                      /\ u.id = loc[w].pid
                      /\ links' = links \cup
                           {[owner |-> u, perm |-> PermOf(w, body[w].target, bootstrapGrants[loc[w].i])]}
               /\ \/ pc'[w] = "done" /\ loc[w].i = Len(bootstrapGrants)
                  \/ pc'[w] = "user.link" /\ status' = status /\ loc'[w].i = loc[w].i + 1
      <3>1. PICK u : links' = links \cup {[owner |-> u, perm |-> new]}
        BY <2>1, <2>4
      <3>2. new \in Rows' /\ \A q \in Rows' : q \in Rows \/ q = new
        BY <1>0, <2>1, <3>1
      <3>3. QED
        BY <2>1, <2>2, <2>4, <3>2 DEF Adds
    <2>5. QED
      BY <1>2, <2>3, <2>4, BootstrapLinkCalls, AddPermissionFacts
  <1>3. CASE AddAnonPermission(w)
    <2>1. /\ EntriesOf(w) = body[w].entries /\ Recipient(w) = Anon
          /\ loc[w].i \in 1 .. Len(body[w].entries) /\ pc[w] = "anon.add"
          /\ DOMAIN body[w].entries = 1 .. Len(body[w].entries) /\ links' = links
          /\ anon' = anon \cup {PermOf(w, Anon, body[w].entries[loc[w].i])}
          /\ \/ pc'[w] = "done" /\ loc[w].i = Len(body[w].entries)
             \/ pc'[w] = "anon.add" /\ status' = status /\ loc'[w].i = loc[w].i + 1
      BY <1>3, AddAnonFacts, TypeOfBody DEF EntriesOf, Recipient, PlaceOK, Continues
    <2>2. QED
      BY <2>1 DEF Adds, Rows
  <1>4. QED
    BY <1>1, <1>2, <1>3

\* No other step adds a row.
LEMMA NoOtherAdds ==
    ASSUME TypeOK, NEW w \in Requests, PlaceOK(w), Step(w),
           ~(GrantLink(w) \/ BootstrapLink(w) \/ AddAnonPermission(w))
    PROVE  \A p \in Rows' : p \in Rows
  <1>1. ASSUME \A p \in anon' : p \in anon, \A l \in links' : l \in links
        PROVE  \A p \in Rows' : p \in Rows
    BY <1>1 DEF Rows
  <1>2. CASE Quiet
    BY <1>1, <1>2 DEF Quiet
  <1>3. CASE RevokeDelete(w)
    BY <1>1, <1>3, RevokeDeleteFacts
  <1>4. CASE DeleteAnonPermission(w)
    BY <1>1, <1>4, DeleteAnonFacts
  <1>5. CASE AnonTokenInsert(w) \/ IssueCapInsert(w) \/ CreateUser(w)
    BY <1>1, <1>5, AnonTokenInsertFacts, IssueCapInsertFacts, CreateUserFacts
  <1>6. CASE DeleteUserExec(w)
    BY <1>1, <1>6, DeleteUserExecFacts
  <1>7. QED
    BY <1>2, <1>3, <1>4, <1>5, <1>6, StepEffects

LEMMA RowOfEntryKept ==
    ASSUME NEW p \in Perm, RowOK(p), Onward, RowOfEntry(p)
    PROVE  RowOfEntry(p)'
  <1> SUFFICES ASSUME p.src # None PROVE RowOfEntry(p)'
    BY DEF RowOfEntry
  <1>1. p.src \in Requests /\ body'[p.src] = body[p.src]
    BY DEF Perm, RowOK, Onward
  <1>2. EntriesOf(p.src)' = EntriesOf(p.src) /\ Recipient(p.src)' = Recipient(p.src)
    BY <1>1, EntriesKept
  <1>3. QED
    BY <1>2 DEF RowOfEntry

LEMMA GrantKept ==
    ASSUME NEW w \in Requests, NEW v \in Requests, v # w, Others(w), GrantOK(v), Onward,
           w \notin before[v], \A p \in Rows : RowOfEntry(p),
           \A p \in Rows : p \in Rows' \/ (pc[w] # "new" /\ Removes(w, p.to, p.verb, p.pat, p.key))
    PROVE  GrantOK(v)'
  <1>1. /\ pc'[v] = pc[v] /\ body'[v] = body[v] /\ loc'[v] = loc[v]
        /\ status'[v] = status[v] /\ before'[v] = before[v]
    BY DEF Others
  <1>2. \A k : Kept(v, k) => Kept(v, k)'
    BY <1>1, KeptKept
  <1>3. EntriesOf(v)' = EntriesOf(v)
    BY <1>1, EntriesKept
  <1>4. v \in Granted' <=> v \in Granted
    BY <1>1 DEF Granted
  <1>5. \A k, p : Hits(v, k, p)' <=> Hits(v, k, p)
    BY <1>1 DEF Hits
  <1>6. QED
    BY <1>1, <1>2, <1>3, <1>4, <1>5 DEF GrantOK

LEMMA DomainOfEntries ==
    ASSUME TypeOK, NEW w \in Requests
    PROVE  DOMAIN EntriesOf(w) = 1 .. Len(EntriesOf(w)) /\ Len(EntriesOf(w)) \in Nat
  <1>1. EntriesOf(w) \in Seq(Entry)
    BY TypeOfBody, BootstrapGrantsType DEF EntriesOf
  <1>2. QED
    BY <1>1

LEMMA GrantMoves ==
    ASSUME TypeOK, NEW w \in Requests, PlaceOK(w), AnswerOK(w), GrantOK(w), Advances(w), Onward,
           w \notin before[w], Step(w) \/ Fail(w), \A p \in Rows : RowOfEntry(p),
           \A p \in Rows : p \in Rows' \/ (pc[w] # "new" /\ Removes(w, p.to, p.verb, p.pat, p.key))
    PROVE  GrantOK(w)'
  <1>1. /\ Control(w) /\ body'[w] = body[w] /\ before'[w] = before[w] /\ status[w] # "ok"
        /\ loc[w].i \in Nat
    BY StepControl, TypeOfLoc DEF Advances, AnswerOK
  <1>2. \A k : Kept(w, k) => Kept(w, k)'
    BY <1>1, KeptKept
  <1>3. /\ EntriesOf(w)' = EntriesOf(w)
        /\ DOMAIN EntriesOf(w) = 1 .. Len(EntriesOf(w)) /\ Len(EntriesOf(w)) \in Nat
    BY <1>1, EntriesKept, DomainOfEntries
  <1>4. ASSUME GrantLink(w) \/ BootstrapLink(w) \/ AddAnonPermission(w), Adds(w)
        PROVE  \A k \in DOMAIN EntriesOf(w) : k <= loc[w].i => Kept(w, k)'
    <2>1. \A k : k = loc[w].i => Kept(w, k)'
      BY <1>1, <1>4, NewRow DEF Adds
    <2>2. \A k \in DOMAIN EntriesOf(w) : k < loc[w].i => Kept(w, k)
      BY <1>4 DEF Adds, GrantOK
    <2>3. QED
      BY <1>1, <1>2, <1>3, <2>1, <2>2
  <1>5. ASSUME pc'[w] \in {"grant.link", "anon.add", "user.link"}
        PROVE  \A k \in DOMAIN EntriesOf(w) : k < loc'[w].i => Kept(w, k)'
    <2>1. CASE GrantLink(w) \/ BootstrapLink(w) \/ AddAnonPermission(w)
      <3>1. Adds(w) /\ loc'[w].i = loc[w].i + 1
        BY <1>5, <2>1, GrantSteps DEF Adds
      <3>2. QED
        BY <1>1, <1>3, <1>4, <2>1, <3>1
    <2>2. CASE ~(GrantLink(w) \/ BootstrapLink(w) \/ AddAnonPermission(w))
      <3>1. GrantFind(w) \/ CreateUser(w) \/ loc'[w].i = 1
        BY <1>1, <1>5, <2>2 DEF Control
      <3>2. loc'[w].i = 1
        BY <3>1, GrantFindFacts, CreateUserFacts DEF PlaceOK, KeepsPlace
      <3>3. QED
        BY <1>3, <3>2
    <2>3. QED
      BY <2>1, <2>2
  <1>6. ASSUME w \in Granted'
        PROVE  \A k \in DOMAIN EntriesOf(w) : Kept(w, k)'
    <2>1. GrantLink(w) \/ BootstrapLink(w) \/ AddAnonPermission(w)
      BY <1>1, <1>6 DEF Granted, Control
    <2>2. Adds(w) /\ loc[w].i = Len(EntriesOf(w))
      BY <1>1, <1>6, <2>1, GrantSteps DEF Adds, Refused, Granted
    <2>3. QED
      BY <1>3, <1>4, <2>1, <2>2
  <1>7. ASSUME pc'[w] = "revoke.delete"
        PROVE  \A p \in loc'[w].rows : Hits(w, loc[w].i, p) /\ loc'[w].i = loc[w].i
    <2>1. pc'[w] \notin {"grant.link", "revoke.read", "done"}
      BY <1>7
    <2>2. ~GrantFind(w)
      BY <2>1, GrantFindFacts DEF Looks
    <2>3. CASE RevokeRead(w)
      <3>1. loc'[w].rows = Revoked(w) /\ loc'[w].i = loc[w].i
        BY <2>1, <2>3, RevokeReadFacts DEF Continues
      <3>2. QED
        BY <3>1 DEF Revoked, Hits
    <2>4. CASE RevokeDelete(w)
      <3>1. /\ pc[w] = "revoke.delete" /\ loc'[w].i = loc[w].i
            /\ \A p \in loc'[w].rows : p \in loc[w].rows
        BY <2>1, <2>4, RevokeDeleteFacts DEF Continues
      <3>2. QED
        BY <3>1 DEF GrantOK
    <2>5. QED
      BY <1>1, <1>7, <2>2, <2>3, <2>4 DEF Control
  <1>8. \A k, p : Hits(w, k, p)' <=> Hits(w, k, p)
    BY <1>1 DEF Hits
  <1>9. QED
    BY <1>3, <1>5, <1>6, <1>7, <1>8 DEF GrantOK

LEMMA GrantInvStep ==
    ASSUME RevocationInv, GrantInv, NEW w \in Requests, Step(w) \/ Fail(w)
    PROVE  GrantInv'
  <1>1. /\ TypeOK /\ PlaceInv /\ RowInv /\ OwnerInv
        /\ \A v \in Requests : PlaceOK(v) /\ FoundOK(v) /\ AnswerOK(v) /\ GrantOK(v)
        /\ \A p \in Rows : RowOfEntry(p)
    BY DEF RevocationInv, Inv, PlaceInv, HandlersInv, GrantInv
  <1>2. Advances(w)
    BY <1>1, PlaceStep, FailFacts
  <1>3. /\ Onward /\ Others(w) /\ body' = body /\ before' = before /\ pc[w] \notin {"new", "done"}
        /\ pc'[w] # "new"
    BY <1>2, AdvancesOnward DEF Advances
  <1>4. status[w] # "ok"
    BY <1>1, <1>3 DEF AnswerOK
  <1>5. \A v \in Requests : w \notin before[v]
    BY <1>1, <1>4 DEF AnswerOK
  <1>6. Fail(w) => Rows' = Rows
    BY <1>1, FailFacts DEF Rows, tables
  <1>7. \A p \in Rows : p \in Rows' \/ (pc[w] # "new" /\ Removes(w, p.to, p.verb, p.pat, p.key))
    BY <1>1, <1>3, <1>6, RowsLost
  <1>8. ASSUME NEW p \in Rows', p \in Rows PROVE RowOfEntry(p)'
    <2>1. p \in Perm /\ RowOK(p)
      BY <1>1, <1>8 DEF Rows, TypeOK, Link, RowInv
    <2>2. QED
      BY <1>1, <1>3, <1>8, <2>1, RowOfEntryKept
  <1>9. ASSUME NEW p \in Rows', p \notin Rows PROVE RowOfEntry(p)'
    <2>1. Step(w) /\ (GrantLink(w) \/ BootstrapLink(w) \/ AddAnonPermission(w))
      BY <1>1, <1>6, <1>9, NoOtherAdds
    <2>2. Adds(w)
      BY <1>1, <1>9, <2>1, GrantSteps DEF Refused
    <2>3. p = PermOf(w, Recipient(w), EntriesOf(w)[loc[w].i])
      BY <1>9, <2>2 DEF Adds
    <2>4. QED
      BY <1>1, <1>3, <2>2, <2>3, NewRow DEF Adds
  <1>10. ASSUME NEW v \in Requests PROVE GrantOK(v)'
    <2>1. CASE v = w
      BY <1>1, <1>2, <1>3, <1>5, <1>7, <2>1, GrantMoves
    <2>2. CASE v # w
      BY <1>1, <1>3, <1>5, <1>7, <2>2, GrantKept
    <2>3. QED
      BY <2>1, <2>2
  <1>11. QED
    BY <1>8, <1>9, <1>10 DEF GrantInv

LEMMA GrantInvArrive ==
    ASSUME RevocationInv, GrantInv, NEW w \in Requests, Arrive(w)
    PROVE  GrantInv'
  <1>1. /\ TypeOK /\ PlaceInv /\ RowInv
        /\ \A v \in Requests : AnswerOK(v) /\ GrantOK(v)
        /\ \A p \in Rows : RowOfEntry(p)
    BY DEF RevocationInv, Inv, HandlersInv, GrantInv
  <1>2. /\ Others(w) /\ pc[w] = "new" /\ pc'[w] # "new" /\ body'[w] \in Bodies
        /\ links' = links /\ anon' = anon
        /\ \/ pc'[w] = EntryLabel(body'[w]) /\ status' = status
           \/ pc'[w] = "done" /\ status'[w] # "ok"
    BY <1>1, ArriveFacts DEF tables
  <1>3. Onward /\ Rows' = Rows
    BY <1>2 DEF Onward, Others, Rows
  <1>4. status[w] # "ok" /\ status'[w] # "ok"
    BY <1>1, <1>2 DEF AnswerOK
  <1>5. \A v \in Requests : w \notin before[v]
    BY <1>1, <1>4 DEF AnswerOK
  <1>6. pc'[w] \notin {"grant.link", "anon.add", "user.link", "revoke.delete"}
    <2>1. EntryOK(body'[w]) /\ body'[w].op \in Ops \ {"idle"}
      BY <1>2, EntryFacts, AuthzAssumption DEF Body
    <2>2. QED
      BY <1>2, <2>1 DEF EntryOK, Ops, Checks, Owns
  <1>7. GrantOK(w)'
    BY <1>4, <1>6 DEF GrantOK, Granted
  <1>8. ASSUME NEW v \in Requests, v # w PROVE GrantOK(v)'
    BY <1>1, <1>2, <1>3, <1>5, <1>8, GrantKept
  <1>9. ASSUME NEW p \in Rows PROVE RowOfEntry(p)'
    <2>1. p \in Perm /\ RowOK(p)
      BY <1>1 DEF Rows, TypeOK, Link, RowInv
    <2>2. QED
      BY <1>1, <1>3, <2>1, RowOfEntryKept
  <1>10. QED
    BY <1>3, <1>7, <1>8, <1>9 DEF GrantInv

LEMMA InitGrant == Init => GrantInv
  <1> SUFFICES ASSUME Init PROVE GrantInv
    OBVIOUS
  <1>1. \A p \in Rows : p.src = None
    BY AuthzAssumption DEF Init, Rows
  <1>2. \A w \in Requests : pc[w] = "new" /\ status[w] = "none"
    BY DEF Init
  <1>3. QED
    BY <1>1, <1>2 DEF GrantInv, RowOfEntry, GrantOK, Granted

LEMMA NextGrant ==
    ASSUME RevocationInv, GrantInv, [Next]_vars
    PROVE  GrantInv'
  <1>1. ASSUME links' = links, anon' = anon, pc' = pc, body' = body, loc' = loc, status' = status,
               before' = before
        PROVE  GrantInv'
    <2>1. Rows' = Rows /\ Granted' = Granted
      BY <1>1 DEF Rows, Granted
    <2>2. \A g \in Requests : EntriesOf(g)' = EntriesOf(g) /\ Recipient(g)' = Recipient(g)
      BY <1>1 DEF EntriesOf, Recipient
    <2>3. \A g, to, verb, pat, key : Undone(g, to, verb, pat, key)' <=> Undone(g, to, verb, pat, key)
      BY <1>1 DEF Undone, Removes
    <2>4. \A g \in Requests : \A k : Kept(g, k)' <=> Kept(g, k)
      BY <2>1, <2>2, <2>3 DEF Kept
    <2>5. \A g, k, p : Hits(g, k, p)' <=> Hits(g, k, p)
      BY <1>1 DEF Hits
    <2>6. \A g \in Requests : GrantOK(g)' <=> GrantOK(g)
      BY <1>1, <2>1, <2>2, <2>4, <2>5 DEF GrantOK
    <2>7. \A p : RowOfEntry(p)' <=> RowOfEntry(p)
      BY <1>1 DEF RowOfEntry, EntriesOf, Recipient
    <2>8. QED
      BY <2>1, <2>6, <2>7 DEF GrantInv
  <1>2. CASE UNCHANGED vars
    BY <1>1, <1>2 DEF vars, tables, history
  <1>3. CASE Expire
    BY <1>1, <1>3, ExpireFacts DEF RevocationInv, Inv
  <1>4. ASSUME NEW w \in Requests, Arrive(w) \/ Step(w) \/ Fail(w)
        PROVE  GrantInv'
    BY <1>4, GrantInvStep, GrantInvArrive
  <1>5. QED
    BY <1>2, <1>3, <1>4 DEF Next, Terminated

\* GrantPermissions, AddAnonPermissions and the bootstrap of CreateUser: an
\* answer "ok" means that every entry of the request is in the tables, however
\* many requests overlap, whatever statement failed and whichever principal
\* was deleted meanwhile, unless a removal that was not over before the grant
\* arrived names it.
THEOREM AckedGrantsAreWhole == Spec => []AckedGrantIsWhole
  <1>1. Init => GrantInv
    BY InitGrant
  <1>2. RevocationInv /\ GrantInv /\ [Next]_vars => GrantInv'
    BY NextGrant
  <1>3. GrantInv => AckedGrantIsWhole
    BY DEF GrantInv, GrantOK, Kept, Rows, AckedGrantIsWhole, Granted
  <1>4. QED
    BY <1>1, <1>2, <1>3, RevocationInvHolds, PTL DEF Spec

-----------------------------------------------------------------------------
(* A grant that was answered is enough. *)

\* What entry k of grant g promises to whoever asks after its answer.
Promise(g, k) ==
    [to |-> Recipient(g), verb |-> body[g].entries[k].verb, pat |-> body[g].entries[k].pat,
     key |-> <<g, k>>]

StillGranted(g, k) ==
    ~Undone(g, Recipient(g), body[g].entries[k].verb, body[g].entries[k].pat, <<g, k>>)

\* The promises that request w may rely on.
Promises(w) ==
    UNION {{Promise(g, k) : k \in {j \in DOMAIN body[g].entries : StillGranted(g, j)}} :
             g \in {x \in before[w] : x \in Granted /\ body[x].op # "bootstrap"}}

Caller(w) == [kind |-> KindOf(body[w].caller), name |-> body[w].caller.name]

\* The row that w has found is that of everything who was given in the past of w.
LookedUp(w, who) ==
    \A l \in links :
        l.perm.src \in before[w] /\ OpOf(l.perm.src) # "bootstrap" /\ l.perm.to = who
          => l.owner.id = loc[w].pid

LookupOK(w) ==
    /\ pc[w] \in {"check.perms", "own.perms"} /\ Caller(w).kind \in {"user", "sa"}
         => LookedUp(w, Caller(w))
    /\ pc[w] = "query.perms" /\ body[w].op \in {"query", "principals"}
         => body[w].target.kind \in {"user", "sa"} /\ LookedUp(w, body[w].target)

Lapsed(q) == q.key \in expired

\* A check that promise q answers: it is not refused, and a check that turns to
\* the anonymous permissions is not about one of the caller's own.
UseOK(w, q) ==
    body[w].op = "use" /\ q.verb = body[w].verb /\ matchesPattern(body[w].res, q.pat) =>
        /\ pc[w] = "check.anon" /\ q.to = Caller(w) => q.to = Anon \/ Lapsed(q)
        /\ status[w] = "forbidden" /\ q.to \in {Anon, Caller(w)} => Lapsed(q)

QueryOK(w, q) ==
    body[w].op \in {"query", "principals"} /\ body[w].target = q.to /\ status[w] = "ok" =>
        \/ [verb |-> q.verb, pat |-> q.pat] \in answer[w]
        \/ body[w].op = "query" /\ faults > 0

\* A listing has collected what promise q is about.
Collected(w, q) == Lapsed(q) \/ \E p \in loc[w].rows : p.verb = q.verb /\ p.pat = q.pat

ListOK(w, q) ==
    body[w].op = "nslist" /\ IsLiteralNamespace(q.pat.ns) =>
        /\ pc[w] = "own.anon" /\ q.to = Caller(w) => q.to = Anon \/ Collected(w, q)
        /\ pc[w] \in Checks /\ loc[w].i > 1 /\ q.to \in {Anon, Caller(w)} => Collected(w, q)
        /\ status[w] = "ok" /\ q.to \in {Anon, Caller(w)} =>
             \/ [verb |-> q.verb, pat |-> [ns |-> q.pat.ns, name |-> Star]] \in answer[w]
             \/ Lapsed(q)

\* What is kept of one request.
SufficeOK(w) ==
    /\ pc[w] = "new" => status[w] = "none"
    /\ LookupOK(w)
    /\ \A q \in Promises(w) : UseOK(w, q) /\ QueryOK(w, q) /\ ListOK(w, q)

SufficeInv == \A w \in Requests : SufficeOK(w)

\* The row of grant g that keeps promise q.
RowFor(g, q) ==
    \/ /\ q.to = Anon
       /\ \E p \in anon : p.key = q.key /\ p.verb = q.verb /\ p.pat = q.pat
    \/ /\ q.to.kind \in {"user", "sa"}
       /\ \E l \in links : /\ l.perm.key = q.key /\ l.perm.verb = q.verb /\ l.perm.pat = q.pat
                           /\ l.perm.to = q.to /\ l.perm.src = g /\ OpOf(g) # "bootstrap"

LEMMA PromiseHasRow ==
    ASSUME TypeOK, OwnerInv, GrantInv, NEW g \in Granted, body[g].op # "bootstrap",
           NEW k \in DOMAIN body[g].entries, StillGranted(g, k)
    PROVE  RowFor(g, Promise(g, k))
  <1> DEFINE e == body[g].entries[k]
  <1>1. g \in Requests /\ g # None /\ EntriesOf(g) = body[g].entries
    BY AuthzAssumption DEF Granted, EntriesOf
  <1>2. Kept(g, k)
    BY <1>1 DEF GrantInv, GrantOK
  <1>3. PICK p \in Rows : p.src = g /\ p.key = <<g, k>>
    BY <1>1, <1>2 DEF Kept, StillGranted
  <1>4. p.to = Recipient(g) /\ p.verb = e.verb /\ p.pat = e.pat
    <2>1. PICK j \in DOMAIN EntriesOf(g) :
             /\ p.key = <<g, j>> /\ p.to = Recipient(g)
             /\ p.verb = EntriesOf(g)[j].verb /\ p.pat = EntriesOf(g)[j].pat
      BY <1>1, <1>3 DEF GrantInv, RowOfEntry
    <2>2. j = k
      BY <1>3, <2>1
    <2>3. QED
      BY <1>1, <2>1, <2>2
  <1> DEFINE q == Promise(g, k)
  <1>5. q.to = p.to /\ q.verb = p.verb /\ q.pat = p.pat /\ q.key = p.key
    BY <1>3, <1>4 DEF Promise
  <1>6. OpOf(g) # "bootstrap"
    BY <1>1 DEF OpOf
  <1> HIDE DEF q, e
  <1>7. CASE p \in anon
    <2>1. p.to = Anon
      BY <1>7 DEF OwnerInv
    <2>2. RowFor(g, q)
      BY <1>5, <1>7, <2>1 DEF RowFor
    <2>3. QED
      BY <2>2 DEF q
  <1>8. CASE \E l \in links : p = l.perm
    <2>1. PICK l \in links : p = l.perm
      BY <1>8
    <2>2. OwnerOK(l) /\ l.owner.kind \in {"user", "sa"}
      BY <2>1 DEF OwnerInv, TypeOK, Link, Principal
    <2>3. p.to.kind \in {"user", "sa"}
      BY <2>1, <2>2 DEF OwnerOK
    <2>4. RowFor(g, q)
      BY <1>3, <1>5, <1>6, <2>1, <2>3 DEF RowFor
    <2>5. QED
      BY <2>4 DEF q
  <1>9. QED
    BY <1>3, <1>7, <1>8 DEF Rows

\* Every promise is that of a grant in the past of the request.
LEMMA PromisesAre ==
    ASSUME NEW w \in Requests, NEW q \in Promises(w)
    PROVE  \E g \in before[w] :
              /\ g \in Granted /\ body[g].op # "bootstrap"
              /\ \E k \in DOMAIN body[g].entries : StillGranted(g, k) /\ q = Promise(g, k)
  BY DEF Promises

LEMMA PromisesHaveRows ==
    ASSUME TypeOK, OwnerInv, GrantInv, NEW w \in Requests, NEW q \in Promises(w)
    PROVE  \E g \in before[w] : RowFor(g, q)
  BY PromisesAre, PromiseHasRow

\* What was promised is still granted if it is after the step, and by the same
\* grants.
LEMMA PromiseWas ==
    ASSUME NEW g \in Requests, body'[g] = body[g], before'[g] = before[g], Onward,
           NEW k, StillGranted(g, k)'
    PROVE  StillGranted(g, k) /\ Promise(g, k)' = Promise(g, k)
  <1>1. Recipient(g)' = Recipient(g)
    BY EntriesKept
  <1>2. \A r, x, y, z : Undone(g, r, x, y, z) => Undone(g, r, x, y, z)'
    BY UndoneKept
  <1>3. StillGranted(g, k)
    BY <1>1, <1>2 DEF StillGranted
  <1>4. QED
    BY <1>1, <1>3 DEF Promise

LEMMA PromisesKept ==
    ASSUME NEW v \in Requests, before'[v] = before[v], Onward,
           \A g \in before[v] : /\ g \in Requests /\ status[g] = "ok"
                                /\ body'[g] = body[g] /\ before'[g] = before[g]
    PROVE  \A q \in Promises(v)' : q \in Promises(v)
  <1> SUFFICES ASSUME NEW q \in Promises(v)' PROVE q \in Promises(v)
    OBVIOUS
  <1>1. PICK g \in before[v] :
           /\ g \in Granted' /\ body[g].op # "bootstrap"
           /\ \E k \in DOMAIN body[g].entries : StillGranted(g, k)' /\ q = Promise(g, k)'
    BY DEF Promises
  <1>2. g \in Granted
    BY <1>1 DEF Granted
  <1>3. PICK k \in DOMAIN body[g].entries : StillGranted(g, k) /\ q = Promise(g, k)
    BY <1>1, PromiseWas
  <1>4. QED
    BY <1>1, <1>2, <1>3 DEF Promises

-----------------------------------------------------------------------------
(* Lookups by name. *)

LEMMA LooksUp ==
    ASSUME TypeOK, OwnerInv, NEW who, NEW u \in principals, IsFirst(u, who.kind, who.name),
           NEW l \in links, OpOf(l.perm.src) # "bootstrap", l.perm.to = who
    PROVE  l.owner.id = u.id
  <1>1. OwnerOK(l)
    BY DEF OwnerInv
  <1>2. /\ l.owner.kind = who.kind /\ l.owner.name = who.name
        /\ IsFirst(l.owner, l.owner.kind, l.owner.name) /\ l.owner \in principals
    BY <1>1 DEF OwnerOK
  <1>3. QED
    BY <1>2, FirstIsOne

\* A row that was found stays that of all that was given in the past.
LEMMA LookedUpKept ==
    ASSUME TypeOK, RowInv, NEW w \in Requests, NEW v \in Requests, Onward, TablesStep(w),
           w \notin before[v], before'[v] = before[v], loc'[v].pid = loc[v].pid,
           NEW who, LookedUp(v, who)
    PROVE  LookedUp(v, who)'
  <1> SUFFICES ASSUME NEW l \in links', l.perm.src \in before[v], OpOf(l.perm.src)' # "bootstrap",
                      l.perm.to = who
               PROVE  l.owner.id = loc[v].pid
    BY DEF LookedUp
  <1>1. l \in links
    BY DEF TablesStep
  <1>2. l.perm \in Perm /\ RowOK(l.perm)
    BY <1>1 DEF TypeOK, Link, RowInv
  <1>3. QED
    BY <1>1, <1>2, OpKept DEF LookedUp

-----------------------------------------------------------------------------
(* Where a check leads, and what it shows. *)

\* A label that begins a check or a collection is that of the caller.
AfterPlaces(w, verdict, n) ==
    LET op == body[w].op
    IN /\ n.pc \in Checks => n.pc = CheckLabel(body[w])
       /\ n.pc \in Owns => n.pc = OwnLabel(body[w])
       /\ n.pc # "query.perms"
       /\ op = "use" => n.pc = "done" /\ (n.status = "forbidden" => verdict = "no")
       /\ op \in {"query", "principals"} => n.status # "ok"
       /\ op = "nslist" /\ n.pc \in Checks \cup {"done"} => loc[w].i > 1

LEMMA AfterCheckPlaces ==
    ASSUME TypeOK, NEW w \in Requests, PlaceOK(w), pc[w] \in Checks, NEW verdict
    PROVE  AfterPlaces(w, verdict, AfterCheck(w, verdict))
  <1> DEFINE n == AfterCheck(w, verdict)
  <1> SUFFICES AfterPlaces(w, verdict, n)
    OBVIOUS
  <1>1. /\ loc[w].i \in Nat /\ body[w].op \in CheckOps
        /\ CheckLabel(body[w]) \in Checks /\ OwnLabel(body[w]) \in Owns
        /\ Checks \cap (Owns \cup {"done", "cap.insert", "query.perms"}) = {}
        /\ Owns \cap {"done", "cap.insert", "query.perms"} = {}
    BY TypeOfLoc, CheckLabelIsCheck DEF PlaceOK, Checks, Owns
  <1>2. CASE body[w].op \in MetaOps
    <2>1. \/ n = [pc |-> "done", i |-> loc[w].i, status |-> "forbidden"]
          \/ n = [pc |-> "done", i |-> loc[w].i, status |-> "badRequest"]
          \/ n = [pc |-> HandlerLabel[body[w].op], i |-> 1, status |-> "none"]
      BY <1>2, MetaOpsAre DEF AfterCheck
    <2>2. /\ body[w].op \notin {"nslist", "use"}
          /\ HandlerLabel[body[w].op] \notin Checks \cup Owns \cup {"query.perms"}
      BY <1>2, MetaOpsAre, HandlerLabelsAre DEF Checks, Owns
    <2> HIDE DEF n
    <2>3. QED
      BY <1>1, <2>1, <2>2 DEF AfterPlaces
  <1>3. CASE body[w].op \in {"issueCap", "nsquery"}
    <2>1. /\ n.pc \in {CheckLabel(body[w]), OwnLabel(body[w]), "done", "cap.insert"}
      BY <1>3, MetaOpsAre DEF AfterCheck
    <2> HIDE DEF n
    <2>2. QED
      BY <1>1, <1>3, <2>1 DEF AfterPlaces
  <1>4. CASE body[w].op = "nslist"
    <2>1. n = IF loc[w].i = 1 THEN [pc |-> OwnLabel(body[w]), i |-> 1, status |-> "none"]
              ELSE IF loc[w].i < 5 THEN [pc |-> CheckLabel(body[w]), i |-> loc[w].i + 1, status |-> "none"]
              ELSE [pc |-> "done", i |-> loc[w].i, status |-> "ok"]
      BY <1>4, MetaOpsAre DEF AfterCheck
    <2>2. loc[w].i \in 1 .. 5
      BY <1>4 DEF PlaceOK
    <2> HIDE DEF n
    <2>3. QED
      BY <1>1, <1>4, <2>1, <2>2 DEF AfterPlaces
  <1>5. CASE body[w].op = "use"
    <2>1. \/ n = [pc |-> "done", i |-> loc[w].i, status |-> "ok"]
          \/ verdict = "no" /\ n = [pc |-> "done", i |-> loc[w].i, status |-> "forbidden"]
          \/ n = [pc |-> "done", i |-> loc[w].i, status |-> "error"]
      BY <1>5, MetaOpsAre DEF AfterCheck
    <2> HIDE DEF n
    <2>2. QED
      BY <1>1, <1>5, <2>1 DEF AfterPlaces
  <1>6. QED
    BY <1>1, <1>2, <1>3, <1>4, <1>5 DEF CheckOps

\* A listing that ends shows every row it has collected.
LEMMA DecideShows ==
    ASSUME TypeOK, NEW w \in Requests, PlaceOK(w), pc[w] \in Checks, body[w].op = "nslist",
           NEW verdict, NEW rows \in SUBSET Perm, Decide(w, verdict, rows), pc'[w] = "done"
    PROVE  \A p \in loc[w].rows :
              [verb |-> p.verb, pat |-> [ns |-> p.pat.ns, name |-> Star]] \in answer'[w]
  <1>1. pc'[w] = AfterCheck(w, verdict).pc /\ answer \in [Requests -> SUBSET Shown]
    BY DecideFacts DEF TypeOK
  <1>2. PICK meta : answer' = [answer EXCEPT ![w] = NamespaceList(w, meta)]
    BY <1>1, Zenon DEF Decide
  <1>3. answer'[w] = NamespaceList(w, meta)
    BY <1>1, <1>2
  <1> DEFINE own == {p.pat.ns : p \in loc[w].rows}
             all == IF loc[w].all THEN NamespaceTable \ own ELSE {}
             collected == {[verb |-> p.verb, pat |-> [ns |-> p.pat.ns, name |-> Star]] : p \in loc[w].rows}
             others == {[verb |-> v, pat |-> [ns |-> ns, name |-> Star]] : ns \in own \cup all, v \in meta}
  <1>4. NamespaceList(w, meta) = collected \cup others
    BY DEF NamespaceList
  <1>5. \A p \in loc[w].rows : [verb |-> p.verb, pat |-> [ns |-> p.pat.ns, name |-> Star]] \in collected
    OBVIOUS
  <1> HIDE DEF others
  <1>6. QED
    BY <1>3, <1>4, <1>5

\* Only a caller that is neither a principal nor a token begins with the
\* anonymous permissions, and only a token with permissions of its own.
LEMMA LabelsOfCaller ==
    ASSUME NEW w \in Requests
    PROVE  /\ CheckLabel(body[w]) \in {"check.perms", "check.anon"} => Caller(w).kind \notin {"user", "sa"}
           /\ OwnLabel(body[w]) \in {"own.perms", "own.anon"} => Caller(w).kind \notin {"user", "sa"}
  BY DEF CheckLabel, OwnLabel, Caller, KindOf

-----------------------------------------------------------------------------
(* One request, step by step. *)

\* A request that none of this is about.
LEMMA SufficeElsewhere ==
    ASSUME NEW w \in Requests, pc'[w] \notin {"new", "check.perms", "own.perms", "query.perms"},
           body'[w].op \notin {"use", "query", "principals", "nslist"}
    PROVE  SufficeOK(w)'
  BY DEF SufficeOK, LookupOK, UseOK, QueryOK, ListOK

\* A request that another one's step leaves alone.
LEMMA SufficeKept ==
    ASSUME TypeOK, RowInv, NEW w \in Requests, NEW v \in Requests, v # w, SufficeOK(v),
           Others(w), Onward, TablesStep(w), w \notin before[v], answer'[v] = answer[v],
           expired \subseteq expired', faults' \in Nat, faults <= faults',
           \A g \in before[v] : /\ g \in Requests /\ status[g] = "ok"
                                /\ body'[g] = body[g] /\ before'[g] = before[g]
    PROVE  SufficeOK(v)'
  <1>1. /\ pc'[v] = pc[v] /\ body'[v] = body[v] /\ loc'[v] = loc[v]
        /\ status'[v] = status[v] /\ before'[v] = before[v] /\ faults \in Nat
    BY DEF Others, TypeOK
  <1>2. Caller(v)' = Caller(v)
    BY <1>1 DEF Caller
  <1>3. \A who : LookedUp(v, who) => LookedUp(v, who)'
    BY <1>1, LookedUpKept
  <1>4. LookupOK(v)'
    BY <1>1, <1>2, <1>3 DEF SufficeOK, LookupOK
  <1>5. ASSUME NEW q \in Promises(v)'
        PROVE  UseOK(v, q)' /\ QueryOK(v, q)' /\ ListOK(v, q)'
    <2>1. q \in Promises(v)
      BY <1>1, PromisesKept
    <2>2. UseOK(v, q) /\ QueryOK(v, q) /\ ListOK(v, q)
      BY <2>1 DEF SufficeOK
    <2>3. Lapsed(q) => Lapsed(q)'
      BY DEF Lapsed
    <2>4. Collected(v, q) => Collected(v, q)'
      BY <1>1, <2>3 DEF Collected
    <2>5. UseOK(v, q)'
      BY <1>1, <1>2, <2>2, <2>3 DEF UseOK
    <2>6. QueryOK(v, q)'
      BY <1>1, <2>2 DEF QueryOK
    <2>7. ListOK(v, q)'
      BY <1>1, <1>2, <2>2, <2>3, <2>4 DEF ListOK
    <2>8. QED
      BY <2>5, <2>6, <2>7
  <1>6. QED
    BY <1>1, <1>4, <1>5 DEF SufficeOK

\* A check that ends; one that says no has not found what it was promised.
LEMMA SufficeDecide ==
    ASSUME TypeOK, OwnerInv, GrantInv, NEW w \in Requests, PlaceOK(w), AnswerOK(w), SufficeOK(w),
           pc[w] \in Checks, \A q \in Promises(w)' : q \in Promises(w),
           NEW verdict, NEW rows \in SUBSET Perm, Decide(w, verdict, rows),
           verdict = "no" /\ body[w].op = "use" =>
             \A q \in Promises(w) :
                q.verb = body[w].verb /\ matchesPattern(body[w].res, q.pat) /\ q.to \in {Anon, Caller(w)}
                  => Lapsed(q)
    PROVE  SufficeOK(w)'
  <1> DEFINE n == AfterCheck(w, verdict)
  <1>1. /\ pc'[w] = n.pc /\ status'[w] = n.status /\ loc'[w].i = n.i /\ loc'[w].rows = loc[w].rows
        /\ body' = body /\ expired' = expired /\ pc'[w] # "new"
    BY DecideFacts DEF tables, Advances
  <1>2. AfterPlaces(w, verdict, n) /\ AfterOK(w, verdict, n)
    BY AfterCheckPlaces, AfterCheckFacts
  <1> HIDE DEF n
  <1>3. Caller(w)' = Caller(w) /\ body'[w] = body[w]
    BY <1>1 DEF Caller
  <1>4. LookupOK(w)'
    <2>1. pc'[w] \in {"check.perms", "own.perms"} => Caller(w).kind \notin {"user", "sa"}
      BY <1>1, <1>2, LabelsOfCaller DEF AfterPlaces, Checks, Owns
    <2>2. pc'[w] # "query.perms"
      BY <1>1, <1>2 DEF AfterPlaces
    <2>3. QED
      BY <1>3, <2>1, <2>2 DEF LookupOK
  <1>5. ASSUME NEW q \in Promises(w)'
        PROVE  UseOK(w, q)' /\ QueryOK(w, q)' /\ ListOK(w, q)'
    <2>1. q \in Promises(w) /\ ListOK(w, q) /\ (Lapsed(q)' <=> Lapsed(q)) /\ (Collected(w, q)' <=> Collected(w, q))
      BY <1>1 DEF SufficeOK, Lapsed, Collected
    <2>2. UseOK(w, q)'
      BY <1>1, <1>2, <1>3, <2>1 DEF UseOK, AfterPlaces
    <2>3. QueryOK(w, q)'
      BY <1>1, <1>2, <1>3 DEF QueryOK, AfterPlaces
    <2>4. ASSUME body[w].op = "nslist", IsLiteralNamespace(q.pat.ns)
          PROVE  /\ pc'[w] = "own.anon" /\ q.to = Caller(w) => q.to = Anon
                 /\ pc'[w] \in Checks /\ q.to \in {Anon, Caller(w)} => Collected(w, q)
                 /\ status'[w] = "ok" /\ q.to \in {Anon, Caller(w)} =>
                      \/ [verb |-> q.verb, pat |-> [ns |-> q.pat.ns, name |-> Star]] \in answer'[w]
                      \/ Lapsed(q)
      <3>1. PICK g \in before[w] : RowFor(g, q)
        BY <2>1, PromisesHaveRows
      <3>2. pc'[w] = "own.anon" /\ q.to = Caller(w) => q.to = Anon
        BY <1>1, <1>2, <3>1, LabelsOfCaller DEF AfterPlaces, Owns, RowFor
      <3>3. pc'[w] \in Checks \cup {"done"} /\ q.to \in {Anon, Caller(w)} => Collected(w, q)
        BY <1>1, <1>2, <2>1, <2>4 DEF AfterPlaces, ListOK
      <3>4. status'[w] = "ok" => pc'[w] = "done"
        BY <1>1, <1>2, <2>4 DEF AfterOK
      <3>5. pc'[w] = "done" /\ Collected(w, q) =>
              \/ [verb |-> q.verb, pat |-> [ns |-> q.pat.ns, name |-> Star]] \in answer'[w]
              \/ Lapsed(q)
        BY <2>4, DecideShows DEF Collected
      <3>6. QED
        BY <3>2, <3>3, <3>4, <3>5
    <2>5. ListOK(w, q)'
      BY <1>3, <2>1, <2>4 DEF ListOK
    <2>6. QED
      BY <2>2, <2>3, <2>5
  <1>6. QED
    BY <1>1, <1>4, <1>5 DEF SufficeOK

\* A request that has not been answered goes on.
LEMMA SufficeGoesOn ==
    ASSUME NEW w \in Requests, SufficeOK(w), pc[w] # "done", AnswerOK(w), pc'[w] # "new",
           body'[w] = body[w], status'[w] = status[w], expired' = expired, LookupOK(w)',
           \A q \in Promises(w)' : q \in Promises(w),
           \A q \in Promises(w) :
              /\ body[w].op = "use" /\ q.verb = body[w].verb /\ matchesPattern(body[w].res, q.pat)
                   /\ pc'[w] = "check.anon" /\ q.to = Caller(w) => q.to = Anon \/ Lapsed(q)
              /\ body[w].op = "nslist" /\ IsLiteralNamespace(q.pat.ns) =>
                   /\ pc'[w] = "own.anon" /\ q.to = Caller(w) => q.to = Anon \/ Collected(w, q)'
                   /\ pc'[w] \in Checks /\ loc'[w].i > 1 /\ q.to \in {Anon, Caller(w)} => Collected(w, q)'
    PROVE  SufficeOK(w)'
  <1>1. status[w] # "ok" /\ status'[w] # "ok" /\ Caller(w)' = Caller(w)
    BY DEF AnswerOK, Caller
  <1>2. ASSUME NEW q \in Promises(w)'
        PROVE  UseOK(w, q)' /\ QueryOK(w, q)' /\ ListOK(w, q)'
    <2>1. q \in Promises(w) /\ UseOK(w, q) /\ (Lapsed(q)' <=> Lapsed(q))
      BY DEF SufficeOK, Lapsed
    <2>2. UseOK(w, q)'
      BY <1>1, <2>1 DEF UseOK
    <2>3. QueryOK(w, q)' /\ ListOK(w, q)'
      BY <1>1, <2>1 DEF QueryOK, ListOK
    <2>4. QED
      BY <2>2, <2>3
  <1>3. QED
    BY <1>2 DEF SufficeOK

\* What the row found has to hold of a promise.
LEMMA PromiseIsRead ==
    ASSUME TypeOK, OwnerInv, GrantInv, NEW w \in Requests, NEW q \in Promises(w), q.to # Anon,
           LookedUp(w, q.to)
    PROVE  \E p \in OwnedBy(loc[w].pid) : p.key = q.key /\ p.verb = q.verb /\ p.pat = q.pat
  <1>1. PICK g \in before[w] : RowFor(g, q)
    BY PromisesHaveRows
  <1>2. PICK l \in links : /\ l.perm.key = q.key /\ l.perm.verb = q.verb /\ l.perm.pat = q.pat
                           /\ l.perm.to = q.to /\ l.perm.src = g /\ OpOf(g) # "bootstrap"
    BY <1>1 DEF RowFor
  <1>3. l.owner.id = loc[w].pid
    BY <1>2 DEF LookedUp
  <1>4. l.perm \in OwnedBy(loc[w].pid)
    BY <1>3 DEF OwnedBy
  <1>5. QED
    BY <1>2, <1>4

LEMMA PromiseOfCaller ==
    ASSUME TypeOK, OwnerInv, GrantInv, NEW w \in Requests, NEW q \in Promises(w),
           LookupOK(w), pc[w] \in {"check.perms", "own.perms"}, q.to = Caller(w), q.to # Anon
    PROVE  \E p \in OwnRows(w) : p.key = q.key /\ p.verb = q.verb /\ p.pat = q.pat
  <1>1. PICK g \in before[w] : RowFor(g, q)
    BY PromisesHaveRows
  <1>2. Caller(w).kind \in {"user", "sa"}
    BY <1>1 DEF RowFor
  <1>3. body[w].caller.kind # "token"
    BY <1>2 DEF Caller, KindOf
  <1>4. OwnRows(w) = OwnedBy(loc[w].pid)
    BY <1>3 DEF OwnRows
  <1>5. QED
    BY <1>2, <1>4, PromiseIsRead DEF LookupOK

LEMMA PromiseOfAnon ==
    ASSUME TypeOK, OwnerInv, GrantInv, NEW w \in Requests, NEW q \in Promises(w), q.to = Anon
    PROVE  \E p \in anon : p.key = q.key /\ p.verb = q.verb /\ p.pat = q.pat
  BY PromisesHaveRows DEF RowFor, Anon

\* Check and CheckWithAnon.
LEMMA SufficeCheck ==
    ASSUME TypeOK, RowInv, OwnerInv, GrantInv, NEW w \in Requests, PlaceOK(w), AnswerOK(w), SufficeOK(w),
           \A q \in Promises(w)' : q \in Promises(w),
           CheckFind(w) \/ CheckPerms(w) \/ checkAnon(w)
    PROVE  SufficeOK(w)'
  <1>1. /\ pc[w] \in Checks /\ pc[w] # "done" /\ LookupOK(w)
        /\ \A q \in Promises(w) : UseOK(w, q) /\ ListOK(w, q)
    BY CheckFindFacts, CheckPermsFacts, checkAnonFacts DEF Checks, SufficeOK
  <1>2. {} \in SUBSET Perm /\ Granting(w, OwnRows(w)) \in SUBSET Perm /\ Granting(w, ListAnon) \in SUBSET Perm
    BY OwnedType
  <1>3. ASSUME NEW verdict, verdict # "no", NEW rows \in SUBSET Perm, Decide(w, verdict, rows)
        PROVE  SufficeOK(w)'
    BY <1>1, <1>3, SufficeDecide
  <1>4. CASE CheckFind(w)
    <2>1. CASE Decide(w, "error", {})
      BY <1>2, <1>3, <2>1
    <2>2. CASE /\ pc'[w] = "check.perms" /\ KeepsPlace(w) /\ status' = status
               /\ UNCHANGED <<tables, faults, body, answer, history>>
               /\ \E u \in principals : /\ IsFirst(u, KindOf(body[w].caller), body[w].caller.name)
                                        /\ loc'[w].pid = u.id
      <3>1. /\ links' = links /\ expired' = expired /\ body' = body /\ before' = before
            /\ Caller(w)' = Caller(w)
        BY <2>2 DEF tables, history, Caller
      <3>2. PICK u \in principals : IsFirst(u, Caller(w).kind, Caller(w).name) /\ loc'[w].pid = u.id
        BY <2>2 DEF Caller
      <3>3. \A l \in links : OpOf(l.perm.src)' = OpOf(l.perm.src)
        BY <3>1 DEF OpOf
      <3>4. \A l \in links : OpOf(l.perm.src) # "bootstrap" /\ l.perm.to = Caller(w) => l.owner.id = u.id
        BY <3>2, LooksUp
      <3>5. LookedUp(w, Caller(w))'
        BY <3>1, <3>2, <3>3, <3>4 DEF LookedUp
      <3>6. LookupOK(w)'
        BY <2>2, <3>5 DEF LookupOK
      <3>7. \A q \in Promises(w) : Collected(w, q) => Collected(w, q)'
        BY <2>2, <3>1 DEF Collected, Lapsed, KeepsPlace
      <3>8. ASSUME NEW q \in Promises(w), body[w].op = "nslist", IsLiteralNamespace(q.pat.ns),
                   loc'[w].i > 1, q.to \in {Anon, Caller(w)}
            PROVE  Collected(w, q)'
        BY <1>1, <2>2, <3>7, <3>8 DEF ListOK, KeepsPlace
      <3>9. pc'[w] \notin {"new", "check.anon", "own.anon"} /\ status'[w] = status[w] /\ body'[w] = body[w]
        BY <2>2, <3>1
      <3>10. QED
        BY <1>1, <3>1, <3>6, <3>8, <3>9, SufficeGoesOn
    <2>3. QED
      BY <1>4, <2>1, <2>2, CheckFindFacts
  <1>5. CASE CheckPerms(w)
    <2>0. pc[w] = "check.perms"
      BY <1>5, CheckPermsFacts
    <2>1. CASE Decide(w, "yes", Granting(w, OwnRows(w))) \/ Decide(w, "error", {})
      BY <1>2, <1>3, <2>1
    <2>2. CASE ~WithAnon(w) /\ Decide(w, "no", {})
      <3>1. body[w].op # "use"
        BY <2>2 DEF WithAnon
      <3>2. QED
        BY <1>1, <1>2, <2>2, <3>1, SufficeDecide
    <2>3. CASE /\ Granting(w, OwnRows(w)) = {}
               /\ pc'[w] = "check.anon" /\ loc' = loc /\ status' = status
               /\ UNCHANGED <<tables, faults, body, answer, history>>
      <3>1. expired' = expired /\ body' = body
        BY <2>3 DEF tables
      <3>2. LookupOK(w)'
        BY <2>3 DEF LookupOK
      <3>3. \A q \in Promises(w) : Collected(w, q) => Collected(w, q)'
        BY <2>3, <3>1 DEF Collected, Lapsed
      <3>4. ASSUME NEW q \in Promises(w), body[w].op = "nslist", IsLiteralNamespace(q.pat.ns),
                   loc'[w].i > 1, q.to \in {Anon, Caller(w)}
            PROVE  Collected(w, q)'
        BY <1>1, <2>3, <3>3, <3>4 DEF ListOK
      <3>5. ASSUME NEW q \in Promises(w), body[w].op = "use", q.verb = body[w].verb,
                   matchesPattern(body[w].res, q.pat), q.to = Caller(w), q.to # Anon
            PROVE  Lapsed(q)
        <4>1. PICK p \in OwnRows(w) : p.key = q.key /\ p.verb = q.verb /\ p.pat = q.pat
          BY <1>1, <2>0, <3>5, PromiseOfCaller
        <4>2. Goal(w).verb = body[w].verb /\ Goal(w).res = body[w].res
          BY <1>1, <3>5, GoalFacts
        <4>3. p \notin Granting(w, OwnRows(w))
          BY <2>3
        <4>4. QED
          BY <3>5, <4>1, <4>2, <4>3 DEF Granting, Unexpired, Lapsed
      <3>6. pc'[w] \notin {"new", "own.anon"} /\ status'[w] = status[w] /\ body'[w] = body[w]
        BY <2>3, <3>1
      <3>7. QED
        BY <1>1, <3>1, <3>2, <3>4, <3>5, <3>6, SufficeGoesOn
    <2>4. QED
      BY <1>5, <2>1, <2>2, <2>3, CheckPermsFacts
  <1>6. CASE checkAnon(w)
    <2>0. pc[w] = "check.anon"
      BY <1>6, checkAnonFacts
    <2>1. CASE Decide(w, "yes", Granting(w, ListAnon)) \/ Decide(w, "error", {})
      BY <1>2, <1>3, <2>1
    <2>2. CASE Granting(w, ListAnon) = {} /\ Decide(w, "no", {})
      <3>1. ASSUME NEW q \in Promises(w), body[w].op = "use", q.verb = body[w].verb,
                   matchesPattern(body[w].res, q.pat), q.to \in {Anon, Caller(w)}
            PROVE  Lapsed(q)
        <4>1. CASE q.to = Anon
          <5>1. PICK p \in anon : p.key = q.key /\ p.verb = q.verb /\ p.pat = q.pat
            BY <4>1, PromiseOfAnon
          <5>2. Goal(w).verb = body[w].verb /\ Goal(w).res = body[w].res
            BY <1>1, <3>1, GoalFacts
          <5>3. p \notin Granting(w, ListAnon)
            BY <2>2
          <5>4. QED
            BY <3>1, <5>1, <5>2, <5>3 DEF Granting, ListAnon, Unexpired, Lapsed
        <4>2. CASE q.to # Anon
          BY <1>1, <2>0, <3>1, <4>2 DEF UseOK
        <4>3. QED
          BY <4>1, <4>2
      <3>2. QED
        BY <1>1, <1>2, <2>2, <3>1, SufficeDecide
    <2>3. QED
      BY <1>6, <2>1, <2>2, checkAnonFacts
  <1>7. QED
    BY <1>4, <1>5, <1>6

\* A request that ends in an error.
LEMMA SufficeEnds ==
    ASSUME NEW w \in Requests, pc'[w] = "done", status'[w] \in {"error", "notFound"}
    PROVE  SufficeOK(w)'
  BY DEF SufficeOK, LookupOK, UseOK, QueryOK, ListOK, Checks

\* A collection that is done goes back to the checks, or answers with all of it.
LEMMA OwnAnonShows ==
    ASSUME TypeOK, NEW w \in Requests, OwnAnon(w), body[w].op = "nslist"
    PROVE  \/ pc'[w] = CheckLabel(body[w]) /\ status' = status
           \/ /\ pc'[w] = "done"
              /\ \A p \in loc'[w].rows :
                   [verb |-> p.verb, pat |-> [ns |-> p.pat.ns, name |-> Star]] \in answer'[w]
  <1>1. loc'[w].rows = loc[w].rows \cup Listable(anon)
    BY OwnAnonFacts
  <1>2. pc \in [Requests -> Labels] /\ answer \in [Requests -> SUBSET Shown]
    BY DEF TypeOK
  <1>3. CASE body[w].caller # Anon
    <2>1. Goto(w, CheckLabel(body[w])) /\ status' = status
      BY <1>3 DEF OwnAnon
    <2>2. QED
      BY <1>2, <2>1 DEF Goto
  <1>4. CASE body[w].caller = Anon
    <2> DEFINE rows == loc[w].rows \cup Listable(anon)
    <2>1. /\ Respond(w, "ok")
          /\ answer' = [answer EXCEPT ![w] =
               {[verb |-> p.verb, pat |-> [ns |-> p.pat.ns, name |-> Star]] :
                  p \in {x \in rows : body[w].op = "nslist" \/ x.pat.ns = body[w].res.ns}}]
      BY <1>4 DEF OwnAnon
    <2> HIDE DEF rows
    <2>2. /\ pc'[w] = "done"
          /\ answer'[w] =
               {[verb |-> p.verb, pat |-> [ns |-> p.pat.ns, name |-> Star]] :
                  p \in {x \in rows : body[w].op = "nslist" \/ x.pat.ns = body[w].res.ns}}
      BY <1>2, <2>1 DEF Respond, Goto
    <2>3. \A p \in rows : [verb |-> p.verb, pat |-> [ns |-> p.pat.ns, name |-> Star]] \in answer'[w]
      BY <2>2
    <2>4. QED
      BY <1>1, <2>2, <2>3 DEF rows
  <1>5. QED
    BY <1>3, <1>4

\* NamespacesForPrincipalWithAnon.
LEMMA SufficeOwn ==
    ASSUME TypeOK, RowInv, OwnerInv, GrantInv, NEW w \in Requests, PlaceOK(w), AnswerOK(w), SufficeOK(w),
           \A q \in Promises(w)' : q \in Promises(w),
           OwnFind(w) \/ OwnPerms(w) \/ OwnAnon(w)
    PROVE  SufficeOK(w)'
  <1>1. /\ pc[w] \in Owns /\ pc[w] # "done" /\ LookupOK(w) /\ body[w].op \in {"nslist", "nsquery"}
        /\ \A q \in Promises(w) : ListOK(w, q)
        /\ UNCHANGED tables /\ Advances(w)
    BY OwnFindFacts, OwnPermsFacts, OwnAnonFacts DEF Owns, SufficeOK, PlaceOK
  <1>2. /\ links' = links /\ expired' = expired /\ body' = body /\ before' = before
        /\ Caller(w)' = Caller(w) /\ body'[w] = body[w] /\ pc'[w] # "new"
    BY <1>1 DEF tables, Advances, Caller
  <1>3. CASE OwnFind(w)
    <2>1. Looks(w, Caller(w).kind, Caller(w).name, "own.perms", "error")
      BY <1>3, OwnFindFacts DEF Caller
    <2>2. CASE pc'[w] = "done" /\ status'[w] = "error"
      BY <2>2, SufficeEnds
    <2>3. CASE \E u \in principals : /\ IsFirst(u, Caller(w).kind, Caller(w).name)
                                     /\ loc'[w].pid = u.id /\ pc'[w] = "own.perms" /\ status' = status
      <3>1. PICK u \in principals : /\ IsFirst(u, Caller(w).kind, Caller(w).name)
                                    /\ loc'[w].pid = u.id /\ pc'[w] = "own.perms" /\ status' = status
        BY <2>3
      <3>2. \A l \in links : OpOf(l.perm.src)' = OpOf(l.perm.src)
        BY <1>2 DEF OpOf
      <3>3. \A l \in links : OpOf(l.perm.src) # "bootstrap" /\ l.perm.to = Caller(w) => l.owner.id = u.id
        BY <3>1, LooksUp
      <3>4. LookedUp(w, Caller(w))'
        BY <1>2, <3>1, <3>2, <3>3 DEF LookedUp
      <3>5. LookupOK(w)'
        BY <3>1, <3>4 DEF LookupOK
      <3>6. pc'[w] \notin Checks \cup {"own.anon"} /\ status'[w] = status[w]
        BY <3>1 DEF Checks
      <3>7. QED
        BY <1>1, <1>2, <3>5, <3>6, SufficeGoesOn DEF Checks
    <2>4. QED
      BY <2>1, <2>2, <2>3 DEF Looks
  <1>4. CASE OwnPerms(w)
    <2>1. /\ pc[w] = "own.perms" /\ pc'[w] = "own.anon" /\ status'[w] = status[w]
          /\ loc'[w].rows = Listable(OwnRows(w))
      BY <1>4, OwnPermsFacts
    <2>2. LookupOK(w)'
      BY <2>1 DEF LookupOK
    <2>3. ASSUME NEW q \in Promises(w), IsLiteralNamespace(q.pat.ns), q.to = Caller(w), q.to # Anon
          PROVE  Collected(w, q)'
      <3>1. PICK p \in OwnRows(w) : p.key = q.key /\ p.verb = q.verb /\ p.pat = q.pat
        BY <1>1, <2>1, <2>3, PromiseOfCaller
      <3>2. CASE p.key \in expired
        BY <1>2, <3>1, <3>2 DEF Collected, Lapsed
      <3>3. CASE p.key \notin expired
        <4>1. p \in loc'[w].rows
          BY <2>1, <2>3, <3>1, <3>3 DEF Listable, Unexpired
        <4>2. QED
          BY <3>1, <4>1 DEF Collected
      <3>4. QED
        BY <3>2, <3>3
    <2>4. pc'[w] \notin Checks /\ body[w].op # "use"
      BY <1>1, <2>1 DEF Checks
    <2>5. QED
      BY <1>1, <1>2, <2>1, <2>2, <2>3, <2>4, SufficeGoesOn
  <1>5. CASE OwnAnon(w)
    <2>1. /\ pc[w] = "own.anon" /\ loc'[w].rows = loc[w].rows \cup Listable(anon)
          /\ \/ body[w].op = "nslist" /\ pc'[w] \in Checks /\ status' = status
             \/ pc'[w] = "done" /\ status'[w] = "ok"
      BY <1>5, OwnAnonFacts
    <2>2. ASSUME NEW q \in Promises(w), body[w].op = "nslist", IsLiteralNamespace(q.pat.ns),
                 q.to \in {Anon, Caller(w)}
          PROVE  Collected(w, q)'
      <3>1. CASE q.to = Anon
        <4>1. PICK p \in anon : p.key = q.key /\ p.verb = q.verb /\ p.pat = q.pat
          BY <3>1, PromiseOfAnon
        <4>2. CASE p.key \in expired
          BY <1>2, <4>1, <4>2 DEF Collected, Lapsed
        <4>3. CASE p.key \notin expired
          <5>1. p \in loc'[w].rows
            BY <2>1, <2>2, <4>1, <4>3 DEF Listable, Unexpired
          <5>2. QED
            BY <4>1, <5>1 DEF Collected
        <4>4. QED
          BY <4>2, <4>3
      <3>2. CASE q.to # Anon
        <4>1. Collected(w, q)
          BY <1>1, <2>1, <2>2, <3>2 DEF ListOK
        <4>2. QED
          BY <1>2, <2>1, <4>1 DEF Collected, Lapsed
      <3>3. QED
        BY <3>1, <3>2
    <2>3. CASE body[w].op = "nsquery"
      <3>1. pc'[w] = "done" /\ body'[w].op = "nsquery"
        BY <1>2, <2>1, <2>3
      <3>2. QED
        BY <3>1, SufficeElsewhere
    <2>4. CASE body[w].op = "nslist" /\ pc'[w] = CheckLabel(body[w]) /\ status' = status
      <3>1. LookupOK(w)'
        BY <1>2, <2>4, LabelsOfCaller, CheckLabelIsCheck DEF LookupOK, Checks
      <3>2. pc'[w] # "own.anon" /\ status'[w] = status[w] /\ body[w].op # "use"
        BY <2>4, CheckLabelIsCheck DEF Checks
      <3>3. QED
        BY <1>1, <1>2, <2>2, <3>1, <3>2, SufficeGoesOn
    <2>5. CASE /\ body[w].op = "nslist" /\ pc'[w] = "done"
               /\ \A p \in loc'[w].rows :
                    [verb |-> p.verb, pat |-> [ns |-> p.pat.ns, name |-> Star]] \in answer'[w]
      <3>1. ASSUME NEW q \in Promises(w)' PROVE UseOK(w, q)' /\ QueryOK(w, q)' /\ ListOK(w, q)'
        <4>1. UseOK(w, q)' /\ QueryOK(w, q)'
          BY <1>2, <2>5 DEF UseOK, QueryOK
        <4>2. ASSUME IsLiteralNamespace(q.pat.ns), q.to \in {Anon, Caller(w)}
              PROVE  \/ [verb |-> q.verb, pat |-> [ns |-> q.pat.ns, name |-> Star]] \in answer'[w]
                     \/ Lapsed(q)'
          <5>1. Collected(w, q)'
            BY <2>2, <2>5, <4>2
          <5>2. QED
            BY <2>5, <5>1 DEF Collected
        <4>3. ListOK(w, q)'
          BY <1>2, <2>5, <4>2 DEF ListOK, Checks
        <4>4. QED
          BY <4>1, <4>3
      <3>2. QED
        BY <2>5, <3>1 DEF SufficeOK, LookupOK
    <2>6. QED
      BY <1>1, <1>5, <2>3, <2>4, <2>5, OwnAnonShows
  <1>6. QED
    BY <1>3, <1>4, <1>5

\* What administrators see.
LEMMA SufficeQuery ==
    ASSUME TypeOK, RowInv, OwnerInv, GrantInv, NEW w \in Requests, PlaceOK(w), AnswerOK(w), SufficeOK(w),
           \A q \in Promises(w)' : q \in Promises(w),
           QueryFind(w) \/ QueryPerms(w)
    PROVE  SufficeOK(w)'
  <1>1. /\ pc[w] \in {"query.find", "query.perms"} /\ LookupOK(w)
        /\ body[w].op \in {"query", "principals", "self"} /\ UNCHANGED tables /\ Advances(w)
    BY QueryFindFacts, QueryPermsFacts DEF SufficeOK, PlaceOK
  <1>2. /\ links' = links /\ expired' = expired /\ body' = body /\ before' = before
        /\ body'[w] = body[w] /\ pc'[w] # "new" /\ pc[w] # "done"
    BY <1>1 DEF tables, Advances
  <1>3. CASE QueryFind(w)
    <2>1. Looks(w, body[w].target.kind, body[w].target.name, "query.perms", "notFound")
      BY <1>3, QueryFindFacts
    <2>2. CASE pc'[w] = "done" /\ status'[w] = "notFound"
      BY <2>2, SufficeEnds
    <2>3. CASE \E u \in principals : /\ IsFirst(u, body[w].target.kind, body[w].target.name)
                                     /\ loc'[w].pid = u.id /\ pc'[w] = "query.perms" /\ status' = status
      <3>1. PICK u \in principals : /\ IsFirst(u, body[w].target.kind, body[w].target.name)
                                    /\ loc'[w].pid = u.id /\ pc'[w] = "query.perms" /\ status' = status
        BY <2>3
      <3>2. \A l \in links : OpOf(l.perm.src)' = OpOf(l.perm.src)
        BY <1>2 DEF OpOf
      <3>3. \A l \in links : OpOf(l.perm.src) # "bootstrap" /\ l.perm.to = body[w].target => l.owner.id = u.id
        BY <3>1, LooksUp
      <3>4. LookedUp(w, body[w].target)'
        BY <1>2, <3>1, <3>2, <3>3 DEF LookedUp
      <3>5. body[w].target.kind \in {"user", "sa"}
        BY <3>1 DEF IsFirst, TypeOK, Principal
      <3>6. LookupOK(w)'
        BY <1>2, <3>1, <3>4, <3>5 DEF LookupOK
      <3>7. body[w].op \notin {"use", "nslist"} /\ status'[w] = status[w]
        BY <1>1, <3>1
      <3>8. QED
        BY <1>2, <3>6, <3>7, SufficeGoesOn
    <2>4. QED
      BY <2>1, <2>2, <2>3 DEF Looks
  <1>4. CASE QueryPerms(w)
    <2>1. /\ pc[w] = "query.perms" /\ pc'[w] = "done" /\ answer \in [Requests -> SUBSET Shown]
      BY <1>4, QueryPermsFacts DEF TypeOK
    <2>2. answer' = [answer EXCEPT ![w] = {[verb |-> p.verb, pat |-> p.pat] : p \in OwnedBy(loc[w].pid)}]
      BY <1>4 DEF QueryPerms
    <2>3. answer'[w] = {[verb |-> p.verb, pat |-> p.pat] : p \in OwnedBy(loc[w].pid)}
      BY <2>1, <2>2
    <2>4. ASSUME NEW q \in Promises(w)' PROVE UseOK(w, q)' /\ QueryOK(w, q)' /\ ListOK(w, q)'
      <3>1. UseOK(w, q)' /\ ListOK(w, q)'
        BY <1>1, <1>2 DEF UseOK, ListOK
      <3>2. ASSUME body[w].op \in {"query", "principals"}, body[w].target = q.to
            PROVE  [verb |-> q.verb, pat |-> q.pat] \in answer'[w]
        <4>1. LookedUp(w, q.to) /\ q.to # Anon /\ q \in Promises(w)
          BY <1>1, <2>1, <3>2 DEF LookupOK, Anon
        <4>2. PICK p \in OwnedBy(loc[w].pid) : p.verb = q.verb /\ p.pat = q.pat
          BY <4>1, PromiseIsRead
        <4>3. QED
          BY <2>3, <4>2
      <3>3. QueryOK(w, q)'
        BY <1>2, <3>2 DEF QueryOK
      <3>4. QED
        BY <3>1, <3>3
    <2>5. QED
      BY <2>1, <2>4 DEF SufficeOK, LookupOK
  <1>5. QED
    BY <1>3, <1>4

\* A statement that fails.
LEMMA SufficeFail ==
    ASSUME TypeOK, OwnerInv, GrantInv, NEW w \in Requests, PlaceOK(w), AnswerOK(w), SufficeOK(w),
           \A q \in Promises(w)' : q \in Promises(w), Fail(w)
    PROVE  SufficeOK(w)'
  <1>1. Advances(w) /\ faults' = faults + 1 /\ faults \in Nat
    BY FailFacts DEF TypeOK
  <1>2. CASE pc[w] \in Checks /\ Decide(w, "error", {})
    BY <1>2, SufficeDecide
  <1>3. CASE pc'[w] = "done" /\ status'[w] = "error"
    BY <1>3, SufficeEnds
  <1>4. CASE pc'[w] = "done" /\ body[w].op \in {"query", "self"}
    <2>1. body'[w] = body[w] /\ faults' > 0
      BY <1>1 DEF Advances
    <2>2. QED
      BY <1>4, <2>1 DEF SufficeOK, LookupOK, UseOK, QueryOK, ListOK
  <1>5. QED
    BY <1>2, <1>3, <1>4, FailFacts

\* The endpoints that change permissions and users.
LEMMA SufficeWrites ==
    ASSUME TypeOK, NEW w \in Requests, PlaceOK(w), Step(w),
           ~(CheckFind(w) \/ CheckPerms(w) \/ checkAnon(w) \/ OwnFind(w) \/ OwnPerms(w) \/ OwnAnon(w)
             \/ QueryFind(w) \/ QueryPerms(w))
    PROVE  SufficeOK(w)'
  <1>1. ASSUME pc'[w] \notin {"check.perms", "own.perms", "query.perms"}, Advances(w),
               pc[w] \notin Checks \cup Owns \cup {"query.find", "query.perms"},
               body[w].op \notin {"use", "query", "principals", "nslist"}
        PROVE  SufficeOK(w)'
    BY <1>1, SufficeElsewhere DEF Advances
  <1>2. CASE GrantFind(w)
    BY <1>1, <1>2, GrantFindFacts DEF Looks, PlaceOK, Checks, Owns
  <1>3. CASE GrantLink(w)
    <2>1. pc[w] = "grant.link" /\ body[w].op = "grant" /\ Advances(w) /\ pc'[w] \in {"grant.link", "done"}
      BY <1>3, GrantLinkCalls, AddPermissionFacts
    <2>2. QED
      BY <1>1, <2>1 DEF Checks, Owns
  <1>4. CASE BootstrapLink(w)
    <2>1. pc[w] = "user.link" /\ body[w].op = "bootstrap" /\ Advances(w) /\ pc'[w] \in {"user.link", "done"}
      BY <1>4, BootstrapLinkCalls, AddPermissionFacts
    <2>2. QED
      BY <1>1, <2>1 DEF Checks, Owns
  <1>5. CASE RevokeRead(w)
    BY <1>1, <1>5, RevokeReadFacts DEF Continues, PlaceOK, Checks, Owns
  <1>6. CASE RevokeDelete(w)
    BY <1>1, <1>6, RevokeDeleteFacts DEF Continues, PlaceOK, Checks, Owns
  <1>7. CASE AddAnonPermission(w)
    BY <1>1, <1>7, AddAnonFacts DEF Continues, PlaceOK, Checks, Owns
  <1>8. CASE DeleteAnonPermission(w) \/ ListAnonPermissions(w)
    BY <1>1, <1>8, DeleteAnonFacts, ListAnonFacts DEF PlaceOK, Checks, Owns
  <1>9. CASE AnonTokenList(w) \/ AnonTokenInsert(w) \/ IssueCapInsert(w)
    BY <1>1, <1>9, AnonTokenListFacts, AnonTokenInsertFacts, IssueCapInsertFacts DEF PlaceOK, Checks, Owns
  <1>10. CASE CreateUser(w)
    BY <1>1, <1>10, CreateUserFacts DEF PlaceOK, Checks, Owns
  <1>11. CASE DeleteUserFind(w) \/ DeleteUserExec(w)
    BY <1>1, <1>11, DeleteUserFindFacts, DeleteUserExecFacts DEF Looks, PlaceOK, Checks, Owns
  <1>12. QED
    BY <1>2, <1>3, <1>4, <1>5, <1>6, <1>7, <1>8, <1>9, <1>10, <1>11 DEF Step

\* A handler answers its own request only, and does not turn back time.
Answering(w) == /\ \E a : answer' = [answer EXCEPT ![w] = a]
                /\ expired' = expired

LEMMA AnswersOwn ==
    ASSUME TypeOK, NEW w \in Requests, PlaceOK(w), Step(w) \/ Fail(w)
    PROVE  Answering(w) /\ faults' \in Nat /\ faults <= faults'
  <1>1. answer \in [Requests -> SUBSET Shown] /\ faults \in Nat
    BY DEF TypeOK
  <1>2. ASSUME answer' = answer, expired' = expired
        PROVE  Answering(w)
    BY <1>1, <1>2 DEF Answering
  <1>3. ASSUME NEW verdict, NEW rows, Decide(w, verdict, rows)
        PROVE  Answering(w)
    BY <1>3, Zenon DEF Answering, Decide, tables
  <1>4. CASE CheckFind(w) \/ CheckPerms(w) \/ checkAnon(w)
    <2>1. faults' = faults
      BY <1>4 DEF CheckFind, CheckPerms, checkAnon
    <2>2. Answering(w)
      BY <1>2, <1>3, <1>4, CheckFindFacts, CheckPermsFacts, checkAnonFacts DEF tables
    <2>3. QED
      BY <1>1, <2>1, <2>2
  <1>5. CASE OwnFind(w) \/ OwnPerms(w)
    BY <1>1, <1>2, <1>5 DEF OwnFind, OwnPerms, tables
  <1>6. CASE OwnAnon(w)
    <2>1. expired' = expired /\ faults' = faults
      BY <1>6 DEF OwnAnon, tables
    <2>2. answer' = answer \/ \E a : answer' = [answer EXCEPT ![w] = a]
      BY <1>6, Zenon DEF OwnAnon
    <2>3. QED
      BY <1>1, <1>2, <2>1, <2>2 DEF Answering
  <1>7. CASE GrantFind(w) \/ RevokeRead(w) \/ QueryFind(w) \/ DeleteUserFind(w)
    <2>1. answer' = answer /\ UNCHANGED <<tables, faults>>
      BY <1>7, Zenon DEF GrantFind, RevokeRead, QueryFind, DeleteUserFind
    <2>2. QED
      BY <1>1, <1>2, <2>1 DEF tables
  <1>8. CASE GrantLink(w) \/ BootstrapLink(w)
    BY <1>1, <1>2, <1>8 DEF GrantLink, BootstrapLink, AddPermission
  <1>9. CASE RevokeDelete(w) \/ AddAnonPermission(w) \/ DeleteAnonPermission(w)
    BY <1>1, <1>2, <1>9 DEF RevokeDelete, AddAnonPermission, DeleteAnonPermission
  <1>10. CASE ListAnonPermissions(w)
    <2>1. (\E a : answer' = [answer EXCEPT ![w] = a]) /\ UNCHANGED <<tables, faults>>
      BY <1>10, Zenon DEF ListAnonPermissions
    <2>2. Answering(w)
      BY <2>1, Zenon DEF Answering, tables
    <2>3. QED
      BY <1>1, <2>1, <2>2
  <1>11. CASE QueryPerms(w)
    <2>1. (\E a : answer' = [answer EXCEPT ![w] = a]) /\ UNCHANGED <<tables, faults>>
      BY <1>11, Zenon DEF QueryPerms
    <2>2. Answering(w)
      BY <2>1, Zenon DEF Answering, tables
    <2>3. QED
      BY <1>1, <2>1, <2>2
  <1>12. CASE AnonTokenList(w) \/ AnonTokenInsert(w) \/ IssueCapInsert(w)
    <2>1. answer' = answer /\ expired' = expired /\ faults' = faults
      BY <1>12, Zenon DEF AnonTokenList, AnonTokenInsert, IssueCapInsert, tables
    <2>2. QED
      BY <1>1, <1>2, <2>1
  <1>13. CASE CreateUser(w) \/ DeleteUserExec(w)
    BY <1>1, <1>2, <1>13 DEF CreateUser, DeleteUserExec
  <1>14. CASE Fail(w)
    BY <1>1, <1>2, <1>3, <1>14, FailFacts DEF tables
  <1>15. QED
    BY <1>4, <1>5, <1>6, <1>7, <1>8, <1>9, <1>10, <1>11, <1>12, <1>13, <1>14 DEF Step

LEMMA SufficeInvStep ==
    ASSUME RevocationInv, GrantInv, SufficeInv, NEW w \in Requests, Step(w) \/ Fail(w)
    PROVE  SufficeInv'
  <1>1. /\ TypeOK /\ PlaceInv /\ RowInv /\ IdInv /\ OwnerInv
        /\ \A v \in Requests : PlaceOK(v) /\ FoundOK(v) /\ AnswerOK(v) /\ SufficeOK(v)
    BY DEF RevocationInv, Inv, PlaceInv, HandlersInv, SufficeInv
  <1>2. Advances(w)
    BY <1>1, PlaceStep, FailFacts
  <1>3. Onward /\ Others(w) /\ body' = body /\ before' = before /\ pc[w] # "done"
    BY <1>2, AdvancesOnward DEF Advances
  <1>4. TablesStep(w)
    <2>1. CASE Step(w)
      BY <1>1, <2>1, TablesMove
    <2>2. CASE Fail(w)
      <3>1. UNCHANGED tables
        BY <1>1, <2>2, FailFacts
      <3>2. QED
        BY <3>1 DEF tables, TablesStep
    <2>3. QED
      BY <2>1, <2>2
  <1>5. \A v \in Requests : w \notin before[v]
    BY <1>1, <1>3 DEF AnswerOK
  <1>6. \A v \in Requests : \A g \in before[v] :
           g \in Requests /\ status[g] = "ok" /\ body'[g] = body[g] /\ before'[g] = before[g]
    BY <1>1, <1>3 DEF AnswerOK, TypeOK
  <1>7. /\ expired' = expired /\ faults' \in Nat /\ faults <= faults'
        /\ \A v \in Requests : v # w => answer'[v] = answer[v]
    <2>1. Answering(w) /\ faults' \in Nat /\ faults <= faults' /\ answer \in [Requests -> SUBSET Shown]
      BY <1>1, AnswersOwn DEF TypeOK
    <2>2. QED
      BY <2>1 DEF Answering
  <1>8. ASSUME NEW v \in Requests, v # w PROVE SufficeOK(v)'
    BY <1>1, <1>3, <1>4, <1>5, <1>6, <1>7, <1>8, SufficeKept
  <1>9. SufficeOK(w)'
    <2>1. \A q \in Promises(w)' : q \in Promises(w)
      BY <1>3, <1>6, PromisesKept
    <2>2. CASE Fail(w)
      BY <1>1, <2>1, <2>2, SufficeFail
    <2>3. CASE CheckFind(w) \/ CheckPerms(w) \/ checkAnon(w)
      BY <1>1, <2>1, <2>3, SufficeCheck
    <2>4. CASE OwnFind(w) \/ OwnPerms(w) \/ OwnAnon(w)
      BY <1>1, <2>1, <2>4, SufficeOwn
    <2>5. CASE QueryFind(w) \/ QueryPerms(w)
      BY <1>1, <2>1, <2>5, SufficeQuery
    <2>6. QED
      BY <1>1, <2>2, <2>3, <2>4, <2>5, SufficeWrites
  <1>10. QED
    BY <1>8, <1>9 DEF SufficeInv

\* Whatever an endpoint refuses on arrival, it is no check of a resource.
LEMMA ArrivesUnrefused ==
    ASSUME TypeOK, NEW w \in Requests, Arrive(w), body'[w].op = "use"
    PROVE  status' = status
  <1>1. PICK b \in Bodies :
          /\ body' = [body EXCEPT ![w] = b]
          /\ IF Refusal(b) = "none"
             THEN Goto(w, EntryLabel(b)) /\ UNCHANGED status
             ELSE Respond(w, Refusal(b))
    BY DEF Arrive
  <1>2. b.op = "use"
    BY <1>1 DEF TypeOK
  <1>3. Refusal(b) = "none"
    BY <1>2, MetaOpsAre DEF Refusal
  <1>4. QED
    BY <1>1, <1>3

LEMMA SufficeInvArrive ==
    ASSUME RevocationInv, GrantInv, SufficeInv, NEW w \in Requests, Arrive(w)
    PROVE  SufficeInv'
  <1>1. /\ TypeOK /\ RowInv /\ OwnerInv
        /\ \A v \in Requests : AnswerOK(v) /\ SufficeOK(v)
    BY DEF RevocationInv, Inv, HandlersInv, SufficeInv
  <1>2. /\ Others(w) /\ pc[w] = "new" /\ pc'[w] # "new" /\ body'[w] \in Bodies
        /\ links' = links /\ anon' = anon /\ caps' = caps /\ principals' = principals
        /\ expired' = expired /\ faults' = faults /\ answer' = answer
        /\ loc'[w].i = FirstCheck(body'[w])
        /\ before'[w] = {u \in Requests : status[u] = "ok"}
        /\ \/ pc'[w] = EntryLabel(body'[w]) /\ status' = status
           \/ pc'[w] = "done" /\ status'[w] # "ok"
    BY <1>1, ArriveFacts DEF tables
  <1>3. Onward /\ TablesStep(w)
    BY <1>2 DEF Onward, Others, TablesStep
  <1>4. status[w] = "none" /\ status'[w] # "ok"
    BY <1>1, <1>2 DEF SufficeOK
  <1>5. \A g \in Requests : status[g] = "ok" =>
           g # w /\ body'[g] = body[g] /\ before'[g] = before[g] /\ status'[g] = "ok"
    BY <1>2, <1>4 DEF Others
  <1>6. ASSUME NEW v \in Requests, v # w PROVE SufficeOK(v)'
    <2>1. /\ w \notin before[v] /\ answer'[v] = answer[v] /\ expired \subseteq expired'
          /\ faults' \in Nat /\ faults <= faults'
      BY <1>1, <1>2, <1>4 DEF AnswerOK, TypeOK
    <2>2. \A g \in before[v] :
             g \in Requests /\ status[g] = "ok" /\ body'[g] = body[g] /\ before'[g] = before[g]
      BY <1>1, <1>5 DEF AnswerOK, TypeOK
    <2>3. QED
      BY <1>1, <1>2, <1>3, <1>6, <2>1, <2>2, SufficeKept
  <1>7. ASSUME NEW q \in Promises(w)'
        PROVE  q.to = Anon \/ q.to.kind \in {"user", "sa"}
    <2>1. PICK g \in before'[w] :
             /\ g \in Granted' /\ body'[g].op # "bootstrap"
             /\ \E k \in DOMAIN body'[g].entries : StillGranted(g, k)' /\ q = Promise(g, k)'
      BY DEF Promises
    <2>2. g \in Requests /\ status[g] = "ok" /\ body'[g] = body[g] /\ before'[g] = before[g] /\ g \in Granted
      BY <1>2, <1>5, <2>1 DEF Granted
    <2>3. PICK k \in DOMAIN body[g].entries : StillGranted(g, k) /\ q = Promise(g, k)
      BY <1>3, <2>1, <2>2, PromiseWas
    <2>4. RowFor(g, q)
      BY <1>1, <2>1, <2>2, <2>3, PromiseHasRow
    <2>5. QED
      BY <2>4 DEF RowFor
  <1> DEFINE b == body'[w]
             kind == KindOf(b.caller)
  <1>8. /\ pc'[w] \in {"check.perms", "check.anon", "own.perms", "own.anon"} => kind \notin {"user", "sa"}
        /\ pc'[w] = "query.perms" => b.op \notin {"query", "principals"}
    <2>1. EntryOK(b) /\ b.op \in Ops \ {"idle"}
      BY <1>2, EntryFacts, AuthzAssumption DEF Body
    <2>2. CASE pc'[w] = EntryLabel(b)
      <3>1. EntryLabel(b) \in Checks \cup Owns => EntryLabel(b) \in {CheckLabel(b), OwnLabel(b)}
        <4>1. EntryLabel(b) \in {CheckLabel(b), OwnLabel(b), HandlerLabel[b.op]}
          BY DEF EntryLabel
        <4>2. b.op \notin MetaOps \cup {"use", "issueCap", "nsquery", "nslist"} =>
                 EntryLabel(b) \notin Checks \cup Owns
          BY <2>1 DEF EntryOK, Ops, Checks, Owns
        <4>3. b.op \in MetaOps \cup {"use", "issueCap", "nsquery", "nslist"} =>
                 EntryLabel(b) \in {CheckLabel(b), OwnLabel(b)}
          BY MetaOpsAre DEF EntryLabel
        <4>4. QED
          BY <4>2, <4>3
      <3>2. /\ CheckLabel(b) \in {"check.perms", "check.anon", "own.perms", "own.anon"} => kind \notin {"user", "sa"}
            /\ OwnLabel(b) \in {"check.perms", "check.anon", "own.perms", "own.anon"} => kind \notin {"user", "sa"}
        BY DEF CheckLabel, OwnLabel, KindOf
      <3>3. EntryLabel(b) = "query.perms" => b.op \notin {"query", "principals"}
        BY <2>1, MetaOpsAre DEF EntryOK, Checks
      <3>4. QED
        BY <2>2, <3>1, <3>2, <3>3 DEF Checks, Owns
    <2>3. CASE pc'[w] = "done"
      BY <2>3
    <2>4. QED
      BY <1>2, <2>2, <2>3
  <1>9. Caller(w)'.kind = kind /\ LookupOK(w)'
    BY <1>8 DEF LookupOK, Caller
  <1>10. ASSUME NEW q \in Promises(w)'
         PROVE  UseOK(w, q)' /\ QueryOK(w, q)' /\ ListOK(w, q)'
    <2>1. pc'[w] \in {"check.anon", "own.anon"} /\ q.to = Caller(w)' => q.to = Anon
      BY <1>7, <1>8, <1>9
    <2>2. b.op = "use" => status'[w] = "none"
      BY <1>1, <1>4, ArrivesUnrefused
    <2>3. UseOK(w, q)'
      BY <2>1, <2>2 DEF UseOK
    <2>4. QueryOK(w, q)'
      BY <1>4 DEF QueryOK
    <2>5. b.op = "nslist" => loc'[w].i = 1
      BY <1>2 DEF FirstCheck
    <2>6. ListOK(w, q)'
      BY <1>4, <2>1, <2>5 DEF ListOK
    <2>7. QED
      BY <2>3, <2>4, <2>6
  <1>11. SufficeOK(w)'
    BY <1>2, <1>9, <1>10 DEF SufficeOK
  <1>12. QED
    BY <1>6, <1>11 DEF SufficeInv

LEMMA InitSuffice == Init => SufficeInv
  <1> SUFFICES ASSUME Init PROVE SufficeInv
    OBVIOUS
  <1>1. \A w \in Requests : pc[w] = "new" /\ status[w] = "none" /\ before[w] = {}
    BY DEF Init
  <1>2. \A w \in Requests : Promises(w) = {}
    BY <1>1 DEF Promises
  <1>3. QED
    BY <1>1, <1>2 DEF SufficeInv, SufficeOK, LookupOK

LEMMA NextSuffice ==
    ASSUME RevocationInv, GrantInv, SufficeInv, [Next]_vars
    PROVE  SufficeInv'
  <1>1. ASSUME links' = links, pc' = pc, body' = body, loc' = loc, status' = status, answer' = answer,
               before' = before, faults' = faults, expired \subseteq expired'
        PROVE  SufficeInv'
    <2> SUFFICES ASSUME NEW w \in Requests PROVE SufficeOK(w)'
      BY DEF SufficeInv
    <2>1. SufficeOK(w) /\ Caller(w)' = Caller(w)
      BY <1>1 DEF SufficeInv, Caller
    <2>2. \A who : LookedUp(w, who)' <=> LookedUp(w, who)
      BY <1>1 DEF LookedUp, OpOf
    <2>3. LookupOK(w)'
      BY <1>1, <2>1, <2>2 DEF SufficeOK, LookupOK
    <2>4. Promises(w)' = Promises(w)
      <3>1. Granted' = Granted
        BY <1>1 DEF Granted
      <3>2. \A g, k : (StillGranted(g, k)' <=> StillGranted(g, k)) /\ Promise(g, k)' = Promise(g, k)
        BY <1>1 DEF StillGranted, Undone, Removes, Recipient, Promise
      <3>3. QED
        BY <1>1, <3>1, <3>2 DEF Promises
    <2>5. ASSUME NEW q \in Promises(w)
          PROVE  UseOK(w, q)' /\ QueryOK(w, q)' /\ ListOK(w, q)'
      <3>1. UseOK(w, q) /\ QueryOK(w, q) /\ ListOK(w, q)
        BY <2>1 DEF SufficeOK
      <3>2. (Lapsed(q) => Lapsed(q)') /\ (Collected(w, q) => Collected(w, q)')
        BY <1>1 DEF Lapsed, Collected
      <3>3. UseOK(w, q)' /\ QueryOK(w, q)'
        BY <1>1, <2>1, <3>1, <3>2 DEF UseOK, QueryOK
      <3>4. ListOK(w, q)'
        BY <1>1, <2>1, <3>1, <3>2 DEF ListOK
      <3>5. QED
        BY <3>3, <3>4
    <2>6. QED
      BY <1>1, <2>1, <2>3, <2>4, <2>5 DEF SufficeOK
  <1>2. CASE UNCHANGED vars
    BY <1>1, <1>2 DEF vars, tables, history
  <1>3. CASE Expire
    BY <1>1, <1>3, ExpireFacts DEF RevocationInv, Inv
  <1>4. ASSUME NEW w \in Requests, Arrive(w) \/ Step(w) \/ Fail(w)
        PROVE  SufficeInv'
    BY <1>4, SufficeInvStep, SufficeInvArrive
  <1>5. QED
    BY <1>2, <1>3, <1>4 DEF Next, Terminated

\* Check, CheckWithAnon and the endpoints that show permissions and namespaces:
\* what was granted, was answered and has neither expired nor been named by a
\* removal is enough, for whoever asks afterwards.  No check of a resource that
\* it covers is refused, and the administrators' queries and the listing of
\* namespaces show it, although they find the principal by name, read its rows
\* and read the anonymous ones in transactions of their own while users of the
\* same name are created and deleted.
THEOREM GrantsSuffice == Spec => []GrantedPermissionSuffices
  <1>1. Init => GrantInv /\ SufficeInv
    BY InitGrant, InitSuffice
  <1>2. RevocationInv /\ GrantInv /\ SufficeInv /\ [Next]_vars => GrantInv' /\ SufficeInv'
    BY NextGrant, NextSuffice
  <1>3. SufficeInv => GrantedPermissionSuffices
    <2> SUFFICES ASSUME SufficeInv, NEW w \in Requests, NEW g \in before[w],
                        g \in Granted, body[g].op # "bootstrap",
                        NEW k \in DOMAIN body[g].entries, StillGranted(g, k)
                 PROVE  LET e == body[g].entries[k]
                            shown(pat) == [verb |-> e.verb, pat |-> pat] \in answer[w]
                        IN /\ /\ body[w].op = "use" /\ Recipient(g) \in {Anon, Caller(w)}
                              /\ e.verb = body[w].verb /\ matchesPattern(body[w].res, e.pat)
                              /\ status[w] = "forbidden"
                              => <<g, k>> \in expired
                           /\ /\ body[w].op \in {"query", "principals"}
                              /\ body[w].target = Recipient(g) /\ status[w] = "ok"
                              => shown(e.pat) \/ (body[w].op = "query" /\ faults > 0)
                           /\ /\ body[w].op = "nslist" /\ Recipient(g) \in {Anon, Caller(w)}
                              /\ IsLiteralNamespace(e.pat.ns) /\ status[w] = "ok"
                              => shown([ns |-> e.pat.ns, name |-> Star]) \/ <<g, k>> \in expired
      BY DEF GrantedPermissionSuffices, StillGranted, Caller
    <2>1. PICK q : q = Promise(g, k)
      OBVIOUS
    <2>2. q \in Promises(w)
      BY <2>1 DEF Promises
    <2>3. UseOK(w, q) /\ QueryOK(w, q) /\ ListOK(w, q)
      BY <2>2 DEF SufficeInv, SufficeOK
    <2>4. /\ q.to = Recipient(g) /\ q.verb = body[g].entries[k].verb
          /\ q.pat = body[g].entries[k].pat /\ q.key = <<g, k>>
      BY <2>1 DEF Promise
    <2>5. QED
      BY <2>3, <2>4 DEF UseOK, QueryOK, ListOK, Lapsed
  <1>4. QED
    BY <1>1, <1>2, <1>3, RevocationInvHolds, PTL DEF Spec
=============================================================================
