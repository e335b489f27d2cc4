------------------------ MODULE ResourceStoreProofs ------------------------
(***************************************************************************)
(* Invariants of ResourceStore, proved for any requests, names, bodies,    *)
(* keys and bounds.                                                        *)
(***************************************************************************)
EXTENDS ResourceStore, TLAPS

-----------------------------------------------------------------------------
(* Type correctness. *)

\* What a step of the handler of w does to its control state keeps the types.
LEMMA GotoType ==
    ASSUME TypeOK, NEW w \in Requests, NEW label \in Labels, Goto(w, label)
    PROVE  pc' \in [Requests -> Labels]
  BY DEF TypeOK, Goto

LEMMA RespondType ==
    ASSUME TypeOK, NEW w \in Requests, NEW status \in Statuses, Respond(w, status)
    PROVE  /\ pc' \in [Requests -> Labels]
           /\ reply' \in [Requests -> Replies]
  <1>1. pc' \in [Requests -> Labels]
    BY DEF TypeOK, Respond, Goto, Labels
  <1>2. QED
    BY <1>1 DEF TypeOK, Respond, Replies

\* The statement a handler starts with is one.
LEMMA FirstLabelType ==
    ASSUME NEW op \in Ops
    PROVE  FirstLabel(op) \in Labels \ {"new", "done"}
  BY DEF Ops, FirstLabel, Labels

\* A version row as handleResourcePut fills it in.
LEMMA StoredVersionType ==
    ASSUME NEW w \in Requests, NEW rid \in Nat, NEW number \in Nat
    PROVE  StoredVersion(w, rid, number) \in VerRow
  BY DEF StoredVersion, VerRow, Blob, sealGCM

LEMMA DecryptType ==
    ASSUME NEW rv \in VerRow
    PROVE  decryptValue(rv) \in Blob
  BY DEF decryptValue, VerRow, Blob

LEMMA AfterResourceType ==
    ASSUME NEW w \in Requests
    PROVE  AfterResource(w) \in {"put.key", "put.max"}
  BY DEF AfterResource

LEMMA CandidatesType ==
    ASSUME NEW w \in Requests
    PROVE  Candidates(w) \subseteq versions
  BY DEF Candidates, VersionsOf

\* What a handler remembers of a lookup is a number.
LEMMA LocalsType ==
    ASSUME loc \in [Requests -> Locals], NEW w \in Requests, NEW n \in Nat
    PROVE  /\ [loc EXCEPT ![w].nsId = n] \in [Requests -> Locals]
           /\ [loc EXCEPT ![w].rid = n] \in [Requests -> Locals]
           /\ [loc EXCEPT ![w].max = n] \in [Requests -> Locals]
  BY DEF Locals

LEMMA TypeInit == Init => TypeOK
  BY StoreAssumption DEF Init, TypeOK, Labels, Statuses, Locals, Replies

LEMMA TypeStep == TypeOK /\ [Next]_vars => TypeOK'
<1> SUFFICES ASSUME TypeOK, [Next]_vars PROVE TypeOK'
  OBVIOUS
<1> USE DEF TypeOK, tables
<1>1. ASSUME NEW w \in Requests, Begin(w) PROVE TypeOK'
  BY <1>1, FirstLabelType DEF Begin, Goto, Labels, Locals, Body
<1>2. ASSUME NEW w \in Requests, Refuse(w) PROVE TypeOK'
  BY <1>2, RespondType DEF Refuse, Goto, Labels, Statuses
<1>3. ASSUME NEW w \in Requests, PutGetNamespace(w) PROVE TypeOK'
  <2>1. pc' \in [Requests -> Labels]
    BY <1>3 DEF PutGetNamespace, Goto, Labels
  <2>2. loc' \in [Requests -> Locals]
    <3>1. ASSUME NEW x \in namespaces, loc' = [loc EXCEPT ![w].nsId = x.id]
          PROVE  loc' \in [Requests -> Locals]
      <4>1. x.id \in Nat
        BY DEF NsRow
      <4>2. QED
        BY <3>1, <4>1, LocalsType
    <3>2. QED
      BY <1>3, <3>1, Zenon DEF PutGetNamespace
  <2>3. QED
    BY <1>3, <2>1, <2>2 DEF PutGetNamespace
<1>4. ASSUME NEW w \in Requests, PutCreateNamespace(w) PROVE TypeOK'
  <2>1. nsSeq' \in Nat /\ namespaces' \subseteq NsRow
    BY <1>4 DEF PutCreateNamespace, InsertNamespace, NsRow, Body
  <2>2. loc' \in [Requests -> Locals]
    <3>1. nsSeq + 1 \in Nat
      OBVIOUS
    <3>2. loc' = [loc EXCEPT ![w].nsId = nsSeq + 1]
      BY <1>4, Zenon DEF PutCreateNamespace
    <3>3. QED
      BY <3>1, <3>2, LocalsType
  <2>3. pc' \in [Requests -> Labels]
    BY <1>4 DEF PutCreateNamespace, Goto, Labels
  <2>4. QED
    BY <1>4, <2>1, <2>2, <2>3 DEF PutCreateNamespace
<1>5. ASSUME NEW w \in Requests, PutGetResource(w) PROVE TypeOK'
  <2>1. pc' \in [Requests -> Labels]
    BY <1>5, AfterResourceType DEF PutGetResource, Goto, Labels
  <2>2. loc' \in [Requests -> Locals]
    <3>1. ASSUME NEW r \in resources, loc' = [loc EXCEPT ![w].rid = r.id]
          PROVE  loc' \in [Requests -> Locals]
      <4>1. r.id \in Nat
        BY DEF ResRow
      <4>2. QED
        BY <3>1, <4>1, LocalsType
    <3>2. QED
      BY <1>5, <3>1, Zenon DEF PutGetResource
  <2>3. QED
    BY <1>5, <2>1, <2>2 DEF PutGetResource
<1>6. ASSUME NEW w \in Requests, PutCreateResource(w) PROVE TypeOK'
  <2>1. CASE NsExists(loc[w].nsId)
    <3>1. pc' \in [Requests -> Labels]
      BY <1>6, <2>1, AfterResourceType DEF PutCreateResource, Goto, Labels
    <3>2. loc' \in [Requests -> Locals] /\ resSeq' \in Nat
      <4>1. resSeq + 1 \in Nat
        OBVIOUS
      <4>2. loc' = [loc EXCEPT ![w].rid = resSeq + 1] /\ resSeq' = resSeq + 1
        BY <1>6, <2>1, Zenon DEF PutCreateResource
      <4>3. QED
        BY <4>1, <4>2, LocalsType
    <3>3. resources' \subseteq ResRow
      BY <1>6, <2>1 DEF PutCreateResource, Locals, ResRow, Body
    <3>4. QED
      BY <1>6, <2>1, <3>1, <3>2, <3>3 DEF PutCreateResource
  <2>2. CASE ~NsExists(loc[w].nsId)
    BY <1>6, <2>2, RespondType DEF PutCreateResource, Statuses
  <2>3. QED
    BY <2>1, <2>2
<1>7. ASSUME NEW w \in Requests, PutUpdateType(w) PROVE TypeOK'
  <2>1. resources' \subseteq ResRow
    <3>1. body[w].type \in Types
      BY DEF Body
    <3>2. SetType(loc[w].rid, body[w].type) \subseteq ResRow
      BY <3>1 DEF SetType, ResRow
    <3>3. QED
      BY <1>7, <3>2 DEF PutUpdateType
  <2>2. pc' \in [Requests -> Labels]
    BY <1>7, AfterResourceType DEF PutUpdateType, Goto, Labels
  <2>3. QED
    BY <1>7, <2>1, <2>2 DEF PutUpdateType
<1>8. ASSUME NEW w \in Requests, PutCreateKey(w) PROVE TypeOK'
  BY <1>8, RespondType DEF PutCreateKey, Goto, Labels, KeyRow, Locals, Statuses
<1>9. ASSUME NEW w \in Requests, PutReadMax(w) PROVE TypeOK'
  <2>1. PICK m \in {0} \cup {v.version : v \in versions} : loc' = [loc EXCEPT ![w].max = m]
    BY <1>9, Zenon DEF PutReadMax
  <2>2. loc' \in [Requests -> Locals]
    <3>1. m \in Nat
      BY DEF VerRow
    <3>2. QED
      BY <2>1, <3>1, LocalsType
  <2>3. pc' \in [Requests -> Labels]
    BY <1>9 DEF PutReadMax, Goto, Labels
  <2>4. QED
    BY <1>9, <2>2, <2>3 DEF PutReadMax
<1>10. ASSUME NEW w \in Requests, PutInsertVersion(w) PROVE TypeOK'
  BY <1>10, RespondType, StoredVersionType DEF PutInsertVersion, Goto, Labels, Locals, NextVersion, Statuses
<1>11. ASSUME NEW w \in Requests, DelFind(w) PROVE TypeOK'
  <2>1. CASE ResRowsOf(body[w].ns, body[w].name) = {} /\ Respond(w, "notFound") /\ UNCHANGED loc
    BY <1>11, <2>1, RespondType DEF DelFind, Statuses
  <2>2. ASSUME NEW r \in resources, Goto(w, "del.exec"), UNCHANGED reply,
               loc' = [loc EXCEPT ![w].rid = r.id]
        PROVE  TypeOK'
    <3>1. loc' \in [Requests -> Locals]
      BY <2>2, LocalsType DEF ResRow
    <3>2. pc' \in [Requests -> Labels]
      BY <2>2 DEF Goto, Labels
    <3>3. QED
      BY <1>11, <2>2, <3>1, <3>2 DEF DelFind
  <2>3. QED
    BY <1>11, <2>1, <2>2 DEF DelFind
<1>12. ASSUME NEW w \in Requests, DelExec(w) PROVE TypeOK'
  BY <1>12 DEF DelExec, Goto, Labels, RemoveVersions
<1>13. ASSUME NEW w \in Requests, GetFind(w) PROVE TypeOK'
  <2>1. CASE ResRowsOf(body[w].ns, body[w].name) = {} /\ Respond(w, "notFound") /\ UNCHANGED loc
    BY <1>13, <2>1, RespondType DEF GetFind, Statuses
  <2>2. ASSUME NEW r \in resources, Goto(w, "get.value"), UNCHANGED reply,
               loc' = [loc EXCEPT ![w].rid = r.id]
        PROVE  TypeOK'
    <3>1. loc' \in [Requests -> Locals]
      BY <2>2, LocalsType DEF ResRow
    <3>2. pc' \in [Requests -> Labels]
      BY <2>2 DEF Goto, Labels
    <3>3. QED
      BY <1>13, <2>2, <3>1, <3>2 DEF GetFind
  <2>3. QED
    BY <1>13, <2>1, <2>2 DEF GetFind
<1>14. ASSUME NEW w \in Requests, GetValue(w) PROVE TypeOK'
  <2>1. ASSUME NEW v \in Candidates(w), Fetched(w, v, "get.open") PROVE TypeOK'
    BY <1>14, <2>1, CandidatesType DEF GetValue, Fetched, Goto, Labels, Replies
  <2>2. CASE Goto(w, "get.open") /\ UNCHANGED reply
    BY <1>14, <2>2 DEF GetValue, Goto, Labels
  <2>3. CASE Respond(w, "notFound")
    BY <1>14, <2>3, RespondType DEF GetValue, Statuses
  <2>4. QED
    BY <1>14, <2>1, <2>2, <2>3 DEF GetValue
<1>15. ASSUME NEW w \in Requests, GetOpen(w) PROVE TypeOK'
  <2>1. CASE Respond(w, "error")
    BY <1>15, <2>1, RespondType DEF GetOpen, Statuses
  <2>2. CASE /\ reply' = [reply EXCEPT ![w].plain = {decryptValue(rv) : rv \in reply[w].rows}]
             /\ Goto(w, "audit")
    <3>1. {decryptValue(rv) : rv \in reply[w].rows} \subseteq Blob
      BY DecryptType DEF Replies
    <3>2. reply' \in [Requests -> Replies]
      BY <2>2, <3>1 DEF Replies
    <3>3. pc' \in [Requests -> Labels]
      BY <2>2 DEF Goto, Labels
    <3>4. QED
      BY <1>15, <3>2, <3>3 DEF GetOpen
  <2>3. QED
    BY <1>15, <2>1, <2>2, Zenon DEF GetOpen
<1>16. ASSUME NEW w \in Requests, UuidFind(w) PROVE TypeOK'
  <2>1. ASSUME NEW v \in Candidates(w), Fetched(w, v, "uuid.res") PROVE TypeOK'
    BY <1>16, <2>1, CandidatesType DEF UuidFind, Fetched, Goto, Labels, Replies
  <2>2. CASE Respond(w, "notFound")
    BY <1>16, <2>2, RespondType DEF UuidFind, Statuses
  <2>3. QED
    BY <1>16, <2>1, <2>2 DEF UuidFind
<1>17. ASSUME NEW w \in Requests, UuidResource(w) PROVE TypeOK'
  BY <1>17, RespondType DEF UuidResource, Goto, Labels, Statuses
<1>18. ASSUME NEW w \in Requests, ListFind(w) PROVE TypeOK'
  <2>1. CASE ResRowsOf(body[w].ns, body[w].name) = {} /\ Respond(w, "notFound") /\ UNCHANGED loc
    BY <1>18, <2>1, RespondType DEF ListFind, Statuses
  <2>2. ASSUME NEW r \in resources, Goto(w, "lst.rows"), UNCHANGED reply,
               loc' = [loc EXCEPT ![w].rid = r.id]
        PROVE  TypeOK'
    <3>1. loc' \in [Requests -> Locals]
      BY <2>2, LocalsType DEF ResRow
    <3>2. pc' \in [Requests -> Labels]
      BY <2>2 DEF Goto, Labels
    <3>3. QED
      BY <1>18, <2>2, <3>1, <3>2 DEF ListFind
  <2>3. QED
    BY <1>18, <2>1, <2>2 DEF ListFind
<1>19. ASSUME NEW w \in Requests, ListRows(w) PROVE TypeOK'
  BY <1>19 DEF ListRows, Goto, Labels, VersionsOf, Replies
<1>20. ASSUME NEW w \in Requests, NsCreateFind(w) PROVE TypeOK'
  BY <1>20, RespondType DEF NsCreateFind, Goto, Labels, Statuses
<1>21. ASSUME NEW w \in Requests, NsCreateInsert(w) PROVE TypeOK'
  BY <1>21 DEF NsCreateInsert, Goto, Labels, InsertNamespace, NsRow, Body
<1>22. ASSUME NEW w \in Requests, NsDeleteList(w) PROVE TypeOK'
  BY <1>22, RespondType DEF NsDeleteList, Goto, Labels, Statuses
<1>23. ASSUME NEW w \in Requests, NsDeleteExec(w) PROVE TypeOK'
  BY <1>23, RespondType DEF NsDeleteExec, Goto, Labels, Statuses
<1>24. ASSUME NEW w \in Requests, WriteAudit(w) PROVE TypeOK'
  BY <1>24, RespondType DEF WriteAudit, Goto, Labels, Statuses
<1>25. ASSUME NEW w \in Requests, NsCreateFindFails(w) PROVE TypeOK'
  BY <1>25 DEF NsCreateFindFails, Goto, Labels
<1>26. ASSUME NEW w \in Requests, WriteAuditFails(w) PROVE TypeOK'
  BY <1>26, RespondType DEF WriteAuditFails, Goto, Labels, Statuses
<1>27. ASSUME NEW w \in Requests, Fail(w) PROVE TypeOK'
  BY <1>27, RespondType DEF Fail, Goto, Labels, Statuses
<1>28. CASE Redeploy
  BY <1>28 DEF Redeploy
<1>29. CASE UNCHANGED vars
  BY <1>29 DEF vars
<1>30. QED
  BY <1>1, <1>2, <1>3, <1>4, <1>5, <1>6, <1>7, <1>8, <1>9, <1>10, <1>11, <1>12, <1>13, <1>14, <1>15, <1>16, <1>17, <1>18, <1>19, <1>20, <1>21, <1>22, <1>23, <1>24, <1>25, <1>26, <1>27, <1>28, <1>29 DEF Next, Step, Terminated

\* Type correctness: whatever interleaving, the tables hold rows of their
\* columns' types, and no handler reaches a statement its code does not have.
THEOREM TypeCorrect == Spec => []TypeOK
<1>1. Init => TypeOK
  BY TypeInit
<1>2. TypeOK /\ [Next]_vars => TypeOK'
  BY TypeStep
<1>3. QED
  BY <1>1, <1>2, PTL DEF Spec

-----------------------------------------------------------------------------
(* What the steps of the handlers do to the tables. *)

\* The statements that change the tables of namespaces, resources, versions.
TableChange(w) ==
    \/ PutCreateNamespace(w) \/ PutCreateResource(w) \/ PutUpdateType(w)
    \/ PutInsertVersion(w) \/ DelExec(w) \/ NsCreateInsert(w) \/ NsDeleteExec(w)

\* Every other step leaves those tables and their sequences alone.
LEMMA OtherStepsKeepTables ==
    ASSUME [Next]_vars
    PROVE  \/ \E w \in Requests : TableChange(w)
           \/ UNCHANGED <<namespaces, resources, versions, nsSeq, resSeq>>
<1> DEFINE Kept == UNCHANGED <<namespaces, resources, versions, nsSeq, resSeq>>
<1> USE DEF tables
<1>1. ASSUME NEW w \in Requests,
             Begin(w) \/ Refuse(w) \/ NsCreateFindFails(w) \/ WriteAuditFails(w) \/ Fail(w)
      PROVE  Kept
  BY <1>1 DEF Begin, Refuse, NsCreateFindFails, WriteAuditFails, Fail
<1>2. ASSUME NEW w \in Requests, Step(w) PROVE Kept \/ TableChange(w)
  <2>1. CASE PutGetNamespace(w) \/ PutGetResource(w) \/ PutCreateKey(w) \/ PutReadMax(w)
    BY <2>1 DEF PutGetNamespace, PutGetResource, PutCreateKey, PutReadMax
  <2>2. CASE DelFind(w) \/ GetFind(w) \/ GetValue(w) \/ GetOpen(w)
    BY <2>2 DEF DelFind, GetFind, GetValue, GetOpen
  <2>3. CASE UuidFind(w) \/ UuidResource(w) \/ ListFind(w) \/ ListRows(w)
    BY <2>3 DEF UuidFind, UuidResource, ListFind, ListRows
  <2>4. CASE NsCreateFind(w) \/ NsDeleteList(w) \/ WriteAudit(w)
    BY <2>4 DEF NsCreateFind, NsDeleteList, WriteAudit
  <2>5. QED
    BY <1>2, <2>1, <2>2, <2>3, <2>4 DEF Step, TableChange
<1>3. CASE Redeploy \/ Terminated \/ UNCHANGED vars
  BY <1>3 DEF Redeploy, Terminated, vars
<1>4. QED
  BY <1>1, <1>2, <1>3 DEF Next

\* UPDATE keeps the columns it does not name.
LEMMA SetTypeKeepsIds ==
    ASSUME TypeOK, NEW rid, NEW t, resources' = SetType(rid, t)
    PROVE  /\ \A r \in resources' : \E q \in resources : q.id = r.id /\ q.nsId = r.nsId
           /\ \A q \in resources : \E r \in resources' : r.id = q.id /\ r.nsId = q.nsId
  <1>1. \A q \in resources :
          LET r == IF q.id = rid THEN [q EXCEPT !.type = t] ELSE q
          IN r \in resources' /\ r.id = q.id /\ r.nsId = q.nsId
    BY DEF SetType, TypeOK, ResRow
  <1>2. \A r \in resources' : \E q \in resources :
          r = IF q.id = rid THEN [q EXCEPT !.type = t] ELSE q
    BY DEF SetType
  <1>3. QED
    BY <1>1, <1>2 DEF TypeOK, ResRow

LEMMA ReferentialStep ==
    ASSUME TypeOK, ReferentialIntegrity, [Next]_vars
    PROVE  ReferentialIntegrity'
<1> USE DEF ReferentialIntegrity, NsExists, ResExists
<1>1. ASSUME NEW w \in Requests, PutCreateNamespace(w) PROVE ReferentialIntegrity'
  BY <1>1 DEF PutCreateNamespace, InsertNamespace
<1>2. ASSUME NEW w \in Requests, NsCreateInsert(w) PROVE ReferentialIntegrity'
  BY <1>2 DEF NsCreateInsert, InsertNamespace
<1>3. ASSUME NEW w \in Requests, PutCreateResource(w) PROVE ReferentialIntegrity'
  BY <1>3 DEF PutCreateResource
<1>4. ASSUME NEW w \in Requests, PutUpdateType(w) PROVE ReferentialIntegrity'
  BY <1>4, SetTypeKeepsIds DEF PutUpdateType
<1>5. ASSUME NEW w \in Requests, PutInsertVersion(w) PROVE ReferentialIntegrity'
  BY <1>5 DEF PutInsertVersion, StoredVersion
<1>6. ASSUME NEW w \in Requests, DelExec(w) PROVE ReferentialIntegrity'
  BY <1>6 DEF DelExec, RemoveVersions
<1>7. ASSUME NEW w \in Requests, NsDeleteExec(w) PROVE ReferentialIntegrity'
  BY <1>7 DEF NsDeleteExec, ResRowsIn, NsRowsOf
<1>8. CASE UNCHANGED <<namespaces, resources, versions, nsSeq, resSeq>>
  BY <1>8
<1>9. QED
  BY <1>1, <1>2, <1>3, <1>4, <1>5, <1>6, <1>7, <1>8, OtherStepsKeepTables DEF TableChange

\* A request holds the ids it has read; the others keep theirs.
LEMMA IdsStep ==
    ASSUME TypeOK, FreshIds, [Next]_vars
    PROVE  FreshIds'
<1> USE DEF TypeOK, FreshIds, Locals, NsRow, ResRow, tables
<1>1. ASSUME NEW w \in Requests, Begin(w) PROVE FreshIds'
  BY <1>1 DEF Begin
<1>2. ASSUME NEW w \in Requests, PutGetNamespace(w) PROVE FreshIds'
  BY <1>2 DEF PutGetNamespace
<1>3. ASSUME NEW w \in Requests, PutCreateNamespace(w) PROVE FreshIds'
  BY <1>3 DEF PutCreateNamespace, InsertNamespace
<1>4. ASSUME NEW w \in Requests, PutGetResource(w) PROVE FreshIds'
  BY <1>4 DEF PutGetResource
<1>5. ASSUME NEW w \in Requests, PutCreateResource(w) PROVE FreshIds'
  BY <1>5 DEF PutCreateResource
<1>6. ASSUME NEW w \in Requests, PutUpdateType(w) PROVE FreshIds'
  BY <1>6, SetTypeKeepsIds DEF PutUpdateType
<1>7. ASSUME NEW w \in Requests, PutReadMax(w) PROVE FreshIds'
  BY <1>7 DEF PutReadMax
<1>8. ASSUME NEW w \in Requests, DelFind(w) \/ GetFind(w) \/ ListFind(w) PROVE FreshIds'
  BY <1>8 DEF DelFind, GetFind, ListFind
<1>9. ASSUME NEW w \in Requests, DelExec(w) PROVE FreshIds'
  BY <1>9 DEF DelExec
<1>10. ASSUME NEW w \in Requests, NsCreateInsert(w) PROVE FreshIds'
  BY <1>10 DEF NsCreateInsert, InsertNamespace
<1>11. ASSUME NEW w \in Requests, NsDeleteExec(w) PROVE FreshIds'
  BY <1>11 DEF NsDeleteExec
<1>12. ASSUME NEW w \in Requests,
              Refuse(w) \/ NsCreateFindFails(w) \/ WriteAuditFails(w) \/ Fail(w)
       PROVE  FreshIds'
  BY <1>12 DEF Refuse, NsCreateFindFails, WriteAuditFails, Fail
<1>13. ASSUME NEW w \in Requests,
              \/ PutCreateKey(w) \/ PutInsertVersion(w) \/ GetValue(w) \/ GetOpen(w)
              \/ UuidFind(w) \/ UuidResource(w) \/ ListRows(w)
              \/ NsCreateFind(w) \/ NsDeleteList(w) \/ WriteAudit(w)
       PROVE  FreshIds'
  BY <1>13 DEF PutCreateKey, PutInsertVersion, GetValue, GetOpen, UuidFind, UuidResource,
               ListRows, NsCreateFind, NsDeleteList, WriteAudit
<1>14. CASE Redeploy \/ Terminated \/ UNCHANGED vars
  BY <1>14 DEF Redeploy, Terminated, vars
<1>15. QED
  BY <1>1, <1>2, <1>3, <1>4, <1>5, <1>6, <1>7, <1>8, <1>9, <1>10, <1>11, <1>12, <1>13,
     <1>14 DEF Next, Step

-----------------------------------------------------------------------------
(* The history of a resource. *)

\* A handler gets to its insert by reading the maximum, and keeps what it read.
LEMMA InsertFollowsReadMax ==
    ASSUME TypeOK, [Next]_vars, NEW u \in Requests, pc'[u] = "put.insert"
    PROVE  PutReadMax(u) \/ (pc[u] = "put.insert" /\ loc'[u] = loc[u])
<1> DEFINE Stays == pc[u] = "put.insert" /\ loc'[u] = loc[u]
<1> USE DEF TypeOK, tables, Goto, Respond
<1>1. ASSUME NEW w \in Requests, Begin(w) PROVE Stays
  BY <1>1, FirstLabelType DEF Begin, FirstLabel, Ops, Body
<1>2. ASSUME NEW w \in Requests, PutGetNamespace(w) \/ PutCreateNamespace(w) PROVE Stays
  BY <1>2 DEF PutGetNamespace, PutCreateNamespace
<1>3. ASSUME NEW w \in Requests, PutGetResource(w) PROVE Stays
  BY <1>3 DEF PutGetResource, AfterResource
<1>4. ASSUME NEW w \in Requests, PutCreateResource(w) PROVE Stays
  BY <1>4 DEF PutCreateResource, AfterResource
<1>5. ASSUME NEW w \in Requests, PutUpdateType(w) PROVE Stays
  BY <1>5 DEF PutUpdateType, AfterResource
<1>6. ASSUME NEW w \in Requests, PutReadMax(w) PROVE PutReadMax(u) \/ Stays
  BY <1>6 DEF PutReadMax
<1>7. ASSUME NEW w \in Requests, PutCreateKey(w) \/ PutInsertVersion(w) PROVE Stays
  BY <1>7 DEF PutCreateKey, PutInsertVersion
<1>8. ASSUME NEW w \in Requests, DelFind(w) \/ GetFind(w) \/ ListFind(w) PROVE Stays
  BY <1>8 DEF DelFind, GetFind, ListFind
<1>9. ASSUME NEW w \in Requests, DelExec(w) \/ ListRows(w) PROVE Stays
  BY <1>9 DEF DelExec, ListRows
<1>10. ASSUME NEW w \in Requests, GetValue(w) \/ UuidFind(w) PROVE Stays
  BY <1>10 DEF GetValue, UuidFind, Fetched
<1>11. ASSUME NEW w \in Requests, GetOpen(w) \/ UuidResource(w) PROVE Stays
  BY <1>11 DEF GetOpen, UuidResource
<1>12. ASSUME NEW w \in Requests,
              NsCreateFind(w) \/ NsCreateInsert(w) \/ NsDeleteList(w) \/ NsDeleteExec(w)
       PROVE  Stays
  BY <1>12 DEF NsCreateFind, NsCreateInsert, NsDeleteList, NsDeleteExec
<1>13. ASSUME NEW w \in Requests,
              \/ WriteAudit(w) \/ Refuse(w) \/ NsCreateFindFails(w)
              \/ WriteAuditFails(w) \/ Fail(w)
       PROVE  Stays
  BY <1>13 DEF WriteAudit, Refuse, NsCreateFindFails, WriteAuditFails, Fail
<1>14. CASE Redeploy \/ Terminated \/ UNCHANGED vars
  BY <1>14 DEF Redeploy, Terminated, vars
<1>15. QED
  BY <1>1, <1>2, <1>3, <1>4, <1>5, <1>6, <1>7, <1>8, <1>9, <1>10, <1>11, <1>12, <1>13,
     <1>14 DEF Next, Step

\* An id that has been given out and whose resource is gone stays dead.
LEMMA ResourceNotReborn ==
    ASSUME TypeOK, FreshIds, [Next]_vars,
           NEW rid \in Nat, rid <= resSeq, ResExists(rid)'
    PROVE  ResExists(rid)
<1> USE DEF ResExists, TypeOK
<1>1. ASSUME NEW w \in Requests, PutCreateResource(w) PROVE ResExists(rid)
  BY <1>1 DEF PutCreateResource
<1>2. ASSUME NEW w \in Requests, PutUpdateType(w) PROVE ResExists(rid)
  BY <1>2, SetTypeKeepsIds DEF PutUpdateType
<1>3. ASSUME NEW w \in Requests, DelExec(w) PROVE ResExists(rid)
  BY <1>3 DEF DelExec
<1>4. ASSUME NEW w \in Requests,
             \/ PutCreateNamespace(w) \/ PutInsertVersion(w)
             \/ NsCreateInsert(w) \/ NsDeleteExec(w)
      PROVE  ResExists(rid)
  BY <1>4 DEF PutCreateNamespace, PutInsertVersion, NsCreateInsert, NsDeleteExec
<1>5. CASE UNCHANGED <<namespaces, resources, versions, nsSeq, resSeq>>
  BY <1>5
<1>6. QED
  BY <1>1, <1>2, <1>3, <1>4, <1>5, OtherStepsKeepTables DEF TableChange

\* A version row goes away only with its resource.
LEMMA VersionSurvives ==
    ASSUME TypeOK, [Next]_vars, NEW v \in versions
    PROVE  v \in versions' \/ ~ResExists(v.rid)'
<1>1. ASSUME NEW w \in Requests, DelExec(w) PROVE v \in versions' \/ ~ResExists(v.rid)'
  BY <1>1 DEF DelExec, RemoveVersions, ResExists
<1>2. ASSUME NEW w \in Requests,
             \/ PutCreateNamespace(w) \/ PutCreateResource(w) \/ PutUpdateType(w)
             \/ PutInsertVersion(w) \/ NsCreateInsert(w) \/ NsDeleteExec(w)
      PROVE  v \in versions'
  BY <1>2 DEF PutCreateNamespace, PutCreateResource, PutUpdateType, PutInsertVersion,
              NsCreateInsert, NsDeleteExec
<1>3. CASE UNCHANGED <<namespaces, resources, versions, nsSeq, resSeq>>
  BY <1>3
<1>4. QED
  BY <1>1, <1>2, <1>3, OtherStepsKeepTables DEF TableChange

LEMMA StaleMaxStep ==
    ASSUME TypeOK, FreshIds, HistoryGapFree, StaleMaxIsTaken, [Next]_vars
    PROVE  StaleMaxIsTaken'
<1> SUFFICES ASSUME NEW w \in Requests, pc'[w] = "put.insert", ResExists(loc[w].rid)',
                    NEW n \in 1 .. loc'[w].max
             PROVE  \E u \in versions' : u.rid = loc'[w].rid /\ u.version = n
  BY DEF StaleMaxIsTaken
<1>1. CASE pc[w] = "put.insert" /\ loc'[w] = loc[w]
  <2>1. ResExists(loc[w].rid)
    BY <1>1, ResourceNotReborn DEF FreshIds, TypeOK, Locals, ResExists
  <2>2. PICK u \in versions : u.rid = loc[w].rid /\ u.version = n
    BY <1>1, <2>1 DEF StaleMaxIsTaken
  <2>3. u \in versions'
    BY <1>1, <2>2, VersionSurvives DEF ResExists
  <2>4. QED
    BY <1>1, <2>2, <2>3
<1>2. CASE PutReadMax(w)
  <2>1. /\ versions' = versions
        /\ loc'[w].rid = loc[w].rid
        /\ IsMaxVersion(loc'[w].max, loc[w].rid)
        /\ loc'[w].max \in Nat
    BY <1>2 DEF PutReadMax, tables, TypeOK, Locals, VerRow
  <2>2. PICK v \in versions : v.rid = loc[w].rid /\ v.version = loc'[w].max
    BY <2>1 DEF IsMaxVersion, VersionsOf
  <2>3. QED
    BY <2>1, <2>2 DEF HistoryGapFree, GapFree
<1>3. QED
  BY <1>1, <1>2, InsertFollowsReadMax

LEMMA HistoryStep ==
    ASSUME TypeOK, ReferentialIntegrity', HistoryGapFree, StaleMaxIsTaken, [Next]_vars
    PROVE  HistoryGapFree'
<1> SUFFICES ASSUME NEW v \in versions'
             PROVE  /\ v.version >= 1
                    /\ \A n \in 1 .. v.version :
                         \E u \in versions' : u.rid = v.rid /\ u.version = n
  BY DEF HistoryGapFree, GapFree
<1>1. CASE v \in versions
  <2>1. ResExists(v.rid)'
    BY DEF ReferentialIntegrity
  <2>2. ASSUME NEW n \in 1 .. v.version
        PROVE  \E u \in versions' : u.rid = v.rid /\ u.version = n
    <3>1. PICK u \in versions : u.rid = v.rid /\ u.version = n
      BY <1>1 DEF HistoryGapFree, GapFree
    <3>2. QED
      BY <2>1, <3>1, VersionSurvives
  <2>3. QED
    BY <1>1, <2>2 DEF HistoryGapFree, GapFree
<1>2. CASE v \notin versions
  <2>1. PICK w \in Requests : PutInsertVersion(w)
    <3>1. ASSUME NEW w \in Requests,
                 \/ PutCreateNamespace(w) \/ PutCreateResource(w) \/ PutUpdateType(w)
                 \/ DelExec(w) \/ NsCreateInsert(w) \/ NsDeleteExec(w)
          PROVE  FALSE
      BY <1>2, <3>1 DEF PutCreateNamespace, PutCreateResource, PutUpdateType, DelExec,
                        RemoveVersions, NsCreateInsert, NsDeleteExec
    <3>2. QED
      BY <1>2, <3>1, OtherStepsKeepTables DEF TableChange
  <2>2. /\ pc[w] = "put.insert" /\ ResExists(loc[w].rid)
        /\ v.rid = loc[w].rid /\ v.version = loc[w].max + 1
        /\ versions \subseteq versions'
    BY <1>2, <2>1 DEF PutInsertVersion, StoredVersion, NextVersion
  <2>3. loc[w].max \in Nat
    BY DEF TypeOK, Locals
  <2>4. ASSUME NEW n \in 1 .. v.version
        PROVE  \E u \in versions' : u.rid = v.rid /\ u.version = n
    <3>1. CASE n = v.version
      BY <3>1
    <3>2. CASE n # v.version
      <4>1. n \in 1 .. loc[w].max
        BY <2>2, <2>3, <3>2
      <4>2. QED
        BY <2>2, <4>1 DEF StaleMaxIsTaken
    <3>3. QED
      BY <3>1, <3>2
  <2>5. QED
    BY <2>2, <2>3, <2>4
<1>3. QED
  BY <1>1, <1>2

\* TablesInv is inductive, and holds of the empty database.
LEMMA TablesInductive == Spec => []TablesInv
<1>1. Init => TablesInv
  <2>1. Init => FreshIds /\ ReferentialIntegrity /\ StaleMaxIsTaken /\ HistoryGapFree
    BY DEF Init, FreshIds, ReferentialIntegrity, StaleMaxIsTaken, HistoryGapFree, GapFree
  <2>2. QED
    BY <2>1, TypeInit DEF TablesInv
<1>2. TablesInv /\ [Next]_vars => TablesInv'
  BY TypeStep, IdsStep, ReferentialStep, StaleMaxStep, HistoryStep DEF TablesInv
<1>3. QED
  BY <1>1, <1>2, PTL DEF Spec

\* However PUTs, DELETEs and namespace operations interleave and fail, no
\* resource is left without its namespace and no version without its resource.
THEOREM ReferencesHold == Spec => []ReferentialIntegrity
<1>1. TablesInv => ReferentialIntegrity
  BY DEF TablesInv
<1>2. QED
  BY <1>1, TablesInductive, PTL

\* CreateResourceValue never leaves a hole in a history, although the maximum
\* it adds one to may be stale by the time of its INSERT.
THEOREM HistoriesHaveNoHoles == Spec => []HistoryGapFree
<1>1. TablesInv => HistoryGapFree
  BY DEF TablesInv
<1>2. QED
  BY <1>1, TablesInductive, PTL

\* No statement of any handler changes a version row or removes one while its
\* resource exists.
THEOREM VersionsNeverChange == Spec => VersionsImmutable
<1>1. TypeOK /\ [Next]_vars => [\A v \in versions : v \in versions' \/ ~ResExists(v.rid)']_vars
  BY VersionSurvives
<1>2. QED
  BY <1>1, TypeCorrect, PTL DEF Spec, VersionsImmutable
=============================================================================
