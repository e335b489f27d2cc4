----------------------- MODULE ResourceHandlerProofs -----------------------
(***************************************************************************)
(* What the handlers of ResourceStore read, write and answer, proved for   *)
(* any requests, names, bodies, keys and bounds.                           *)
(***************************************************************************)
EXTENDS ResourceStoreProofs

-----------------------------------------------------------------------------
(* The inductive invariant. *)

Reads == {"get", "getVersion", "getByUUID", "getByVersionUUID"}

\* A handler is at a statement of its own endpoint.
PlaceOK(w) ==
    LET op == body[w].op
    IN /\ pc[w] \in {"put.ns", "put.mkns", "put.find", "put.mkres", "put.settype",
                     "put.key", "put.max", "put.insert"} => op = "put"
       /\ pc[w] \in {"del.find", "del.exec"} => op = "delete"
       /\ pc[w] \in {"get.find", "get.value"} => op \in Reads \ {"getByUUID"}
       /\ pc[w] = "get.open" => op \in Reads
       /\ pc[w] \in {"uuid.find", "uuid.res"} => op = "getByUUID"
       /\ pc[w] \in {"lst.find", "lst.rows"} => op = "listVersions"
       /\ pc[w] \in {"nsc.find", "nsc.insert"} => op = "nsCreate"
       /\ pc[w] \in {"nsd.list", "nsd.exec"} => op = "nsDelete"
       /\ reply[w].status = "ok" \/ w \in audit => pc[w] = "done"

\* Ids are primary keys.
UniqueIds ==
    /\ \A x, y \in namespaces : x.id = y.id => x = y
    /\ \A r, q \in resources : r.id = q.id => r = q

\* The rows a handler has found, while they exist, have the names of its request.
TargetOK(w) ==
    /\ \A x \in namespaces : x.id = loc[w].nsId => x.name = body[w].ns
    /\ \A r \in resources : r.id = loc[w].rid =>
         /\ r.name = body[w].name
         /\ \A x \in namespaces : x.id = r.nsId => x.name = body[w].ns

\* The key row is there before the version that needs it.
KeyOK(w) ==
    pc[w] \in {"put.max", "put.insert"} /\ body[w].type = "encrypted" =>
        \E k \in keys : k.id = w /\ k.dek = w

\* What a version row says of the request that wrote it.
WrittenBy(v) ==
    /\ body[v.uuid].op = "put" /\ v.data.text = v.uuid
    /\ v.alg = "aes-256-gcm" <=> v.data.under # None

VersionOK(v) ==
    /\ WrittenBy(v)
    /\ pc[v.uuid] \in {"audit", "done"} /\ v.rid = loc[v.uuid].rid
    /\ v.alg = "aes-256-gcm" => \E k \in keys : k.id = v.key /\ k.dek = v.data.under

\* A write is in the table, or a DELETE of its name has found its resource.
DurableOK(w) ==
    body[w].op = "put" /\ (pc[w] = "audit" \/ reply[w].status = "ok" \/ w \in audit) =>
        \/ \E v \in versions : v.uuid = w /\ v.rid = loc[w].rid
        \/ \E d \in Requests : /\ body[d].op = "delete" /\ SameTarget(d, w)
                               /\ loc[d].rid = loc[w].rid
                               /\ pc[d] \in {"del.exec", "audit", "done"}

\* What a query has read.
ReadOK(w) ==
    body[w].op \in Reads =>
        /\ \A v \in reply[w].rows :
             /\ WrittenBy(v)
             /\ body[w].op \in {"get", "getVersion"} => SameTarget(v.uuid, w)
             /\ body[w].op \in {"getByUUID", "getByVersionUUID"} => v.uuid = body[w].uuid
        /\ \A b \in reply[w].plain :
             /\ b.under = None /\ body[b.text].op = "put"
             /\ body[w].op \in {"get", "getVersion"} => SameTarget(b.text, w)
             /\ body[w].op \in {"getByUUID", "getByVersionUUID"} => b.text = body[w].uuid

ListOK(w) == body[w].op = "listVersions" => GapFree(reply[w].rows)

HandlersInv ==
    /\ UniqueIds
    /\ \A w \in Requests : PlaceOK(w) /\ TargetOK(w) /\ KeyOK(w) /\ DurableOK(w) /\ ReadOK(w) /\ ListOK(w)
    /\ \A v \in versions : VersionOK(v)

-----------------------------------------------------------------------------
(* What a step does to the handler that takes it, and to the others. *)

Acts(w) ==
    Begin(w) \/ Refuse(w) \/ Step(w) \/ NsCreateFindFails(w) \/ WriteAuditFails(w) \/ Fail(w)

Still(u) ==
    pc'[u] = pc[u] /\ loc'[u] = loc[u] /\ reply'[u] = reply[u] /\ (u \in audit' <=> u \in audit)

\* Requests do not change, and only the handler that runs moves.
LEMMA OthersStill ==
    ASSUME TypeOK, NEW w \in Requests, Acts(w)
    PROVE  body' = body /\ \A u \in Requests : u # w => Still(u)
<1> DEFINE Goal == body' = body /\ \A u \in Requests : u # w => Still(u)
<1> USE DEF TypeOK, Still, Goto, Respond, tables
<1>1. CASE Begin(w) \/ Refuse(w) \/ NsCreateFindFails(w) \/ WriteAuditFails(w) \/ Fail(w)
  BY <1>1 DEF Begin, Refuse, NsCreateFindFails, WriteAuditFails, Fail
<1>2. CASE PutGetNamespace(w)
  BY <1>2 DEF PutGetNamespace
<1>3. CASE PutCreateNamespace(w)
  BY <1>3 DEF PutCreateNamespace
<1>4. CASE PutGetResource(w)
  BY <1>4 DEF PutGetResource
<1>5. CASE PutCreateResource(w)
  BY <1>5 DEF PutCreateResource
<1>6. CASE PutUpdateType(w) \/ PutCreateKey(w) \/ PutInsertVersion(w)
  BY <1>6 DEF PutUpdateType, PutCreateKey, PutInsertVersion
<1>7. CASE PutReadMax(w)
  BY <1>7 DEF PutReadMax
<1>8. CASE DelFind(w) \/ GetFind(w) \/ ListFind(w)
  BY <1>8 DEF DelFind, GetFind, ListFind
<1>9. CASE DelExec(w) \/ ListRows(w)
  BY <1>9 DEF DelExec, ListRows
<1>10. CASE GetValue(w) \/ UuidFind(w)
  BY <1>10 DEF GetValue, UuidFind, Fetched
<1>11. CASE GetOpen(w)
  BY <1>11 DEF GetOpen
<1>12. CASE UuidResource(w)
  BY <1>12 DEF UuidResource
<1>13. CASE NsCreateFind(w) \/ NsCreateInsert(w) \/ NsDeleteList(w) \/ NsDeleteExec(w)
  BY <1>13 DEF NsCreateFind, NsCreateInsert, NsDeleteList, NsDeleteExec
<1>14. CASE WriteAudit(w)
  BY <1>14 DEF WriteAudit
<1>15. QED
  BY <1>1, <1>2, <1>3, <1>4, <1>5, <1>6, <1>7, <1>8, <1>9, <1>10, <1>11, <1>12, <1>13, <1>14 DEF Acts, Step

\* Every step is one of a handler, or changes no table and no handler.
LEMMA StepsAreActs ==
    ASSUME TypeOK, [Next]_vars
    PROVE  \/ \E w \in Requests : Acts(w)
           \/ /\ body' = body /\ pc' = pc /\ loc' = loc /\ reply' = reply /\ audit' = audit
              /\ namespaces' = namespaces /\ resources' = resources /\ versions' = versions
              /\ keys' = keys /\ nsSeq' = nsSeq /\ resSeq' = resSeq
<1>1. CASE Redeploy \/ Terminated \/ UNCHANGED vars
  BY <1>1 DEF Redeploy, Terminated, vars, tables
<1>2. QED
  BY <1>1 DEF Next, Acts

\* Ids are remembered from a lookup by the names of the request, or from an insert.
FindsNamespace(w) == PutGetNamespace(w) /\ \E x \in NsRowsOf(body[w].ns) : loc'[w].nsId = x.id

FindsResource(w) ==
    /\ PutGetResource(w) \/ DelFind(w) \/ GetFind(w) \/ ListFind(w)
    /\ \E r \in ResRowsOf(body[w].ns, body[w].name) : loc'[w].rid = r.id

LEMMA LocMoves ==
    ASSUME TypeOK, NEW w \in Requests, Acts(w)
    PROVE  /\ \/ loc'[w].nsId = loc[w].nsId
              \/ FindsNamespace(w)
              \/ PutCreateNamespace(w) /\ loc'[w].nsId = nsSeq + 1
           /\ \/ loc'[w].rid = loc[w].rid
              \/ FindsResource(w)
              \/ PutCreateResource(w) /\ loc'[w].rid = resSeq + 1
<1> USE DEF TypeOK, Locals, tables
<1>1. ASSUME loc' = loc PROVE loc'[w].nsId = loc[w].nsId /\ loc'[w].rid = loc[w].rid
  BY <1>1
<1>2. CASE Begin(w)
  BY <1>2 DEF Begin
<1>3. CASE PutGetNamespace(w)
  <2>1. CASE loc' = loc
    BY <2>1
  <2>2. CASE \E x \in namespaces : IsFirst(x, NsRowsOf(body[w].ns)) /\ loc' = [loc EXCEPT ![w].nsId = x.id]
    BY <1>3, <2>2 DEF FindsNamespace, IsFirst
  <2>3. QED
    BY <1>3, <2>1, <2>2, Zenon DEF PutGetNamespace
<1>4. CASE PutCreateNamespace(w)
  BY <1>4 DEF PutCreateNamespace
<1>5. ASSUME PutGetResource(w) \/ DelFind(w) \/ GetFind(w) \/ ListFind(w),
             \/ loc' = loc
             \/ \E r \in resources : /\ IsFirst(r, ResRowsOf(body[w].ns, body[w].name))
                                     /\ loc' = [loc EXCEPT ![w].rid = r.id]
      PROVE  loc'[w].nsId = loc[w].nsId /\ (loc'[w].rid = loc[w].rid \/ FindsResource(w))
  <2>1. CASE loc' = loc
    BY <2>1
  <2>2. CASE \E r \in resources : /\ IsFirst(r, ResRowsOf(body[w].ns, body[w].name))
                                  /\ loc' = [loc EXCEPT ![w].rid = r.id]
    BY <1>5, <2>2 DEF FindsResource, IsFirst
  <2>3. QED
    BY <1>5, <2>1, <2>2
<1>6. CASE PutGetResource(w)
  BY <1>5, <1>6, Zenon DEF PutGetResource
<1>7. CASE DelFind(w)
  BY <1>5, <1>7, Zenon DEF DelFind
<1>8. CASE GetFind(w)
  BY <1>5, <1>8, Zenon DEF GetFind
<1>9. CASE ListFind(w)
  BY <1>5, <1>9, Zenon DEF ListFind
<1>10. CASE PutCreateResource(w)
  BY <1>10 DEF PutCreateResource
<1>11. CASE PutReadMax(w)
  BY <1>11 DEF PutReadMax
<1>12. CASE \/ Refuse(w) \/ NsCreateFindFails(w) \/ WriteAuditFails(w) \/ Fail(w) \/ PutUpdateType(w)
            \/ PutCreateKey(w) \/ PutInsertVersion(w) \/ DelExec(w) \/ ListRows(w) \/ GetValue(w)
            \/ UuidFind(w) \/ GetOpen(w) \/ UuidResource(w) \/ NsCreateFind(w) \/ NsCreateInsert(w)
            \/ NsDeleteList(w) \/ NsDeleteExec(w) \/ WriteAudit(w)
  BY <1>1, <1>12 DEF Refuse, NsCreateFindFails, WriteAuditFails, Fail, PutUpdateType, PutCreateKey,
     PutInsertVersion, DelExec, ListRows, GetValue, UuidFind, GetOpen, UuidResource, NsCreateFind,
     NsCreateInsert, NsDeleteList, NsDeleteExec, WriteAudit
<1>13. QED
  BY <1>2, <1>3, <1>4, <1>6, <1>7, <1>8, <1>9, <1>10, <1>11, <1>12 DEF Acts, Step

\* Only the statements of TableChange change the tables of rows with ids.
LEMMA OtherTablesKept ==
    ASSUME NEW w \in Requests, Acts(w)
    PROVE  \/ TableChange(w)
           \/ namespaces' = namespaces /\ resources' = resources /\ versions' = versions
<1> DEFINE Kept == namespaces' = namespaces /\ resources' = resources /\ versions' = versions
<1> USE DEF tables
<1>1. CASE Begin(w) \/ Refuse(w) \/ NsCreateFindFails(w) \/ WriteAuditFails(w) \/ Fail(w)
  BY <1>1 DEF Begin, Refuse, NsCreateFindFails, WriteAuditFails, Fail
<1>2. CASE PutGetNamespace(w) \/ PutGetResource(w) \/ PutCreateKey(w) \/ PutReadMax(w)
  BY <1>2 DEF PutGetNamespace, PutGetResource, PutCreateKey, PutReadMax
<1>3. CASE DelFind(w) \/ GetFind(w) \/ GetValue(w) \/ GetOpen(w)
  BY <1>3 DEF DelFind, GetFind, GetValue, GetOpen
<1>4. CASE UuidFind(w) \/ UuidResource(w) \/ ListFind(w) \/ ListRows(w)
  BY <1>4 DEF UuidFind, UuidResource, ListFind, ListRows
<1>5. CASE NsCreateFind(w) \/ NsDeleteList(w) \/ WriteAudit(w)
  BY <1>5 DEF NsCreateFind, NsDeleteList, WriteAudit
<1>6. QED
  BY <1>1, <1>2, <1>3, <1>4, <1>5 DEF Acts, Step, TableChange

-----------------------------------------------------------------------------
(* Where a handler is. *)

LEMMA PlaceStep ==
    ASSUME TypeOK, NEW w \in Requests, Acts(w), PlaceOK(w)
    PROVE  PlaceOK(w)'
<1>0. body'[w] = body[w] /\ pc \in [Requests -> Labels] /\ reply \in [Requests -> Replies]
  BY OthersStill DEF TypeOK
<1> USE <1>0 DEF PlaceOK, Goto, Respond, Reads, tables
<1>1. CASE Begin(w)
  <2>1. body[w].op \in Ops
    BY DEF TypeOK, Body
  <2>2. QED
    BY <1>1, <2>1 DEF Begin, FirstLabel, Ops
<1>2. CASE Refuse(w) \/ NsCreateFindFails(w) \/ WriteAuditFails(w) \/ Fail(w)
  BY <1>2 DEF Refuse, NsCreateFindFails, WriteAuditFails, Fail, Replies, InFlight
<1>3. CASE PutGetNamespace(w)
  BY <1>3 DEF PutGetNamespace
<1>4. CASE PutCreateNamespace(w)
  BY <1>4 DEF PutCreateNamespace
<1>5. CASE PutGetResource(w)
  BY <1>5 DEF PutGetResource, AfterResource
<1>6. CASE PutCreateResource(w)
  BY <1>6 DEF PutCreateResource, AfterResource
<1>7. CASE PutUpdateType(w)
  BY <1>7 DEF PutUpdateType, AfterResource
<1>8. CASE PutCreateKey(w) \/ PutInsertVersion(w)
  BY <1>8 DEF PutCreateKey, PutInsertVersion
<1>9. CASE PutReadMax(w)
  BY <1>9 DEF PutReadMax
<1>10. CASE DelFind(w) \/ GetFind(w) \/ ListFind(w)
  BY <1>10 DEF DelFind, GetFind, ListFind
<1>11. CASE DelExec(w) \/ ListRows(w)
  BY <1>11 DEF DelExec, ListRows, Replies
<1>12. CASE GetValue(w) \/ UuidFind(w)
  BY <1>12 DEF GetValue, UuidFind, Fetched, Replies
<1>13. CASE GetOpen(w)
  BY <1>13 DEF GetOpen, Replies
<1>14. CASE UuidResource(w)
  BY <1>14 DEF UuidResource
<1>15. CASE NsCreateFind(w) \/ NsCreateInsert(w) \/ NsDeleteList(w) \/ NsDeleteExec(w)
  BY <1>15 DEF NsCreateFind, NsCreateInsert, NsDeleteList, NsDeleteExec
<1>16. CASE WriteAudit(w)
  BY <1>16 DEF WriteAudit
<1>17. QED
  BY <1>1, <1>2, <1>3, <1>4, <1>5, <1>6, <1>7, <1>8, <1>9, <1>10, <1>11, <1>12, <1>13, <1>14, <1>15,
     <1>16 DEF Acts, Step

-----------------------------------------------------------------------------
(* What a handler has found. *)

\* A namespace row is an old one or the one the step inserts.
LEMMA NamespaceRows ==
    ASSUME NEW w \in Requests, Acts(w), NEW x \in namespaces'
    PROVE  \/ x \in namespaces
           \/ /\ PutCreateNamespace(w) \/ NsCreateInsert(w)
              /\ x = [id |-> nsSeq + 1, name |-> body[w].ns]
<1>1. CASE PutCreateNamespace(w) \/ NsCreateInsert(w)
  BY <1>1 DEF PutCreateNamespace, NsCreateInsert, InsertNamespace
<1>2. CASE NsDeleteExec(w)
  BY <1>2 DEF NsDeleteExec
<1>3. CASE PutCreateResource(w) \/ PutUpdateType(w) \/ PutInsertVersion(w) \/ DelExec(w)
  BY <1>3 DEF PutCreateResource, PutUpdateType, PutInsertVersion, DelExec
<1>4. QED
  BY <1>1, <1>2, <1>3, OtherTablesKept DEF TableChange

\* A resource row is an old one, with another type perhaps, or the one the step inserts.
LEMMA ResourceRows ==
    ASSUME TypeOK, NEW w \in Requests, Acts(w), NEW r \in resources'
    PROVE  \/ \E q \in resources : q.id = r.id /\ q.nsId = r.nsId /\ q.name = r.name
           \/ /\ PutCreateResource(w) /\ namespaces' = namespaces
              /\ r = [id |-> resSeq + 1, nsId |-> loc[w].nsId, name |-> body[w].name, type |-> body[w].type]
<1>1. CASE PutCreateResource(w)
  BY <1>1 DEF PutCreateResource
<1>2. CASE PutUpdateType(w)
  <2>1. PICK q \in resources : r = IF q.id = loc[w].rid THEN [q EXCEPT !.type = body[w].type] ELSE q
    BY <1>2 DEF PutUpdateType, SetType
  <2>2. QED
    BY <2>1 DEF TypeOK, ResRow
<1>3. CASE DelExec(w)
  BY <1>3 DEF DelExec
<1>4. CASE PutCreateNamespace(w) \/ PutInsertVersion(w) \/ NsCreateInsert(w) \/ NsDeleteExec(w)
  BY <1>4 DEF PutCreateNamespace, PutInsertVersion, NsCreateInsert, NsDeleteExec
<1>5. QED
  BY <1>1, <1>2, <1>3, <1>4, OtherTablesKept DEF TableChange

LEMMA UniqueIdsStep ==
    ASSUME TypeOK, FreshIds, UniqueIds, NEW w \in Requests, Acts(w)
    PROVE  UniqueIds'
<1>1. ASSUME NEW x \in namespaces', NEW y \in namespaces', x.id = y.id PROVE x = y
  <2>1. \A z \in namespaces : z.id # nsSeq + 1
    BY DEF FreshIds, TypeOK, NsRow
  <2>2. QED
    BY <1>1, <2>1, NamespaceRows DEF UniqueIds
<1>2. ASSUME NEW r \in resources', NEW q \in resources', r.id = q.id PROVE r = q
  <2>1. \A z \in resources : z.id # resSeq + 1
    BY DEF FreshIds, TypeOK, ResRow
  <2>2. CASE PutUpdateType(w)
    <3> DEFINE Up(z) == IF z.id = loc[w].rid THEN [z EXCEPT !.type = body[w].type] ELSE z
    <3>1. PICK r0 \in resources : r = Up(r0)
      BY <2>2 DEF PutUpdateType, SetType
    <3>2. PICK q0 \in resources : q = Up(q0)
      BY <2>2 DEF PutUpdateType, SetType
    <3>3. r0.id = r.id /\ q0.id = q.id
      BY <3>1, <3>2 DEF TypeOK, ResRow
    <3>4. r0 = q0
      BY <1>2, <3>3 DEF UniqueIds
    <3>5. QED
      BY <3>1, <3>2, <3>4
  <2>3. CASE PutCreateResource(w)
    BY <1>2, <2>1, <2>3 DEF PutCreateResource, UniqueIds
  <2>4. CASE resources' \subseteq resources
    BY <1>2, <2>4 DEF UniqueIds
  <2>5. CASE PutCreateNamespace(w) \/ PutInsertVersion(w) \/ NsCreateInsert(w) \/ NsDeleteExec(w) \/ DelExec(w)
    BY <2>4, <2>5 DEF PutCreateNamespace, PutInsertVersion, NsCreateInsert, NsDeleteExec, DelExec
  <2>6. QED
    BY <2>2, <2>3, <2>4, <2>5, OtherTablesKept DEF TableChange
<1>3. QED
  BY <1>1, <1>2 DEF UniqueIds

\* Ids are never given out again, so what a handler has found does not become another row.
LEMMA TargetStep ==
    ASSUME TypeOK, FreshIds, ReferentialIntegrity, UniqueIds,
           NEW w \in Requests, Acts(w), TargetOK(w),
           NEW u \in Requests, TargetOK(u)
    PROVE  TargetOK(u)'
<1>0. body' = body /\ (u # w => loc'[u] = loc[u])
  BY OthersStill DEF Still
<1>1. /\ nsSeq \in Nat /\ resSeq \in Nat
      /\ \A x \in namespaces : x.id # nsSeq + 1
      /\ \A r \in resources : r.id # resSeq + 1 /\ r.nsId # nsSeq + 1
      /\ loc[u].nsId # nsSeq + 1 /\ loc[u].rid # resSeq + 1
  BY DEF FreshIds, ReferentialIntegrity, NsExists, TypeOK, NsRow, ResRow, Locals
<1>2. FindsNamespace(w) \/ FindsResource(w) => namespaces' = namespaces /\ resources' = resources
  BY DEF FindsNamespace, FindsResource, PutGetNamespace, PutGetResource, DelFind, GetFind, ListFind, tables
<1>3. ASSUME NEW x \in namespaces', x.id = loc'[u].nsId PROVE x.name = body[u].ns
  <2>1. CASE loc'[u].nsId = loc[u].nsId
    BY <1>1, <1>3, <2>1, NamespaceRows DEF TargetOK
  <2>2. CASE u = w /\ FindsNamespace(w)
    BY <1>2, <1>3, <2>2 DEF FindsNamespace, NsRowsOf, UniqueIds
  <2>3. CASE u = w /\ PutCreateNamespace(w) /\ loc'[w].nsId = nsSeq + 1
    BY <1>1, <1>3, <2>3, NamespaceRows
  <2>4. QED
    BY <1>0, <2>1, <2>2, <2>3, LocMoves
<1>4. ASSUME NEW r \in resources', r.id = loc'[u].rid
      PROVE  r.name = body[u].name /\ \A x \in namespaces' : x.id = r.nsId => x.name = body[u].ns
  <2>1. CASE loc'[u].rid = loc[u].rid
    <3>1. PICK q \in resources : q.id = r.id /\ q.nsId = r.nsId /\ q.name = r.name
      BY <1>1, <1>4, <2>1, ResourceRows
    <3>2. QED
      BY <1>1, <1>4, <2>1, <3>1, NamespaceRows DEF TargetOK
  <2>2. CASE u = w /\ FindsResource(w)
    <3>1. PICK q \in ResRowsOf(body[w].ns, body[w].name) : loc'[w].rid = q.id
      BY <2>2 DEF FindsResource
    <3>2. r = q
      BY <1>2, <1>4, <2>2, <3>1 DEF ResRowsOf, ResRowsIn, UniqueIds
    <3>3. QED
      BY <1>2, <2>2, <3>1, <3>2 DEF ResRowsOf, ResRowsIn, UniqueIds
  <2>3. CASE u = w /\ PutCreateResource(w) /\ loc'[w].rid = resSeq + 1
    <3>1. /\ namespaces' = namespaces
          /\ r = [id |-> resSeq + 1, nsId |-> loc[w].nsId, name |-> body[w].name, type |-> body[w].type]
      BY <1>1, <1>4, <2>3, ResourceRows
    <3>2. QED
      BY <2>3, <3>1 DEF TargetOK
  <2>4. QED
    BY <1>0, <2>1, <2>2, <2>3, LocMoves
<1>5. QED
  BY <1>0, <1>3, <1>4 DEF TargetOK

\* Two handlers that have found one resource row are about one name.
LEMMA SameRow ==
    ASSUME ReferentialIntegrity, NEW u \in Requests, NEW w \in Requests, TargetOK(u), TargetOK(w),
           loc[u].rid = loc[w].rid, ResExists(loc[w].rid)
    PROVE  SameTarget(u, w)
<1>1. PICK r \in resources : r.id = loc[w].rid
  BY DEF ResExists
<1>2. PICK x \in namespaces : x.id = r.nsId
  BY DEF ReferentialIntegrity, NsExists
<1>3. QED
  BY <1>1, <1>2 DEF TargetOK, SameTarget

-----------------------------------------------------------------------------
(* Keys and versions. *)

LEMMA KeysGrow ==
    ASSUME NEW w \in Requests, Acts(w)
    PROVE  keys \subseteq keys'
<1> USE DEF tables
<1>1. CASE Begin(w) \/ Refuse(w) \/ NsCreateFindFails(w) \/ WriteAuditFails(w) \/ Fail(w)
  BY <1>1 DEF Begin, Refuse, NsCreateFindFails, WriteAuditFails, Fail
<1>2. CASE \/ PutGetNamespace(w) \/ PutCreateNamespace(w) \/ PutGetResource(w) \/ PutCreateResource(w)
           \/ PutUpdateType(w) \/ PutCreateKey(w) \/ PutReadMax(w) \/ PutInsertVersion(w)
  BY <1>2 DEF PutGetNamespace, PutCreateNamespace, PutGetResource, PutCreateResource, PutUpdateType,
     PutCreateKey, PutReadMax, PutInsertVersion
<1>3. CASE DelFind(w) \/ DelExec(w) \/ GetFind(w) \/ GetValue(w) \/ GetOpen(w) \/ UuidFind(w) \/ UuidResource(w)
  BY <1>3 DEF DelFind, DelExec, GetFind, GetValue, GetOpen, UuidFind, UuidResource
<1>4. CASE \/ ListFind(w) \/ ListRows(w) \/ NsCreateFind(w) \/ NsCreateInsert(w) \/ NsDeleteList(w)
           \/ NsDeleteExec(w) \/ WriteAudit(w)
  BY <1>4 DEF ListFind, ListRows, NsCreateFind, NsCreateInsert, NsDeleteList, NsDeleteExec, WriteAudit
<1>5. QED
  BY <1>1, <1>2, <1>3, <1>4 DEF Acts, Step

\* An encrypted PUT gets past its key only with the key row in place.
LEMMA KeyStep ==
    ASSUME TypeOK, NEW w \in Requests, Acts(w), KeyOK(w)
    PROVE  KeyOK(w)'
<1>0. body'[w] = body[w] /\ pc \in [Requests -> Labels] /\ keys \subseteq keys'
  BY OthersStill, KeysGrow DEF TypeOK
<1> DEFINE Past == pc'[w] \in {"put.max", "put.insert"} /\ body[w].type = "encrypted"
<1> USE <1>0 DEF Goto, Respond, tables
<1>1. CASE Begin(w)
  <2>1. body[w].op \in Ops
    BY DEF TypeOK, Body
  <2>2. ~Past
    BY <1>1, <2>1 DEF Begin, FirstLabel, Ops
  <2>3. QED
    BY <2>2 DEF KeyOK
<1>2. CASE PutGetResource(w) \/ PutCreateResource(w) \/ PutUpdateType(w)
  <2>1. ~Past
    BY <1>2 DEF PutGetResource, PutCreateResource, PutUpdateType, AfterResource
  <2>2. QED
    BY <2>1 DEF KeyOK
<1>3. CASE PutCreateKey(w)
  <2>1. CASE Respond(w, "error")
    BY <2>1 DEF KeyOK
  <2>2. CASE keys' = keys \cup {[id |-> w, dek |-> w, kek |-> loc[w].kek]}
    <3>1. [id |-> w, dek |-> w, kek |-> loc[w].kek] \in keys'
      BY <2>2
    <3>2. QED
      BY <3>1 DEF KeyOK
  <2>3. QED
    BY <1>3, <2>1, <2>2 DEF PutCreateKey
<1>4. CASE PutReadMax(w)
  <2>1. pc[w] = "put.max"
    BY <1>4 DEF PutReadMax
  <2>2. QED
    BY <2>1 DEF KeyOK
<1>5. CASE \/ Refuse(w) \/ NsCreateFindFails(w) \/ WriteAuditFails(w) \/ Fail(w) \/ PutGetNamespace(w)
           \/ PutCreateNamespace(w) \/ PutInsertVersion(w)
  <2>1. ~Past
    BY <1>5 DEF Refuse, NsCreateFindFails, WriteAuditFails, Fail, PutGetNamespace, PutCreateNamespace, PutInsertVersion
  <2>2. QED
    BY <2>1 DEF KeyOK
<1>6. CASE \/ DelFind(w) \/ DelExec(w) \/ GetFind(w) \/ GetValue(w) \/ GetOpen(w) \/ UuidFind(w) \/ UuidResource(w)
  <2>1. ~Past
    BY <1>6 DEF DelFind, DelExec, GetFind, GetValue, GetOpen, UuidFind, UuidResource, Fetched
  <2>2. QED
    BY <2>1 DEF KeyOK
<1>7. CASE \/ ListFind(w) \/ ListRows(w) \/ NsCreateFind(w) \/ NsCreateInsert(w) \/ NsDeleteList(w)
           \/ NsDeleteExec(w) \/ WriteAudit(w)
  <2>1. ~Past
    BY <1>7 DEF ListFind, ListRows, NsCreateFind, NsCreateInsert, NsDeleteList, NsDeleteExec, WriteAudit
  <2>2. QED
    BY <2>1 DEF KeyOK
<1>8. QED
  BY <1>1, <1>2, <1>3, <1>4, <1>5, <1>6, <1>7 DEF Acts, Step

\* Once at its DELETE, or past its work, a handler holds to the resource it found.
LEMMA TailStep ==
    ASSUME TypeOK, NEW w \in Requests, Acts(w), pc[w] \in {"del.exec", "audit", "done"}
    PROVE  /\ loc' = loc
           /\ pc[w] = "audit" => pc'[w] = "done" /\ versions' = versions
           /\ \/ pc[w] = "del.exec" /\ pc'[w] \in {"audit", "done"}
              \/ pc[w] = "audit"
<1>1. WriteAudit(w) \/ WriteAuditFails(w) \/ Fail(w) \/ DelExec(w)
  <2>1. ~(Begin(w) \/ Refuse(w) \/ NsCreateFindFails(w))
    BY DEF Begin, Refuse, NsCreateFindFails
  <2>2. ~(\/ PutGetNamespace(w) \/ PutCreateNamespace(w) \/ PutGetResource(w) \/ PutCreateResource(w)
          \/ PutUpdateType(w) \/ PutCreateKey(w) \/ PutReadMax(w) \/ PutInsertVersion(w))
    BY DEF PutGetNamespace, PutCreateNamespace, PutGetResource, PutCreateResource, PutUpdateType,
       PutCreateKey, PutReadMax, PutInsertVersion
  <2>3. ~(DelFind(w) \/ GetFind(w) \/ GetValue(w) \/ GetOpen(w) \/ UuidFind(w) \/ UuidResource(w))
    BY DEF DelFind, GetFind, GetValue, GetOpen, UuidFind, UuidResource
  <2>4. ~(\/ ListFind(w) \/ ListRows(w) \/ NsCreateFind(w) \/ NsCreateInsert(w) \/ NsDeleteList(w) \/ NsDeleteExec(w))
    BY DEF ListFind, ListRows, NsCreateFind, NsCreateInsert, NsDeleteList, NsDeleteExec
  <2>5. QED
    BY <2>1, <2>2, <2>3, <2>4 DEF Acts, Step
<1>2. QED
  BY <1>1 DEF WriteAudit, WriteAuditFails, Fail, DelExec, Goto, Respond, InFlight, TypeOK, tables

\* A version row is an old one or the one the step inserts.
LEMMA VersionRows ==
    ASSUME NEW w \in Requests, Acts(w), NEW v \in versions'
    PROVE  \/ v \in versions
           \/ /\ PutInsertVersion(w) /\ ResExists(loc[w].rid)
              /\ v = StoredVersion(w, loc[w].rid, NextVersion(loc[w].max))
<1>1. CASE PutInsertVersion(w)
  BY <1>1 DEF PutInsertVersion
<1>2. CASE \/ PutCreateNamespace(w) \/ PutCreateResource(w) \/ PutUpdateType(w) \/ DelExec(w)
           \/ NsCreateInsert(w) \/ NsDeleteExec(w)
  BY <1>2 DEF PutCreateNamespace, PutCreateResource, PutUpdateType, DelExec, RemoveVersions,
     NsCreateInsert, NsDeleteExec
<1>3. QED
  BY <1>1, <1>2, OtherTablesKept DEF TableChange

LEMMA VersionStep ==
    ASSUME TypeOK, NEW w \in Requests, Acts(w), PlaceOK(w), KeyOK(w),
           \A v \in versions : VersionOK(v),
           NEW v \in versions'
    PROVE  VersionOK(v)'
<1>0. body' = body /\ keys \subseteq keys' /\ \A u \in Requests : u # w => Still(u)
  BY OthersStill, KeysGrow
<1>1. CASE v \in versions
  <2>1. VersionOK(v) /\ v.uuid \in Requests
    BY <1>1 DEF TypeOK, VerRow
  <2>2. pc'[v.uuid] \in {"audit", "done"} /\ loc'[v.uuid].rid = loc[v.uuid].rid
    <3>1. CASE v.uuid = w
      <4>1. pc[w] \in {"audit", "done"}
        BY <2>1, <3>1 DEF VersionOK
      <4>2. QED
        BY <3>1, <4>1, TailStep
    <3>2. CASE v.uuid # w
      BY <1>0, <2>1, <3>2 DEF VersionOK, Still
    <3>3. QED
      BY <3>1, <3>2
  <2>3. v.alg = "aes-256-gcm" => \E k \in keys' : k.id = v.key /\ k.dek = v.data.under
    BY <1>0, <2>1 DEF VersionOK
  <2>4. WrittenBy(v)'
    BY <1>0, <2>1 DEF VersionOK, WrittenBy
  <2>5. QED
    BY <2>1, <2>2, <2>3, <2>4 DEF VersionOK
<1>2. CASE /\ PutInsertVersion(w) /\ ResExists(loc[w].rid)
           /\ v = StoredVersion(w, loc[w].rid, NextVersion(loc[w].max))
  <2>1. pc[w] = "put.insert" /\ pc'[w] = "audit" /\ loc' = loc
    BY <1>2 DEF PutInsertVersion, Goto, TypeOK
  <2>2. body[w].op = "put"
    BY <2>1 DEF PlaceOK
  <2>3. v.uuid = w /\ v.rid = loc[w].rid /\ v.data.text = w
    BY <1>2 DEF StoredVersion, sealGCM
  <2>4. CASE body[w].type = "encrypted"
    <3>1. v.alg = "aes-256-gcm" /\ v.key = w /\ v.data.under = w
      BY <1>2, <2>4 DEF StoredVersion, sealGCM
    <3>2. \E k \in keys : k.id = w /\ k.dek = w
      BY <2>1, <2>4 DEF KeyOK
    <3>3. QED
      BY <1>0, <2>1, <2>2, <2>3, <3>1, <3>2, StoreAssumption DEF VersionOK, WrittenBy
  <2>5. CASE body[w].type # "encrypted"
    <3>1. v.alg = "undefined" /\ v.data.under = None
      BY <1>2, <2>5 DEF StoredVersion, sealGCM
    <3>2. QED
      BY <1>0, <2>1, <2>2, <2>3, <3>1 DEF VersionOK, WrittenBy
  <2>6. QED
    BY <2>4, <2>5
<1>3. QED
  BY <1>1, <1>2, VersionRows

-----------------------------------------------------------------------------
(* Acknowledged writes. *)

\* The only way of a PUT to its audit row is an INSERT that was let through.
LEMMA PutReachesAudit ==
    ASSUME TypeOK, NEW w \in Requests, Acts(w), PlaceOK(w), body[w].op = "put",
           pc'[w] = "audit" \/ reply'[w].status = "ok" \/ w \in audit'
    PROVE  \/ pc[w] = "audit"
           \/ PutInsertVersion(w) /\ ResExists(loc[w].rid)
<1>0. pc[w] # "done" => reply[w].status # "ok" /\ w \notin audit
  BY DEF PlaceOK
<1> USE <1>0 DEF Goto, Respond, TypeOK, Replies, tables
<1>1. CASE Begin(w)
  BY <1>1 DEF Begin, FirstLabel
<1>2. CASE Refuse(w) \/ Fail(w) \/ WriteAuditFails(w) \/ WriteAudit(w)
  BY <1>2 DEF Refuse, Fail, WriteAuditFails, WriteAudit, InFlight
<1>3. CASE PutGetNamespace(w)
  BY <1>3 DEF PutGetNamespace
<1>4. CASE PutCreateNamespace(w)
  BY <1>4 DEF PutCreateNamespace
<1>5. CASE PutGetResource(w)
  BY <1>5 DEF PutGetResource, AfterResource
<1>6. CASE PutCreateResource(w)
  BY <1>6 DEF PutCreateResource, AfterResource
<1>7. CASE PutUpdateType(w)
  BY <1>7 DEF PutUpdateType, AfterResource
<1>8. CASE PutCreateKey(w) \/ PutInsertVersion(w)
  BY <1>8 DEF PutCreateKey, PutInsertVersion
<1>9. CASE PutReadMax(w)
  BY <1>9 DEF PutReadMax
<1>10. CASE DelFind(w) \/ DelExec(w) \/ GetFind(w) \/ GetValue(w) \/ GetOpen(w) \/ UuidFind(w) \/ UuidResource(w)
  BY <1>10 DEF DelFind, DelExec, GetFind, GetValue, GetOpen, UuidFind, UuidResource, PlaceOK, Reads
<1>11. CASE \/ ListFind(w) \/ ListRows(w) \/ NsCreateFind(w) \/ NsCreateFindFails(w) \/ NsCreateInsert(w)
            \/ NsDeleteList(w) \/ NsDeleteExec(w)
  BY <1>11 DEF ListFind, ListRows, NsCreateFind, NsCreateFindFails, NsCreateInsert, NsDeleteList, NsDeleteExec, PlaceOK
<1>12. QED
  BY <1>1, <1>2, <1>3, <1>4, <1>5, <1>6, <1>7, <1>8, <1>9, <1>10, <1>11 DEF Acts, Step

\* A version row is lost only to the DELETE of its resource.
LEMMA VersionLost ==
    ASSUME NEW w \in Requests, Acts(w), NEW v \in versions, v \notin versions'
    PROVE  DelExec(w) /\ v.rid = loc[w].rid
<1>1. CASE DelExec(w)
  BY <1>1 DEF DelExec, RemoveVersions
<1>2. CASE \/ PutCreateNamespace(w) \/ PutCreateResource(w) \/ PutUpdateType(w) \/ PutInsertVersion(w)
           \/ NsCreateInsert(w) \/ NsDeleteExec(w)
  BY <1>2 DEF PutCreateNamespace, PutCreateResource, PutUpdateType, PutInsertVersion, NsCreateInsert, NsDeleteExec
<1>3. QED
  BY <1>1, <1>2, OtherTablesKept DEF TableChange

\* The two ways a write may stand: in the table, or found by a DELETE of its name.
InTable(w) == \E v \in versions : v.uuid = w /\ v.rid = loc[w].rid

FoundBy(d, w) ==
    /\ body[d].op = "delete" /\ SameTarget(d, w)
    /\ loc[d].rid = loc[w].rid
    /\ pc[d] \in {"del.exec", "audit", "done"}

LEMMA WriteStands ==
    ASSUME TypeOK, ReferentialIntegrity, NEW w \in Requests, Acts(w), PlaceOK(w), TargetOK(w),
           NEW u \in Requests, TargetOK(u), loc'[u] = loc[u],
           InTable(u) \/ \E d \in Requests : FoundBy(d, u)
    PROVE  InTable(u)' \/ \E d \in Requests : FoundBy(d, u)'
<1>0. body' = body /\ \A d \in Requests : d # w => Still(d)
  BY OthersStill
<1>1. ASSUME NEW d \in Requests, FoundBy(d, u) PROVE FoundBy(d, u)'
  <2>1. CASE d = w
    <3>1. pc[w] \in {"del.exec", "audit", "done"}
      BY <1>1, <2>1 DEF FoundBy
    <3>2. loc'[w] = loc[w] /\ pc'[w] \in {"audit", "done"}
      BY <3>1, TailStep
    <3>3. QED
      BY <1>0, <1>1, <2>1, <3>2 DEF FoundBy, SameTarget
  <2>2. CASE d # w
    BY <1>0, <1>1, <2>2 DEF FoundBy, Still, SameTarget
  <2>3. QED
    BY <2>1, <2>2
<1>2. ASSUME NEW v \in versions, v.uuid = u, v.rid = loc[u].rid, v \notin versions'
      PROVE  FoundBy(w, u)'
  <2>1. DelExec(w) /\ v.rid = loc[w].rid
    BY <1>2, VersionLost
  <2>2. pc[w] = "del.exec" /\ pc'[w] = "audit" /\ loc' = loc
    BY <2>1 DEF DelExec, Goto, TypeOK
  <2>3. body[w].op = "delete"
    BY <2>2 DEF PlaceOK
  <2>4. ResExists(loc[u].rid)
    BY <1>2 DEF ReferentialIntegrity
  <2>5. SameTarget(w, u)
    BY <1>2, <2>1, <2>4, SameRow
  <2>6. QED
    BY <1>0, <1>2, <2>1, <2>2, <2>3, <2>5 DEF FoundBy, SameTarget
<1>3. CASE InTable(u)
  BY <1>2, <1>3 DEF InTable
<1>4. QED
  BY <1>1, <1>3

LEMMA DurableStep ==
    ASSUME TypeOK, ReferentialIntegrity, NEW w \in Requests, Acts(w), PlaceOK(w), TargetOK(w),
           NEW u \in Requests, TargetOK(u), DurableOK(u)
    PROVE  DurableOK(u)'
<1>0. body' = body /\ (u # w => Still(u))
  BY OthersStill
<1>1. SUFFICES ASSUME body[u].op = "put", pc'[u] = "audit" \/ reply'[u].status = "ok" \/ u \in audit'
               PROVE  InTable(u)' \/ \E d \in Requests : FoundBy(d, u)'
  BY <1>0 DEF DurableOK, InTable, FoundBy
<1>2. ASSUME pc[u] = "audit" \/ reply[u].status = "ok" \/ u \in audit, loc'[u] = loc[u]
      PROVE  InTable(u)' \/ \E d \in Requests : FoundBy(d, u)'
  <2>1. InTable(u) \/ \E d \in Requests : FoundBy(d, u)
    BY <1>1, <1>2 DEF DurableOK, InTable, FoundBy
  <2>2. QED
    BY <1>2, <2>1, WriteStands
<1>3. CASE u # w
  BY <1>0, <1>1, <1>2, <1>3 DEF Still
<1>4. CASE u = w /\ pc[w] = "audit"
  <2>1. loc' = loc
    BY <1>4, TailStep
  <2>2. QED
    BY <1>2, <1>4, <2>1
<1>5. CASE u = w /\ PutInsertVersion(w) /\ ResExists(loc[w].rid)
  <2>1. loc' = loc /\ StoredVersion(w, loc[w].rid, NextVersion(loc[w].max)) \in versions'
    BY <1>5 DEF PutInsertVersion
  <2>2. QED
    BY <1>5, <2>1 DEF InTable, StoredVersion
<1>6. QED
  BY <1>1, <1>3, <1>4, <1>5, PutReachesAudit

-----------------------------------------------------------------------------
(* What queries read. *)

LEMMA ReplyMoves ==
    ASSUME TypeOK, NEW w \in Requests, Acts(w)
    PROVE  /\ \/ reply'[w].rows = reply[w].rows
              \/ (GetValue(w) \/ UuidFind(w)) /\ \E v \in Candidates(w) : reply'[w].rows = {v}
              \/ ListRows(w) /\ reply'[w].rows = VersionsOf(loc[w].rid)
           /\ \/ reply'[w].plain = reply[w].plain
              \/ GetOpen(w) /\ reply'[w].plain = {decryptValue(rv) : rv \in reply[w].rows}
<1> USE DEF TypeOK, Replies, Goto, Respond, tables
<1>1. CASE \/ Begin(w) \/ Refuse(w) \/ NsCreateFindFails(w) \/ WriteAuditFails(w) \/ Fail(w) \/ WriteAudit(w)
  BY <1>1 DEF Begin, Refuse, NsCreateFindFails, WriteAuditFails, Fail, WriteAudit
<1>2. CASE \/ PutGetNamespace(w) \/ PutCreateNamespace(w) \/ PutGetResource(w) \/ PutCreateResource(w)
           \/ PutUpdateType(w) \/ PutCreateKey(w) \/ PutReadMax(w) \/ PutInsertVersion(w)
  BY <1>2 DEF PutGetNamespace, PutCreateNamespace, PutGetResource, PutCreateResource, PutUpdateType,
     PutCreateKey, PutReadMax, PutInsertVersion
<1>3. CASE DelFind(w) \/ DelExec(w) \/ GetFind(w) \/ UuidResource(w) \/ ListFind(w)
  BY <1>3 DEF DelFind, DelExec, GetFind, UuidResource, ListFind
<1>4. CASE NsCreateFind(w) \/ NsCreateInsert(w) \/ NsDeleteList(w) \/ NsDeleteExec(w)
  BY <1>4 DEF NsCreateFind, NsCreateInsert, NsDeleteList, NsDeleteExec
<1>5. CASE GetValue(w) \/ UuidFind(w)
  <2>1. ASSUME NEW v \in Candidates(w), reply' = [reply EXCEPT ![w].rows = {v}]
        PROVE  reply'[w].rows = {v} /\ reply'[w].plain = reply[w].plain
    BY <2>1
  <2>2. CASE \E v \in Candidates(w) : reply' = [reply EXCEPT ![w].rows = {v}]
    BY <1>5, <2>1, <2>2
  <2>3. CASE reply' = reply \/ Respond(w, "notFound")
    BY <2>3
  <2>4. QED
    BY <1>5, <2>2, <2>3, Zenon DEF GetValue, UuidFind, Fetched
<1>6. CASE ListRows(w)
  BY <1>6 DEF ListRows
<1>7. CASE GetOpen(w)
  BY <1>7 DEF GetOpen
<1>8. QED
  BY <1>1, <1>2, <1>3, <1>4, <1>5, <1>6, <1>7 DEF Acts, Step

\* A candidate belongs to the resource the query names, or has the UUID it asks for.
LEMMA CandidateFits ==
    ASSUME TypeOK, ReferentialIntegrity, NEW w \in Requests, \A u \in Requests : TargetOK(u),
           \A v \in versions : VersionOK(v),
           body[w].op \in Reads, NEW v \in Candidates(w)
    PROVE  /\ WrittenBy(v)
           /\ body[w].op \in {"get", "getVersion"} => SameTarget(v.uuid, w)
           /\ body[w].op \in {"getByUUID", "getByVersionUUID"} => v.uuid = body[w].uuid
<1>1. v \in versions /\ VersionOK(v)
  BY CandidatesType
<1>2. CASE body[w].op \in {"get", "getVersion"}
  <2>1. v.rid = loc[w].rid
    BY <1>2 DEF Candidates, VersionsOf, IsLatest
  <2>2. v.uuid \in Requests /\ loc[v.uuid].rid = loc[w].rid /\ ResExists(loc[w].rid)
    BY <1>1, <2>1 DEF VersionOK, TypeOK, VerRow, ReferentialIntegrity
  <2>3. QED
    BY <1>1, <1>2, <2>2, SameRow DEF VersionOK
<1>3. CASE body[w].op \in {"getByUUID", "getByVersionUUID"}
  BY <1>1, <1>3 DEF Candidates, VersionOK
<1>4. QED
  BY <1>2, <1>3 DEF Reads

LEMMA ReadStep ==
    ASSUME TypeOK, ReferentialIntegrity, NEW w \in Requests, Acts(w), PlaceOK(w),
           \A u \in Requests : TargetOK(u), \A v \in versions : VersionOK(v), ReadOK(w)
    PROVE  ReadOK(w)'
<1>0. body' = body
  BY OthersStill
<1>1. SUFFICES ASSUME body[w].op \in Reads PROVE ReadOK(w)'
  BY <1>0 DEF ReadOK
<1>2. ASSUME NEW v \in reply'[w].rows
      PROVE  /\ WrittenBy(v)
             /\ body[w].op \in {"get", "getVersion"} => SameTarget(v.uuid, w)
             /\ body[w].op \in {"getByUUID", "getByVersionUUID"} => v.uuid = body[w].uuid
  <2>1. CASE reply'[w].rows = reply[w].rows
    BY <1>1, <1>2, <2>1 DEF ReadOK
  <2>2. CASE \E c \in Candidates(w) : reply'[w].rows = {c}
    BY <1>1, <1>2, <2>2, CandidateFits
  <2>3. CASE ListRows(w)
    BY <1>1, <2>3 DEF ListRows, PlaceOK, Reads
  <2>4. QED
    BY <2>1, <2>2, <2>3, ReplyMoves
<1>3. ASSUME NEW b \in reply'[w].plain
      PROVE  /\ b.under = None /\ body[b.text].op = "put"
             /\ body[w].op \in {"get", "getVersion"} => SameTarget(b.text, w)
             /\ body[w].op \in {"getByUUID", "getByVersionUUID"} => b.text = body[w].uuid
  <2>1. CASE reply'[w].plain = reply[w].plain
    BY <1>1, <1>3, <2>1 DEF ReadOK
  <2>2. CASE reply'[w].plain = {decryptValue(rv) : rv \in reply[w].rows}
    <3>1. PICK rv \in reply[w].rows : b = decryptValue(rv)
      BY <1>3, <2>2
    <3>2. /\ WrittenBy(rv)
          /\ body[w].op \in {"get", "getVersion"} => SameTarget(rv.uuid, w)
          /\ body[w].op \in {"getByUUID", "getByVersionUUID"} => rv.uuid = body[w].uuid
      BY <1>1 DEF ReadOK
    <3>3. rv \in VerRow
      BY DEF TypeOK, Replies
    <3>4. b.under = None /\ b.text = rv.data.text
      BY <3>1, <3>2, <3>3 DEF decryptValue, WrittenBy, VerRow, Blob
    <3>5. QED
      BY <3>2, <3>4 DEF WrittenBy
  <2>3. QED
    BY <2>1, <2>2, ReplyMoves
<1>4. QED
  BY <1>0, <1>2, <1>3 DEF ReadOK, WrittenBy, SameTarget

LEMMA ListStep ==
    ASSUME TypeOK, HistoryGapFree, NEW w \in Requests, Acts(w), PlaceOK(w), ListOK(w)
    PROVE  ListOK(w)'
<1>0. body' = body
  BY OthersStill
<1>1. SUFFICES ASSUME body[w].op = "listVersions" PROVE GapFree(reply'[w].rows)
  BY <1>0 DEF ListOK, GapFree
<1>2. CASE reply'[w].rows = reply[w].rows
  BY <1>1, <1>2 DEF ListOK
<1>3. CASE GetValue(w) \/ UuidFind(w)
  BY <1>1, <1>3 DEF GetValue, UuidFind, PlaceOK, Reads
<1>4. CASE reply'[w].rows = VersionsOf(loc[w].rid)
  BY <1>4 DEF HistoryGapFree, GapFree, VersionsOf
<1>5. QED
  BY <1>2, <1>3, <1>4, ReplyMoves

-----------------------------------------------------------------------------
(* The invariant is inductive. *)

LEMMA HandlersInit == Init => HandlersInv
<1> SUFFICES ASSUME Init PROVE HandlersInv
  OBVIOUS
<1>1. UniqueIds /\ \A v \in versions : VersionOK(v)
  BY DEF Init, UniqueIds
<1>2. ASSUME NEW w \in Requests
      PROVE  PlaceOK(w) /\ TargetOK(w) /\ KeyOK(w) /\ DurableOK(w) /\ ReadOK(w) /\ ListOK(w)
  BY DEF Init, PlaceOK, TargetOK, KeyOK, DurableOK, ReadOK, ListOK, GapFree
<1>3. QED
  BY <1>1, <1>2 DEF HandlersInv

\* A handler that does not move keeps what is said of it alone.
LEMMA StillKeeps ==
    ASSUME NEW w \in Requests, Acts(w), NEW u \in Requests, Still(u), body' = body,
           PlaceOK(u), KeyOK(u), ReadOK(u), ListOK(u)
    PROVE  PlaceOK(u)' /\ KeyOK(u)' /\ ReadOK(u)' /\ ListOK(u)'
<1>1. PlaceOK(u)'
  BY DEF Still, PlaceOK
<1>2. KeyOK(u)'
  BY KeysGrow DEF Still, KeyOK
<1>3. ReadOK(u)'
  BY DEF Still, ReadOK, WrittenBy, SameTarget
<1>4. ListOK(u)'
  BY DEF Still, ListOK, GapFree
<1>5. QED
  BY <1>1, <1>2, <1>3, <1>4

LEMMA HandlersStep ==
    ASSUME TablesInv, HandlersInv, [Next]_vars
    PROVE  HandlersInv'
<1> USE DEF TablesInv
<1>1. ASSUME NEW w \in Requests, Acts(w) PROVE HandlersInv'
  <2>0. body' = body /\ \A u \in Requests : u # w => Still(u)
    BY <1>1, OthersStill
  <2>1. /\ UniqueIds /\ \A v \in versions : VersionOK(v)
        /\ \A u \in Requests : PlaceOK(u) /\ TargetOK(u) /\ KeyOK(u) /\ DurableOK(u) /\ ReadOK(u) /\ ListOK(u)
    BY DEF HandlersInv
  <2>2. UniqueIds'
    BY <1>1, <2>1, UniqueIdsStep
  <2>3. \A v \in versions' : VersionOK(v)'
    BY <1>1, <2>1, VersionStep
  <2>4. \A u \in Requests : TargetOK(u)'
    BY <1>1, <2>1, TargetStep
  <2>5. \A u \in Requests : DurableOK(u)'
    BY <1>1, <2>1, DurableStep
  <2>6. PlaceOK(w)' /\ KeyOK(w)' /\ ReadOK(w)' /\ ListOK(w)'
    BY <1>1, <2>1, PlaceStep, KeyStep, ReadStep, ListStep
  <2>7. \A u \in Requests : u # w => PlaceOK(u)' /\ KeyOK(u)' /\ ReadOK(u)' /\ ListOK(u)'
    BY <1>1, <2>0, <2>1, StillKeeps
  <2>8. \A u \in Requests : PlaceOK(u)' /\ KeyOK(u)' /\ ReadOK(u)' /\ ListOK(u)'
    BY <2>6, <2>7
  <2>9. QED
    BY <2>2, <2>3, <2>4, <2>5, <2>8 DEF HandlersInv
<1>2. CASE /\ body' = body /\ pc' = pc /\ loc' = loc /\ reply' = reply /\ audit' = audit
           /\ namespaces' = namespaces /\ resources' = resources /\ versions' = versions
           /\ keys' = keys
  BY <1>2 DEF HandlersInv, UniqueIds, PlaceOK, TargetOK, KeyOK, VersionOK, DurableOK, ReadOK, ListOK,
     WrittenBy, SameTarget, GapFree
<1>3. QED
  BY <1>1, <1>2, StepsAreActs

LEMMA HandlersInductive == Spec => []HandlersInv
<1>1. TablesInv /\ HandlersInv /\ [Next]_vars => HandlersInv'
  BY HandlersStep
<1>2. QED
  BY <1>1, HandlersInit, TablesInductive, PTL DEF Spec

-----------------------------------------------------------------------------
(* The theorems. *)

\* The maximum CreateResourceValue has read may be stale when it inserts, yet every
\* number up to it is still taken while the resource exists.
THEOREM StaleMaximumIsTaken == Spec => []StaleMaxIsTaken
<1>1. TablesInv => StaleMaxIsTaken
  BY DEF TablesInv
<1>2. QED
  BY <1>1, TablesInductive, PTL

\* Every sealed version has the key row that opens it, and no clear one claims a seal,
\* although handleResourcePut writes the key and the version in two transactions.
THEOREM EnvelopesAreWhole == Spec => []EnvelopeIntegrity
<1>1. TablesInv /\ HandlersInv => EnvelopeIntegrity
  BY DEF HandlersInv, VersionOK, WrittenBy, EnvelopeIntegrity, Openable
<1>2. QED
  BY <1>1, TablesInductive, HandlersInductive, PTL

\* An acknowledged or audited PUT is in the table until a DELETE of its own name finds
\* its resource, however many requests interleave and whatever fails.
THEOREM AckedWritesAreDurable == Spec => []AckedWriteDurable
<1>1. HandlersInv => AckedWriteDurable
  BY DEF HandlersInv, DurableOK, AckedWriteDurable
<1>2. QED
  BY <1>1, HandlersInductive, PTL

\* handleGetResource and handleGetByUUID answer clear text some PUT of that very name
\* (or that very version) submitted, although they look up and read in two statements.
THEOREM ReadsAreOfWrites == Spec => []ReadIntegrity
<1>1. HandlersInv => ReadIntegrity
  BY DEF HandlersInv, ReadOK, ReadIntegrity, Reads
<1>2. QED
  BY <1>1, HandlersInductive, PTL

\* handleListVersions never shows a history with a hole.
THEOREM ListingsHaveNoHoles == Spec => []ListingGapFree
<1>1. HandlersInv => ListingGapFree
  BY DEF HandlersInv, ListOK, ListingGapFree
<1>2. QED
  BY <1>1, HandlersInductive, PTL
=============================================================================
