---------------------------- MODULE SerialProofs ----------------------------
(***************************************************************************)
(* What ResourceStore guarantees to clients that take turns: at most one   *)
(* handler is between two statements (MaxInFlight = 1), and any of them    *)
(* may fail half-way, for any requests, names, bodies, keys and faults.    *)
(***************************************************************************)
EXTENDS ResourceHandlerProofs, ResourceStoreRefinement, FiniteSetTheorems, SequenceTheorems

-----------------------------------------------------------------------------
(* The inductive invariant. *)

OneAtATime == \A u, w \in Requests : InFlight(u) /\ InFlight(w) => u = w

\* A name has one row, even where a failed lookup has doubled its namespace.
NamesUnique ==
    \A ns \in NsNames, name \in ResNames : \A r, q \in ResRowsOf(ns, name) : r = q

Writing == {"put.key", "put.max", "put.insert"}

\* What the handler of w has looked up is still so.
TurnOK(w) ==
    /\ pc[w] = "put.mkns" => NsRowsOf(body[w].ns) = {}
    /\ pc[w] = "nsc.insert" /\ faults = 0 => NsRowsOf(body[w].ns) = {}
    /\ pc[w] = "put.mkres" => ResRowsOf(body[w].ns, body[w].name) = {}
    /\ pc[w] \in Writing \cup {"put.settype"} => ResExists(loc[w].rid)
    /\ pc[w] \in Writing =>
         \A r \in resources : r.id = loc[w].rid => r.type = body[w].type
    /\ pc[w] = "put.insert" => IsMaxVersion(loc[w].max, loc[w].rid)
    /\ faults = 0 /\ InFlight(w) => loc[w].kek # NoKEK

IsTop(v, r) == v.rid = r.id /\ \A u \in VersionsOf(r.id) \ {v} : u.version < v.version

TypeFits(v, r) == r.type = "encrypted" <=> v.alg = "aes-256-gcm"

\* The type of a resource is that of its latest version, or of the PUT that is
\* about to write the next one.
TypesFollow ==
    faults = 0 => \A r \in resources : \A v \in versions :
        IsTop(v, r) => \/ TypeFits(v, r)
                       \/ \E w \in Requests : pc[w] \in Writing /\ loc[w].rid = r.id

SerialInv ==
    /\ OneAtATime
    /\ NamesUnique
    /\ NamespaceUnique
    /\ VersionNumbersUnique
    /\ faults = 0 => kek # NoKEK
    /\ \A w \in Requests : TurnOK(w)
    /\ TypesFollow

-----------------------------------------------------------------------------
(* Taking turns. *)

\* While a handler runs no other one begins, and nothing but an early return
\* happens beside it.
LEMMA Alone ==
    ASSUME MaxInFlight = 1, TypeOK, OneAtATime, NEW w \in Requests, Acts(w)
    PROVE  Refuse(w) \/ \A u \in Requests : u # w => ~InFlight(u) /\ ~InFlight(u)'
<1>0. \A u \in Requests : u # w => pc'[u] = pc[u]
  BY OthersStill DEF Still
<1>1. CASE Begin(w)
  <2> DEFINE S == {u \in Requests : InFlight(u)}
  <2>1. SUFFICES ASSUME NEW u \in S PROVE FALSE
    BY <1>0 DEF InFlight
  <2>2. S = {u}
    BY DEF OneAtATime
  <2>3. Cardinality(S) = 1
    BY <2>2, FS_Singleton
  <2>4. QED
    BY <1>1, <2>3 DEF Begin
<1>2. CASE Refuse(w)
  BY <1>2
<1>3. CASE ~Begin(w) /\ ~Refuse(w)
  <2>1. InFlight(w)
    BY <1>3 DEF Acts, Step, InFlight, NsCreateFindFails, WriteAuditFails, Fail, PutGetNamespace,
       PutCreateNamespace, PutGetResource, PutCreateResource, PutUpdateType, PutCreateKey, PutReadMax,
       PutInsertVersion, DelFind, DelExec, GetFind, GetValue, GetOpen, UuidFind, UuidResource, ListFind,
       ListRows, NsCreateFind, NsCreateInsert, NsDeleteList, NsDeleteExec, WriteAudit
  <2>2. QED
    BY <1>0, <2>1 DEF OneAtATime, InFlight
<1>4. QED
  BY <1>1, <1>2, <1>3

LEMMA OneStep ==
    ASSUME MaxInFlight = 1, TypeOK, OneAtATime, NEW w \in Requests, Acts(w)
    PROVE  OneAtATime'
<1>1. CASE Refuse(w)
  <2>1. pc' = [pc EXCEPT ![w] = "done"]
    BY <1>1 DEF Refuse, Respond, Goto
  <2>2. QED
    BY <2>1 DEF OneAtATime, InFlight, TypeOK
<1>2. CASE \A u \in Requests : u # w => ~InFlight(u) /\ ~InFlight(u)'
  BY <1>2 DEF OneAtATime, InFlight
<1>3. QED
  BY <1>1, <1>2, Alone

-----------------------------------------------------------------------------
(* Faults. *)

LEMMA FaultsGrow ==
    ASSUME TypeOK, [Next]_vars, faults' = 0
    PROVE  /\ faults = 0
           /\ kek' = kek
           /\ \A w \in Requests : ~Fail(w) /\ ~NsCreateFindFails(w)
<1> DEFINE Same == faults' = faults /\ kek' = kek
<1>0. faults \in Nat
  BY DEF TypeOK
<1>1. \A w \in Requests : ~Fail(w) /\ ~NsCreateFindFails(w) /\ ~WriteAuditFails(w)
  BY <1>0 DEF Fail, NsCreateFindFails, WriteAuditFails
<1>2. ~Redeploy
  BY <1>0 DEF Redeploy
<1>3. CASE Terminated \/ UNCHANGED vars
  BY <1>1, <1>3 DEF Terminated, vars
<1>4. ASSUME NEW w \in Requests, Begin(w) \/ Refuse(w) PROVE Same
  BY <1>4 DEF Begin, Refuse
<1>5. ASSUME NEW w \in Requests, Step(w) PROVE Same
  <2>1. CASE \/ PutGetNamespace(w) \/ PutCreateNamespace(w) \/ PutGetResource(w) \/ PutCreateResource(w)
             \/ PutUpdateType(w) \/ PutCreateKey(w)
    BY <2>1 DEF PutGetNamespace, PutCreateNamespace, PutGetResource, PutCreateResource, PutUpdateType, PutCreateKey
  <2>2. CASE PutReadMax(w) \/ PutInsertVersion(w) \/ DelFind(w) \/ DelExec(w) \/ GetFind(w)
    BY <2>2 DEF PutReadMax, PutInsertVersion, DelFind, DelExec, GetFind
  <2>3. CASE GetValue(w) \/ GetOpen(w) \/ UuidFind(w) \/ UuidResource(w) \/ ListFind(w) \/ ListRows(w)
    BY <2>3 DEF GetValue, GetOpen, UuidFind, UuidResource, ListFind, ListRows
  <2>4. CASE NsCreateFind(w) \/ NsCreateInsert(w) \/ NsDeleteList(w) \/ NsDeleteExec(w) \/ WriteAudit(w)
    BY <2>4 DEF NsCreateFind, NsCreateInsert, NsDeleteList, NsDeleteExec, WriteAudit
  <2>5. QED
    BY <1>5, <2>1, <2>2, <2>3, <2>4 DEF Step
<1>6. QED
  BY <1>1, <1>2, <1>3, <1>4, <1>5 DEF Next

-----------------------------------------------------------------------------
(* What a handler has looked up stays so until it acts on it. *)

\* UPDATE leaves every row its id and gives the row it is for the new type.
LEMMA SetTypeRows ==
    ASSUME TypeOK, NEW rid, NEW t, resources' = SetType(rid, t)
    PROVE  /\ \A q \in resources : q.id # rid => q \in resources'
           /\ \A q \in resources : q.id = rid => [q EXCEPT !.type = t] \in resources'
           /\ \A r \in resources' : \/ r \in resources /\ r.id # rid
                                    \/ \E q \in resources : q.id = rid /\ r = [q EXCEPT !.type = t]
  BY DEF SetType

\* A handler that is not at one of these statements relies on nothing.
Relies == Writing \cup {"put.mkns", "nsc.insert", "put.mkres", "put.settype"}

LEMMA TurnIdle ==
    ASSUME NEW u \in Requests, pc'[u] \notin Relies, faults' = 0 /\ InFlight(u)' => loc'[u].kek # NoKEK
    PROVE  TurnOK(u)'
  BY DEF Relies, Writing, TurnOK

\* The process of a handler keeps its KEK.
LEMMA KekKept ==
    ASSUME TypeOK, NEW w \in Requests, Acts(w), ~Begin(w)
    PROVE  loc'[w].kek = loc[w].kek
<1> USE DEF TypeOK, Locals, Goto, Respond, tables
<1>1. CASE Refuse(w) \/ NsCreateFindFails(w) \/ WriteAuditFails(w) \/ Fail(w)
  BY <1>1 DEF Refuse, NsCreateFindFails, WriteAuditFails, Fail
<1>2. CASE PutGetNamespace(w) \/ PutCreateNamespace(w)
  BY <1>2 DEF PutGetNamespace, PutCreateNamespace
<1>3. CASE PutGetResource(w) \/ PutCreateResource(w)
  BY <1>3 DEF PutGetResource, PutCreateResource
<1>4. CASE PutUpdateType(w) \/ PutCreateKey(w) \/ PutReadMax(w) \/ PutInsertVersion(w)
  BY <1>4 DEF PutUpdateType, PutCreateKey, PutReadMax, PutInsertVersion
<1>5. CASE DelFind(w) \/ DelExec(w) \/ GetFind(w) \/ ListFind(w)
  BY <1>5 DEF DelFind, DelExec, GetFind, ListFind
<1>6. CASE GetValue(w) \/ GetOpen(w) \/ UuidFind(w) \/ UuidResource(w) \/ ListRows(w)
  BY <1>6 DEF GetValue, GetOpen, UuidFind, UuidResource, ListRows
<1>7. CASE NsCreateFind(w) \/ NsCreateInsert(w) \/ NsDeleteList(w) \/ NsDeleteExec(w) \/ WriteAudit(w)
  BY <1>7 DEF NsCreateFind, NsCreateInsert, NsDeleteList, NsDeleteExec, WriteAudit
<1>8. QED
  BY <1>1, <1>2, <1>3, <1>4, <1>5, <1>6, <1>7 DEF Acts, Step

\* The steps after which a handler relies on what it has read.
Looks(w) ==
    \/ PutGetNamespace(w) \/ PutGetResource(w) \/ PutCreateResource(w) \/ PutUpdateType(w)
    \/ PutCreateKey(w) \/ PutReadMax(w) \/ NsCreateFind(w) \/ NsCreateFindFails(w)

LEMMA OnlyLooksRely ==
    ASSUME TypeOK, NEW w \in Requests, Acts(w), ~Looks(w)
    PROVE  pc'[w] \notin Relies
<1> USE DEF TypeOK, Goto, Respond, Relies, Writing
<1>1. CASE Begin(w)
  BY <1>1 DEF Begin, FirstLabel, Body, Ops
<1>2. CASE Refuse(w) \/ WriteAuditFails(w) \/ Fail(w) \/ WriteAudit(w)
  BY <1>2 DEF Refuse, WriteAuditFails, Fail, WriteAudit
<1>3. CASE PutCreateNamespace(w) \/ PutInsertVersion(w) \/ DelFind(w) \/ DelExec(w)
  BY <1>3 DEF PutCreateNamespace, PutInsertVersion, DelFind, DelExec
<1>4. CASE GetFind(w) \/ GetValue(w) \/ GetOpen(w) \/ UuidFind(w) \/ UuidResource(w)
  BY <1>4 DEF GetFind, GetValue, Fetched, GetOpen, UuidFind, UuidResource
<1>5. CASE ListFind(w) \/ ListRows(w) \/ NsCreateInsert(w) \/ NsDeleteList(w) \/ NsDeleteExec(w)
  BY <1>5 DEF ListFind, ListRows, NsCreateInsert, NsDeleteList, NsDeleteExec
<1>6. QED
  BY <1>1, <1>2, <1>3, <1>4, <1>5 DEF Acts, Step, Looks

LEMMA TurnStep ==
    ASSUME TypeOK, FreshIds, UniqueIds, [Next]_vars, NEW w \in Requests, Acts(w), TurnOK(w), faults = 0 => kek # NoKEK
    PROVE  TurnOK(w)'
<1>0. body' = body /\ pc \in [Requests -> Labels] /\ loc \in [Requests -> Locals]
  BY OthersStill DEF TypeOK
<1>1. faults' = 0 /\ InFlight(w)' => loc'[w].kek # NoKEK
  <2>1. CASE Begin(w)
    BY <1>0, <2>1, FaultsGrow DEF Begin, Locals
  <2>2. CASE ~Begin(w)
    <3>1. ~Refuse(w) => InFlight(w)
      BY <2>2 DEF Acts, Step, InFlight, NsCreateFindFails, WriteAuditFails, Fail, PutGetNamespace,
         PutCreateNamespace, PutGetResource, PutCreateResource, PutUpdateType, PutCreateKey, PutReadMax,
         PutInsertVersion, DelFind, DelExec, GetFind, GetValue, GetOpen, UuidFind, UuidResource, ListFind,
         ListRows, NsCreateFind, NsCreateInsert, NsDeleteList, NsDeleteExec, WriteAudit
    <3>2. Refuse(w) => ~InFlight(w)'
      BY <1>0 DEF Refuse, Respond, Goto, InFlight
    <3>3. QED
      BY <2>2, <3>1, <3>2, FaultsGrow, KekKept DEF TurnOK
  <2>3. QED
    BY <2>1, <2>2
<1> USE <1>0
<1>2. CASE PutGetNamespace(w)
  <2>1. namespaces' = namespaces /\ (pc'[w] = "put.mkns" => NsRowsOf(body[w].ns) = {})
        /\ pc'[w] \in {"put.mkns", "put.find"}
    BY <1>2 DEF PutGetNamespace, Goto, tables
  <2>2. QED
    BY <1>1, <2>1 DEF TurnOK, Writing, NsRowsOf
<1>3. CASE PutGetResource(w)
  <2>0. namespaces' = namespaces /\ resources' = resources
    BY <1>3 DEF PutGetResource, tables
  <2>1. CASE pc'[w] = "put.mkres"
    <3>1. ResRowsOf(body[w].ns, body[w].name) = {}
      BY <1>3, <2>1, AfterResourceType DEF PutGetResource, Goto
    <3>2. QED
      BY <1>1, <2>0, <2>1, <3>1 DEF TurnOK, Writing, ResRowsOf, ResRowsIn
  <2>2. CASE pc'[w] # "put.mkres"
    <3>1. PICK r \in resources : /\ loc' = [loc EXCEPT ![w].rid = r.id]
                                 /\ Goto(w, IF r.type # body[w].type THEN "put.settype" ELSE AfterResource(w))
      BY <1>3, <2>2 DEF PutGetResource, Goto
    <3>2. loc'[w].rid = r.id /\ (pc'[w] = "put.settype" \/ (r.type = body[w].type /\ pc'[w] \in {"put.key", "put.max"}))
      BY <3>1, AfterResourceType DEF Goto, Locals
    <3>3. \A q \in resources : q.id = r.id => q = r
      BY DEF UniqueIds
    <3>4. QED
      BY <1>1, <2>0, <3>2, <3>3 DEF TurnOK, Writing, ResExists
  <2>3. QED
    BY <2>1, <2>2
<1>4. CASE PutCreateResource(w)
  <2>1. CASE pc'[w] = "done"
    BY <1>1, <2>1, TurnIdle DEF Relies, Writing
  <2>2. CASE pc'[w] # "done"
    <3> DEFINE new == [id |-> resSeq + 1, nsId |-> loc[w].nsId, name |-> body[w].name, type |-> body[w].type]
    <3>1. /\ resources' = resources \cup {new}
          /\ loc' = [loc EXCEPT ![w].rid = resSeq + 1]
          /\ pc'[w] \in {"put.key", "put.max"}
      BY <1>4, <2>2, AfterResourceType DEF PutCreateResource, Goto, Respond
    <3>2. loc'[w].rid = resSeq + 1
      BY <3>1 DEF Locals
    <3>3. \A q \in resources : q.id # resSeq + 1
      BY DEF FreshIds, TypeOK, ResRow
    <3>4. ResExists(loc[w].rid)'
      <4>1. new \in resources' /\ new.id = loc'[w].rid
        BY <3>1, <3>2
      <4>2. QED
        BY <4>1 DEF ResExists
    <3>5. \A r \in resources' : r.id = loc'[w].rid => r.type = body[w].type
      BY <3>1, <3>2, <3>3
    <3>6. QED
      BY <1>1, <3>1, <3>4, <3>5 DEF TurnOK, Writing
  <2>3. QED
    BY <2>1, <2>2
<1>5. CASE PutUpdateType(w)
  <2>1. resources' = SetType(loc[w].rid, body[w].type) /\ loc' = loc /\ pc'[w] \in {"put.key", "put.max"}
        /\ ResExists(loc[w].rid)
    BY <1>5, AfterResourceType DEF PutUpdateType, Goto, TurnOK
  <2>2. PICK q \in resources : q.id = loc[w].rid
    BY <2>1 DEF ResExists
  <2>3. q \in ResRow
    BY DEF TypeOK
  <2>4. [q EXCEPT !.type = body[w].type].id = loc[w].rid
    BY <2>2, <2>3 DEF ResRow
  <2>5. ResExists(loc[w].rid)'
    BY <2>1, <2>2, <2>4, SetTypeRows DEF ResExists
  <2>6. ASSUME NEW r \in resources', r.id = loc[w].rid PROVE r.type = body[w].type
    <3>1. PICK p \in resources : p.id = loc[w].rid /\ r = [p EXCEPT !.type = body[w].type]
      BY <2>1, <2>6, SetTypeRows
    <3>2. p \in ResRow
      BY DEF TypeOK
    <3>3. QED
      BY <3>1, <3>2 DEF ResRow
  <2>7. QED
    BY <1>1, <2>1, <2>5, <2>6 DEF TurnOK, Writing
<1>6. CASE PutCreateKey(w)
  <2>1. resources' = resources /\ loc' = loc /\ pc'[w] \in {"put.max", "done"} /\ pc[w] = "put.key"
    BY <1>6 DEF PutCreateKey, Goto, Respond
  <2>2. QED
    BY <1>1, <2>1 DEF TurnOK, Writing, ResExists
<1>7. CASE PutReadMax(w)
  <2>1. resources' = resources /\ versions' = versions /\ pc'[w] = "put.insert" /\ pc[w] = "put.max"
    BY <1>7 DEF PutReadMax, Goto, tables
  <2>2. PICK m \in {0} \cup {v.version : v \in versions} :
          IsMaxVersion(m, loc[w].rid) /\ loc' = [loc EXCEPT ![w].max = m]
    BY <1>7 DEF PutReadMax
  <2>3. loc'[w].max = m /\ loc'[w].rid = loc[w].rid
    BY <2>2 DEF Locals
  <2>4. IsMaxVersion(loc[w].max, loc[w].rid)'
    BY <2>1, <2>2, <2>3 DEF IsMaxVersion, VersionsOf
  <2>5. QED
    BY <1>1, <2>1, <2>3, <2>4 DEF TurnOK, Writing, ResExists
<1>8. CASE NsCreateFind(w)
  <2>1. namespaces' = namespaces /\ (pc'[w] = "nsc.insert" => NsRowsOf(body[w].ns) = {})
        /\ pc'[w] \in {"nsc.insert", "done"}
    BY <1>8 DEF NsCreateFind, Goto, Respond, tables
  <2>2. QED
    BY <1>1, <2>1 DEF TurnOK, Writing, NsRowsOf
<1>9. CASE NsCreateFindFails(w)
  <2>1. pc'[w] = "nsc.insert" /\ faults' # 0
    BY <1>9, FaultsGrow DEF NsCreateFindFails, Goto
  <2>2. QED
    BY <2>1 DEF TurnOK, Writing
<1>10. QED
  BY <1>1, <1>2, <1>3, <1>4, <1>5, <1>6, <1>7, <1>8, <1>9, OnlyLooksRely, TurnIdle DEF Looks

\* A handler that waits while another request is refused.
LEMMA TurnWaits ==
    ASSUME MaxInFlight = 1, TypeOK, OneAtATime, [Next]_vars, NEW w \in Requests, Acts(w),
           NEW u \in Requests, u # w, TurnOK(u)
    PROVE  TurnOK(u)'
<1>0. body' = body /\ Still(u)
  BY OthersStill
<1>1. CASE Refuse(w)
  <2>1. namespaces' = namespaces /\ resources' = resources /\ versions' = versions /\ faults' = faults
    BY <1>1 DEF Refuse, tables
  <2>2. QED
    BY <1>0, <2>1 DEF TurnOK, Still, InFlight, NsRowsOf, ResRowsOf, ResRowsIn, ResExists, IsMaxVersion, VersionsOf
<1>2. CASE ~InFlight(u)'
  BY <1>2, TurnIdle DEF InFlight, Relies, Writing
<1>3. QED
  BY <1>1, <1>2, Alone

-----------------------------------------------------------------------------
(* Names and numbers stay unique. *)

\* A row of a name after a step was one before, or a PUT has just made it.
LEMMA RowsOfName ==
    ASSUME TypeOK, FreshIds, ReferentialIntegrity, NEW w \in Requests, Acts(w), TargetOK(w),
           NEW ns \in NsNames, NEW name \in ResNames, NEW r \in ResRowsOf(ns, name)'
    PROVE  \/ \E q \in ResRowsOf(ns, name) : q.id = r.id
           \/ PutCreateResource(w) /\ r.id = resSeq + 1 /\ body[w].ns = ns /\ body[w].name = name
<1>1. r \in resources' /\ r.name = name
  BY DEF ResRowsOf, ResRowsIn
<1>2. PICK x \in namespaces' : x.id = r.nsId /\ x.name = ns
  BY DEF ResRowsOf, ResRowsIn
<1>3. CASE \E q \in resources : q.id = r.id /\ q.nsId = r.nsId /\ q.name = r.name
  <2>1. PICK q \in resources : q.id = r.id /\ q.nsId = r.nsId /\ q.name = r.name
    BY <1>3
  <2>2. PICK y \in namespaces : y.id = q.nsId
    BY DEF ReferentialIntegrity, NsExists
  <2>3. x.id # nsSeq + 1
    BY <1>2, <2>1, <2>2 DEF FreshIds, TypeOK, NsRow
  <2>4. x \in namespaces
    BY <2>3, NamespaceRows
  <2>5. q \in ResRowsOf(ns, name)
    BY <1>1, <1>2, <2>1, <2>4 DEF ResRowsOf, ResRowsIn
  <2>6. QED
    BY <2>1, <2>5
<1>4. CASE /\ PutCreateResource(w) /\ namespaces' = namespaces
           /\ r = [id |-> resSeq + 1, nsId |-> loc[w].nsId, name |-> body[w].name, type |-> body[w].type]
  BY <1>1, <1>2, <1>4 DEF TargetOK
<1>5. QED
  BY <1>1, <1>3, <1>4, ResourceRows

LEMMA NamesStep ==
    ASSUME TypeOK, FreshIds, ReferentialIntegrity, UniqueIds, NamesUnique,
           NEW w \in Requests, Acts(w), TargetOK(w), TurnOK(w)
    PROVE  NamesUnique'
<1> SUFFICES ASSUME NEW ns \in NsNames, NEW name \in ResNames,
                    NEW r \in ResRowsOf(ns, name)', NEW q \in ResRowsOf(ns, name)'
             PROVE  r = q
  BY DEF NamesUnique
<1>1. r \in resources' /\ q \in resources' /\ UniqueIds'
  BY UniqueIdsStep DEF ResRowsOf, ResRowsIn
<1>2. PutCreateResource(w) => ResRowsOf(body[w].ns, body[w].name) = {}
  BY DEF PutCreateResource, TurnOK
<1>3. r.id = q.id
  BY <1>2, RowsOfName DEF NamesUnique
<1>4. QED
  BY <1>1, <1>3 DEF UniqueIds

LEMMA NamespacesStep ==
    ASSUME TypeOK, [Next]_vars, NamespaceUnique, NEW w \in Requests, Acts(w), TurnOK(w)
    PROVE  NamespaceUnique'
<1> SUFFICES ASSUME faults' = 0, NEW x \in namespaces', NEW y \in namespaces', x.name = y.name
             PROVE  x = y
  BY DEF NamespaceUnique
<1>1. faults = 0
  BY FaultsGrow
<1>2. (PutCreateNamespace(w) \/ NsCreateInsert(w)) => NsRowsOf(body[w].ns) = {}
  BY <1>1 DEF PutCreateNamespace, NsCreateInsert, TurnOK
<1>3. QED
  BY <1>1, <1>2, NamespaceRows DEF NamespaceUnique, NsRowsOf

LEMMA NumbersStep ==
    ASSUME TypeOK, VersionNumbersUnique, NEW w \in Requests, Acts(w), TurnOK(w)
    PROVE  VersionNumbersUnique'
<1> SUFFICES ASSUME NEW u \in versions', NEW v \in versions', u.rid = v.rid, u.version = v.version
             PROVE  u = v
  BY DEF VersionNumbersUnique
<1> DEFINE new == StoredVersion(w, loc[w].rid, NextVersion(loc[w].max))
<1>1. ASSUME PutInsertVersion(w), NEW x \in versions, x.rid = new.rid PROVE x.version # new.version
  <2>1. x.version <= loc[w].max
    BY <1>1 DEF PutInsertVersion, TurnOK, IsMaxVersion, VersionsOf, StoredVersion
  <2>2. x.version \in Nat /\ loc[w].max \in Nat
    BY DEF TypeOK, VerRow, Locals
  <2>3. QED
    BY <2>1, <2>2 DEF StoredVersion, NextVersion
<1>2. QED
  BY <1>1, VersionRows DEF VersionNumbersUnique

-----------------------------------------------------------------------------
(* The type of a resource follows its latest version. *)

Writer(id) == \E u \in Requests : pc[u] \in Writing /\ loc[u].rid = id

\* Without a fault a PUT that has its resource goes on to write its version.
LEMMA WriterStays ==
    ASSUME MaxInFlight = 1, TypeOK, OneAtATime, [Next]_vars, faults' = 0,
           NEW w \in Requests, Acts(w), ~PutInsertVersion(w), TurnOK(w),
           NEW id, Writer(id)
    PROVE  Writer(id)'
<1>0. PICK u \in Requests : pc[u] \in Writing /\ loc[u].rid = id
  BY DEF Writer
<1>1. CASE u # w
  BY <1>0, <1>1, OthersStill DEF Still, Writer
<1>2. CASE u = w
  <2>0. pc \in [Requests -> Labels] /\ loc \in [Requests -> Locals]
    BY DEF TypeOK
  <2>1. loc[w].kek # NoKEK
    BY <1>0, <1>2, FaultsGrow DEF TurnOK, Writing, InFlight
  <2>2. PutCreateKey(w) \/ PutReadMax(w)
    BY <1>0, <1>2, FaultsGrow DEF Acts, Writing, Step, Begin, Refuse, NsCreateFindFails, WriteAuditFails, PutGetNamespace,
       PutCreateNamespace, PutGetResource, PutCreateResource, PutUpdateType, PutInsertVersion, DelFind, DelExec,
       GetFind, GetValue, GetOpen, UuidFind, UuidResource, ListFind, ListRows,
       NsCreateFind, NsCreateInsert, NsDeleteList, NsDeleteExec, WriteAudit
  <2>3. CASE PutCreateKey(w)
    BY <1>0, <1>2, <2>0, <2>1, <2>3 DEF PutCreateKey, Goto, Writing, Writer
  <2>4. CASE PutReadMax(w)
    BY <1>0, <1>2, <2>0, <2>4 DEF PutReadMax, Goto, Writing, Writer, Locals
  <2>5. QED
    BY <2>2, <2>3, <2>4
<1>3. QED
  BY <1>1, <1>2

\* A handler that is not writing is not the writer, and there is no other.
LEMMA NoWriter ==
    ASSUME OneAtATime, NEW w \in Requests, InFlight(w), NEW id, pc[w] \in Writing => loc[w].rid # id
    PROVE  ~Writer(id)
  BY DEF OneAtATime, Writer, Writing, InFlight

LEMMA TypesStep ==
    ASSUME MaxInFlight = 1, TypeOK, FreshIds, ReferentialIntegrity, OneAtATime, [Next]_vars, TypesFollow,
           NEW w \in Requests, Acts(w), TurnOK(w)
    PROVE  TypesFollow'
<1> SUFFICES ASSUME faults' = 0, NEW r \in resources', NEW v \in versions', IsTop(v, r)'
             PROVE  TypeFits(v, r) \/ Writer(r.id)'
  BY DEF TypesFollow, TypeFits, Writer
<1>0. /\ \A q \in resources : \A x \in versions : IsTop(x, q) => TypeFits(x, q) \/ Writer(q.id)
      /\ faults = 0
  BY FaultsGrow DEF TypesFollow, TypeFits, Writer
<1>1. ASSUME r \in resources, VersionsOf(r.id)' = VersionsOf(r.id) PROVE TypeFits(v, r) \/ Writer(r.id)
  <2>1. v \in versions /\ IsTop(v, r)
    BY <1>1 DEF IsTop, VersionsOf
  <2>2. QED
    BY <1>0, <1>1, <2>1
<1>2. CASE PutInsertVersion(w)
  <2> DEFINE new == StoredVersion(w, loc[w].rid, NextVersion(loc[w].max))
  <2>1. /\ resources' = resources /\ versions' = versions \cup {new}
        /\ pc[w] = "put.insert"
    BY <1>2 DEF PutInsertVersion, TurnOK, Writing
  <2>2. new.rid = loc[w].rid /\ new.version = loc[w].max + 1 /\ (new.alg = "aes-256-gcm" <=> body[w].type = "encrypted")
    BY DEF StoredVersion, NextVersion
  <2>3. CASE r.id = loc[w].rid
    <3>1. r.type = body[w].type
      BY <2>1, <2>3 DEF TurnOK, Writing
    <3>2. v = new
      <4>1. SUFFICES ASSUME v # new PROVE FALSE
        OBVIOUS
      <4>2. v \in VersionsOf(loc[w].rid) /\ new.version < v.version
        BY <2>1, <2>2, <2>3, <4>1 DEF IsTop, VersionsOf
      <4>3. v.version <= loc[w].max
        BY <2>1, <4>2 DEF TurnOK, IsMaxVersion
      <4>4. v.version \in Nat /\ loc[w].max \in Nat
        BY <4>2 DEF TypeOK, VerRow, Locals, VersionsOf
      <4>5. QED
        BY <2>2, <4>2, <4>3, <4>4
    <3>3. QED
      BY <2>2, <3>1, <3>2 DEF TypeFits
  <2>4. CASE r.id # loc[w].rid
    <3>1. VersionsOf(r.id)' = VersionsOf(r.id)
      BY <2>1, <2>2, <2>4 DEF VersionsOf
    <3>2. ~Writer(r.id)
      BY <2>1, <2>4, NoWriter DEF InFlight
    <3>3. QED
      BY <1>1, <2>1, <3>1, <3>2
  <2>5. QED
    BY <2>3, <2>4
<1>3. CASE PutUpdateType(w)
  <2>1. /\ resources' = SetType(loc[w].rid, body[w].type) /\ versions' = versions
        /\ pc[w] = "put.settype" /\ loc' = loc /\ pc'[w] \in Writing
    BY <1>3, AfterResourceType DEF PutUpdateType, Goto, TypeOK, Writing
  <2>2. CASE r.id = loc[w].rid
    BY <2>1, <2>2 DEF Writer
  <2>3. CASE r.id # loc[w].rid
    <3>1. r \in resources
      <4>1. SUFFICES ASSUME NEW q \in resources, q.id = loc[w].rid, r = [q EXCEPT !.type = body[w].type] PROVE FALSE
        BY <2>1, SetTypeRows
      <4>2. q \in ResRow
        BY DEF TypeOK
      <4>3. QED
        BY <2>3, <4>1, <4>2 DEF ResRow
    <3>2. VersionsOf(r.id)' = VersionsOf(r.id)
      BY <2>1 DEF VersionsOf
    <3>3. ~Writer(r.id)
      BY <2>1, NoWriter DEF InFlight, Writing
    <3>4. QED
      BY <1>1, <3>1, <3>2, <3>3
  <2>4. QED
    BY <2>2, <2>3
<1>4. ASSUME ~PutInsertVersion(w), r \in resources, VersionsOf(r.id)' = VersionsOf(r.id)
      PROVE  TypeFits(v, r) \/ Writer(r.id)'
  BY <1>1, <1>4, WriterStays
<1>5. CASE PutCreateResource(w)
  <2>1. versions' = versions /\ ~PutInsertVersion(w)
    BY <1>5 DEF PutCreateResource, PutInsertVersion
  <2>2. r \in resources \/ r.id = resSeq + 1
    BY <1>5 DEF PutCreateResource
  <2>3. r.id # resSeq + 1
    <3>1. v.rid = r.id /\ v \in versions
      BY <2>1 DEF IsTop
    <3>2. PICK q \in resources : q.id = v.rid
      BY <3>1 DEF ReferentialIntegrity, ResExists
    <3>3. QED
      BY <3>1, <3>2 DEF FreshIds, TypeOK, ResRow
  <2>4. QED
    BY <1>4, <2>1, <2>2, <2>3 DEF VersionsOf
<1>6. CASE DelExec(w)
  <2>1. r \in resources /\ r.id # loc[w].rid /\ versions' = RemoveVersions(loc[w].rid) /\ ~PutInsertVersion(w)
    BY <1>6 DEF DelExec, PutInsertVersion
  <2>2. VersionsOf(r.id)' = VersionsOf(r.id)
    BY <2>1 DEF VersionsOf, RemoveVersions
  <2>3. QED
    BY <1>4, <2>1, <2>2
<1>7. CASE ~PutInsertVersion(w) /\ resources' = resources /\ versions' = versions
  BY <1>4, <1>7 DEF VersionsOf
<1>8. (PutCreateNamespace(w) \/ NsCreateInsert(w) \/ NsDeleteExec(w)) => resources' = resources /\ versions' = versions
  BY DEF PutCreateNamespace, NsCreateInsert, NsDeleteExec
<1>9. QED
  BY <1>2, <1>3, <1>5, <1>6, <1>7, <1>8, OtherTablesKept DEF TableChange

-----------------------------------------------------------------------------
(* The theorems. *)

LEMMA SerialInit == Init => SerialInv
  BY StoreAssumption DEF Init, SerialInv, OneAtATime, NamesUnique, NamespaceUnique, VersionNumbersUnique, TypesFollow,
     TurnOK, InFlight, Writing, ResRowsOf, ResRowsIn

LEMMA SerialStep ==
    ASSUME MaxInFlight = 1, TablesInv, HandlersInv, SerialInv, [Next]_vars
    PROVE  SerialInv'
<1> USE DEF TablesInv, SerialInv
<1>0. (faults = 0 => kek # NoKEK)'
  BY FaultsGrow
<1>1. ASSUME NEW w \in Requests, Acts(w) PROVE SerialInv'
  <2>1. TargetOK(w) /\ UniqueIds
    BY DEF HandlersInv
  <2>2. OneAtATime' /\ NamesUnique' /\ NamespaceUnique' /\ VersionNumbersUnique' /\ TypesFollow'
    BY <1>1, <2>1, OneStep, NamesStep, NamespacesStep, NumbersStep, TypesStep
  <2>3. \A u \in Requests : TurnOK(u)'
    BY <1>1, <2>1, TurnStep, TurnWaits
  <2>4. QED
    BY <1>0, <2>2, <2>3
<1>2. CASE /\ body' = body /\ pc' = pc /\ loc' = loc
           /\ namespaces' = namespaces /\ resources' = resources /\ versions' = versions
  <2>1. faults' = 0 => faults = 0
    BY FaultsGrow
  <2>2. OneAtATime' /\ NamesUnique' /\ NamespaceUnique' /\ VersionNumbersUnique'
    BY <1>2, <2>1 DEF OneAtATime, InFlight, NamesUnique, ResRowsOf, ResRowsIn, NamespaceUnique, VersionNumbersUnique
  <2>3. \A u \in Requests : TurnOK(u)'
    BY <1>2, <2>1 DEF TurnOK, InFlight, NsRowsOf, ResRowsOf, ResRowsIn, ResExists, IsMaxVersion, VersionsOf
  <2>4. TypesFollow'
    BY <1>2, <2>1 DEF TypesFollow, IsTop, TypeFits, VersionsOf
  <2>5. QED
    BY <1>0, <2>2, <2>3, <2>4
<1>3. QED
  BY <1>1, <1>2, StepsAreActs

LEMMA SerialInductive ==
    ASSUME MaxInFlight = 1
    PROVE  Spec => []SerialInv
<1>1. TablesInv /\ HandlersInv /\ SerialInv /\ [Next]_vars => SerialInv'
  BY SerialStep
<1>2. QED
  BY <1>1, SerialInit, TablesInductive, HandlersInductive, PTL DEF Spec

\* A number names one version of a resource if clients take turns: the maximum that
\* CreateResourceValue has read is then the maximum when it inserts.
THEOREM NumbersNameOneVersion ==
    ASSUME MaxInFlight = 1
    PROVE  Spec => []VersionNumbersUnique
<1>1. SerialInv => VersionNumbersUnique
  BY DEF SerialInv
<1>2. QED
  BY <1>1, SerialInductive, PTL

\* A namespace is created once if clients take turns and no statement failed.
THEOREM NamespacesAreMadeOnce ==
    ASSUME MaxInFlight = 1
    PROVE  Spec => []NamespaceUnique
<1>1. SerialInv => NamespaceUnique
  BY DEF SerialInv
<1>2. QED
  BY <1>1, SerialInductive, PTL

\* handleResourcePut sets the type of the resource before it writes the version; for
\* clients that take turns the two agree once it is done.
THEOREM TypesFollowWrites ==
    ASSUME MaxInFlight = 1
    PROVE  Spec => []TypeFollowsLatestWrite
<1>1. TypeOK /\ HandlersInv /\ SerialInv => TypeFollowsLatestWrite
  <2> SUFFICES ASSUME HandlersInv, SerialInv, faults = 0, \A w \in Requests : body[w].op = "put" => ~InFlight(w),
                      NEW r \in resources, NEW v \in versions, IsTop(v, r)
               PROVE  TypeFits(v, r)
    BY DEF TypeFollowsLatestWrite, IsTop, TypeFits
  <2>1. ~ \E w \in Requests : pc[w] \in Writing /\ loc[w].rid = r.id
    BY DEF HandlersInv, PlaceOK, Writing, InFlight
  <2>2. QED
    BY <2>1 DEF SerialInv, TypesFollow
<1>2. QED
  BY <1>1, SerialInductive, TypeCorrect, HandlersInductive, PTL

\* A query finds a version of a name from the moment a PUT of it was acknowledged, while
\* nobody deletes it: for clients that take turns the name has one row.
THEOREM AckedWritesAreVisible ==
    ASSUME MaxInFlight = 1
    PROVE  Spec => []AckedWriteVisible
<1>1. TablesInv /\ HandlersInv /\ SerialInv => AckedWriteVisible
  <2> SUFFICES ASSUME TablesInv, HandlersInv, SerialInv,
                      NEW w \in Requests, body[w].op = "put", reply[w].status = "ok",
                      \A d \in Requests : body[d].op = "delete" /\ SameTarget(d, w) => pc[d] = "new"
               PROVE  \E r \in resources : /\ IsFirst(r, ResRowsOf(body[w].ns, body[w].name))
                                           /\ VersionsOf(r.id) # {}
    BY DEF AckedWriteVisible
  <2>1. PICK v \in versions : v.uuid = w /\ v.rid = loc[w].rid
    BY DEF HandlersInv, DurableOK
  <2>2. PICK r \in resources : r.id = v.rid
    BY DEF TablesInv, ReferentialIntegrity, ResExists
  <2>3. PICK x \in namespaces : x.id = r.nsId
    BY DEF TablesInv, ReferentialIntegrity, NsExists
  <2>4. r \in ResRowsOf(body[w].ns, body[w].name)
    BY <2>1, <2>2, <2>3 DEF HandlersInv, TargetOK, ResRowsOf, ResRowsIn
  <2>5. body[w].ns \in NsNames /\ body[w].name \in ResNames /\ r.id \in Nat
    BY DEF TablesInv, TypeOK, Body, ResRow
  <2>6. IsFirst(r, ResRowsOf(body[w].ns, body[w].name))
    BY <2>4, <2>5 DEF SerialInv, NamesUnique, IsFirst
  <2>7. QED
    BY <2>1, <2>2, <2>6 DEF VersionsOf
<1>2. QED
  BY <1>1, SerialInductive, TablesInductive, HandlersInductive, PTL

\* For clients that take turns DeleteResource removes the only row of the name.
THEOREM DeletesRemoveTheName ==
    ASSUME MaxInFlight = 1
    PROVE  Spec => DeleteRemovesName
<1> DEFINE Removed(w) ==
      (pc[w] = "del.exec" /\ ResExists(loc[w].rid) /\ ~ResExists(loc[w].rid)')
        => ResRowsOf(body[w].ns, body[w].name)' = {}
<1>1. TablesInv /\ HandlersInv /\ SerialInv /\ [Next]_vars => [\A w \in Requests : Removed(w)]_vars
  <2> SUFFICES ASSUME TablesInv, HandlersInv, SerialInv, [Next]_vars,
                      NEW w \in Requests, pc[w] = "del.exec",
                      ResExists(loc[w].rid), ~ResExists(loc[w].rid)',
                      NEW r \in ResRowsOf(body[w].ns, body[w].name)'
               PROVE  FALSE
    OBVIOUS
  <2> USE DEF TablesInv
  <2>1. PICK q \in resources : q.id = loc[w].rid
    BY DEF ResExists
  <2>2. PICK u \in Requests : Acts(u)
    BY <2>1, StepsAreActs DEF ResExists
  <2>3. PICK x \in namespaces : x.id = q.nsId
    BY DEF ReferentialIntegrity, NsExists
  <2>4. q \in ResRowsOf(body[w].ns, body[w].name)
    BY <2>1, <2>3 DEF HandlersInv, TargetOK, ResRowsOf, ResRowsIn
  <2>5. Acts(w)
    <3>1. SUFFICES ASSUME Refuse(u), u # w PROVE FALSE
      BY <2>2, Alone DEF SerialInv, InFlight
    <3>2. resources' = resources /\ loc' = loc
      BY <3>1 DEF Refuse, tables
    <3>3. QED
      BY <3>2 DEF ResExists
  <2>6. body' = body /\ loc' = loc
    BY <2>5, OthersStill, TailStep
  <2>7. body[w].ns \in NsNames /\ body[w].name \in ResNames
    BY DEF TypeOK, Body
  <2>8. r \in ResRowsOf(body[w].ns, body[w].name)'
    OBVIOUS
  <2>9. \E p \in ResRowsOf(body[w].ns, body[w].name) : p.id = r.id
    <3>1. PICK ns \in NsNames, name \in ResNames : ns = body[w].ns /\ name = body[w].name
      BY <2>7
    <3>2. r \in ResRowsOf(ns, name)'
      BY <2>6, <2>8, <3>1 DEF ResRowsOf, ResRowsIn
    <3>3. ~PutCreateResource(w)
      BY DEF PutCreateResource
    <3>4. \E p \in ResRowsOf(ns, name) : p.id = r.id
      BY <2>5, <3>2, <3>3, RowsOfName DEF HandlersInv
    <3>5. QED
      BY <3>1, <3>4
  <2>10. r.id = loc[w].rid
    BY <2>1, <2>4, <2>7, <2>9 DEF SerialInv, NamesUnique
  <2>11. QED
    BY <2>6, <2>10 DEF ResExists, ResRowsOf, ResRowsIn
<1>2. QED
  BY <1>1, SerialInductive, TablesInductive, HandlersInductive, PTL DEF Spec, DeleteRemovesName

-----------------------------------------------------------------------------
(* The handlers implement VersionedStore: what a reader has found stays so. *)

\* What a query, a listing or a deletion has looked up is still so, and a
\* response is empty until there is something to say.
ReadTurn(w) ==
    /\ pc[w] \in {"del.exec", "get.value", "lst.rows"} => ResExists(loc[w].rid)
    /\ pc[w] = "get.open" /\ body[w].op # "getByUUID" => ResExists(loc[w].rid)
    /\ pc[w] = "get.open" =>
         \/ reply[w].rows = {} /\ Candidates(w) = {} /\ body[w].op = "get"
         \/ \E v \in Candidates(w) : reply[w].rows = {v}
    /\ pc[w] = "uuid.res" => \E v \in Candidates(w) : reply[w].rows = {v}
    /\ pc[w] = "nsd.exec" => ResRowsIn(body[w].ns) = {}
    /\ pc[w] \notin {"get.open", "uuid.res", "audit", "done"} => reply[w].rows = {}
    /\ pc[w] \notin {"audit", "done"} => reply[w].plain = {}

Silent == {"new", "put.ns", "put.mkns", "put.find", "put.mkres", "put.settype", "put.key", "put.max",
           "put.insert", "del.find", "get.find", "uuid.find", "lst.find", "nsc.find", "nsc.insert", "nsd.list"}

LEMMA ReadSilent ==
    ASSUME NEW u \in Requests, ReadTurn(u), pc[u] \in Silent, reply'[u] = reply[u], pc'[u] \in Silent
    PROVE  ReadTurn(u)'
<1>1. reply[u].rows = {} /\ reply[u].plain = {}
  BY DEF ReadTurn, Silent
<1>2. QED
  BY <1>1 DEF ReadTurn, Silent

LEMMA ReadDone ==
    ASSUME NEW u \in Requests, pc'[u] \in {"audit", "done"}
    PROVE  ReadTurn(u)'
  BY DEF ReadTurn

\* The steps of a handler that has nothing to say yet and reads nothing it will.
SilentStep(w) ==
    \/ Begin(w) \/ PutGetNamespace(w) \/ PutCreateNamespace(w) \/ PutGetResource(w)
    \/ PutCreateResource(w) \/ PutUpdateType(w) \/ PutCreateKey(w) \/ PutReadMax(w)
    \/ NsCreateFind(w) \/ NsCreateFindFails(w)

LEMMA SilentSteps ==
    ASSUME TypeOK, NEW w \in Requests, SilentStep(w)
    PROVE  /\ pc[w] \in Silent
           /\ pc'[w] = "done" \/ (pc'[w] \in Silent /\ reply' = reply)
<1> USE DEF TypeOK, Goto, Respond, Silent
<1>1. CASE Begin(w)
  BY <1>1 DEF Begin, FirstLabel, Body, Ops
<1>2. CASE PutGetNamespace(w) \/ PutCreateNamespace(w) \/ PutReadMax(w) \/ NsCreateFind(w) \/ NsCreateFindFails(w)
  BY <1>2 DEF PutGetNamespace, PutCreateNamespace, PutReadMax, NsCreateFind, NsCreateFindFails
<1>3. CASE PutGetResource(w) \/ PutUpdateType(w)
  BY <1>3, AfterResourceType DEF PutGetResource, PutUpdateType
<1>4. CASE PutCreateResource(w) \/ PutCreateKey(w)
  BY <1>4, AfterResourceType DEF PutCreateResource, PutCreateKey
<1>5. QED
  BY <1>1, <1>2, <1>3, <1>4 DEF SilentStep

\* A response fixes what it answers: the request is applied or over.
Settles(w) ==
    \/ Refuse(w) \/ Fail(w) \/ WriteAudit(w) \/ WriteAuditFails(w) \/ PutInsertVersion(w)
    \/ DelExec(w) \/ GetOpen(w) \/ ListRows(w) \/ NsCreateInsert(w) \/ NsDeleteExec(w)

LEMMA SettlesEnds ==
    ASSUME TypeOK, NEW w \in Requests, Settles(w)
    PROVE  pc'[w] \in {"audit", "done"}
<1> USE DEF TypeOK, Goto, Respond
<1>1. CASE Refuse(w) \/ Fail(w) \/ WriteAudit(w) \/ WriteAuditFails(w) \/ PutInsertVersion(w)
  BY <1>1 DEF Refuse, Fail, WriteAudit, WriteAuditFails, PutInsertVersion
<1>2. CASE DelExec(w) \/ GetOpen(w) \/ ListRows(w) \/ NsCreateInsert(w) \/ NsDeleteExec(w)
  BY <1>2 DEF DelExec, GetOpen, ListRows, NsCreateInsert, NsDeleteExec
<1>3. QED
  BY <1>1, <1>2 DEF Settles

\* A lookup by name finds a row, or answers 404.
FindsOrNot(w) == DelFind(w) \/ GetFind(w) \/ ListFind(w)

LEMMA FindSteps ==
    ASSUME TypeOK, NEW w \in Requests, FindsOrNot(w)
    PROVE  /\ UNCHANGED <<namespaces, resources, versions, keys, nsSeq, resSeq>>
           /\ pc[w] \in {"del.find", "get.find", "lst.find"}
           /\ \/ /\ pc'[w] \in {"del.exec", "get.value", "lst.rows"} /\ reply' = reply
                 /\ \E r \in resources : loc'[w].rid = r.id
              \/ /\ pc'[w] = "done" /\ reply' = [reply EXCEPT ![w].status = "notFound"]
                 /\ ResRowsOf(body[w].ns, body[w].name) = {}
<1>0. pc \in [Requests -> Labels] /\ loc \in [Requests -> Locals]
  BY DEF TypeOK
<1> USE <1>0 DEF Goto, Respond, tables, Locals
<1>1. CASE DelFind(w)
  BY <1>1 DEF DelFind
<1>2. CASE GetFind(w)
  BY <1>2 DEF GetFind
<1>3. CASE ListFind(w)
  BY <1>3 DEF ListFind
<1>4. QED
  BY <1>1, <1>2, <1>3 DEF FindsOrNot

LEMMA ReadTurnStep ==
    ASSUME TypeOK, NEW w \in Requests, Acts(w), PlaceOK(w), ReadTurn(w)
    PROVE  ReadTurn(w)'
<1>0. /\ body' = body /\ pc \in [Requests -> Labels] /\ loc \in [Requests -> Locals] /\ reply \in [Requests -> Replies]
  BY OthersStill DEF TypeOK
<1> USE <1>0
<1>1. CASE SilentStep(w)
  BY <1>1, SilentSteps, ReadSilent, ReadDone
<1>2. CASE Settles(w)
  BY <1>2, SettlesEnds, ReadDone
<1>3. CASE FindsOrNot(w)
  <2>1. CASE pc'[w] = "done"
    BY <2>1, ReadDone
  <2>2. CASE pc'[w] # "done"
    <3>1. /\ pc'[w] \in {"del.exec", "get.value", "lst.rows"} /\ reply' = reply /\ resources' = resources
          /\ pc[w] \in {"del.find", "get.find", "lst.find"}
          /\ \E r \in resources : loc'[w].rid = r.id
      BY <1>3, <2>2, FindSteps
    <3>2. reply[w].rows = {} /\ reply[w].plain = {} /\ ResExists(loc[w].rid)'
      BY <3>1 DEF ReadTurn, ResExists
    <3>3. QED
      BY <3>1, <3>2 DEF ReadTurn
  <2>3. QED
    BY <2>1, <2>2
<1>4. CASE GetValue(w)
  <2>1. versions' = versions /\ loc' = loc /\ resources' = resources /\ pc[w] = "get.value"
    BY <1>4 DEF GetValue, tables
  <2>2. Candidates(w)' = Candidates(w)
    BY <2>1 DEF Candidates, VersionsOf, IsLatest
  <2>3. CASE pc'[w] = "done"
    BY <2>3, ReadDone
  <2>4. CASE pc'[w] # "done"
    <3>1. pc'[w] = "get.open" /\ reply'[w].plain = reply[w].plain
      BY <1>4, <2>4 DEF GetValue, Fetched, Goto, Respond, Replies
    <3>2. \/ reply'[w].rows = {} /\ Candidates(w) = {} /\ body[w].op = "get"
          \/ \E v \in Candidates(w) : reply'[w].rows = {v}
      BY <1>4, <2>4, <2>1 DEF GetValue, Fetched, Goto, Respond, Replies, ReadTurn
    <3>3. ResExists(loc[w].rid)'
      BY <2>1 DEF ReadTurn, ResExists
    <3>4. reply'[w].plain = {}
      BY <2>1, <3>1 DEF ReadTurn
    <3>5. QED
      BY <2>2, <3>1, <3>2, <3>3, <3>4 DEF ReadTurn
  <2>5. QED
    BY <2>3, <2>4
<1>5. CASE UuidFind(w)
  <2>1. versions' = versions /\ loc' = loc /\ pc[w] = "uuid.find"
    BY <1>5 DEF UuidFind, tables
  <2>2. Candidates(w)' = Candidates(w)
    BY <2>1 DEF Candidates, VersionsOf, IsLatest
  <2>3. CASE pc'[w] = "done"
    BY <2>3, ReadDone
  <2>4. CASE pc'[w] # "done"
    <3>1. pc'[w] = "uuid.res" /\ reply'[w].plain = reply[w].plain /\ \E v \in Candidates(w) : reply'[w].rows = {v}
      BY <1>5, <2>4 DEF UuidFind, Fetched, Goto, Respond, Replies
    <3>2. reply'[w].plain = {}
      BY <2>1, <3>1 DEF ReadTurn
    <3>3. QED
      BY <2>2, <3>1, <3>2 DEF ReadTurn
  <2>5. QED
    BY <2>3, <2>4
<1>6. CASE UuidResource(w)
  <2>1. versions' = versions /\ loc' = loc /\ pc[w] = "uuid.res"
    BY <1>6 DEF UuidResource, tables
  <2>2. Candidates(w)' = Candidates(w)
    BY <2>1 DEF Candidates, VersionsOf, IsLatest
  <2>3. CASE pc'[w] = "done"
    BY <2>3, ReadDone
  <2>4. CASE pc'[w] # "done"
    <3>1. pc'[w] = "get.open" /\ reply' = reply
      BY <1>6, <2>4 DEF UuidResource, Goto, Respond
    <3>2. reply[w].plain = {} /\ (\E v \in Candidates(w) : reply[w].rows = {v}) /\ body[w].op = "getByUUID"
      BY <2>1 DEF ReadTurn, PlaceOK
    <3>3. QED
      BY <2>2, <3>1, <3>2 DEF ReadTurn
  <2>5. QED
    BY <2>3, <2>4
<1>7. CASE NsDeleteList(w)
  <2>1. namespaces' = namespaces /\ resources' = resources /\ pc[w] = "nsd.list"
    BY <1>7 DEF NsDeleteList, tables
  <2>2. CASE pc'[w] = "done"
    BY <2>2, ReadDone
  <2>3. CASE pc'[w] # "done"
    <3>1. pc'[w] = "nsd.exec" /\ reply' = reply /\ ResRowsIn(body[w].ns) = {}
      BY <1>7, <2>3 DEF NsDeleteList, Goto, Respond
    <3>2. ResRowsIn(body[w].ns)' = {} /\ reply[w].rows = {} /\ reply[w].plain = {}
      BY <2>1, <3>1 DEF ResRowsIn, ReadTurn
    <3>3. QED
      BY <3>1, <3>2 DEF ReadTurn
  <2>4. QED
    BY <2>2, <2>3
<1>8. QED
  BY <1>1, <1>2, <1>3, <1>4, <1>5, <1>6, <1>7 DEF Acts, Step, SilentStep, Settles, FindsOrNot

LEMMA ReadTurnWaits ==
    ASSUME MaxInFlight = 1, TypeOK, OneAtATime, NEW w \in Requests, Acts(w),
           NEW u \in Requests, u # w, ReadTurn(u)
    PROVE  ReadTurn(u)'
<1>0. body' = body /\ Still(u)
  BY OthersStill
<1>1. CASE Refuse(w)
  <2>1. namespaces' = namespaces /\ resources' = resources /\ versions' = versions
    BY <1>1 DEF Refuse, tables
  <2>2. Candidates(u)' = Candidates(u) /\ ResRowsIn(body[u].ns)' = ResRowsIn(body[u].ns)
    BY <1>0, <2>1 DEF Candidates, VersionsOf, IsLatest, ResRowsIn, Still
  <2>3. QED
    BY <1>0, <2>1, <2>2 DEF ReadTurn, Still, ResExists
<1>2. CASE ~InFlight(u)'
  BY <1>0, <1>2, ReadSilent, ReadDone DEF InFlight, Still, Silent
<1>3. QED
  BY <1>1, <1>2, Alone

-----------------------------------------------------------------------------
(* The histories. *)

\* Rows that are numbered from 1 to their count.
Counted(rows) ==
    /\ IsFiniteSet(rows)
    /\ \A v \in rows : v.version \in 1 .. Cardinality(rows)
    /\ \A i \in 1 .. Cardinality(rows) : \E v \in rows : v.version = i
    /\ \A u, v \in rows : u.version = v.version => u = v

VersionsCounted == \A rid \in Nat : Counted(VersionsOf(rid))

LEMMA CountedEmpty == Counted({})
  BY FS_EmptySet DEF Counted

LEMMA CountedAdd ==
    ASSUME NEW rows, Counted(rows), NEW x, x.version = Cardinality(rows) + 1
    PROVE  /\ Counted(rows \cup {x})
           /\ Cardinality(rows \cup {x}) = Cardinality(rows) + 1
<1>1. Cardinality(rows) \in Nat
  BY FS_CardinalityType DEF Counted
<1>2. x \notin rows
  BY <1>1 DEF Counted
<1>3. IsFiniteSet(rows \cup {x}) /\ Cardinality(rows \cup {x}) = Cardinality(rows) + 1
  BY <1>2, FS_AddElement DEF Counted
<1>4. \A v \in rows \cup {x} : v.version \in 1 .. (Cardinality(rows) + 1)
  BY <1>1 DEF Counted
<1>5. \A i \in 1 .. (Cardinality(rows) + 1) : \E v \in rows \cup {x} : v.version = i
  <2>1. TAKE i \in 1 .. (Cardinality(rows) + 1)
  <2>2. CASE i = Cardinality(rows) + 1
    BY <2>2
  <2>3. CASE i \in 1 .. Cardinality(rows)
    BY <2>3 DEF Counted
  <2>4. QED
    BY <1>1, <2>2, <2>3
<1>6. \A v \in rows : v.version # x.version
  BY <1>1 DEF Counted
<1>7. \A u, v \in rows \cup {x} : u.version = v.version => u = v
  BY <1>6 DEF Counted
<1>8. QED
  BY <1>3, <1>4, <1>5, <1>7 DEF Counted

LEMMA MaxIsCount ==
    ASSUME NEW rows, Counted(rows), NEW m,
           m = 0 \/ \E v \in rows : v.version = m, \A v \in rows : v.version <= m
    PROVE  m = Cardinality(rows)
<1>1. Cardinality(rows) \in Nat
  BY FS_CardinalityType DEF Counted
<1>2. CASE Cardinality(rows) = 0
  <2>1. rows = {}
    BY <1>2, FS_EmptySet DEF Counted
  <2>2. QED
    BY <1>2, <2>1
<1>3. CASE Cardinality(rows) # 0
  <2>1. PICK v \in rows : v.version = Cardinality(rows)
    BY <1>1, <1>3 DEF Counted
  <2>2. QED
    BY <1>1, <1>3, <2>1 DEF Counted
<1>4. QED
  BY <1>2, <1>3

LEMMA InOrderAt ==
    ASSUME NEW rows, Counted(rows), NEW v \in rows
    PROVE  v.version \in DOMAIN InOrder(rows) /\ InOrder(rows)[v.version] = v.uuid
<1>1. v.version \in 1 .. Cardinality(rows)
  BY DEF Counted
<1>2. (CHOOSE u \in rows : u.version = v.version) = v
  BY DEF Counted
<1>3. QED
  BY <1>1, <1>2 DEF InOrder

LEMMA InOrderIs ==
    ASSUME NEW rows \in SUBSET VerRow, Counted(rows)
    PROVE  /\ InOrder(rows) \in Seq(Requests)
           /\ Len(InOrder(rows)) = Cardinality(rows)
           /\ DOMAIN InOrder(rows) = 1 .. Cardinality(rows)
           /\ \A i \in 1 .. Cardinality(rows) : \E v \in rows : v.version = i /\ InOrder(rows)[i] = v.uuid
<1>1. Cardinality(rows) \in Nat
  BY FS_CardinalityType DEF Counted
<1>2. DOMAIN InOrder(rows) = 1 .. Cardinality(rows)
  BY DEF InOrder
<1>3. \A i \in 1 .. Cardinality(rows) : \E v \in rows : v.version = i /\ InOrder(rows)[i] = v.uuid
  <2>1. TAKE i \in 1 .. Cardinality(rows)
  <2>2. PICK v \in rows : v.version = i
    BY DEF Counted
  <2>3. QED
    BY <2>2, InOrderAt
<1>4. \A i \in 1 .. Cardinality(rows) : InOrder(rows)[i] \in Requests
  BY <1>3 DEF VerRow
<1>5. InOrder(rows) \in [1 .. Cardinality(rows) -> Requests]
  BY <1>4 DEF InOrder
<1>6. InOrder(rows) \in Seq(Requests)
  BY <1>1, <1>5, SeqDef
<1>7. QED
  BY <1>1, <1>2, <1>3, <1>5, <1>6, LenProperties

LEMMA InOrderEmpty == InOrder({}) = <<>>
<1>1. InOrder({}) \in Seq(Requests) /\ Len(InOrder({})) = 0
  BY CountedEmpty, InOrderIs, FS_EmptySet
<1>2. QED
  BY <1>1, EmptySeq

LEMMA InOrderAdd ==
    ASSUME NEW rows \in SUBSET VerRow, Counted(rows), NEW x \in VerRow, x.version = Cardinality(rows) + 1
    PROVE  InOrder(rows \cup {x}) = Append(InOrder(rows), x.uuid)
<1> DEFINE s == InOrder(rows)
           t == InOrder(rows \cup {x})
<1>1. Counted(rows \cup {x}) /\ Cardinality(rows \cup {x}) = Cardinality(rows) + 1 /\ Cardinality(rows) \in Nat
  BY CountedAdd, FS_CardinalityType DEF Counted
<1>2. s \in Seq(Requests) /\ Len(s) = Cardinality(rows)
  BY InOrderIs
<1>3. t \in Seq(Requests) /\ Len(t) = Cardinality(rows) + 1
  BY <1>1, InOrderIs
<1>4. x.uuid \in Requests
  BY DEF VerRow
<1>5. /\ Append(s, x.uuid) \in Seq(Requests)
      /\ Len(Append(s, x.uuid)) = Len(s) + 1
      /\ \A i \in 1 .. Len(s) : Append(s, x.uuid)[i] = s[i]
      /\ Append(s, x.uuid)[Len(s) + 1] = x.uuid
  BY <1>2, <1>4, AppendProperties
<1>6. ASSUME NEW i \in 1 .. Len(t) PROVE t[i] = Append(s, x.uuid)[i]
  <2>1. CASE i = Cardinality(rows) + 1
    <3>1. t[x.version] = x.uuid
      BY <1>1, InOrderAt
    <3>2. QED
      BY <1>2, <1>5, <2>1, <3>1
  <2>2. CASE i \in 1 .. Cardinality(rows)
    <3>1. PICK v \in rows : v.version = i
      BY <2>2 DEF Counted
    <3>2. t[i] = v.uuid /\ s[i] = v.uuid
      BY <1>1, <3>1, InOrderAt
    <3>3. QED
      BY <1>2, <1>5, <2>2, <3>2
  <2>3. i \in 1 .. (Cardinality(rows) + 1)
    BY <1>3
  <2>4. i = Cardinality(rows) + 1 \/ i \in 1 .. Cardinality(rows)
    BY <1>1, <2>3
  <2>5. QED
    BY <2>1, <2>2, <2>4
<1> HIDE DEF s, t
<1>7. t = Append(s, x.uuid)
  BY <1>1, <1>2, <1>3, <1>5, <1>6, SeqEqual
<1>8. QED
  BY <1>7 DEF s, t

LEMMA CountedStep ==
    ASSUME TypeOK, VersionsCounted, NEW w \in Requests, Acts(w), TurnOK(w)
    PROVE  VersionsCounted'
<1> SUFFICES ASSUME NEW rid \in Nat PROVE Counted(VersionsOf(rid))'
  BY DEF VersionsCounted
<1>0. Counted(VersionsOf(rid)) /\ (VersionsOf(rid)' = VersionsOf(rid) => Counted(VersionsOf(rid))')
  BY DEF VersionsCounted, Counted
<1>1. CASE PutInsertVersion(w)
  <2> DEFINE new == StoredVersion(w, loc[w].rid, NextVersion(loc[w].max))
  <2>1. versions' = versions \cup {new} /\ IsMaxVersion(loc[w].max, loc[w].rid)
    BY <1>1 DEF PutInsertVersion, TurnOK, Writing
  <2>2. new.rid = loc[w].rid /\ new.version = loc[w].max + 1
    BY DEF StoredVersion, NextVersion
  <2> HIDE DEF new
  <2>3. CASE rid = loc[w].rid
    <3>1. loc[w].max = Cardinality(VersionsOf(rid))
      BY <1>0, <2>1, <2>3, MaxIsCount DEF IsMaxVersion
    <3>2. Counted(VersionsOf(rid) \cup {new})
      BY <1>0, <2>2, <3>1, CountedAdd
    <3>3. VersionsOf(rid)' = VersionsOf(rid) \cup {new}
      BY <2>1, <2>2, <2>3 DEF VersionsOf
    <3>4. QED
      BY <3>2, <3>3 DEF Counted
  <2>4. CASE rid # loc[w].rid
    BY <1>0, <2>1, <2>2, <2>4 DEF VersionsOf
  <2>5. QED
    BY <2>3, <2>4
<1>2. CASE DelExec(w)
  <2>1. versions' = {v \in versions : v.rid # loc[w].rid}
    BY <1>2 DEF DelExec, RemoveVersions
  <2>2. CASE rid = loc[w].rid
    <3>1. VersionsOf(rid)' = {}
      BY <2>1, <2>2 DEF VersionsOf
    <3>2. QED
      BY <3>1, CountedEmpty DEF Counted
  <2>3. CASE rid # loc[w].rid
    BY <1>0, <2>1, <2>3 DEF VersionsOf
  <2>4. QED
    BY <2>2, <2>3
<1>3. CASE ~PutInsertVersion(w) /\ ~DelExec(w)
  <2>1. versions' = versions
    BY <1>3, OtherTablesKept DEF TableChange, PutCreateNamespace, PutCreateResource, PutUpdateType, NsCreateInsert, NsDeleteExec
  <2>2. QED
    BY <1>0, <2>1 DEF VersionsOf
<1>4. QED
  BY <1>1, <1>2, <1>3

\* The version rows of a name.
VersionsAt(ns, name) == {v \in versions : \E r \in ResRowsOf(ns, name) : r.id = v.rid}

LEMMA AtName ==
    ASSUME NamesUnique, NEW ns \in NsNames, NEW name \in ResNames, NEW r \in ResRowsOf(ns, name)
    PROVE  VersionsAt(ns, name) = VersionsOf(r.id)
  BY DEF NamesUnique, VersionsAt, VersionsOf

LEMMA HistoryCounted ==
    ASSUME TypeOK, NamesUnique, VersionsCounted, NEW ns \in NsNames, NEW name \in ResNames
    PROVE  Counted(VersionsAt(ns, name)) /\ VersionsAt(ns, name) \in SUBSET VerRow
<1>1. VersionsAt(ns, name) \in SUBSET VerRow
  BY DEF VersionsAt, TypeOK
<1>2. CASE ResRowsOf(ns, name) = {}
  <2>1. VersionsAt(ns, name) = {}
    BY <1>2 DEF VersionsAt
  <2>2. QED
    BY <1>1, <2>1, CountedEmpty
<1>3. CASE ResRowsOf(ns, name) # {}
  <2>1. PICK r \in ResRowsOf(ns, name) : TRUE
    BY <1>3
  <2>2. r.id \in Nat
    BY DEF ResRowsOf, ResRowsIn, TypeOK, ResRow
  <2>3. QED
    BY <1>1, <2>1, <2>2, AtName DEF VersionsCounted
<1>4. QED
  BY <1>2, <1>3

LEMMA ResourceStays ==
    ASSUME TypeOK, NEW w \in Requests, Acts(w), ~DelExec(w), NEW q \in resources
    PROVE  \E r \in resources' : r.id = q.id /\ r.nsId = q.nsId /\ r.name = q.name
<1>1. CASE PutUpdateType(w)
  <2>1. resources' = SetType(loc[w].rid, body[w].type) /\ q \in ResRow
    BY <1>1 DEF PutUpdateType, TypeOK
  <2>2. CASE q.id = loc[w].rid
    <3>1. [q EXCEPT !.type = body[w].type] \in resources'
      BY <2>1, <2>2, SetTypeRows
    <3>2. QED
      BY <2>1, <3>1 DEF ResRow
  <2>3. CASE q.id # loc[w].rid
    BY <2>1, <2>3, SetTypeRows
  <2>4. QED
    BY <2>2, <2>3
<1>2. CASE PutCreateResource(w)
  BY <1>2 DEF PutCreateResource
<1>3. CASE ~PutUpdateType(w) /\ ~PutCreateResource(w)
  <2>1. resources' = resources
    BY <1>3, OtherTablesKept DEF TableChange, PutCreateNamespace, PutInsertVersion, NsCreateInsert, NsDeleteExec
  <2>2. QED
    BY <2>1
<1>4. QED
  BY <1>1, <1>2, <1>3

LEMMA NamespaceStays ==
    ASSUME NEW w \in Requests, Acts(w), NEW x \in namespaces, x \notin namespaces'
    PROVE  NsDeleteExec(w) /\ x.name = body[w].ns /\ ResRowsIn(body[w].ns) = {}
<1>1. NsDeleteExec(w)
  BY OtherTablesKept DEF TableChange, PutCreateNamespace, PutInsertVersion, NsCreateInsert, InsertNamespace,
     PutCreateResource, PutUpdateType, DelExec
<1>2. QED
  BY <1>1 DEF NsDeleteExec, NsRowsOf

\* A row of a name stays one of that name until it is deleted.
LEMMA RowsRemain ==
    ASSUME TypeOK, NEW w \in Requests, Acts(w), ~DelExec(w),
           NEW ns \in NsNames, NEW name \in ResNames, NEW q \in ResRowsOf(ns, name)
    PROVE  \E r \in ResRowsOf(ns, name)' : r.id = q.id
<1>1. q \in resources /\ q.name = name /\ q \in ResRowsIn(ns)
  BY DEF ResRowsOf, ResRowsIn
<1>2. PICK x \in namespaces : x.id = q.nsId /\ x.name = ns
  BY DEF ResRowsOf, ResRowsIn
<1>3. x \in namespaces'
  BY <1>1, <1>2, NamespaceStays
<1>4. PICK r \in resources' : r.id = q.id /\ r.nsId = q.nsId /\ r.name = q.name
  BY <1>1, ResourceStays
<1>5. r \in ResRowsOf(ns, name)'
  BY <1>1, <1>2, <1>3, <1>4 DEF ResRowsOf, ResRowsIn
<1>6. QED
  BY <1>4, <1>5

\* Only a new version and a deletion change what a name has.
LEMMA HistoryKept ==
    ASSUME TypeOK, FreshIds, ReferentialIntegrity, NEW w \in Requests, Acts(w), TargetOK(w),
           ~PutInsertVersion(w), ~DelExec(w), NEW ns \in NsNames, NEW name \in ResNames
    PROVE  VersionsAt(ns, name)' = VersionsAt(ns, name)
<1>1. versions' = versions
  BY OtherTablesKept DEF TableChange, PutCreateNamespace, PutCreateResource, PutUpdateType, NsCreateInsert, NsDeleteExec
<1>2. ASSUME NEW v \in versions, NEW r \in ResRowsOf(ns, name)', r.id = v.rid
      PROVE  \E q \in ResRowsOf(ns, name) : q.id = v.rid
  <2>1. PICK q \in resources : q.id = v.rid
    BY DEF ReferentialIntegrity, ResExists
  <2>2. r.id # resSeq + 1
    BY <1>2, <2>1 DEF FreshIds, TypeOK, ResRow
  <2>3. QED
    BY <1>2, <2>2, RowsOfName
<1>3. ASSUME NEW v \in versions, NEW q \in ResRowsOf(ns, name), q.id = v.rid
      PROVE  \E r \in ResRowsOf(ns, name)' : r.id = v.rid
  BY <1>3, RowsRemain
<1>4. QED
  BY <1>1, <1>2, <1>3 DEF VersionsAt

\* The names that a row is of are those of the handler that found it.
LEMMA NameOfFound ==
    ASSUME NEW w \in Requests, TargetOK(w), NEW ns \in NsNames, NEW name \in ResNames,
           NEW r \in ResRowsOf(ns, name), r.id = loc[w].rid
    PROVE  ns = body[w].ns /\ name = body[w].name
  BY DEF TargetOK, ResRowsOf, ResRowsIn

LEMMA FoundOfName ==
    ASSUME ReferentialIntegrity, NEW w \in Requests, TargetOK(w), ResExists(loc[w].rid)
    PROVE  \E r \in ResRowsOf(body[w].ns, body[w].name) : r.id = loc[w].rid
<1>1. PICK r \in resources : r.id = loc[w].rid
  BY DEF ResExists
<1>2. PICK x \in namespaces : x.id = r.nsId
  BY DEF ReferentialIntegrity, NsExists
<1>3. r \in ResRowsOf(body[w].ns, body[w].name)
  BY <1>1, <1>2 DEF TargetOK, ResRowsOf, ResRowsIn
<1>4. QED
  BY <1>1, <1>3

LEMMA HistoryOfName ==
    ASSUME NEW ns, NEW name
    PROVE  /\ HistoryOf(ns, name) = InOrder(VersionsAt(ns, name))
           /\ HistoryOf(ns, name)' = InOrder(VersionsAt(ns, name))'
  BY DEF HistoryOf, VersionsAt

\* PutInsertVersion appends to the history of its name and to no other.
LEMMA InsertAppends ==
    ASSUME TypeOK, ReferentialIntegrity, NamesUnique, VersionsCounted,
           NEW w \in Requests, PutInsertVersion(w), TargetOK(w), TurnOK(w),
           NEW ns \in NsNames, NEW name \in ResNames
    PROVE  HistoryOf(ns, name)' = IF ns = body[w].ns /\ name = body[w].name
                                  THEN Append(HistoryOf(ns, name), w) ELSE HistoryOf(ns, name)
<1> DEFINE new == StoredVersion(w, loc[w].rid, NextVersion(loc[w].max))
<1>1. /\ ResExists(loc[w].rid) /\ IsMaxVersion(loc[w].max, loc[w].rid)
      /\ versions' = versions \cup {new} /\ namespaces' = namespaces /\ resources' = resources
  BY DEF PutInsertVersion, TurnOK, Writing
<1>2. new.rid = loc[w].rid /\ new.version = loc[w].max + 1 /\ new.uuid = w
  BY DEF StoredVersion, NextVersion
<1>3. new \in VerRow
  <2>1. loc[w].rid \in Nat /\ NextVersion(loc[w].max) \in Nat
    BY DEF TypeOK, Locals, NextVersion
  <2>2. QED
    BY <2>1, StoredVersionType
<1> HIDE DEF new
<1>4. ResRowsOf(ns, name)' = ResRowsOf(ns, name)
  BY <1>1 DEF ResRowsOf, ResRowsIn
<1>5. CASE ns = body[w].ns /\ name = body[w].name
  <2>1. PICK r \in ResRowsOf(ns, name) : r.id = loc[w].rid
    BY <1>1, <1>5, FoundOfName
  <2>2. VersionsAt(ns, name)' = VersionsAt(ns, name) \cup {new}
    BY <1>1, <1>2, <1>4, <2>1 DEF VersionsAt
  <2>3. VersionsAt(ns, name) = VersionsOf(loc[w].rid)
    BY <2>1, AtName
  <2>4. Counted(VersionsAt(ns, name)) /\ VersionsAt(ns, name) \in SUBSET VerRow
    BY HistoryCounted
  <2>5. loc[w].max = Cardinality(VersionsAt(ns, name))
    BY <1>1, <2>3, <2>4, MaxIsCount DEF IsMaxVersion
  <2>6. InOrder(VersionsAt(ns, name) \cup {new}) = Append(InOrder(VersionsAt(ns, name)), w)
    BY <1>2, <1>3, <2>4, <2>5, InOrderAdd
  <2>7. InOrder(VersionsAt(ns, name))' = InOrder(VersionsAt(ns, name) \cup {new})
    BY <2>2 DEF InOrder
  <2>8. QED
    BY <1>5, <2>6, <2>7, HistoryOfName
<1>6. CASE ~(ns = body[w].ns /\ name = body[w].name)
  <2>1. \A r \in ResRowsOf(ns, name) : r.id # loc[w].rid
    BY <1>6, NameOfFound
  <2>2. VersionsAt(ns, name)' = VersionsAt(ns, name)
    BY <1>1, <1>2, <1>4, <2>1 DEF VersionsAt
  <2>3. InOrder(VersionsAt(ns, name))' = InOrder(VersionsAt(ns, name))
    BY <2>2 DEF InOrder
  <2>4. QED
    BY <1>6, <2>3, HistoryOfName
<1>7. QED
  BY <1>5, <1>6

\* DelExec empties the history of its name and no other.
LEMMA DeleteEmpties ==
    ASSUME TypeOK, ReferentialIntegrity, UniqueIds, NamesUnique,
           NEW w \in Requests, DelExec(w), TargetOK(w), ResExists(loc[w].rid),
           NEW ns \in NsNames, NEW name \in ResNames
    PROVE  HistoryOf(ns, name)' = IF ns = body[w].ns /\ name = body[w].name
                                  THEN <<>> ELSE HistoryOf(ns, name)
<1>1. /\ versions' = {v \in versions : v.rid # loc[w].rid}
      /\ resources' = {r \in resources : r.id # loc[w].rid} /\ namespaces' = namespaces
  BY DEF DelExec, RemoveVersions
<1>2. ResRowsOf(ns, name)' = {r \in ResRowsOf(ns, name) : r.id # loc[w].rid}
  BY <1>1 DEF ResRowsOf, ResRowsIn
<1>3. CASE ns = body[w].ns /\ name = body[w].name
  <2>1. PICK r \in ResRowsOf(ns, name) : r.id = loc[w].rid
    BY <1>3, FoundOfName
  <2>2. ResRowsOf(ns, name)' = {}
    BY <1>2, <2>1 DEF NamesUnique
  <2>3. VersionsAt(ns, name)' = {}
    BY <2>2 DEF VersionsAt
  <2>4. InOrder(VersionsAt(ns, name))' = InOrder({})
    BY <2>3 DEF InOrder
  <2>5. QED
    BY <1>3, <2>4, InOrderEmpty, HistoryOfName
<1>4. CASE ~(ns = body[w].ns /\ name = body[w].name)
  <2>1. \A r \in ResRowsOf(ns, name) : r.id # loc[w].rid
    BY <1>4, NameOfFound
  <2>2. VersionsAt(ns, name)' = VersionsAt(ns, name)
    BY <1>1, <1>2, <2>1 DEF VersionsAt
  <2>3. InOrder(VersionsAt(ns, name))' = InOrder(VersionsAt(ns, name))
    BY <2>2 DEF InOrder
  <2>4. QED
    BY <1>4, <2>3, HistoryOfName
<1>5. QED
  BY <1>3, <1>4

\* Every other step leaves all histories alone.
LEMMA HistoriesKept ==
    ASSUME TypeOK, FreshIds, ReferentialIntegrity, NEW w \in Requests, Acts(w), TargetOK(w),
           ~PutInsertVersion(w), ~DelExec(w)
    PROVE  Histories' = Histories
<1>1. ASSUME NEW ns \in NsNames, NEW name \in ResNames PROVE HistoryOf(ns, name)' = HistoryOf(ns, name)
  <2>1. VersionsAt(ns, name)' = VersionsAt(ns, name)
    BY HistoryKept
  <2>2. InOrder(VersionsAt(ns, name))' = InOrder(VersionsAt(ns, name))
    BY <2>1 DEF InOrder
  <2>3. QED
    BY <2>2, HistoryOfName
<1>2. QED
  BY <1>1 DEF Histories

LEMMA MadeAt ==
    ASSUME NEW ns \in NsNames, NEW name \in ResNames
    PROVE  <<ns, name>> \in Made <=> ResRowsOf(ns, name) # {}
  BY DEF Made

\* Only a new resource row and a deletion change which resources there are.
LEMMA MadeKept ==
    ASSUME TypeOK, FreshIds, ReferentialIntegrity, NEW w \in Requests, Acts(w), TargetOK(w),
           ~PutCreateResource(w), ~DelExec(w)
    PROVE  Made' = Made
<1>1. ASSUME NEW ns \in NsNames, NEW name \in ResNames
      PROVE  ResRowsOf(ns, name)' # {} <=> ResRowsOf(ns, name) # {}
  <2>1. ASSUME NEW r \in ResRowsOf(ns, name)' PROVE ResRowsOf(ns, name) # {}
    BY RowsOfName
  <2>2. ASSUME NEW q \in ResRowsOf(ns, name) PROVE ResRowsOf(ns, name)' # {}
    BY RowsRemain
  <2>3. QED
    BY <2>1, <2>2
<1>2. QED
  BY <1>1 DEF Made

LEMMA MadeOpened ==
    ASSUME TypeOK, NEW w \in Requests, PutCreateResource(w), TargetOK(w), pc'[w] # "done"
    PROVE  /\ Made' = Made \cup {<<body[w].ns, body[w].name>>}
           /\ body[w].ns \in NsMade /\ namespaces' = namespaces
<1> DEFINE new == [id |-> resSeq + 1, nsId |-> loc[w].nsId, name |-> body[w].name, type |-> body[w].type]
<1>1. namespaces' = namespaces /\ resources' = resources \cup {new} /\ NsExists(loc[w].nsId)
  BY DEF PutCreateResource, Respond, Goto, TypeOK
<1>2. new.nsId = loc[w].nsId /\ new.name = body[w].name
  OBVIOUS
<1> HIDE DEF new
<1>3. PICK x \in namespaces : x.id = loc[w].nsId /\ x.name = body[w].ns
  BY <1>1 DEF NsExists, TargetOK
<1>4. ASSUME NEW ns \in NsNames, NEW name \in ResNames
      PROVE  ResRowsOf(ns, name)' # {} <=>
               ResRowsOf(ns, name) # {} \/ (ns = body[w].ns /\ name = body[w].name)
  <2>1. ASSUME NEW r \in ResRowsOf(ns, name)', r # new PROVE r \in ResRowsOf(ns, name)
    BY <1>1, <2>1 DEF ResRowsOf, ResRowsIn
  <2>2. ASSUME new \in ResRowsOf(ns, name)' PROVE ns = body[w].ns /\ name = body[w].name
    BY <1>1, <1>2, <2>2 DEF ResRowsOf, ResRowsIn, TargetOK
  <2>3. \A r \in ResRowsOf(ns, name) : r \in ResRowsOf(ns, name)'
    BY <1>1 DEF ResRowsOf, ResRowsIn
  <2>4. ASSUME ns = body[w].ns, name = body[w].name PROVE new \in ResRowsOf(ns, name)'
    BY <1>1, <1>2, <1>3, <2>4 DEF ResRowsOf, ResRowsIn
  <2>5. QED
    BY <2>1, <2>2, <2>3, <2>4
<1>5. body[w].ns \in NsNames /\ body[w].name \in ResNames
  BY DEF TypeOK, Body
<1>6. Made' = Made \cup {<<body[w].ns, body[w].name>>}
  <2>1. ASSUME NEW ns \in NsNames, NEW name \in ResNames
        PROVE  <<ns, name>> \in Made' <=> <<ns, name>> \in Made \cup {<<body[w].ns, body[w].name>>}
    BY <1>4 DEF Made
  <2>2. Made \subseteq NsNames \X ResNames /\ Made' \subseteq NsNames \X ResNames
    BY DEF Made
  <2>3. \A t \in NsNames \X ResNames : \E ns \in NsNames, name \in ResNames : t = <<ns, name>>
    OBVIOUS
  <2>4. <<body[w].ns, body[w].name>> \in NsNames \X ResNames
    BY <1>5
  <2>5. QED
    BY <2>1, <2>2, <2>3, <2>4
<1>7. QED
  BY <1>1, <1>3, <1>6 DEF NsMade

LEMMA MadeDeleted ==
    ASSUME TypeOK, ReferentialIntegrity, NamesUnique, NEW w \in Requests, DelExec(w), TargetOK(w),
           ResExists(loc[w].rid)
    PROVE  /\ Made' = Made \ {<<body[w].ns, body[w].name>>}
           /\ <<body[w].ns, body[w].name>> \in Made
<1>1. resources' = {r \in resources : r.id # loc[w].rid} /\ namespaces' = namespaces
  BY DEF DelExec
<1>2. body[w].ns \in NsNames /\ body[w].name \in ResNames
  BY DEF TypeOK, Body
<1>3. PICK q \in ResRowsOf(body[w].ns, body[w].name) : q.id = loc[w].rid
  BY FoundOfName
<1>4. ASSUME NEW ns \in NsNames, NEW name \in ResNames
      PROVE  ResRowsOf(ns, name)' # {} <=>
               ResRowsOf(ns, name) # {} /\ ~(ns = body[w].ns /\ name = body[w].name)
  <2>1. ResRowsOf(ns, name)' = {r \in ResRowsOf(ns, name) : r.id # loc[w].rid}
    BY <1>1 DEF ResRowsOf, ResRowsIn
  <2>2. CASE ns = body[w].ns /\ name = body[w].name
    BY <1>3, <2>1, <2>2 DEF NamesUnique
  <2>3. CASE ~(ns = body[w].ns /\ name = body[w].name)
    <3>1. \A r \in ResRowsOf(ns, name) : r.id # loc[w].rid
      BY <2>3, NameOfFound
    <3>2. QED
      BY <2>1, <2>3, <3>1
  <2>4. QED
    BY <2>2, <2>3
<1>5. Made' = Made \ {<<body[w].ns, body[w].name>>}
  <2>1. ASSUME NEW ns \in NsNames, NEW name \in ResNames
        PROVE  <<ns, name>> \in Made' <=> <<ns, name>> \in Made \ {<<body[w].ns, body[w].name>>}
    BY <1>4 DEF Made
  <2>2. Made \subseteq NsNames \X ResNames /\ Made' \subseteq NsNames \X ResNames
    BY DEF Made
  <2>3. \A t \in NsNames \X ResNames : \E ns \in NsNames, name \in ResNames : t = <<ns, name>>
    OBVIOUS
  <2>4. QED
    BY <2>1, <2>2, <2>3
<1>6. QED
  BY <1>2, <1>3, <1>5, MadeAt

-----------------------------------------------------------------------------
(* The responses. *)

LEMMA OneValue ==
    ASSUME NEW x \in Requests
    PROVE  [i \in 1 .. 1 |-> x] = <<x>>
  OBVIOUS

LEMMA NoValues ==
    ASSUME NEW f, f = [i \in 1 .. 0 |-> f[i]]
    PROVE  f = <<>>
<1>1. f \in [1 .. 0 -> Requests]
  OBVIOUS
<1>2. f \in Seq(Requests) /\ Len(f) = 0
  BY <1>1, SeqDef
<1>3. QED
  BY <1>2, EmptySeq

LEMMA ValuesOfNothing ==
    ASSUME NEW op, NEW response, response.plain = {}, op = "listVersions" => response.rows = {}
    PROVE  ValuesIn(op, response) = <<>>
<1>1. CASE op = "listVersions"
  BY <1>1, InOrderEmpty DEF ValuesIn
<1>2. CASE op # "listVersions"
  <2>1. ValuesIn(op, response) = [i \in 1 .. 0 |-> ValuesIn(op, response)[i]]
    BY <1>2, FS_EmptySet DEF ValuesIn
  <2>2. QED
    BY <2>1, NoValues
<1>3. QED
  BY <1>1, <1>2

LEMMA ValuesOfOne ==
    ASSUME NEW op, op # "listVersions", NEW response, NEW b, response.plain = {b},
           b.under = None, b.text \in Requests
    PROVE  ValuesIn(op, response) = <<b.text>>
<1>1. Cardinality(response.plain) = 1
  BY FS_Singleton
<1>2. (CHOOSE x \in response.plain : TRUE) = b
  OBVIOUS
<1>3. ValuesIn(op, response) = [i \in 1 .. 1 |-> b.text]
  BY <1>1, <1>2 DEF ValuesIn
<1>4. QED
  BY <1>3, OneValue

\* Only the response of the handler that runs moves.
LEMMA ResponsesMove ==
    ASSUME TypeOK, NEW w \in Requests, Acts(w)
    PROVE  Responses' = [Responses EXCEPT ![w] = [st |-> StageOf(w)', vals |-> ValuesIn(body[w].op, reply'[w])]]
<1>0. body' = body
  BY OthersStill
<1>1. ASSUME NEW u \in Requests, u # w PROVE StageOf(u)' = StageOf(u) /\ reply'[u] = reply[u]
  BY <1>1, OthersStill DEF Still, StageOf
<1>2. QED
  BY <1>0, <1>1 DEF Responses

LEMMA ResponseIs ==
    ASSUME NEW w \in Requests
    PROVE  Responses[w] = [st |-> StageOf(w), vals |-> ValuesIn(body[w].op, reply[w])]
  BY DEF Responses

\* A request that is neither applied nor over is pending and has said nothing.
LEMMA PendingIsSilent ==
    ASSUME NEW w \in Requests, PlaceOK(w), ReadTurn(w), pc[w] \notin {"audit", "done"}
    PROVE  /\ body[w].op = "listVersions" => reply[w].rows = {}
           /\ reply[w].plain = {}
           /\ StageOf(w) = "pending" /\ Responses[w] = [st |-> "pending", vals |-> <<>>]
<1>1. body[w].op = "listVersions" => reply[w].rows = {}
  BY DEF PlaceOK, ReadTurn, Reads
<1>2. reply[w].plain = {}
  BY DEF ReadTurn
<1>3. StageOf(w) = "pending"
  BY DEF StageOf
<1>4. QED
  BY <1>1, <1>2, <1>3, ValuesOfNothing, ResponseIs

\* A step in the middle of a request is invisible.
LEMMA Invisible ==
    ASSUME TypeOK, NEW w \in Requests, Acts(w), PlaceOK(w), ReadTurn(w), PlaceOK(w)', ReadTurn(w)',
           pc[w] \notin {"audit", "done"}, pc'[w] \notin {"audit", "done"}
    PROVE  Responses' = Responses
<1>0. body' = body
  BY OthersStill
<1>1. Responses[w] = [st |-> "pending", vals |-> <<>>]
  BY PendingIsSilent
<1>2. StageOf(w)' = "pending"
  BY DEF StageOf
<1>3. ValuesIn(body[w].op, reply'[w]) = <<>>
  <2>1. body[w].op = "listVersions" => reply'[w].rows = {}
    BY <1>0 DEF PlaceOK, ReadTurn, Reads
  <2>2. reply'[w].plain = {}
    BY DEF ReadTurn
  <2>3. QED
    BY <2>1, <2>2, ValuesOfNothing
<1>4. Responses' = [Responses EXCEPT ![w] = Responses[w]]
  BY <1>1, <1>2, <1>3, ResponsesMove
<1>5. QED
  BY <1>4 DEF Responses

\* A request that is answered before it acts gets no values.
LEMMA SettledEmpty ==
    ASSUME TypeOK, NEW w \in Requests, Acts(w), PlaceOK(w), ReadTurn(w), NEW st,
           pc[w] \notin {"audit", "done"}, Respond(w, st)
    PROVE  Abstract!Settle(w, st, <<>>)
<1>1. pc'[w] = "done" /\ reply'[w].status = st /\ reply'[w].rows = reply[w].rows /\ reply'[w].plain = reply[w].plain
  BY DEF TypeOK, Replies, Respond, Goto
<1>2. StageOf(w)' = st
  BY <1>1 DEF StageOf
<1>3. ValuesIn(body[w].op, reply'[w]) = <<>>
  BY <1>1, PendingIsSilent, ValuesOfNothing
<1>4. QED
  BY <1>2, <1>3, ResponsesMove DEF Abstract!Settle

-----------------------------------------------------------------------------
(* The steps. *)

RefInv ==
    TablesInv /\ HandlersInv /\ SerialInv /\ VersionsCounted /\ \A w \in Requests : ReadTurn(w)

\* A request that is answered without having acted: what it found.
NotThere(w) ==
    \/ FindsOrNot(w) /\ ResRowsOf(body[w].ns, body[w].name) = {}
    \/ GetValue(w) /\ Candidates(w) = {} /\ body[w].op # "get"
    \/ UuidFind(w) /\ Candidates(w) = {}

InTheWay(w) ==
    \/ NsCreateFind(w) /\ NsRowsOf(body[w].ns) # {}
    \/ NsDeleteList(w) /\ ResRowsIn(body[w].ns) # {}

LEMMA Endings ==
    ASSUME TypeOK, NEW w \in Requests, Acts(w), pc[w] \notin {"audit", "done"}, pc'[w] = "done"
    PROVE  /\ namespaces' = namespaces
           /\ \/ Respond(w, "error") \/ Respond(w, "refused")
              \/ Respond(w, "notFound") /\ NotThere(w)
              \/ Respond(w, "conflict") /\ InTheWay(w)
<1>0. pc \in [Requests -> Labels] /\ body \in [Requests -> Body]
  BY DEF TypeOK
<1> USE <1>0 DEF tables
<1>1. CASE Refuse(w) \/ Fail(w) \/ WriteAudit(w) \/ WriteAuditFails(w)
  BY <1>1 DEF Refuse, Fail, WriteAudit, WriteAuditFails
<1>2. CASE Begin(w)
  BY <1>2, FirstLabelType DEF Begin, Goto, Body
<1>3. CASE PutGetNamespace(w) \/ PutCreateNamespace(w) \/ PutReadMax(w) \/ NsCreateFindFails(w) \/ NsCreateInsert(w)
  BY <1>3 DEF PutGetNamespace, PutCreateNamespace, PutReadMax, NsCreateFindFails, NsCreateInsert, Goto
<1>4. CASE PutGetResource(w) \/ PutUpdateType(w) \/ DelExec(w) \/ ListRows(w)
  BY <1>4, AfterResourceType DEF PutGetResource, PutUpdateType, DelExec, ListRows, Goto
<1>5. CASE PutCreateResource(w) \/ PutCreateKey(w) \/ PutInsertVersion(w)
  BY <1>5, AfterResourceType DEF PutCreateResource, PutCreateKey, PutInsertVersion, Goto
<1>6. CASE DelFind(w) \/ GetFind(w) \/ ListFind(w)
  BY <1>6 DEF DelFind, GetFind, ListFind, Goto, NotThere, FindsOrNot
<1>7. CASE GetValue(w) \/ UuidFind(w)
  BY <1>7 DEF GetValue, UuidFind, Fetched, Goto, NotThere
<1>8. CASE GetOpen(w) \/ UuidResource(w)
  BY <1>8 DEF GetOpen, UuidResource, Goto
<1>9. CASE NsCreateFind(w) \/ NsDeleteList(w)
  BY <1>9 DEF NsCreateFind, NsDeleteList, Goto, InTheWay
<1>10. CASE NsDeleteExec(w)
  BY <1>10 DEF NsDeleteExec, Goto
<1>11. QED
  BY <1>1, <1>2, <1>3, <1>4, <1>5, <1>6, <1>7, <1>8, <1>9, <1>10 DEF Acts, Step

LEMMA EndsKeepRows ==
    ASSUME TypeOK, NEW w \in Requests, Acts(w), pc'[w] = "done"
    PROVE  ~DelExec(w) /\ (PutInsertVersion(w) => ~ResExists(loc[w].rid))
  BY DEF TypeOK, DelExec, PutInsertVersion, Goto

LEMMA RefMiddle ==
    ASSUME RefInv, NEW w \in Requests, Acts(w), PlaceOK(w)', ReadTurn(w)',
           pc[w] \notin {"audit", "done"}, pc'[w] \notin {"audit", "done"}
    PROVE  /\ Histories' = Histories /\ body' = body /\ Responses' = Responses
           /\ \/ Made' = Made /\ namespaces' = namespaces
              \/ Made' = Made /\ PutCreateNamespace(w)
              \/ PutCreateResource(w)
<1>1. TypeOK /\ FreshIds /\ ReferentialIntegrity /\ TargetOK(w) /\ PlaceOK(w) /\ ReadTurn(w)
  BY DEF RefInv, TablesInv, HandlersInv
<1>2. ~Settles(w)
  BY <1>1, SettlesEnds
<1>3. Histories' = Histories
  BY <1>1, <1>2, HistoriesKept DEF Settles
<1>4. Responses' = Responses /\ body' = body
  BY <1>1, Invisible, OthersStill
<1>5. namespaces' = namespaces \/ PutCreateNamespace(w)
  BY <1>2, OtherTablesKept DEF TableChange, Settles, PutCreateResource, PutUpdateType
<1>6. Made' = Made \/ PutCreateResource(w)
  BY <1>1, <1>2, MadeKept DEF Settles
<1>7. QED
  BY <1>3, <1>4, <1>5, <1>6

\* Writing the audit row, or failing to, is the answer.
LEMMA RefAnswer ==
    ASSUME RefInv, NEW w \in Requests, Acts(w), pc[w] = "audit"
    PROVE  Abstract!Answer(w)
<1>1. TypeOK /\ FreshIds /\ ReferentialIntegrity /\ TargetOK(w)
  BY DEF RefInv, TablesInv, HandlersInv
<1>2. WriteAudit(w) \/ WriteAuditFails(w) \/ Fail(w)
  BY DEF Acts, Step, Begin, Refuse, NsCreateFindFails, PutGetNamespace,
     PutCreateNamespace, PutGetResource, PutCreateResource, PutUpdateType, PutCreateKey, PutReadMax,
     PutInsertVersion, DelFind, DelExec, GetFind, GetValue, GetOpen, UuidFind, UuidResource, ListFind,
     ListRows, NsCreateFind, NsCreateInsert, NsDeleteList, NsDeleteExec
<1>3. PICK st \in {"ok", "error"} : Respond(w, st)
  BY <1>2 DEF WriteAudit, WriteAuditFails, Fail
<1>4. namespaces' = namespaces /\ body' = body
  BY <1>2 DEF WriteAudit, WriteAuditFails, Fail, tables
<1>5. Histories' = Histories
  BY <1>1, HistoriesKept DEF PutInsertVersion, DelExec
<1>6. pc'[w] = "done" /\ reply'[w].status = st /\ reply'[w].rows = reply[w].rows /\ reply'[w].plain = reply[w].plain
  BY <1>1, <1>3 DEF TypeOK, Replies, Respond, Goto
<1>7. StageOf(w) = "applied" /\ StageOf(w)' = st
  BY <1>6 DEF StageOf
<1>8. ValuesIn(body[w].op, reply'[w]) = ValuesIn(body[w].op, reply[w])
  BY <1>6 DEF ValuesIn
<1>9. Responses[w].st = "applied" /\ Responses[w].vals = ValuesIn(body[w].op, reply[w])
  <2>1. Responses[w] = [st |-> StageOf(w), vals |-> ValuesIn(body[w].op, reply[w])]
    BY ResponseIs
  <2>2. StageOf(w) = "applied"
    BY <1>7
  <2>3. QED
    BY <2>1, <2>2
<1>10. Abstract!Settle(w, st, Responses[w].vals)
  BY <1>1, <1>7, <1>8, <1>9, ResponsesMove DEF Abstract!Settle
<1>11. Made' = Made /\ NsMade' = NsMade
  BY <1>1, <1>4, MadeKept DEF PutCreateResource, DelExec, NsMade
<1>12. QED
  BY <1>4, <1>5, <1>9, <1>10, <1>11 DEF Abstract!Answer

LEMMA HistoryAt ==
    ASSUME NEW ns \in NsNames, NEW name \in ResNames
    PROVE  <<ns, name>> \in DOMAIN Histories /\ Histories[<<ns, name>>] = HistoryOf(ns, name)
  BY DEF Histories

LEMMA HistoryOfNoRow ==
    ASSUME NEW ns, NEW name, ResRowsOf(ns, name) = {}
    PROVE  HistoryOf(ns, name) = <<>>
<1>1. VersionsAt(ns, name) = {}
  BY DEF VersionsAt
<1>2. QED
  BY <1>1, InOrderEmpty, HistoryOfName

LEMMA FoundHistory ==
    ASSUME RefInv, NEW w \in Requests, ResExists(loc[w].rid)
    PROVE  /\ HistoryOf(body[w].ns, body[w].name) = InOrder(VersionsOf(loc[w].rid))
           /\ Counted(VersionsOf(loc[w].rid)) /\ VersionsOf(loc[w].rid) \in SUBSET VerRow
<1>1. TypeOK /\ ReferentialIntegrity /\ TargetOK(w) /\ NamesUnique /\ VersionsCounted
  BY DEF RefInv, TablesInv, HandlersInv, SerialInv
<1>2. body[w].ns \in NsNames /\ body[w].name \in ResNames
  BY <1>1 DEF TypeOK, Body
<1>3. PICK r \in ResRowsOf(body[w].ns, body[w].name) : r.id = loc[w].rid
  BY <1>1, FoundOfName
<1>4. VersionsAt(body[w].ns, body[w].name) = VersionsOf(loc[w].rid)
  BY <1>1, <1>2, <1>3, AtName
<1>5. QED
  BY <1>1, <1>2, <1>4, HistoryCounted, HistoryOfName

\* What a history holds is what the table holds.
LEMMA ElementIsVersion ==
    ASSUME RefInv, NEW t \in DOMAIN Histories, NEW i \in DOMAIN Histories[t]
    PROVE  \E v \in versions : v.uuid = Histories[t][i]
<1>1. TypeOK /\ NamesUnique /\ VersionsCounted
  BY DEF RefInv, TablesInv, SerialInv
<1>2. PICK ns \in NsNames, name \in ResNames : t = <<ns, name>>
  BY DEF Histories
<1>3. Histories[t] = InOrder(VersionsAt(ns, name))
  BY <1>2, HistoryAt, HistoryOfName
<1>4. Counted(VersionsAt(ns, name)) /\ VersionsAt(ns, name) \in SUBSET VerRow
  BY <1>1, HistoryCounted
<1>5. PICK v \in VersionsAt(ns, name) : InOrder(VersionsAt(ns, name))[i] = v.uuid
  BY <1>3, <1>4, InOrderIs
<1>6. QED
  BY <1>3, <1>5 DEF VersionsAt

LEMMA VersionIsElement ==
    ASSUME RefInv, NEW v \in versions
    PROVE  \E t \in DOMAIN Histories : t \in Made /\ Abstract!IsVersionOf(v.uuid, t)
<1>1. TypeOK /\ ReferentialIntegrity /\ NamesUnique /\ VersionsCounted
  BY DEF RefInv, TablesInv, SerialInv
<1>2. PICK r \in resources : r.id = v.rid
  BY <1>1 DEF ReferentialIntegrity, ResExists
<1>3. PICK x \in namespaces : x.id = r.nsId
  BY <1>1 DEF ReferentialIntegrity, NsExists
<1>4. PICK ns \in NsNames, name \in ResNames : ns = x.name /\ name = r.name
  BY <1>1 DEF TypeOK, NsRow, ResRow
<1>5. v \in VersionsAt(ns, name)
  BY <1>2, <1>3, <1>4 DEF VersionsAt, ResRowsOf, ResRowsIn
<1>6. Counted(VersionsAt(ns, name))
  BY <1>1, HistoryCounted
<1>7. /\ v.version \in DOMAIN InOrder(VersionsAt(ns, name))
      /\ InOrder(VersionsAt(ns, name))[v.version] = v.uuid
  BY <1>5, <1>6, InOrderAt
<1>8. <<ns, name>> \in DOMAIN Histories /\ Histories[<<ns, name>>] = InOrder(VersionsAt(ns, name))
  BY HistoryAt, HistoryOfName
<1>9. <<ns, name>> \in Made
  BY <1>5, MadeAt DEF VersionsAt
<1>10. Abstract!IsVersionOf(v.uuid, <<ns, name>>)
  BY <1>7, <1>8 DEF Abstract!IsVersionOf
<1>11. QED
  BY <1>8, <1>9, <1>10

\* A query is told that there is nothing only where the histories have nothing.
LEMMA RefNotFound ==
    ASSUME RefInv, NEW w \in Requests, Acts(w), NotThere(w), Respond(w, "notFound"),
           Histories' = Histories, Made' = Made, NsMade' = NsMade, body' = body
    PROVE  Abstract!NotFound(w)
<1>1. TypeOK /\ PlaceOK(w) /\ ReadTurn(w)
  BY DEF RefInv, TablesInv, HandlersInv
<1>2. pc[w] \in {"del.find", "get.find", "lst.find", "get.value", "uuid.find"}
  BY DEF NotThere, FindsOrNot, DelFind, GetFind, ListFind, GetValue, UuidFind
<1>3. Responses[w].st = "pending" /\ Abstract!Settle(w, "notFound", <<>>)
  BY <1>1, <1>2, PendingIsSilent, SettledEmpty
<1>4. body[w].op \in {"get", "getVersion", "listVersions", "getByUUID", "getByVersionUUID", "delete"}
  BY <1>1, <1>2 DEF PlaceOK, Reads
<1>5. body[w].ns \in NsNames /\ body[w].name \in ResNames
  BY <1>1 DEF TypeOK, Body
<1> DEFINE h == HistoryOf(body[w].ns, body[w].name)
           t == <<body[w].ns, body[w].name>>
<1>6. t \in DOMAIN Histories /\ Histories[t] = h
  BY <1>5, HistoryAt
<1>7. \/ body[w].op = "delete" /\ t \notin Made
      \/ body[w].op # "delete" /\ Abstract!Answers(w) = {}
  <2>1. CASE FindsOrNot(w) /\ ResRowsOf(body[w].ns, body[w].name) = {}
    <3>1. h = <<>> /\ t \notin Made
      BY <1>5, <2>1, HistoryOfNoRow, MadeAt
    <3>2. body[w].op # "getByUUID"
      BY <1>1, <2>1 DEF PlaceOK, Reads, FindsOrNot, DelFind, GetFind, ListFind
    <3>3. DOMAIN h = {}
      BY <3>1
    <3> HIDE DEF h, t
    <3>4. ~Abstract!IsVersionOf(body[w].uuid, t)
      BY <1>6, <3>3 DEF Abstract!IsVersionOf
    <3>5. Abstract!Target(w) = t
      BY DEF Abstract!Target, t
    <3>6. QED
      BY <1>4, <1>6, <3>1, <3>2, <3>3, <3>4, <3>5 DEF Abstract!Answers
  <2>2. ASSUME Candidates(w) = {}, body[w].op \in {"getByUUID", "getByVersionUUID"}
        PROVE  Abstract!Answers(w) = {}
    <3>1. \A v \in versions : v.uuid # body[w].uuid
      BY <2>2 DEF Candidates
    <3>2. \A x \in DOMAIN Histories : ~Abstract!IsVersionOf(body[w].uuid, x)
      BY <3>1, ElementIsVersion DEF Abstract!IsVersionOf
    <3>3. Abstract!Target(w) \in DOMAIN Histories
      BY <1>6 DEF Abstract!Target
    <3>4. QED
      BY <2>2, <3>2, <3>3 DEF Abstract!Answers
  <2>3. CASE GetValue(w) /\ Candidates(w) = {} /\ body[w].op # "get"
    <3>1. body[w].op \in {"getVersion", "getByVersionUUID"} /\ ResExists(loc[w].rid)
      BY <1>1, <2>3 DEF GetValue, PlaceOK, Reads, ReadTurn
    <3>2. CASE body[w].op = "getVersion"
      <4>1. h = InOrder(VersionsOf(loc[w].rid)) /\ Counted(VersionsOf(loc[w].rid))
        BY <3>1, FoundHistory
      <4>2. \A v \in VersionsOf(loc[w].rid) : v.version # body[w].num
        BY <2>3, <3>2 DEF Candidates
      <4>3. body[w].num \notin DOMAIN h
        BY <4>1, <4>2 DEF InOrder, Counted
      <4> HIDE DEF h
      <4>4. QED
        BY <1>6, <3>2, <4>3 DEF Abstract!Answers, Abstract!Target
    <3>3. QED
      BY <2>2, <2>3, <3>1, <3>2
  <2>4. CASE UuidFind(w) /\ Candidates(w) = {}
    BY <1>1, <2>2, <2>4 DEF UuidFind, PlaceOK
  <2>5. QED
    BY <2>1, <2>3, <2>4 DEF NotThere
<1> HIDE DEF h
<1>8. QED
  BY <1>3, <1>4, <1>7 DEF Abstract!NotFound, Abstract!Pending, Abstract!Target, Abstract!Queries

LEMMA RefConflict ==
    ASSUME RefInv, NEW w \in Requests, Acts(w), InTheWay(w), Respond(w, "conflict"),
           Histories' = Histories, Made' = Made, NsMade' = NsMade, body' = body
    PROVE  Abstract!Conflict(w)
<1>1. TypeOK /\ PlaceOK(w) /\ ReadTurn(w)
  BY DEF RefInv, TablesInv, HandlersInv
<1>2. pc[w] \in {"nsc.find", "nsd.list"}
  BY DEF InTheWay, NsCreateFind, NsDeleteList
<1>3. Responses[w].st = "pending" /\ Abstract!Settle(w, "conflict", <<>>)
  BY <1>1, <1>2, PendingIsSilent, SettledEmpty
<1>4. \/ body[w].op = "nsCreate" /\ body[w].ns \in NsMade
      \/ body[w].op = "nsDelete" /\ Abstract!Holds(body[w].ns)
  <2>1. CASE NsCreateFind(w) /\ NsRowsOf(body[w].ns) # {}
    BY <1>1, <2>1 DEF NsCreateFind, PlaceOK, NsRowsOf, NsMade
  <2>2. CASE NsDeleteList(w) /\ ResRowsIn(body[w].ns) # {}
    <3>1. PICK r \in ResRowsIn(body[w].ns) : TRUE
      BY <2>2
    <3>2. body[w].ns \in NsNames /\ r.name \in ResNames /\ r \in ResRowsOf(body[w].ns, r.name)
      BY <1>1 DEF TypeOK, Body, ResRowsIn, ResRow, ResRowsOf
    <3>3. <<body[w].ns, r.name>> \in Made
      BY <3>2, MadeAt
    <3>4. body[w].op = "nsDelete"
      BY <1>1, <2>2 DEF NsDeleteList, PlaceOK
    <3>5. QED
      BY <3>2, <3>3, <3>4 DEF Abstract!Holds
  <2>3. QED
    BY <2>1, <2>2 DEF InTheWay
<1>5. QED
  BY <1>3, <1>4 DEF Abstract!Conflict, Abstract!Pending

\* Every other early end is an abandoned request.
LEMMA RefEnding ==
    ASSUME RefInv, NEW w \in Requests, Acts(w), pc[w] \notin {"audit", "done"}, pc'[w] = "done"
    PROVE  Abstract!NotFound(w) \/ Abstract!Conflict(w) \/ Abstract!Abandon(w)
<1>1. TypeOK /\ FreshIds /\ ReferentialIntegrity /\ TargetOK(w) /\ PlaceOK(w) /\ ReadTurn(w) /\ TurnOK(w)
  BY DEF RefInv, TablesInv, HandlersInv, SerialInv
<1>2. body' = body /\ namespaces' = namespaces
  BY <1>1, OthersStill, Endings
<1>4. Histories' = Histories
  <2>1. ~DelExec(w) /\ ~PutInsertVersion(w)
    BY <1>1, EndsKeepRows DEF TurnOK, Writing, PutInsertVersion
  <2>2. QED
    BY <1>1, <2>1, HistoriesKept
<1>3. NsMade' = NsMade /\ Made' = Made
  <2>1. NsMade' = NsMade
    BY <1>2 DEF NsMade
  <2>2. CASE PutCreateResource(w)
    <3>1. resources' = resources
      BY <1>1, <2>2, AfterResourceType DEF PutCreateResource, Goto, TypeOK
    <3>2. QED
      BY <1>2, <2>1, <3>1 DEF Made, ResRowsOf, ResRowsIn
  <2>3. CASE ~PutCreateResource(w)
    BY <1>1, <2>1, <2>3, MadeKept, EndsKeepRows
  <2>4. QED
    BY <2>1, <2>2, <2>3
<1>5. ASSUME NEW st \in {"error", "refused"}, Respond(w, st) PROVE Abstract!Abandon(w)
  BY <1>1, <1>2, <1>3, <1>4, <1>5, PendingIsSilent, SettledEmpty DEF Abstract!Abandon
<1>6. QED
  BY <1>1, <1>2, <1>3, <1>4, <1>5, Endings, RefNotFound, RefConflict

LEMMA HistoriesPointwise ==
    ASSUME NEW w \in Requests, NEW e,
           \A ns \in NsNames, name \in ResNames :
             HistoryOf(ns, name)' = IF ns = body[w].ns /\ name = body[w].name THEN e ELSE HistoryOf(ns, name)
    PROVE  Histories' = [Histories EXCEPT ![<<body[w].ns, body[w].name>>] = e]
<1>1. Histories' = [t \in NsNames \X ResNames |-> HistoryOf(t[1], t[2])']
  BY DEF Histories
<1>2. ASSUME NEW t \in NsNames \X ResNames
      PROVE  HistoryOf(t[1], t[2])' = [Histories EXCEPT ![<<body[w].ns, body[w].name>>] = e][t]
  <2>1. PICK ns \in NsNames, name \in ResNames : t = <<ns, name>>
    OBVIOUS
  <2>2. Histories[t] = HistoryOf(ns, name)
    BY <2>1, HistoryAt
  <2>3. HistoryOf(t[1], t[2])' = HistoryOf(ns, name)'
    BY <2>1
  <2>4. t = <<body[w].ns, body[w].name>> <=> ns = body[w].ns /\ name = body[w].name
    BY <2>1
  <2>5. t \in DOMAIN Histories
    BY DEF Histories
  <2>6. QED
    BY <2>2, <2>3, <2>4, <2>5
<1>3. DOMAIN Histories = NsNames \X ResNames
  BY DEF Histories
<1>4. QED
  BY <1>1, <1>2, <1>3

\* The instant at which a request acts.
LEMMA Applied ==
    ASSUME TypeOK, NEW w \in Requests, Acts(w), pc'[w] = "audit"
    PROVE  Abstract!Settle(w, "applied", ValuesIn(body[w].op, reply'[w]))
<1>1. StageOf(w)' = "applied"
  BY DEF StageOf
<1>2. QED
  BY <1>1, ResponsesMove DEF Abstract!Settle

LEMMA AppliedSilent ==
    ASSUME TypeOK, NEW w \in Requests, Acts(w), PlaceOK(w), ReadTurn(w), pc[w] \notin {"audit", "done"},
           pc'[w] = "audit", reply' = reply
    PROVE  Responses[w].st = "pending" /\ Abstract!Settle(w, "applied", <<>>)
  BY PendingIsSilent, ValuesOfNothing, Applied

LEMMA Applying ==
    ASSUME TypeOK, NEW w \in Requests, Acts(w), pc'[w] = "audit"
    PROVE  /\ \/ PutInsertVersion(w) \/ DelExec(w) \/ GetOpen(w) \/ ListRows(w)
              \/ NsCreateInsert(w) \/ NsDeleteExec(w)
           /\ pc[w] \notin {"audit", "done"}
<1>1. \/ PutInsertVersion(w) \/ DelExec(w) \/ GetOpen(w) \/ ListRows(w) \/ NsCreateInsert(w) \/ NsDeleteExec(w)
  <2>0. pc \in [Requests -> Labels]
    BY DEF TypeOK
  <2>1. CASE SilentStep(w)
    BY <2>1, SilentSteps DEF Silent
  <2>2. CASE FindsOrNot(w)
    BY <2>2, FindSteps
  <2>3. CASE GetValue(w) \/ UuidFind(w) \/ UuidResource(w) \/ NsDeleteList(w)
    BY <2>0, <2>3 DEF GetValue, UuidFind, UuidResource, NsDeleteList, Fetched, Goto, Respond
  <2>4. CASE Refuse(w) \/ Fail(w) \/ WriteAudit(w) \/ WriteAuditFails(w)
    BY <2>0, <2>4 DEF Refuse, Fail, WriteAudit, WriteAuditFails, Goto, Respond
  <2>5. QED
    BY <2>1, <2>2, <2>3, <2>4 DEF Acts, Step, SilentStep, FindsOrNot
<1>2. QED
  BY <1>1 DEF PutInsertVersion, DelExec, GetOpen, ListRows, NsCreateInsert, NsDeleteExec

LEMMA RefPut ==
    ASSUME RefInv, NEW w \in Requests, Acts(w), PutInsertVersion(w), pc'[w] = "audit"
    PROVE  Abstract!Put(w)
<1>1. /\ TypeOK /\ ReferentialIntegrity /\ NamesUnique /\ VersionsCounted
      /\ TargetOK(w) /\ PlaceOK(w) /\ ReadTurn(w) /\ TurnOK(w)
  BY DEF RefInv, TablesInv, HandlersInv, SerialInv
<1>2. pc[w] = "put.insert" /\ body[w].op = "put" /\ ResExists(loc[w].rid)
  BY <1>1 DEF PutInsertVersion, PlaceOK, TurnOK, Writing
<1>3. namespaces' = namespaces /\ body' = body /\ reply' = reply
  BY <1>2 DEF PutInsertVersion
<1>4. Responses[w].st = "pending" /\ Abstract!Settle(w, "applied", <<>>)
  BY <1>1, <1>2, <1>3, AppliedSilent
<1>5. body[w].ns \in NsNames /\ body[w].name \in ResNames
  BY <1>1 DEF TypeOK, Body
<1>6. <<body[w].ns, body[w].name>> \in Made
  BY <1>1, <1>2, <1>5, FoundOfName, MadeAt
<1> DEFINE t == <<body[w].ns, body[w].name>>
<1>7. Histories' = [Histories EXCEPT ![t] = Append(Histories[t], w)]
  <2> DEFINE e == Append(HistoryOf(body[w].ns, body[w].name), w)
  <2>1. \A ns \in NsNames, name \in ResNames :
          HistoryOf(ns, name)' = IF ns = body[w].ns /\ name = body[w].name THEN e ELSE HistoryOf(ns, name)
    BY <1>1, InsertAppends
  <2>2. Histories[t] = HistoryOf(body[w].ns, body[w].name)
    BY <1>5, HistoryAt
  <2> HIDE DEF e
  <2>3. Histories' = [Histories EXCEPT ![t] = e]
    BY <2>1, HistoriesPointwise
  <2>4. QED
    BY <2>2, <2>3 DEF e
<1>8. Made' = Made /\ NsMade' = NsMade
  BY <1>3 DEF PutInsertVersion, Made, NsMade, ResRowsOf, ResRowsIn
<1>9. QED
  BY <1>2, <1>3, <1>4, <1>6, <1>7, <1>8 DEF Abstract!Put, Abstract!Pending, Abstract!Target

LEMMA RefDelete ==
    ASSUME RefInv, NEW w \in Requests, Acts(w), DelExec(w)
    PROVE  Abstract!Delete(w)
<1>1. /\ TypeOK /\ ReferentialIntegrity /\ NamesUnique /\ UniqueIds
      /\ TargetOK(w) /\ PlaceOK(w) /\ ReadTurn(w)
  BY DEF RefInv, TablesInv, HandlersInv, SerialInv
<1>2. pc[w] = "del.exec" /\ body[w].op = "delete" /\ ResExists(loc[w].rid) /\ pc'[w] = "audit"
  BY <1>1 DEF DelExec, PlaceOK, ReadTurn, Goto, TypeOK
<1>3. namespaces' = namespaces /\ body' = body /\ reply' = reply
  BY DEF DelExec
<1>4. Responses[w].st = "pending" /\ Abstract!Settle(w, "applied", <<>>)
  BY <1>1, <1>2, <1>3, AppliedSilent
<1>5. \A ns \in NsNames, name \in ResNames :
        HistoryOf(ns, name)' = IF ns = body[w].ns /\ name = body[w].name THEN <<>> ELSE HistoryOf(ns, name)
  BY <1>1, <1>2, DeleteEmpties
<1>6. Histories' = [Histories EXCEPT ![<<body[w].ns, body[w].name>>] = <<>>]
  BY <1>5, HistoriesPointwise
<1>7. /\ <<body[w].ns, body[w].name>> \in Made /\ Made' = Made \ {<<body[w].ns, body[w].name>>}
      /\ NsMade' = NsMade
  BY <1>1, <1>2, <1>3, MadeDeleted DEF NsMade
<1>8. QED
  BY <1>2, <1>3, <1>4, <1>6, <1>7 DEF Abstract!Delete, Abstract!Pending, Abstract!Target

LEMMA RefCreateNamespace ==
    ASSUME RefInv, NEW w \in Requests, Acts(w), NsCreateInsert(w)
    PROVE  Abstract!CreateNamespace(w) \/ CreatesAgain(w)
<1>1. TypeOK /\ FreshIds /\ ReferentialIntegrity /\ TargetOK(w) /\ PlaceOK(w) /\ ReadTurn(w) /\ TurnOK(w)
  BY DEF RefInv, TablesInv, HandlersInv, SerialInv
<1>2. pc[w] = "nsc.insert" /\ body[w].op = "nsCreate" /\ pc'[w] = "audit" /\ body' = body /\ reply' = reply
  BY <1>1 DEF NsCreateInsert, PlaceOK, Goto, TypeOK
<1>3. Responses[w].st = "pending" /\ Abstract!Settle(w, "applied", <<>>)
  BY <1>1, <1>2, AppliedSilent
<1>4. Histories' = Histories
  BY <1>1, <1>2, HistoriesKept DEF PutInsertVersion, DelExec
<1>5. NsMade' = NsMade \cup {body[w].ns}
  <2>1. PICK new : new.name = body[w].ns /\ namespaces' = namespaces \cup {new}
    BY DEF NsCreateInsert, InsertNamespace
  <2>2. QED
    BY <2>1 DEF NsMade
<1>6. Made' = Made
  BY <1>1, <1>2, MadeKept DEF PutCreateResource, DelExec
<1>7. CASE body[w].ns \notin NsMade
  BY <1>2, <1>3, <1>4, <1>5, <1>6, <1>7 DEF Abstract!CreateNamespace, Abstract!Pending
<1>8. CASE body[w].ns \in NsMade
  <2>1. NsRowsOf(body[w].ns) # {}
    BY <1>8 DEF NsRowsOf, NsMade
  <2>2. faults > 0
    BY <1>1, <1>2, <2>1 DEF TurnOK, TypeOK
  <2>3. NsMade' = NsMade
    BY <1>5, <1>8
  <2>4. QED
    BY <1>2, <1>3, <1>4, <1>6, <1>8, <2>2, <2>3 DEF CreatesAgain, OnlyAnswers, Abstract!Pending
<1>9. QED
  BY <1>7, <1>8

LEMMA RefDeleteNamespace ==
    ASSUME RefInv, NEW w \in Requests, Acts(w), NsDeleteExec(w), pc'[w] = "audit"
    PROVE  Abstract!DeleteNamespace(w) \/ DeletesNothing(w)
<1>1. TypeOK /\ FreshIds /\ ReferentialIntegrity /\ TargetOK(w) /\ PlaceOK(w) /\ ReadTurn(w)
  BY DEF RefInv, TablesInv, HandlersInv
<1>2. pc[w] = "nsd.exec" /\ body[w].op = "nsDelete" /\ body' = body /\ ResRowsIn(body[w].ns) = {}
  BY <1>1 DEF NsDeleteExec, PlaceOK, ReadTurn
<1>3. reply' = reply /\ namespaces' = namespaces \ NsRowsOf(body[w].ns)
  BY <1>2 DEF NsDeleteExec
<1>4. Responses[w].st = "pending" /\ Abstract!Settle(w, "applied", <<>>)
  BY <1>1, <1>2, <1>3, AppliedSilent
<1>5. Histories' = Histories
  BY <1>1, <1>2, HistoriesKept DEF PutInsertVersion, DelExec
<1>6. NsMade' = NsMade \ {body[w].ns}
  BY <1>3 DEF NsRowsOf, NsMade
<1>7. Made' = Made
  BY <1>1, <1>2, MadeKept DEF PutCreateResource, DelExec
<1>8. ~Abstract!Holds(body[w].ns)
  <2>1. body[w].ns \in NsNames
    BY <1>1 DEF TypeOK, Body
  <2>2. \A name \in ResNames : ResRowsOf(body[w].ns, name) = {}
    BY <1>2 DEF ResRowsOf
  <2>3. QED
    BY <2>1, <2>2, MadeAt DEF Abstract!Holds
<1>9. CASE body[w].ns \in NsMade
  BY <1>2, <1>4, <1>5, <1>6, <1>7, <1>8, <1>9 DEF Abstract!DeleteNamespace, Abstract!Pending
<1>10. CASE body[w].ns \notin NsMade
  <2>1. NsMade' = NsMade
    BY <1>6, <1>10
  <2>2. QED
    BY <1>2, <1>4, <1>5, <1>7, <1>10, <2>1 DEF DeletesNothing, OnlyAnswers, Abstract!Pending
<1>11. QED
  BY <1>9, <1>10

\* The version asked for is one of another resource, which exists.
Foreign(w) ==
    /\ body[w].op = "getByVersionUUID"
    /\ \E t \in Made \ {Abstract!Target(w)} : Abstract!IsVersionOf(body[w].uuid, t)

LEMMA TargetMade ==
    ASSUME RefInv, NEW w \in Requests, ResExists(loc[w].rid)
    PROVE  Abstract!Target(w) \in Made
<1>1. TypeOK /\ ReferentialIntegrity /\ TargetOK(w)
  BY DEF RefInv, TablesInv, HandlersInv
<1>2. body[w].ns \in NsNames /\ body[w].name \in ResNames
  BY <1>1 DEF TypeOK, Body
<1>3. QED
  BY <1>1, <1>2, FoundOfName, MadeAt DEF Abstract!Target

\* What a query has found is an answer to it.
LEMMA FoundIsAnswer ==
    ASSUME RefInv, NEW w \in Requests, pc[w] = "get.open", NEW v \in Candidates(w)
    PROVE  /\ v \in versions
           /\ <<v.uuid>> \in Abstract!Answers(w) \/ (Foreign(w) /\ v.uuid = body[w].uuid)
<1>1. PlaceOK(w) /\ ReadTurn(w) /\ versions \subseteq VerRow /\ body[w] \in Body
  BY DEF RefInv, TablesInv, HandlersInv, TypeOK
<1>2. body[w].op \in Reads /\ body[w].ns \in NsNames /\ body[w].name \in ResNames /\ v \in versions
  BY <1>1 DEF PlaceOK, Body, Candidates, VersionsOf
<1> DEFINE h == HistoryOf(body[w].ns, body[w].name)
           rows == VersionsOf(loc[w].rid)
<1>3. Histories[<<body[w].ns, body[w].name>>] = h
  BY <1>2, HistoryAt
<1>4. ASSUME body[w].op \in {"get", "getVersion"}
      PROVE  /\ v \in rows /\ h = InOrder(rows) /\ Counted(rows) /\ rows \in SUBSET VerRow
             /\ v.version \in DOMAIN h /\ h[v.version] = v.uuid
  <2>1. v \in rows
    BY <1>4 DEF Candidates, IsLatest
  <2>2. h = InOrder(rows) /\ Counted(rows) /\ rows \in SUBSET VerRow
    BY <1>1, <1>4, FoundHistory DEF ReadTurn
  <2>3. QED
    BY <2>1, <2>2, InOrderAt
<1>5. CASE body[w].op = "get"
  <2>1. v.version = Cardinality(rows)
    <3>1. \A u \in rows : u.version <= v.version
      BY <1>5 DEF Candidates, IsLatest
    <3> HIDE DEF rows, h
    <3>2. QED
      BY <1>4, <1>5, <3>1, MaxIsCount
  <2>2. Len(h) = v.version /\ h # <<>>
    <3>1. Len(InOrder(rows)) = Cardinality(rows) /\ DOMAIN InOrder(rows) # {}
      BY <1>4, <1>5, InOrderIs
    <3>2. DOMAIN <<>> = {}
      OBVIOUS
    <3>3. QED
      BY <1>4, <1>5, <2>1, <3>1, <3>2
  <2>3. Abstract!Target(w) \in Made
    BY <1>1, <1>5, TargetMade DEF ReadTurn
  <2> HIDE DEF h, rows
  <2>4. QED
    BY <1>2, <1>3, <1>4, <1>5, <2>2, <2>3 DEF Abstract!Answers, Abstract!Target
<1>6. CASE body[w].op = "getVersion"
  <2>1. v.version = body[w].num
    BY <1>6 DEF Candidates
  <2> HIDE DEF h, rows
  <2>2. QED
    BY <1>2, <1>3, <1>4, <1>6, <2>1 DEF Abstract!Answers, Abstract!Target
<1>7. CASE body[w].op \in {"getByUUID", "getByVersionUUID"}
  <2>1. v.uuid = body[w].uuid
    BY <1>7 DEF Candidates
  <2>2. PICK t \in DOMAIN Histories : t \in Made /\ Abstract!IsVersionOf(body[w].uuid, t)
    BY <1>2, <2>1, VersionIsElement
  <2>3. CASE body[w].op = "getByUUID"
    BY <1>2, <2>1, <2>2, <2>3 DEF Abstract!Answers
  <2>4. CASE body[w].op = "getByVersionUUID" /\ t = Abstract!Target(w)
    BY <1>2, <2>1, <2>2, <2>4 DEF Abstract!Answers
  <2>5. CASE body[w].op = "getByVersionUUID" /\ t # Abstract!Target(w)
    BY <1>2, <2>1, <2>2, <2>5 DEF Foreign
  <2>6. QED
    BY <1>7, <2>3, <2>4, <2>5
<1>8. QED
  BY <1>2, <1>5, <1>6, <1>7 DEF Reads

\* A query of a resource that has no version yet is answered without one.
LEMMA NoneIsAnswer ==
    ASSUME RefInv, NEW w \in Requests, ResExists(loc[w].rid), VersionsOf(loc[w].rid) = {},
           body[w].op = "get"
    PROVE  <<>> \in Abstract!Answers(w)
<1>1. body[w].ns \in NsNames /\ body[w].name \in ResNames
  BY DEF RefInv, TablesInv, TypeOK, Body
<1>2. HistoryOf(body[w].ns, body[w].name) = <<>>
  BY FoundHistory, InOrderEmpty
<1>3. Histories[<<body[w].ns, body[w].name>>] = <<>> /\ Abstract!Target(w) \in Made
  BY <1>1, <1>2, HistoryAt, TargetMade
<1>4. QED
  BY <1>3 DEF Abstract!Answers, Abstract!Target

LEMMA NoLatest ==
    ASSUME NEW rows, Counted(rows), \A v \in rows : ~IsLatest(v, rows)
    PROVE  rows = {}
<1>1. Cardinality(rows) \in Nat
  BY FS_CardinalityType DEF Counted
<1>2. CASE Cardinality(rows) = 0
  BY <1>1, <1>2 DEF Counted
<1>3. CASE Cardinality(rows) # 0
  <2>1. PICK v \in rows : v.version = Cardinality(rows)
    BY <1>1, <1>3 DEF Counted
  <2>2. \A u \in rows : u.version <= v.version
    BY <1>1, <2>1 DEF Counted
  <2>3. QED
    BY <2>1, <2>2 DEF IsLatest
<1>4. QED
  BY <1>2, <1>3

\* What decryptValue makes of a version is the value its writer submitted.
LEMMA OpenedIsWritten ==
    ASSUME RefInv, NEW v \in versions
    PROVE  decryptValue(v).under = None /\ decryptValue(v).text = v.uuid /\ v.uuid \in Requests
<1>1. v \in VerRow /\ WrittenBy(v)
  BY DEF RefInv, TablesInv, HandlersInv, TypeOK, VersionOK
<1>2. QED
  BY <1>1 DEF decryptValue, WrittenBy, VerRow, Blob

LEMMA RefRead ==
    ASSUME RefInv, NEW w \in Requests, Acts(w), GetOpen(w), pc'[w] = "audit"
    PROVE  Abstract!Read(w) \/ ReadsForeign(w)
<1>1. TypeOK /\ FreshIds /\ ReferentialIntegrity /\ TargetOK(w) /\ PlaceOK(w) /\ ReadTurn(w) /\ VersionsCounted
  BY DEF RefInv, TablesInv, HandlersInv
<1>2. pc[w] = "get.open" /\ body[w].op \in Reads /\ body' = body /\ namespaces' = namespaces
  BY <1>1 DEF GetOpen, PlaceOK, tables
<1>3. reply'[w].plain = {decryptValue(rv) : rv \in reply[w].rows}
  BY <1>1, <1>2 DEF GetOpen, Respond, Goto, TypeOK, Replies
<1>4. Histories' = Histories /\ Made' = Made /\ NsMade' = NsMade
  <2>1. ~PutInsertVersion(w) /\ ~DelExec(w) /\ ~PutCreateResource(w)
    BY <1>2 DEF PutInsertVersion, DelExec, PutCreateResource
  <2>2. QED
    BY <1>1, <1>2, <2>1, HistoriesKept, MadeKept DEF NsMade
<1>5. Responses[w].st = "pending"
  BY <1>1, <1>2, PendingIsSilent
<1>6. Abstract!Settle(w, "applied", ValuesIn(body[w].op, reply'[w]))
  BY <1>1, Applied
<1>7. CASE reply[w].rows = {} /\ Candidates(w) = {} /\ body[w].op = "get"
  <2>1. ResExists(loc[w].rid)
    BY <1>1, <1>2, <1>7 DEF ReadTurn
  <2>2. Counted(VersionsOf(loc[w].rid))
    BY <2>1, FoundHistory
  <2>3. \A v \in VersionsOf(loc[w].rid) : ~IsLatest(v, VersionsOf(loc[w].rid))
    BY <1>7 DEF Candidates, VersionsOf
  <2>4. <<>> \in Abstract!Answers(w)
    BY <1>7, <2>1, <2>2, <2>3, NoLatest, NoneIsAnswer
  <2>5. reply'[w].plain = {}
    BY <1>3, <1>7
  <2>6. ValuesIn(body[w].op, reply'[w]) = <<>>
    BY <1>7, <2>5, ValuesOfNothing
  <2>7. QED
    BY <1>2, <1>4, <1>5, <1>6, <1>7, <2>4, <2>6 DEF Abstract!Read, Abstract!Pending, Abstract!Queries
<1>8. CASE \E v \in Candidates(w) : reply[w].rows = {v}
  <2>1. PICK v \in Candidates(w) : reply[w].rows = {v}
    BY <1>8
  <2>2. /\ v \in versions
        /\ <<v.uuid>> \in Abstract!Answers(w) \/ (Foreign(w) /\ v.uuid = body[w].uuid)
    BY <1>2, <2>1, FoundIsAnswer
  <2>3. PICK b : b = decryptValue(v)
    OBVIOUS
  <2>4. reply'[w].plain = {b} /\ b.under = None /\ b.text = v.uuid /\ v.uuid \in Requests
    BY <1>3, <2>1, <2>2, <2>3, OpenedIsWritten
  <2>5. ValuesIn(body[w].op, reply'[w]) = <<v.uuid>>
    BY <1>2, <2>4, ValuesOfOne DEF Reads
  <2>6. CASE <<v.uuid>> \in Abstract!Answers(w)
    BY <1>2, <1>4, <1>5, <1>6, <2>5, <2>6 DEF Abstract!Read, Abstract!Pending, Abstract!Queries, Reads
  <2>7. CASE Foreign(w) /\ v.uuid = body[w].uuid
    <3>1. Abstract!Target(w) \in Made
      BY <1>1, <1>2, <2>7, TargetMade DEF ReadTurn, Foreign
    <3>2. QED
      BY <1>2, <1>4, <1>5, <1>6, <2>5, <2>7, <3>1 DEF ReadsForeign, OnlyAnswers, Abstract!Pending, Foreign
  <2>8. QED
    BY <2>2, <2>6, <2>7
<1>9. QED
  BY <1>1, <1>2, <1>7, <1>8 DEF ReadTurn

LEMMA RefList ==
    ASSUME RefInv, NEW w \in Requests, Acts(w), ListRows(w)
    PROVE  Abstract!Read(w)
<1>1. TypeOK /\ FreshIds /\ ReferentialIntegrity /\ TargetOK(w) /\ PlaceOK(w) /\ ReadTurn(w)
  BY DEF RefInv, TablesInv, HandlersInv
<1>2. /\ pc[w] = "lst.rows" /\ body[w].op = "listVersions" /\ ResExists(loc[w].rid)
      /\ body' = body /\ namespaces' = namespaces /\ pc'[w] = "audit"
  BY <1>1 DEF ListRows, PlaceOK, ReadTurn, tables, Goto, TypeOK
<1>3. reply'[w].rows = VersionsOf(loc[w].rid)
  BY <1>1 DEF ListRows, TypeOK, Replies
<1>4. Histories' = Histories /\ Made' = Made /\ NsMade' = NsMade
  <2>1. ~PutInsertVersion(w) /\ ~DelExec(w) /\ ~PutCreateResource(w)
    BY <1>2 DEF PutInsertVersion, DelExec, PutCreateResource
  <2>2. QED
    BY <1>1, <1>2, <2>1, HistoriesKept, MadeKept DEF NsMade
<1>5. Responses[w].st = "pending"
  BY <1>1, <1>2, PendingIsSilent
<1> DEFINE h == HistoryOf(body[w].ns, body[w].name)
<1>6. h = InOrder(VersionsOf(loc[w].rid))
  BY <1>2, FoundHistory
<1>7. ValuesIn(body[w].op, reply'[w]) = h
  BY <1>2, <1>3, <1>6 DEF ValuesIn
<1>8. Abstract!Settle(w, "applied", h)
  BY <1>1, <1>2, <1>7, Applied
<1>9. Histories[<<body[w].ns, body[w].name>>] = h
  BY <1>1, HistoryAt DEF TypeOK, Body
<1> HIDE DEF h
<1>10. h \in Abstract!Answers(w)
  BY <1>2, <1>9, TargetMade DEF Abstract!Answers, Abstract!Target
<1>11. QED
  BY <1>2, <1>4, <1>5, <1>8, <1>10 DEF Abstract!Read, Abstract!Pending, Abstract!Queries

-----------------------------------------------------------------------------
(* The refinement. *)

LEMMA RefOpenNamespace ==
    ASSUME RefInv, NEW w \in Requests, PutCreateNamespace(w),
           Histories' = Histories, Made' = Made, body' = body, Responses' = Responses
    PROVE  Abstract!OpenNamespace(w)
<1>1. pc[w] = "put.mkns" /\ PlaceOK(w) /\ ReadTurn(w)
  BY DEF RefInv, HandlersInv, PutCreateNamespace
<1>2. body[w].op = "put" /\ Responses[w].st = "pending"
  BY <1>1, PendingIsSilent DEF PlaceOK
<1>3. NsMade' = NsMade \cup {body[w].ns}
  <2>1. PICK new : new.name = body[w].ns /\ namespaces' = namespaces \cup {new}
    BY DEF PutCreateNamespace, InsertNamespace
  <2>2. QED
    BY <2>1 DEF NsMade
<1>4. QED
  BY <1>2, <1>3 DEF Abstract!OpenNamespace, Abstract!Pending

LEMMA RefOpenResource ==
    ASSUME RefInv, NEW w \in Requests, PutCreateResource(w), pc'[w] # "done",
           Histories' = Histories, body' = body, Responses' = Responses
    PROVE  Abstract!OpenResource(w)
<1>1. pc[w] = "put.mkres" /\ PlaceOK(w) /\ ReadTurn(w) /\ TypeOK /\ TargetOK(w)
  BY DEF RefInv, TablesInv, HandlersInv, PutCreateResource
<1>2. body[w].op = "put" /\ Responses[w].st = "pending"
  BY <1>1, PendingIsSilent DEF PlaceOK
<1>3. /\ Made' = Made \cup {<<body[w].ns, body[w].name>>}
      /\ body[w].ns \in NsMade /\ namespaces' = namespaces
  BY <1>1, MadeOpened
<1>4. NsMade' = NsMade
  BY <1>3 DEF NsMade
<1>5. QED
  BY <1>2, <1>3, <1>4 DEF Abstract!OpenResource, Abstract!Pending, Abstract!Target

\* Every statement of a handler is the instant of its request, or is invisible.
LEMMA RefAct ==
    ASSUME RefInv, NEW w \in Requests, Acts(w), PlaceOK(w)', ReadTurn(w)'
    PROVE  NextButDepartures \/ UNCHANGED Abstract!absVars
<1>0. TypeOK /\ pc[w] # "done"
  BY DEF RefInv, TablesInv, Acts, Begin, Refuse, NsCreateFindFails, WriteAuditFails, Fail, InFlight,
     Step, PutGetNamespace, PutCreateNamespace, PutGetResource, PutCreateResource, PutUpdateType,
     PutCreateKey, PutReadMax, PutInsertVersion, DelFind, DelExec, GetFind, GetValue, GetOpen,
     UuidFind, UuidResource, ListFind, ListRows, NsCreateFind, NsCreateInsert, NsDeleteList,
     NsDeleteExec, WriteAudit
<1>1. CASE pc[w] = "audit"
  BY <1>1, RefAnswer DEF Abstract!AbsNext, NextButDepartures
<1>2. CASE pc[w] # "audit" /\ pc'[w] = "done"
  BY <1>0, <1>2, RefEnding DEF Abstract!AbsNext, NextButDepartures
<1>3. CASE pc[w] # "audit" /\ pc'[w] = "audit"
  <2>1. \/ PutInsertVersion(w) \/ DelExec(w) \/ GetOpen(w) \/ ListRows(w)
        \/ NsCreateInsert(w) \/ NsDeleteExec(w)
    BY <1>0, <1>3, Applying
  <2>2. \/ Abstract!Put(w) \/ Abstract!Delete(w) \/ Abstract!Read(w)
        \/ Abstract!CreateNamespace(w) \/ Abstract!DeleteNamespace(w) \/ Departs(w)
    BY <1>3, <2>1, RefPut, RefDelete, RefRead, RefList, RefCreateNamespace, RefDeleteNamespace DEF Departs
  <2>3. QED
    BY <2>2 DEF Abstract!AbsNext, NextButDepartures
<1>4. CASE pc[w] # "audit" /\ pc'[w] \notin {"audit", "done"}
  <2>1. /\ Histories' = Histories /\ body' = body /\ Responses' = Responses
        /\ \/ Made' = Made /\ namespaces' = namespaces
           \/ Made' = Made /\ PutCreateNamespace(w)
           \/ PutCreateResource(w)
    BY <1>0, <1>4, RefMiddle
  <2>2. CASE Made' = Made /\ PutCreateNamespace(w)
    BY <2>1, <2>2, RefOpenNamespace DEF Abstract!AbsNext, NextButDepartures
  <2>3. CASE PutCreateResource(w)
    BY <1>4, <2>1, <2>3, RefOpenResource DEF Abstract!AbsNext, NextButDepartures
  <2>4. CASE Made' = Made /\ namespaces' = namespaces
    BY <2>1, <2>4 DEF Abstract!absVars, NsMade
  <2>5. QED
    BY <2>1, <2>2, <2>3, <2>4
<1>5. QED
  BY <1>1, <1>2, <1>3, <1>4

LEMMA RefStep ==
    ASSUME RefInv, RefInv', [Next]_vars
    PROVE  [NextButDepartures]_(Abstract!absVars)
<1>1. TypeOK /\ \A w \in Requests : PlaceOK(w)' /\ ReadTurn(w)'
  BY DEF RefInv, TablesInv, HandlersInv
<1>2. ASSUME NEW w \in Requests, Acts(w) PROVE [NextButDepartures]_(Abstract!absVars)
  BY <1>1, <1>2, RefAct
<1>3. CASE /\ body' = body /\ pc' = pc /\ reply' = reply
           /\ namespaces' = namespaces /\ resources' = resources /\ versions' = versions
  <2>1. Histories' = Histories
    BY <1>3 DEF Histories, HistoryOf, InOrder, ResRowsOf, ResRowsIn
  <2>2. Responses' = Responses
    BY <1>3 DEF Responses, StageOf, ValuesIn, InOrder
  <2>3. Made' = Made /\ NsMade' = NsMade
    BY <1>3 DEF Made, NsMade, ResRowsOf, ResRowsIn
  <2>4. QED
    BY <1>3, <2>1, <2>2, <2>3 DEF Abstract!absVars
<1>4. QED
  BY <1>1, <1>2, <1>3, StepsAreActs

LEMMA RefInit ==
    ASSUME Init
    PROVE  Abstract!AbsInit
<1>1. /\ namespaces = {} /\ resources = {} /\ versions = {}
      /\ \A w \in Requests : pc[w] = "new" /\ reply[w].rows = {} /\ reply[w].plain = {}
  BY DEF Init
<1>2. Histories = [t \in NsNames \X ResNames |-> <<>>]
  <2>1. \A t \in NsNames \X ResNames : ResRowsOf(t[1], t[2]) = {}
    BY <1>1 DEF ResRowsOf, ResRowsIn
  <2>2. \A t \in NsNames \X ResNames : HistoryOf(t[1], t[2]) = <<>>
    BY <2>1, HistoryOfNoRow
  <2>3. QED
    BY <2>2 DEF Histories
<1>3. Responses = [w \in Requests |-> [st |-> "pending", vals |-> <<>>]]
  <2>1. ASSUME NEW w \in Requests PROVE StageOf(w) = "pending" /\ ValuesIn(body[w].op, reply[w]) = <<>>
    BY <1>1, ValuesOfNothing DEF StageOf
  <2>2. QED
    BY <2>1 DEF Responses
<1>4. NsMade = {} /\ Made = {}
  BY <1>1 DEF NsMade, Made, ResRowsOf, ResRowsIn
<1>5. QED
  BY <1>2, <1>3, <1>4 DEF Abstract!AbsInit

LEMMA RefInvInductive ==
    ASSUME MaxInFlight = 1
    PROVE  Spec => []RefInv
<1> DEFINE Turns == VersionsCounted /\ \A w \in Requests : ReadTurn(w)
<1>1. Init => Turns
  <2> SUFFICES ASSUME Init PROVE Turns
    OBVIOUS
  <2>1. VersionsCounted
    BY CountedEmpty DEF Init, VersionsCounted, VersionsOf
  <2>2. \A w \in Requests : ReadTurn(w)
    BY DEF Init, ReadTurn
  <2>3. QED
    BY <2>1, <2>2
<1>2. TablesInv /\ HandlersInv /\ SerialInv /\ Turns /\ [Next]_vars => Turns'
  <2> SUFFICES ASSUME TablesInv, HandlersInv, SerialInv, Turns, [Next]_vars PROVE Turns'
    OBVIOUS
  <2>1. TypeOK /\ OneAtATime
    BY DEF TablesInv, SerialInv
  <2>2. ASSUME NEW w \in Requests, Acts(w) PROVE Turns'
    <3>1. PlaceOK(w) /\ TurnOK(w)
      BY DEF HandlersInv, SerialInv
    <3>2. VersionsCounted'
      BY <2>1, <2>2, <3>1, CountedStep
    <3>3. \A u \in Requests : ReadTurn(u)'
      BY <2>1, <2>2, <3>1, ReadTurnStep, ReadTurnWaits
    <3>4. QED
      BY <3>2, <3>3
  <2>3. CASE /\ body' = body /\ pc' = pc /\ loc' = loc /\ reply' = reply
             /\ resources' = resources /\ namespaces' = namespaces /\ versions' = versions
    <3>1. VersionsCounted'
      BY <2>3 DEF VersionsCounted, VersionsOf, Counted
    <3>2. \A u \in Requests : ReadTurn(u)'
      BY <2>3 DEF ReadTurn, ResExists, Candidates, VersionsOf, IsLatest, ResRowsIn
    <3>3. QED
      BY <3>1, <3>2
  <2>4. QED
    BY <2>1, <2>2, <2>3, StepsAreActs
<1>3. TablesInv /\ HandlersInv /\ SerialInv /\ Turns => RefInv
  BY DEF RefInv
<1> HIDE DEF Turns
<1>4. QED
  BY <1>1, <1>2, <1>3, TablesInductive, HandlersInductive, SerialInductive, PTL DEF Spec

\* For clients that take turns the handlers of internal/api/resource.go implement the
\* documented store of VersionedStore but for the departures named in
\* ResourceStoreRefinement: through failed statements, crashes and changes of KEK every
\* request acts on the histories at one instant, or not at all.
THEOREM HandlersImplementStore ==
    ASSUME MaxInFlight = 1
    PROVE  Spec => ImplementsButDepartures
<1>1. Init => Abstract!AbsInit
  BY RefInit
<1>2. RefInv /\ RefInv' /\ [Next]_vars => [NextButDepartures]_(Abstract!absVars)
  BY RefStep
<1>3. QED
  BY <1>1, <1>2, RefInvInductive, PTL DEF Spec, ImplementsButDepartures
=============================================================================
