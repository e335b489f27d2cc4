--------------------------- MODULE ResourceStore ---------------------------
(***************************************************************************)
(* The resource service: the handlers of internal/api/resource.go, run as  *)
(* concurrent goroutines over the tables of internal/orm.                  *)
(*                                                                         *)
(* A handler is a sequence of SQL statements.  PostgreSQL runs them under  *)
(* READ COMMITTED and the handlers hold no lock, so one action below is    *)
(* one statement (or one commit), and the steps of two handlers interleave *)
(* freely.  A request is an element of Requests: it is sent once, and its  *)
(* value, the UUID gen_random_uuid() gives its version row, the DEK it     *)
(* generates and the key row that wraps it are all identified with it,     *)
(* because they are fresh and are never compared except for equality.      *)
(* Authorisation (authz.CheckWithAnon) and body validation read none of    *)
(* these tables: they appear here as the free choice between Begin and     *)
(* Refuse.                                                                 *)
(***************************************************************************)
EXTENDS Naturals, FiniteSets

CONSTANTS
    Requests,     \* the HTTP requests a behaviour may serve
    NsNames,      \* namespace names other than the reserved "_"
    ResNames,     \* resource names
    KEKs,         \* well-formed values of BRINECRYPT_KEK
    NoKEK,        \* BRINECRYPT_KEK unset or malformed
    None,         \* SQL NULL
    Bodies,       \* the request bodies clients send
    MaxInFlight,  \* bound: how many requests may overlap (1 = serial clients)
    MaxFaults     \* bound: failed statements, lost replicas and KEK changes

Types == {"cleartext", "encrypted"}

Ops == {"put", "delete", "get", "getVersion", "getByVersionUUID", "getByUUID",
        "listVersions", "nsCreate", "nsDelete"}

Body == [op : Ops, ns : NsNames, name : ResNames, type : Types,
         num : Nat, uuid : Requests \cup {None}]

ASSUME StoreAssumption ==
    /\ None \notin Requests
    /\ NoKEK \notin KEKs
    /\ Bodies \subseteq Body
    /\ MaxInFlight \in Nat
    /\ MaxFaults \in Nat

VARIABLES
    namespaces,  \* rows of table namespaces
    resources,   \* rows of table resources
    versions,    \* rows of table resource_versions
    keys,        \* rows of table encryption_keys
    nsSeq,       \* last id the sequence of namespaces gave out
    resSeq,      \* last id the sequence of resources gave out
    audit,       \* the requests that have a row in audit_logs
    kek,         \* BRINECRYPT_KEK in the environment of the newest process
    faults,      \* number of faults so far
    pc,          \* pc[w]: the statement the handler of w runs next
    body,        \* body[w]: the decoded request
    loc,         \* loc[w]: what its handler has read: ids, MAX(version), KEK
    reply        \* reply[w]: status and contents of its response

tables == <<namespaces, resources, versions, keys, nsSeq, resSeq>>
vars == <<tables, audit, kek, faults, pc, body, loc, reply>>

(***************************************************************************)
(* Rows.  A Blob is a stored string: its text and the key it is sealed     *)
(* under (None for clear text).                                            *)
(***************************************************************************)
Blob == [text : Requests, under : Requests \cup {None}]

NsRow == [id : Nat, name : NsNames]
ResRow == [id : Nat, nsId : Nat, name : ResNames, type : Types]
VerRow == [uuid : Requests, rid : Nat, version : Nat,
           alg : {"undefined", "aes-256-gcm"}, data : Blob,
           key : Requests \cup {None}]
KeyRow == [id : Requests, dek : Requests, kek : KEKs]

Statuses == {"none", "ok", "notFound", "conflict", "error", "refused"}

Labels == {"new", "done", "audit",
           "put.ns", "put.mkns", "put.find", "put.mkres", "put.settype",
           "put.key", "put.max", "put.insert",
           "del.find", "del.exec", "get.find", "get.value", "get.open",
           "uuid.find", "uuid.res", "lst.find", "lst.rows",
           "nsc.find", "nsc.insert", "nsd.list", "nsd.exec"}

\* The local variables of a handler, and what it has of its response.
Locals == [nsId : Nat, rid : Nat, max : Nat, kek : KEKs \cup {NoKEK}]
Replies == [status : Statuses, rows : SUBSET VerRow, plain : SUBSET Blob]

TypeOK ==
    /\ namespaces \subseteq NsRow
    /\ resources \subseteq ResRow
    /\ versions \subseteq VerRow
    /\ keys \subseteq KeyRow
    /\ nsSeq \in Nat
    /\ resSeq \in Nat
    /\ audit \subseteq Requests
    /\ kek \in KEKs \cup {NoKEK}
    /\ faults \in Nat
    /\ pc \in [Requests -> Labels]
    /\ body \in [Requests -> Body]
    /\ loc \in [Requests -> Locals]
    /\ reply \in [Requests -> Replies]

-----------------------------------------------------------------------------
(* Queries of internal/store. *)

\* gorm's First: ORDER BY primary key LIMIT 1.
IsFirst(x, rows) == x \in rows /\ \A y \in rows : x.id <= y.id

NsRowsOf(ns) == {x \in namespaces : x.name = ns}

\* JOIN namespaces ON namespaces.id = resources.namespace_id
ResRowsIn(ns) ==
    {r \in resources : \E x \in namespaces : x.id = r.nsId /\ x.name = ns}

ResRowsOf(ns, name) == {r \in ResRowsIn(ns) : r.name = name}

VersionsOf(rid) == {v \in versions : v.rid = rid}

\* Foreign keys declared by the gorm tags of internal/orm.
NsExists(id) == \E x \in namespaces : x.id = id
ResExists(id) == \E r \in resources : r.id = id

\* ORDER BY version DESC LIMIT 1: any of the rows with the highest number.
IsLatest(v, rows) == v \in rows /\ \A u \in rows : u.version <= v.version

\* Mutation: the SELECT has lost its WHERE resource_id = ?.
IsMaxOfAnyResource(m, rid) ==
    /\ m = 0 \/ \E v \in versions : v.version = m
    /\ \A v \in versions : v.version <= m

\* SELECT COALESCE(MAX(version), 0)
IsMaxVersion(m, rid) ==
    /\ m = 0 \/ \E v \in VersionsOf(rid) : v.version = m
    /\ \A v \in VersionsOf(rid) : v.version <= m

-----------------------------------------------------------------------------
(* internal/crypto: authenticated envelope encryption. *)

sealGCM(text, key) == [text |-> text, under |-> key]

\* Mutation: the key row is created but its id is not put in the version.
StoredVersionWithoutKey(w, rid, number) ==
    LET enc == body[w].type = "encrypted"
    IN [uuid |-> w, rid |-> rid, version |-> number,
        alg  |-> IF enc THEN "aes-256-gcm" ELSE "undefined",
        data |-> sealGCM(w, IF enc THEN w ELSE None),
        key  |-> None]

\* The value as it is stored, and the columns that say how.
StoredVersion(w, rid, number) ==
    LET enc == body[w].type = "encrypted"
    IN [uuid    |-> w,
        rid     |-> rid,
        version |-> number,
        alg     |-> IF enc THEN "aes-256-gcm" ELSE "undefined",
        data    |-> sealGCM(w, IF enc THEN w ELSE None),
        key     |-> IF enc THEN w ELSE None]

\* decryptValue succeeds: nothing to do, or the key row opens under the KEK
\* of this process and its DEK opens the data.
Openable(rv, myKEK) ==
    \/ rv.alg = "undefined"
    \/ \E k \in keys : k.id = rv.key /\ k.kek = myKEK /\ k.dek = rv.data.under

\* Mutation: the plaintext is not assigned back to rv.Data.
decryptValueDiscarded(rv) == rv.data

decryptValue(rv) ==
    IF rv.alg = "undefined" THEN rv.data ELSE [rv.data EXCEPT !.under = None]

-----------------------------------------------------------------------------
(* Control. *)

InFlight(w) == pc[w] \notin {"new", "done"}

Goto(w, label) == pc' = [pc EXCEPT ![w] = label]

Respond(w, status) ==
    /\ Goto(w, "done")
    /\ reply' = [reply EXCEPT ![w].status = status]

FirstLabel(op) ==
    CASE op = "put"              -> "put.ns"
      [] op = "delete"           -> "del.find"
      [] op = "get"              -> "get.find"
      [] op = "getVersion"       -> "get.find"
      [] op = "getByVersionUUID" -> "get.find"
      [] op = "getByUUID"        -> "uuid.find"
      [] op = "listVersions"     -> "lst.find"
      [] op = "nsCreate"         -> "nsc.find"
      [] op = "nsDelete"         -> "nsd.list"

Init ==
    /\ namespaces = {} /\ resources = {} /\ versions = {} /\ keys = {}
    /\ nsSeq = 0 /\ resSeq = 0
    /\ audit = {}
    /\ kek \in KEKs
    /\ faults = 0
    /\ pc = [w \in Requests |-> "new"]
    /\ body \in [Requests -> Bodies]
    /\ loc = [w \in Requests |-> [nsId |-> 0, rid |-> 0, max |-> 0, kek |-> NoKEK]]
    /\ reply = [w \in Requests |-> [status |-> "none", rows |-> {}, plain |-> {}]]

\* The router hands the request to its handler and the checks let it through.
\* The process that serves it keeps its environment to the end.
Begin(w) ==
    /\ pc[w] = "new"
    /\ Cardinality({u \in Requests : InFlight(u)}) < MaxInFlight
    /\ Goto(w, FirstLabel(body[w].op))
    /\ loc' = [loc EXCEPT ![w].kek = kek]
    /\ UNCHANGED <<tables, audit, kek, faults, body, reply>>

\* 400, 403 and 404 for "_": the early returns before the first statement.
Refuse(w) ==
    /\ pc[w] = "new"
    /\ Respond(w, "refused")
    /\ UNCHANGED <<tables, audit, kek, faults, body, loc>>

-----------------------------------------------------------------------------
(* PUT /api/v1/resource: handleResourcePut. *)

InsertNamespace(w) ==
    /\ namespaces' = namespaces \cup {[id |-> nsSeq + 1, name |-> body[w].ns]}
    /\ nsSeq' = nsSeq + 1

AfterResource(w) == IF body[w].type = "encrypted" THEN "put.key" ELSE "put.max"

PutGetNamespace(w) ==
    /\ pc[w] = "put.ns"
    /\ \/ \E x \in namespaces :
            /\ IsFirst(x, NsRowsOf(body[w].ns))
            /\ loc' = [loc EXCEPT ![w].nsId = x.id]
            /\ Goto(w, "put.find")
       \/ /\ NsRowsOf(body[w].ns) = {}
          /\ Goto(w, "put.mkns")
          /\ UNCHANGED loc
    /\ UNCHANGED <<tables, audit, kek, faults, body, reply>>

PutCreateNamespace(w) ==
    /\ pc[w] = "put.mkns"
    /\ InsertNamespace(w)
    /\ loc' = [loc EXCEPT ![w].nsId = nsSeq + 1]
    /\ Goto(w, "put.find")
    /\ UNCHANGED <<resources, versions, keys, resSeq, audit, kek, faults, body, reply>>

\* Mutation: the handler creates a resource without looking for one.
PutAlwaysCreates(w) ==
    /\ pc[w] = "put.find"
    /\ Goto(w, "put.mkres")
    /\ UNCHANGED <<tables, audit, kek, faults, body, loc, reply>>

PutGetResource(w) ==
    /\ pc[w] = "put.find"
    /\ \/ \E r \in resources :
            /\ IsFirst(r, ResRowsOf(body[w].ns, body[w].name))
            /\ loc' = [loc EXCEPT ![w].rid = r.id]
            /\ Goto(w, IF r.type # body[w].type THEN "put.settype" ELSE AfterResource(w))
       \/ /\ ResRowsOf(body[w].ns, body[w].name) = {}
          /\ Goto(w, "put.mkres")
          /\ UNCHANGED loc
    /\ UNCHANGED <<tables, audit, kek, faults, body, reply>>

\* The foreign key refuses a namespace row that is gone by now.
PutCreateResource(w) ==
    /\ pc[w] = "put.mkres"
    /\ \/ /\ NsExists(loc[w].nsId)
          /\ resources' = resources \cup
                {[id |-> resSeq + 1, nsId |-> loc[w].nsId,
                  name |-> body[w].name, type |-> body[w].type]}
          /\ resSeq' = resSeq + 1
          /\ loc' = [loc EXCEPT ![w].rid = resSeq + 1]
          /\ Goto(w, AfterResource(w))
          /\ UNCHANGED reply
       \/ /\ ~NsExists(loc[w].nsId)
          /\ Respond(w, "error")
          /\ UNCHANGED <<resources, resSeq, loc>>
    /\ UNCHANGED <<namespaces, versions, keys, nsSeq, audit, kek, faults, body>>

\* Mutation: the type is changed in memory only.
SetTypeInMemory(rid, t) == resources

\* UPDATE ... WHERE id: no error when the row is gone.
SetType(rid, t) ==
    {IF r.id = rid THEN [r EXCEPT !.type = t] ELSE r : r \in resources}

PutUpdateType(w) ==
    /\ pc[w] = "put.settype"
    /\ resources' = SetType(loc[w].rid, body[w].type)
    /\ Goto(w, AfterResource(w))
    /\ UNCHANGED <<namespaces, versions, keys, nsSeq, resSeq, audit, kek, faults,
                   body, loc, reply>>

\* Mutation: the error of GetKEK is ignored.
PutCreateKeyUnchecked(w) ==
    /\ pc[w] = "put.key"
    /\ keys' = keys \cup {[id |-> w, dek |-> w, kek |-> loc[w].kek]}
    /\ Goto(w, "put.max")
    /\ UNCHANGED <<namespaces, resources, versions, nsSeq, resSeq, audit, kek, faults,
                   body, loc, reply>>

\* GetKEK, GenerateDEK, EncryptValue, EncryptDEK, CreateEncryptionKey.
PutCreateKey(w) ==
    /\ pc[w] = "put.key"
    /\ \/ /\ loc[w].kek # NoKEK
          /\ keys' = keys \cup {[id |-> w, dek |-> w, kek |-> loc[w].kek]}
          /\ Goto(w, "put.max")
          /\ UNCHANGED reply
       \/ /\ loc[w].kek = NoKEK
          /\ Respond(w, "error")
          /\ UNCHANGED keys
    /\ UNCHANGED <<namespaces, resources, versions, nsSeq, resSeq, audit, kek, faults,
                   body, loc>>

PutReadMax(w) ==
    /\ pc[w] = "put.max"
    /\ \E m \in {0} \cup {v.version : v \in versions} :
          /\ IsMaxVersion(m, loc[w].rid)
          /\ loc' = [loc EXCEPT ![w].max = m]
    /\ Goto(w, "put.insert")
    /\ UNCHANGED <<tables, audit, kek, faults, body, reply>>

\* Mutation: the version number is the maximum itself.
NextVersionIsMax(max) == max

NextVersion(max) == max + 1

\* Mutation: an upsert on (resource_id, version).
PutUpsertVersion(w) ==
    /\ pc[w] = "put.insert"
    /\ \/ /\ ResExists(loc[w].rid)
          /\ versions' = {v \in versions : v.rid # loc[w].rid
                                           \/ v.version # NextVersion(loc[w].max)}
                \cup {StoredVersion(w, loc[w].rid, NextVersion(loc[w].max))}
          /\ Goto(w, "audit")
          /\ UNCHANGED reply
       \/ /\ ~ResExists(loc[w].rid)
          /\ Respond(w, "error")
          /\ UNCHANGED versions
    /\ UNCHANGED <<namespaces, resources, keys, nsSeq, resSeq, audit, kek, faults,
                   body, loc>>

\* Mutation: a refused insert is retried from the SELECT of the maximum.
PutInsertRetries(w) ==
    /\ pc[w] = "put.insert"
    /\ \/ /\ ResExists(loc[w].rid)
          /\ versions' = versions \cup
                {StoredVersion(w, loc[w].rid, NextVersion(loc[w].max))}
          /\ Goto(w, "audit")
       \/ /\ ~ResExists(loc[w].rid)
          /\ Goto(w, "put.max")
          /\ UNCHANGED versions
    /\ UNCHANGED <<namespaces, resources, keys, nsSeq, resSeq, audit, kek, faults,
                   body, loc, reply>>

\* The foreign key refuses a resource row that is gone by now.
PutInsertVersion(w) ==
    /\ pc[w] = "put.insert"
    /\ \/ /\ ResExists(loc[w].rid)
          /\ versions' = versions \cup
                {StoredVersion(w, loc[w].rid, NextVersion(loc[w].max))}
          /\ Goto(w, "audit")
          /\ UNCHANGED reply
       \/ /\ ~ResExists(loc[w].rid)
          /\ Respond(w, "error")
          /\ UNCHANGED versions
    /\ UNCHANGED <<namespaces, resources, keys, nsSeq, resSeq, audit, kek, faults,
                   body, loc>>

-----------------------------------------------------------------------------
(* DELETE /api/v1/resource: handleResourceDelete, store.DeleteResource. *)

DelFind(w) ==
    /\ pc[w] = "del.find"
    /\ \/ \E r \in resources :
            /\ IsFirst(r, ResRowsOf(body[w].ns, body[w].name))
            /\ loc' = [loc EXCEPT ![w].rid = r.id]
            /\ Goto(w, "del.exec")
            /\ UNCHANGED reply
       \/ /\ ResRowsOf(body[w].ns, body[w].name) = {}
          /\ Respond(w, "notFound")
          /\ UNCHANGED loc
    /\ UNCHANGED <<tables, audit, kek, faults, body>>

\* Mutation: the association is not selected and does not cascade.
RemoveNoVersions(rid) == versions

\* Mutation: the DELETE of the versions has lost its WHERE.
RemoveAllVersions(rid) == {}

RemoveVersions(rid) == {v \in versions : v.rid # rid}

\* Both DELETEs commit together; their key rows stay.
DelExec(w) ==
    /\ pc[w] = "del.exec"
    /\ resources' = {r \in resources : r.id # loc[w].rid}
    /\ versions' = RemoveVersions(loc[w].rid)
    /\ Goto(w, "audit")
    /\ UNCHANGED <<namespaces, keys, nsSeq, resSeq, audit, kek, faults, body, loc, reply>>

-----------------------------------------------------------------------------
(* POST /api/v1/resource?op=query: handleGetResource, handleGetByUUID. *)

GetFind(w) ==
    /\ pc[w] = "get.find"
    /\ \/ \E r \in resources :
            /\ IsFirst(r, ResRowsOf(body[w].ns, body[w].name))
            /\ loc' = [loc EXCEPT ![w].rid = r.id]
            /\ Goto(w, "get.value")
            /\ UNCHANGED reply
       \/ /\ ResRowsOf(body[w].ns, body[w].name) = {}
          /\ Respond(w, "notFound")
          /\ UNCHANGED loc
    /\ UNCHANGED <<tables, audit, kek, faults, body>>

\* Mutation: GetResourceVersion filters by version alone.
CandidatesOfAnyResource(w) ==
    CASE body[w].op = "get" ->
            {v \in versions : IsLatest(v, VersionsOf(loc[w].rid))}
      [] body[w].op = "getVersion" -> {v \in versions : v.version = body[w].num}
      [] OTHER -> {v \in versions : v.uuid = body[w].uuid}

\* The version rows a query of w may return.
Candidates(w) ==
    CASE body[w].op = "get" ->
            {v \in versions : IsLatest(v, VersionsOf(loc[w].rid))}
      [] body[w].op = "getVersion" ->
            {v \in VersionsOf(loc[w].rid) : v.version = body[w].num}
      [] OTHER -> {v \in versions : v.uuid = body[w].uuid}

Fetched(w, v, label) ==
    /\ reply' = [reply EXCEPT ![w].rows = {v}]
    /\ Goto(w, label)

\* Preload("Value") finding no row leaves Value nil: 200 without a value.
GetValue(w) ==
    /\ pc[w] = "get.value"
    /\ \/ \E v \in Candidates(w) : Fetched(w, v, "get.open")
       \/ Candidates(w) = {} /\ body[w].op = "get" /\ Goto(w, "get.open") /\ UNCHANGED reply
       \/ Candidates(w) = {} /\ body[w].op # "get" /\ Respond(w, "notFound")
    /\ UNCHANGED <<tables, audit, kek, faults, body, loc>>

GetOpen(w) ==
    /\ pc[w] = "get.open"
    /\ \/ /\ \A rv \in reply[w].rows : Openable(rv, loc[w].kek)
          /\ reply' = [reply EXCEPT ![w].plain = {decryptValue(rv) : rv \in reply[w].rows}]
          /\ Goto(w, "audit")
       \/ /\ \E rv \in reply[w].rows : ~Openable(rv, loc[w].kek)
          /\ Respond(w, "error")
    /\ UNCHANGED <<tables, audit, kek, faults, body, loc>>

UuidFind(w) ==
    /\ pc[w] = "uuid.find"
    /\ \/ \E v \in Candidates(w) : Fetched(w, v, "uuid.res")
       \/ Candidates(w) = {} /\ Respond(w, "notFound")
    /\ UNCHANGED <<tables, audit, kek, faults, body, loc>>

\* GetResourceByID, then the permission check on the resource it names.
UuidResource(w) ==
    /\ pc[w] = "uuid.res"
    /\ \E v \in reply[w].rows :
         \/ ResExists(v.rid) /\ Goto(w, "get.open") /\ UNCHANGED reply
         \/ ResExists(v.rid) /\ Respond(w, "refused")
         \/ ~ResExists(v.rid) /\ Respond(w, "error")
    /\ UNCHANGED <<tables, audit, kek, faults, body, loc>>

-----------------------------------------------------------------------------
(* POST /api/v1/resource?op=versions: handleListVersions. *)

ListFind(w) ==
    /\ pc[w] = "lst.find"
    /\ \/ \E r \in resources :
            /\ IsFirst(r, ResRowsOf(body[w].ns, body[w].name))
            /\ loc' = [loc EXCEPT ![w].rid = r.id]
            /\ Goto(w, "lst.rows")
            /\ UNCHANGED reply
       \/ /\ ResRowsOf(body[w].ns, body[w].name) = {}
          /\ Respond(w, "notFound")
          /\ UNCHANGED loc
    /\ UNCHANGED <<tables, audit, kek, faults, body>>

\* Mutation: the listing keeps the LIMIT 1 of the query for the latest.
ListLatestRow(w) ==
    /\ pc[w] = "lst.rows"
    /\ reply' = [reply EXCEPT ![w].rows =
                   {v \in versions : IsLatest(v, VersionsOf(loc[w].rid))}]
    /\ Goto(w, "audit")
    /\ UNCHANGED <<tables, audit, kek, faults, body, loc>>

ListRows(w) ==
    /\ pc[w] = "lst.rows"
    /\ reply' = [reply EXCEPT ![w].rows = VersionsOf(loc[w].rid)]
    /\ Goto(w, "audit")
    /\ UNCHANGED <<tables, audit, kek, faults, body, loc>>

-----------------------------------------------------------------------------
(* POST /api/v1/namespace?op=create and op=delete. *)

\* Mutation: op=create inserts without looking.
NsCreateUnchecked(w) ==
    /\ pc[w] = "nsc.find"
    /\ Goto(w, "nsc.insert")
    /\ UNCHANGED <<tables, audit, kek, faults, body, loc, reply>>

NsCreateFind(w) ==
    /\ pc[w] = "nsc.find"
    /\ \/ NsRowsOf(body[w].ns) # {} /\ Respond(w, "conflict")
       \/ NsRowsOf(body[w].ns) = {} /\ Goto(w, "nsc.insert") /\ UNCHANGED reply
    /\ UNCHANGED <<tables, audit, kek, faults, body, loc>>

\* The handler takes any error of the lookup for "not found".
NsCreateFindFails(w) ==
    /\ pc[w] = "nsc.find"
    /\ faults < MaxFaults
    /\ faults' = faults + 1
    /\ Goto(w, "nsc.insert")
    /\ UNCHANGED <<tables, audit, kek, body, loc, reply>>

NsCreateInsert(w) ==
    /\ pc[w] = "nsc.insert"
    /\ InsertNamespace(w)
    /\ Goto(w, "audit")
    /\ UNCHANGED <<resources, versions, keys, resSeq, audit, kek, faults, body, loc, reply>>

NsDeleteList(w) ==
    /\ pc[w] = "nsd.list"
    /\ \/ ResRowsIn(body[w].ns) # {} /\ Respond(w, "conflict")
       \/ ResRowsIn(body[w].ns) = {} /\ Goto(w, "nsd.exec") /\ UNCHANGED reply
    /\ UNCHANGED <<tables, audit, kek, faults, body, loc>>

\* DELETE ... WHERE name: no error when there is no such row, and the foreign
\* key refuses it when a resource has arrived since the listing.
NsDeleteExec(w) ==
    /\ pc[w] = "nsd.exec"
    /\ \/ /\ ResRowsIn(body[w].ns) = {}
          /\ namespaces' = namespaces \ NsRowsOf(body[w].ns)
          /\ Goto(w, "audit")
          /\ UNCHANGED reply
       \/ /\ ResRowsIn(body[w].ns) # {}
          /\ Respond(w, "error")
          /\ UNCHANGED namespaces
    /\ UNCHANGED <<resources, versions, keys, nsSeq, resSeq, audit, kek, faults, body, loc>>

-----------------------------------------------------------------------------
(* The common tail, faults, and the specification. *)

WriteAudit(w) ==
    /\ pc[w] = "audit"
    /\ audit' = audit \cup {w}
    /\ Respond(w, "ok")
    /\ UNCHANGED <<tables, kek, faults, body, loc>>

\* WriteAudit only logs a failed insert; the handler answers as if it had not.
WriteAuditFails(w) ==
    /\ pc[w] = "audit"
    /\ faults < MaxFaults
    /\ faults' = faults + 1
    /\ Respond(w, "ok")
    /\ UNCHANGED <<tables, audit, kek, body, loc>>

\* A statement fails (500), or the process dies and the connection with it.
\* What earlier statements committed stays.
Fail(w) ==
    /\ InFlight(w)
    /\ faults < MaxFaults
    /\ faults' = faults + 1
    /\ Respond(w, "error")
    /\ UNCHANGED <<tables, audit, kek, body, loc>>

\* The chart is rolled out with another Secret behind BRINECRYPT_KEK.
Redeploy ==
    /\ faults < MaxFaults
    /\ faults' = faults + 1
    /\ kek' \in (KEKs \cup {NoKEK}) \ {kek}
    /\ UNCHANGED <<tables, audit, pc, body, loc, reply>>

Step(w) ==
    \/ PutGetNamespace(w) \/ PutCreateNamespace(w) \/ PutGetResource(w)
    \/ PutCreateResource(w) \/ PutUpdateType(w) \/ PutCreateKey(w)
    \/ PutReadMax(w) \/ PutInsertVersion(w)
    \/ DelFind(w) \/ DelExec(w)
    \/ GetFind(w) \/ GetValue(w) \/ GetOpen(w) \/ UuidFind(w) \/ UuidResource(w)
    \/ ListFind(w) \/ ListRows(w)
    \/ NsCreateFind(w) \/ NsCreateInsert(w) \/ NsDeleteList(w) \/ NsDeleteExec(w)
    \/ WriteAudit(w)

\* Every request has been answered: the clients stop.
Terminated ==
    /\ \A w \in Requests : pc[w] = "done"
    /\ UNCHANGED vars

Next ==
    \/ \E w \in Requests :
         \/ Begin(w) \/ Refuse(w) \/ Step(w)
         \/ NsCreateFindFails(w) \/ WriteAuditFails(w) \/ Fail(w)
    \/ Redeploy
    \/ Terminated

Spec == Init /\ [][Next]_vars

\* A goroutine that has a statement to run goes on running.
FairSpec == Spec /\ \A w \in Requests : WF_vars(Step(w))

-----------------------------------------------------------------------------
(* What holds however the requests interleave and whatever fails. *)

\* Foreign keys: every resource has its namespace, every version its resource,
\* although namespaces and resources are deleted between the lookups of a PUT
\* and its inserts.
ReferentialIntegrity ==
    /\ \A r \in resources : NsExists(r.nsId)
    /\ \A v \in versions : ResExists(v.rid)

\* The version numbers in rows, all of one resource, are 1 .. k without a gap.
GapFree(rows) ==
    \A v \in rows : /\ v.version >= 1
                    /\ \A n \in 1 .. v.version :
                         \E u \in rows : u.rid = v.rid /\ u.version = n

\* "Full history": CreateResourceValue numbers the versions of a resource from
\* 1 without gaps, although MAX(version) is stale when it is used.
HistoryGapFree == GapFree(versions)

\* A listing of versions never shows a history with a hole in it, whatever is
\* written or deleted while handleListVersions runs.
ListingGapFree == \A w \in Requests : body[w].op = "listVersions" => GapFree(reply[w].rows)

\* Envelope encryption: a version says it is sealed exactly if it is, and the
\* key row that wraps its DEK is there, so that the KEK it was written under
\* opens it.
EnvelopeIntegrity ==
    \A v \in versions :
      /\ v.alg = "aes-256-gcm" <=> v.data.under # None
      /\ v.alg = "aes-256-gcm" =>
           \E k \in keys : Openable(v, k.kek)

SameTarget(u, w) == body[u].ns = body[w].ns /\ body[u].name = body[w].name

\* A write that was acknowledged or audited is in the table, unless a DELETE of
\* the same name found its resource: no failure and no other request loses it.
AckedWriteDurable ==
    \A w \in Requests :
      (body[w].op = "put" /\ (reply[w].status = "ok" \/ w \in audit)) =>
        \/ \E v \in versions : v.uuid = w /\ v.rid = loc[w].rid
        \/ \E d \in Requests : /\ body[d].op = "delete" /\ SameTarget(d, w)
                               /\ loc[d].rid = loc[w].rid

\* A query returns, in clear, a value that some PUT submitted: never ciphertext,
\* and never the value of another resource (or, by UUID, of another version),
\* although it looks the resource up and reads its version in two statements.
ReadIntegrity ==
    \A w \in Requests :
      (body[w].op \in {"get", "getVersion", "getByUUID", "getByVersionUUID"} /\ reply[w].status = "ok") =>
        \A b \in reply[w].plain :
          /\ b.under = None /\ body[b.text].op = "put"
          /\ body[w].op \in {"get", "getVersion"} => SameTarget(b.text, w)
          /\ body[w].op \in {"getByUUID", "getByVersionUUID"} => b.text = body[w].uuid

\* Versions are immutable: a row of resource_versions never changes, and it
\* goes away only with its resource.
VersionsImmutable ==
    [][\A v \in versions : v \in versions' \/ ~ResExists(v.rid)']_vars

\* Every request that reaches its handler is answered: no lookup, however stale
\* its result, leaves a handler without a next statement.
EveryRequestAnswered == \A w \in Requests : InFlight(w) ~> pc[w] = "done"

-----------------------------------------------------------------------------
(* The inductive invariant behind the theorems of ResourceStoreProofs. *)

\* Sequences never give an id out again: no handler holds an id that a later
\* insert could reuse.
FreshIds ==
    /\ \A x \in namespaces : x.id <= nsSeq
    /\ \A r \in resources : r.id <= resSeq
    /\ \A w \in Requests : loc[w].nsId <= nsSeq /\ loc[w].rid <= resSeq

\* The maximum a writer has read may be stale, but every number up to it is
\* still taken as long as its resource exists.
StaleMaxIsTaken ==
    \A w \in Requests :
      (pc[w] = "put.insert" /\ ResExists(loc[w].rid)) =>
        \A n \in 1 .. loc[w].max :
          \E u \in versions : u.rid = loc[w].rid /\ u.version = n

\* The inductive invariant of the tables: it implies ReferentialIntegrity and
\* HistoryGapFree.
TablesInv ==
    TypeOK /\ FreshIds /\ ReferentialIntegrity /\ StaleMaxIsTaken /\ HistoryGapFree

-----------------------------------------------------------------------------
(* What holds when clients take turns, and what overlapping requests break. *)

\* "Retrieval of any previous version" by number needs the number to name one
\* version of the resource.
VersionNumbersUnique ==
    \A u, v \in versions : u.rid = v.rid /\ u.version = v.version => u = v

\* A DELETE that removes the resource it found leaves none of that name.
DeleteRemovesName ==
    [][\A w \in Requests :
         (pc[w] = "del.exec" /\ ResExists(loc[w].rid) /\ ~ResExists(loc[w].rid)')
           => ResRowsOf(body[w].ns, body[w].name)' = {}]_vars

\* "Delete a resource and all its versions": of what was acknowledged before a
\* DELETE was sent nothing is left once the DELETE has been answered.
DeleteIsComplete ==
    \A d, p \in Requests :
      [](/\ body[d].op = "delete" /\ body[p].op = "put" /\ SameTarget(d, p)
         /\ pc[d] = "new" /\ reply[p].status = "ok"
         => [](reply[d].status = "ok" => \A v \in versions : v.uuid # p))

\* Once writers are done, and none of them failed half-way, the type of a
\* resource is the one its latest version (if one is the latest) was written
\* with.
TypeFollowsLatestWrite ==
    (faults = 0 /\ \A w \in Requests : body[w].op = "put" => ~InFlight(w)) =>
      \A r \in resources : \A v \in versions :
        (v.rid = r.id /\ \A u \in VersionsOf(r.id) \ {v} : u.version < v.version) =>
          (r.type = "encrypted" <=> v.alg = "aes-256-gcm")

\* While nobody deletes a resource, a query of its latest version finds one
\* from the moment a PUT of it has been acknowledged.
AckedWriteVisible ==
    \A w \in Requests :
      (/\ body[w].op = "put" /\ reply[w].status = "ok"
       /\ \A d \in Requests : body[d].op = "delete" /\ SameTarget(d, w) => pc[d] = "new")
      => \E r \in resources : /\ IsFirst(r, ResRowsOf(body[w].ns, body[w].name))
                              /\ VersionsOf(r.id) # {}

\* A namespace is created once, by a PUT or by op=create, unless a lookup of it
\* failed.
NamespaceUnique ==
    faults = 0 => \A x, y \in namespaces : x.name = y.name => x = y
=============================================================================
