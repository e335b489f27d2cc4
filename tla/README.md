# A TLA+ model of brinecrypt

brinecrypt is a secret store: an HTTP server over PostgreSQL that keeps versioned resources in
namespaces, encrypts them on request, and authenticates users, personal access tokens, capability
tokens and Kubernetes service accounts. An operator mirrors resources into Kubernetes Secrets.

The handlers are goroutines without locks. Each is a sequence of SQL statements under READ COMMITTED,
most of them commits of their own, and most tables have no unique constraint but the primary key. What
one request does between two statements of another is what a test of the handlers hardly reaches, and
it is what these modules are about.

## 1. Inventory

| Component | State | Operations | Talks to |
|---|---|---|---|
| Resource service (`internal/api/resource.go`, `internal/store/{resource,resource_value,namespace,encryption_key}.go`) | tables `namespaces`, `resources`, `resource_versions`, `encryption_keys` | put, delete, query (latest, by number, by version UUID, by UUID alone), list versions; namespace create, delete, list, query | authorisation, encryption, audit log |
| Envelope encryption (`internal/crypto`) | `BRINECRYPT_KEK` of the process, one DEK per version | seal, open | key rows |
| Credentials (`internal/auth`, `internal/api/{auth,tokens}.go`) | tables `sessions`, `pats`, `capability_tokens` | login, refresh, logout, anonymous token, issue and revoke, the middleware's lookup | users, audit log |
| Users (`internal/api/admin.go`, `internal/store/user.go`) | table `users` | create, delete (with every credential), list | credentials, permissions |
| Authorisation (`internal/authz`, `internal/store/{permission,anon}.go`) | tables `permissions`, the join tables, `anon_permissions` | check, grant, revoke, patterns | read by every handler |
| Audit log (`internal/api/audit.go`) | table `audit_logs` | write at the end of a handler, query | |
| Service account sync (`internal/k8s/sync.go`, `internal/store/sa.go`) | table `service_accounts` | watch a ConfigMap, replace permissions; create an account on first use of a JWT | permissions, middleware |
| Bootstrap token and CORS sync (`internal/k8s/{admintokens,cors}.go`) | sets in process memory | watch, replace | middleware |
| Operator (`internal/operator`) | BrinecryptSecret objects and Secrets in the cluster | reconcile | resource service, as a service account |

The hard behaviours, each listed at its line under `hazards` in `PROJECT.json`:

* **check then act**: a row that was found, or found missing, is gone, or there, when the next
  statement runs (namespaces, resources, `MAX(version)`, users, sessions, owners of tokens);
* **several commits in one handler**: a failed statement or a dying replica in between leaves the
  earlier ones (a key without a version, a resource without a version, two sessions after a refresh,
  a mutation without its audit row);
* **a replaced process**: the KEK is an environment variable, and a new replica may have another;
* **expiry and revocation** racing the use of a credential or a permission;
* **replicas that lag behind each other**: every server process follows the ConfigMaps by itself and
  writes what it last saw into one database; watches close and events are lost;
* **stale caches and conflicts**: the operator acts on cached objects, between two of its calls anyone may
  write, and each call may fail after it took effect.

What makes each component correct: histories without holes, immutable versions and intact references
(resource service); a value opens under the KEK it was written with and a reader never gets ciphertext
(encryption); revocation is final, nothing outlives its user, only owners revoke (credentials); a grant
that was answered is whole and suffices, a revocation leaves nothing, and grants and tokens do not reach the
reserved namespace or beyond their issuer, which the code ensures except for partial globs (authorisation); a listed permission is never lost and everything converges to the
ConfigMap (syncs); no Secret is taken from another object, Ready is about the present spec, and Secrets
converge to the server's values (operator).

## 2. Modules

| Module | What it is |
|---|---|
| `ResourceStore` | the resource service and envelope encryption, one action per SQL statement or commit |
| `VersionedStore` | what the documentation promises clients: named histories on which a request acts at one instant, and when it is answered 404 or 409 |
| `ResourceStoreRefinement` | the refinement mapping from the first to the second, and the three departures of the code from the documentation |
| `ResourceStoreProofs`, `ResourceHandlerProofs` | theorems about the tables of `ResourceStore`, and about what its handlers read and answer |
| `SerialProofs` | theorems about `ResourceStore` for clients that take turns; the proof of the refinement |
| `Credentials` | middleware, sessions, PATs, capability and anonymous tokens, users |
| `CredentialsProofs` | theorems about `Credentials` |
| `Permissions` | patterns, their two matches and their validations; used by the next two |
| `Authz` | permission checks and the endpoints that grant, revoke, show and copy permissions |
| `SASync` | the ConfigMap loops: service accounts in the database, bootstrap tokens and origins in memory |
| `Operator` | the reconciler of BrinecryptSecret objects with its caches, queue and cluster |
| `AuthzProofs`, `RevocationProofs` | theorems about `Authz`: what is granted and copied; what revocations and grants leave; what later requests find |
| `SASyncProofs`, `OperatorProofs` | theorems about `SASync` and `Operator` |
| `MCResourceStore`, `MCCredentials`, `MCAuthz`, `MCSASync`, `MCOperator` | the request bodies and small sets the runs use |

### ResourceStore

The tables are sets of rows (`namespaces`, `resources`, `versions`, `keys`) with the sequences of
their ids. A request `w` has a program counter `pc[w]` naming its next statement (`put.find`,
`del.exec`, ...), its body, the locals its handler has read (`loc[w]`: ids, `MAX(version)`, the KEK of
its process) and its reply. `Begin` is the router, `Refuse` every early return before the first
statement (validation, reserved namespace, permission denied). Each handler then is a chain of actions
in the order of the code; for a PUT: `PutGetNamespace`, `PutCreateNamespace`, `PutGetResource`,
`PutCreateResource` or `PutUpdateType`, `PutCreateKey`, `PutReadMax`, `PutInsertVersion`, `WriteAudit`.

What is abstracted:

* a submitted value, the UUID of its version row, its DEK and its key row are named by the request
  that creates them: all are fresh and are only compared for equality;
* a stored string is its text and the key that seals it; AES-GCM opens it under that key only;
* foreign keys, as the gorm tags declare them, are guards of the inserts and deletes; `First` is the
  lowest id; `ORDER BY version DESC LIMIT 1` is any row of the highest number;
* `DeleteResource` is a transaction, but READ COMMITTED lets others in between its SELECT and its
  DELETEs: two actions. The two DELETEs are one action: a version inserted between them goes with the
  resource, by cascade. In the same way `CreateResourceValue` is a SELECT and an INSERT;
* `Fail` stops a handler before any statement, by an error or a crash; `NsCreateFindFails` is the one
  place where the code takes an error for "not found"; `WriteAuditFails` is the swallowed error of
  `WriteAudit`; `Redeploy` replaces the process by one with another KEK, or none. Together they are
  bounded by `MaxFaults`.

### Credentials

The same form, over `users`, `sessions`, `pats`, `caps`. A token is a random string of which only the
hash is stored, so a credential is named by the request that issued it, and a client may present it
once that request was answered (`Holds`). `expired` holds the credentials whose expiry has passed:
`Expire` lets time pass it at any moment, and `InvalidateSession` writes it. `Arrive` and the `Mw`
actions are `AuthMiddleware`: the public and optional paths, then the credential's row, then its user.
Permission checks are the free choice to answer "forbidden" or "unauthorized". `before[w]` is a history
variable: the requests that had been answered with success when `w` arrived.

What a token may do is in `Authz`, the JWT of a service account in `SASync`.

### Permissions and Authz

A pattern is a pair of segments: a name, the star, `_`, or a partial glob, of which only the texts it
matches are kept (`Expands`). These may be any texts, as for `path.Match`: a name, `_`, `*`, the text of
another glob; a glob need not match its own (`[ab]`). A glob may also be one that `path.Match` refuses
(`Malformed`): a check that meets it among the rows ends with an error, unless a row that matches comes
first (`BadPattern`, `Breaking`). `Escaped` are the globs with a backslash only, which a namespace listing
takes for names. Names have no slashes. `matchesPattern` is the match of a check, `matchesDeletePattern` the
textual one of a revocation; the validations compare whole segments with `*` and `_`.

`Authz` has the form of `Credentials`: a label per statement, one action per statement or commit. Its
tables are `principals` (users and service accounts), `links` (the two join tables, each row with its
permission), `anon` and `caps` (capability tokens with their copies). A permission row that no join row
refers to is never read, so `CreatePermission` and the join row after it are one step. `Check` is
`CheckFind` (by *name*), `CheckPerms` and, for `CheckWithAnon`, `checkAnon`; `Goal` says what is asked for
and `AfterCheck` what each endpoint does with the verdict: `requireMeta` and `hasMetaNS` take an error for a
refusal, `IssueCapabilityToken` goes on to the next entry, a namespace listing collects verbs. A row
remembers who granted it and to whom, `used[w]` collects the rows that a request was allowed by, showed or
copied, and `before[w]` the requests that were answered when it arrived: with these histories the
properties relate a request to what had been promised before it.

A caller has a valid credential when its request arrives: the lookups of the middleware, the expiry of
tokens and the audit rows are in `Credentials`. A query names one principal.

### SASync

The three loops (`watchLoop`, `watchAdminTokens`, `watchCORSOrigins`) have one shape: a Get, then watches
until the process ends, every event applied. They share nothing, so a behaviour is about one of them
(`feed`). For service accounts an event is a walk over the entries: `GetSA`, `CreateSA`, then the
transaction of `ReplaceSAPermissions` in two steps, because under READ COMMITTED its DELETE removes only
the rows it saw (`cleared`) and other replicas commit in between (`Spare`). Around the loops are the cluster
(`EditConfigMap`, `DeleteConfigMap`, `CloseWatch`), a request whose JWT makes the middleware call
`GetOrCreateSA` (`CallerFind`, `CallerCreate`), administrators, and faults: a failed entry, a failed Get,
a crash. A watch without a resource version starts with the object as it is; a DELETED event carries
the last object and is applied like any other. A list of bootstrap tokens may hold the empty string, which
`IsBootstrapToken` refuses before it looks. A list names an account at most once. A failed Watch
changes nothing and is left out, and so is a missing Kubernetes client, without which the loop
never starts.

### Operator

The API server's objects, the informers' copies of them, the work queue, and one worker (leader election
and `MaxConcurrentReconciles = 1`). Resource versions grow without bound, so a copy carries `fresh`: no
write since it was read; the API server accepts an update made from a fresh copy only. `Start` reads the
CR from the cache, `Fetch` is the token request and the HTTP call, `WriteSecret` reads the Secret from the
cache and creates or updates it, `Succeed` and `Fail` write the status and return; a call that fails may have
taken effect. `SyncCR` and `SyncSecret` bring a cache up to date and enqueue what `For` and `Owns`
enqueue; a status write that changes something comes back that way too. Users edit, delete and recreate
CRs and touch Secrets; the server's value changes; the garbage collector deletes a Secret whose
controller is gone. Left out: the immutable type of a Secret, the texts of errors, and a cache that catches
up in several steps.

### VersionedStore

It is written from `README.md` and `openapi.yaml`, not from the handlers. A request is pending, takes effect
at one instant, and is answered. There are no rows or keys: `hist` maps a namespace and name to the sequence
of values written, `made` and `nss` are the resources and namespaces that exist. A PUT may open its
namespace and its resource first; an answer may be lost after the effect; a request may be abandoned before
it. 404 is for a resource, a version of the resource named, or a namespace that is not there, 409 for a
namespace that is there already or is not empty.

The handlers do not do all of this even for one client. `ResourceStoreRefinement` names where they depart:

* `CreatesAgain`: a creation whose lookup failed is applied to a namespace that exists;
* `DeletesNothing`: the deletion of a missing namespace is answered with success;
* `ReadsForeign`: a query for a version by UUID also names a resource, which must exist, and gets the version
  of that UUID even when it is another resource's.

`ImplementsVersionedStore` is the documented store, which two configurations of section 4 refute;
`ImplementsButDepartures` lets a request take one of these three steps instead, and nothing else.

## 3. Runs that pass

| Run | Instance | What it shows |
|---|---|---|
| `store` | 3 requests of every kind on one name, and PUTs of a second, all overlapping; a KEK or none; 1 fault | `ReferentialIntegrity`, `HistoryGapFree`, `StaleMaxIsTaken`, `EnvelopeIntegrity`, `AckedWriteDurable`, `VersionsImmutable`, `ReadIntegrity`, `ListingGapFree` |
| `serial` | 3 requests of every kind on one name, and PUTs of a second, one at a time; 2 KEKs; 1 fault | `ImplementsButDepartures`; and, as long as clients take turns, `VersionNumbersUnique`, `TypeFollowsLatestWrite`, `AckedWriteVisible`, `NamespaceUnique`, `DeleteRemovesName` |
| `answered` | 2 overlapping requests of every kind on one name, and PUTs of a second; 1 fault | `EveryRequestAnswered` under fairness |
| `sessions` | 4 requests, 2 overlapping: login, refresh, logout, anonymous token, create and delete user; 1 fault | `CredentialsOwned`, `RevokedTokensAreDead`, `RevokedRefreshIsDead` |
| `tokens` | 4 requests, 2 overlapping, 2 users: login, issue, use and revoke PATs and capability tokens, delete user | `CredentialsOwned`, `RevokedTokensAreDead`, `OnlyTheOwnerRevokes` |
| `permissions` | 3 requests, 2 overlapping, of 16 kinds by an administrator, a user (session and PAT), a service account, tokens and anonymous callers; expiry; 1 fault | `RevocationIsFinal`, `AckedGrantIsWhole`, `GrantedPermissionSuffices`, `ReservedOnlyByGlob`, `CapExceedsOnlyByGlob` |
| `sa_sync` | 2 replicas, 2 accounts, 1 request with a JWT, 4 contents of the ConfigMap, 1 edit or deletion, 1 fault or act of an administrator | `QuietlySynced`, `SyncedRowsAreListed`, `ListedPermissionIsKept`; under fairness `SyncConverges`, `SettingsConverge` |
| `operator` | 2 CRs with one target and 2 keys, 1 change by users or the server, each CR recreated once, 1 fault or restart | `NoStolenSecret`, `ReadyDescribesSpec`; under fairness `SecretConverges`, `StatusConverges` |

`TypeOK` is checked in `store`, `sessions`, `permissions`, `sa_sync` and `operator`. A behaviour may stop only when all its requests are answered
(`Terminated`), so that a deadlock TLC reports is a handler that is stuck. The loops of `SASync` never
stop; the operator is idle once all its CRs are deleted, so its run does not look for deadlocks.

**Bounds.** Every race in the code is between two handlers over one name or one user, and needs at most
one more request to set it up or to observe it: two first PUTs and a DELETE; a PUT, a PUT and a listing;
a login, two refreshes and a use. Three requests on the store and four on the credentials (a token has to
be issued before it can be raced for) reach them all. One fault is enough because a second one hits another
request, and what it leaves is the same kind of rest. A second KEK is left to `serial`
and `answered`; in `store` a process has the one KEK or lost it. A second name serves only to see one resource's data
in another's answer, a second user only to see one user act on another's token. Requests are
interchangeable, and so are KEKs: runs without liveness use their symmetry.
A race about permissions is between a grant or revocation and one request that uses, shows or copies what it
is about; the third request observes the result. One edit makes two revisions, enough for two
replicas to disagree; a third replica would hold one of the same two. In `operator` one change lands at any
point of a reconciliation, and the second CR is what contends for the Secret; a CR may be deleted and
come back under another uid. The bodies of `MCAuthz` leave out four endpoints that run the actions of others
(creation by an administrator, a user's own permissions, the query of a service account's, the administrator's
view of the anonymous set). Its globs are the cases of `path.Match` that differ: `n*` and `n?`, of which each
matches the other's text, `?`, which matches `_` and `*`, `\_`, which matches `_` and looks like a name, and
`[`, which is malformed.

**Fairness.** `FairSpec` asks weak fairness of `Step(w)`, the statements of one handler: the Go scheduler
and PostgreSQL run a goroutine that has a statement to run, and no handler waits for another (none
holds a lock over a statement of its own). Nothing is assumed of `Begin`, of faults or of clients.
In `SASync` the steps of a loop are weakly fair, and so is `CloseWatch`: the API server ends every watch after
some time, and convergence after a failed entry rests on just that. `Receive` is strongly fair: closing
races delivery, and not every watch is closed before its first event. Nothing is assumed of callers or
administrators. In `Operator` the worker, the informers, the timers (`RequeueAfter`, backoff) and the
garbage collector are weakly fair; users, the server and faults are not.

## 4. Runs that find a difference

These state what the documentation says and find a behaviour of the code that does not do it. Each is a
finding in `PROJECT.json`, with the line it quotes.

| Run | Property | Behaviour |
|---|---|---|
| `dup_versions` | `VersionNumbersUnique` | two overlapping PUTs read the same maximum; two versions share a number |
| `reserved_glob` | `ReservedOnlyFromBootstrap` | a grant of `?/users` passes the validation and is a permission on `_/users` |
| `cap_scope` | `CapWithinIssuer` | the holder of `n?/r1` issues a token for `n*/r1`, because entries are checked as if they were resources |
| `refresh_twice` | `RefreshedOnce` | overlapping refreshes with one token both succeed |

`reserved_glob` and `cap_scope` need no overlap. What the code does ensure there is `ReservedOnlyByGlob` and
`CapExceedsOnlyByGlob`: only a partial glob leads to the reserved namespace or beyond the issuer.

Further configurations, kept beside the runs, find a counterexample each (`tlc -config <cfg> <module>`):

| Configuration | Property | Behaviour |
|---|---|---|
| `MCTypeRace.cfg` of `MCResourceStore` | `TypeFollowsLatestWrite` ("the latest successful write determines the resource's current type", `openapi/openapi.yaml:694`) | two overlapping PUTs update the type in one order and insert their versions in the other |
| `MCDupResources.cfg` | `DeleteIsComplete` ("Delete a resource and all its versions", `README.md:106`) | two first PUTs create the name twice, a DELETE removes one row, and an acknowledged version is left |
| `MCDupNamespaces.cfg` | `NamespaceUnique` ("Returns 409 if it already exists", `README.md:94`) | two overlapping creations of a namespace both answer 201 |
| `MCNsDeleteMissing.cfg` | `ImplementsVersionedStore` (404 "`op=delete` — namespace not found", `openapi/openapi.yaml:636`) | the deletion of a missing namespace is answered 204: `store.DeleteNamespace` never returns the error for which the handler answers 404 |
| `MCForeignVersion.cfg` | `ImplementsVersionedStore` ("add `version` ... for a specific version", `README.md:104`, `openapi/openapi.yaml:649-651`) | a query for a version of one resource by UUID gets a version of another |
| `MCSARace.cfg` of `MCSASync` | `SyncsOnChange` ("syncs SA permissions on change", `internal/k8s/sync.go:35`) | the sync and a request with a JWT both create the account; its permissions go to the row that no check reads, until the next watch |

`VersionNumbersUnique`, `TypeFollowsLatestWrite` and `NamespaceUnique` hold when clients take turns (`serial`), and
so do `AckedWriteVisible` and `DeleteRemovesName`, which break in the same way when the instance of `serial` is
given `MaxInFlight = 2`: the code is right for one client and lacks a lock or a unique constraint for two.
`NamespaceUnique` also breaks for one client when a lookup fails, which is why it is stated for behaviours
without a fault and `CreatesAgain` is a departure.

Other differences show in the actions themselves:

* `Arrive`: `/auth/refresh` is not among the public paths, so a refresh without a bearer token is
  answered 401, although `openapi/openapi.yaml:24` exempts it.
* `CreateUser` does not look for the name: a second user of a name survives a deletion of the first.
* `WriteAuditFails` answers success without the audit row the documentation promises.
* A malformed pattern such as `n1/[` passes every validation, and from then on a check of its verb may end
  in an error (500, or a refusal where the caller of `Check` takes an error for one).
  `GrantedPermissionSuffices` is therefore about answers of 403 from the resource API, which keeps the two apart.
* `ValidateDeletePattern` refuses the namespace `_` ("reserved namespace not allowed when revoking
  permissions", `internal/authz/principal.go:78`), but a revocation of `*/*` matches and removes permissions
  on `_` too.
* A grant or revocation that fails half-way leaves the entries it had applied, and no audit row: `WriteAudit`
  runs after the last one. `AckedGrantIsWhole` is about answers of success only.
* `QueryPerms`: `AdminUser` drops the error of its last query and then shows no permissions.
* An account that is no longer listed, and the accounts of a deleted ConfigMap, keep what they had; what an
  administrator grants to a listed account is gone after its next sync. `SyncConverges` is about listed
  accounts only.
* `WriteSecret`: after an edit of `targetSecret` the old Secret stays, and after an edit of `secretKey` the
  old key does.

## 5. Theorems

Proved by TLAPS for every set of requests, names, users, KEKs, replicas, CRs, bodies and every bound. The
assumptions on the constants are:

* `StoreAssumption`, `CredAssumption`: the bodies are of their type, `None` and `NoKEK` are not members of
  the other sets, the initial users have the ids the sequence gave out;
* `PermAssumption`, `AuthzAssumption`: names, globs, the star and `_` are told apart, and a glob matches
  any set of segments; initial rows have
  distinct ids; an initial grant belongs to the first principal of its name, the one checks find; the
  body of a deletion names a user (`DELETE /api/admin/users/{name}`);
* `SyncAssumption`: there is a replica, a list names an account at most once, and normalising a listed
  string gives patterns;
* `OperatorAssumption`: finitely many CRs; specs and values are of their types.

TLC evaluates them in the runs, and checked each inductive invariant before it was proved.

**ResourceStore.**

* `TypeCorrect`, `ReferencesHold`, `HistoriesHaveNoHoles`, `StaleMaximumIsTaken`: the inductive invariant
  is `TablesInv`. `HistoryGapFree` is not inductive: a writer inserts `max + 1` from a maximum it
  read earlier. `StaleMaxIsTaken` says that every number up to that maximum is still taken as long as
  the resource exists; it holds because versions leave only with their resource, and `FreshIds`
  (no handler holds an id that a sequence could still give out) is needed so that a *new* resource cannot
  take the id of the one the maximum was read for.
* `VersionsNeverChange`: an action property, from `TablesInv`; only `DelExec` removes version rows.
* `EnvelopesAreWhole`, `AckedWritesAreDurable`, `ReadsAreOfWrites`, `ListingsHaveNoHoles`: from
  `HandlersInv`, on top of `TablesInv`. It ties what a handler holds to the rows: the resource id in
  `loc[w]`, while that resource exists, is of the name in the body (`TargetOK`), with `UniqueIds` because two
  rows may share a *name*; the key row a PUT wrote is still there (`KeyOK`); every version is what its PUT
  submitted (`VersionOK`). What a query holds between its two statements is then a version of the resource it
  was asked for, or nothing.

**ResourceStore, for clients that take turns** (`SerialProofs`). Every theorem here assumes `MaxInFlight = 1`
and nothing else; the runs of section 4 show why it is needed.

* `NumbersNameOneVersion`, `NamespacesAreMadeOnce`, `TypesFollowWrites`, `AckedWritesAreVisible`,
  `DeletesRemoveTheName`: from `SerialInv`, on top of `TablesInv` and `HandlersInv`. At most one handler is between
  two statements (`OneAtATime`), so what it has looked up is still so (`TurnOK`: the missing name is still missing,
  the maximum is still the maximum), and a name has one row (`NamesUnique`). The type of a resource is
  updated before the version is inserted; `TypesFollow` allows that gap to the one PUT inside it. Three parts
  hold only without faults: `NsCreateFind` takes an error for "not found", and a PUT that dies between its two writes
  leaves the type without the version.
* `HandlersImplementStore`: `Spec => ImplementsButDepartures`. The mapping reads the history of a name off the
  version rows in the order of their numbers (`InOrder`), `made` and `nss` off the rows, and the stage of a
  request off its label. The invariant `RefInv` adds `VersionsCounted` (the k versions of a resource carry 1 to
  k, each once, so that `InOrder` is a sequence and an insert appends to it) and `ReadTurn` (what a reader or a
  deletion has found is still so, and a response is empty until its last statement). Each statement is then invisible, or opens the namespace
  or the resource of a PUT, or is the instant of its request, its early end, or one of the departures; that a
  creation departs only after a fault is part of the proof.

**Credentials.**

* `TypeCorrect`: with `Routed` (a handler's label agrees with the body), because a
  created user's name and password are columns that may not be NULL.
* `NoCredentialOutlivesItsUser`: `CredentialsOwned` is inductive once types are known;
  the foreign keys guard each insert and `DeleteUserExec` is one commit.
* `TokensGoWithTheirOwner`: the ownership found by the SELECT of a revocation is still
  true at its DELETE. `OwnershipInv` adds that an id names one row and is never inserted again.
* `EndedTokensAreDead`, `EndedRefreshIsDead`: from `EndsInv`. The end of a credential is committed
  before the request that ends it is answered (`EndOK`), a request of `before[w]` was answered when `w`
  arrived, and a credential that was gone or expired at that moment never comes back, so the lookup of
  `w` cannot have found it (`BearerOK`, `RefreshOK`). `Found` says what a handler between lookup and use knows.

**Authz.**

* `AuthzTypeCorrect`: with `PlaceInv` (a handler is at a statement of its own endpoint, and an index
  never passes the end of a list). The attempt showed that `AfterCheck` had nested CASE expressions
  with overlapping guards, of which TLA+ takes an arbitrary one and TLC the first; it is written with IF
  now, in the order of the code.
* `ReservedComesByGlob`, `CapsExceedByGlobsAlone`: from `RowInv` (every row carries an entry of the
  request that wrote it, and that entry passed its validation) and `ReadInv` (what a handler collected
  in `used` are such rows), with lemmas about the match: a pattern without partial globs that matches the text
  of another matches what the other matches (`MatchCovers`), and one that matches `_` is `_`, the star or a
  glob (`ReachesReserved`, `CoversReserved`). `Expands` is arbitrary in them, so they hold for `path.Match`;
  the runs `reserved_glob` and `cap_scope` show that the exceptions they leave are real.
* `RevocationsAreFinal`: from `RevocationInv`. A revocation reads rows and deletes them one at a time, so the
  invariant says, for each statement, which of the rows older than the revocation are still to be deleted
  (`HandlersInv`), that a deleted principal's id is not given out again (`IdInv`), and that rows granted to a
  name hang on the first principal of that name (`OwnerInv`); `FinalOK` is the same about what later
  requests hold.
* `AckedGrantsAreWhole`: `GrantInv` says the same for every prefix of a grant's entries.
* `GrantsSuffice`: from `SufficeInv`, on top of both. Each entry of an answered grant that no removal has named is a
  promise to the requests that arrive later (`Promises`); by `GrantInv` and `OwnerInv` its row is in the tables, on the
  first principal of the recipient's name. A check finds the principal, reads its rows and reads the anonymous ones in
  three statements, so the invariant says what each of them has established: the row found is the owner of everything
  given to that name in the past of the request (`LookupOK`, kept because the requests of that past are answered
  and add no more rows); a check that has come to the anonymous rows has not been promised
  anything as a caller, or it has expired (`UseOK`); a listing past its collection holds every promise that
  is about it (`ListOK`).

**SASync.**

* `SASyncTypeCorrect`, `RowsBelongToAccounts`: from `TypeOK`, `WorkInv` (where a walk is in its list) and `RowInv`.
* `SyncWritesWhatIsListed`: whatever is in a channel, or being walked, was published.
* `ListedIsNeverLost`: an action property. The only step that removes rows is the commit of
  `ReplaceSAPermissions`, which inserts the set it was called with, and that is of a published revision.
* `LoopsConverge`: from `EventInv` (a replica that has not applied the present ConfigMap has it in its
  channel, as its last element) and `SyncInv` (what an entry of the last revision lists is there, or some
  replica has yet to sync it; nothing else is there, or some replica has yet to clear it).

**Operator.**

* `OperatorTypeCorrect`, `CopiesAreCurrent`: `CopiesInv` says that a copy marked `fresh` equals the object of
  the API server, for both caches and for what the worker holds.
* `SecretsAreNotStolen`, `ReadyMeansWritten`: action properties from it. The worker compares the
  controller on a copy, and an accepted write proves that the copy was the object.

**Only model-checked.** The liveness properties: the prover handles neither fairness nor ENABLED. Every other
property of a passing run is a theorem, those of `serial` under the assumption that run makes, `MaxInFlight = 1`.

## 6. Mutants

Beside a definition some modules keep a mutated form of it, marked `Mutation:` (a dropped guard, a lost
WHERE, a missing association). `PROJECT.json` pairs every property of a passing run with the mutant
that violates it.

## 7. Not modelled

Left out: health endpoints, logging, AutoMigrate, CLI start-up, generated deep-copy code, the
Helm chart; reads that change nothing and race nothing a property is about (the audit query, the lists of user
and account names, the query of a token by id, the resources in a namespace query); the TokenReview call; and
the ciphers and hashes themselves, which are assumed to be ideal.
