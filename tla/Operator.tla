------------------------------ MODULE Operator ------------------------------
(***************************************************************************)
(* internal/operator: the reconciler that copies a value of brinecrypt     *)
(* into the Secret that a BrinecryptSecret object (a CR) names.            *)
(*                                                                         *)
(* The manager's client reads CRs and Secrets from informer caches and     *)
(* writes to the API server, which refuses a write made from an object     *)
(* that has changed since.  Instead of resource versions, which grow, each *)
(* copy of an object carries fresh: nothing was written since it was read. *)
(* A cache that lags behind catches up at once, and enqueues what the      *)
(* event handlers of For and Owns enqueue.  One worker reconciles one CR   *)
(* at a time (MaxConcurrentReconciles is 1, and the leader election lets   *)
(* one process work).                                                      *)
(***************************************************************************)
EXTENDS Naturals, Sequences, FiniteSets

CONSTANTS
    CRs,         \* names of BrinecryptSecret objects, in one namespace
    Targets,     \* names of Secrets
    Keys,        \* keys of the data of a Secret
    Paths,       \* remote paths
    Values,      \* values of remote resources
    NoValue,     \* no value: the fetch is refused, or a key is not there
    Specs,       \* specs that users write
    FirstSpecs,  \* specs of the CRs that exist when the operator starts
    FirstValues, \* what the server answers then
    MaxChanges,  \* bound: what users and the server change
    MaxBorn,     \* bound: objects that have one name, one after the other
    MaxFaults    \* bound: failed calls and restarts

\* ok: the refresh interval can be parsed and no required field is empty.
CRSpec == [ok : BOOLEAN, path : Paths, target : Targets, key : Keys]

ASSUME OperatorAssumption ==
    /\ IsFiniteSet(CRs)
    /\ NoValue \notin Values
    /\ Specs \subseteq CRSpec /\ FirstSpecs \subseteq Specs
    /\ FirstValues \subseteq Values \cup {NoValue}
    /\ MaxChanges \in Nat /\ MaxBorn \in Nat /\ MaxFaults \in Nat

VARIABLES
    cr,           \* cr[c]: the object in the API server
    born,         \* born[c]: number of objects that had the name c so far
    secret,       \* secret[t]: the Secret in the API server
    remote,       \* remote[p]: what the brinecrypt server answers
    crCache,      \* the informer's copies of the CRs
    secretCache,  \* the informer's copies of the Secrets
    queue,        \* work queue: names, each at most once
    timers,       \* names to be enqueued later: RequeueAfter and backoff
    worker,       \* the variables of Reconcile
    changes,      \* changes of users and of the server so far
    faults        \* failed calls and restarts so far

api == <<cr, born, secret, remote>>
caches == <<crCache, secretCache>>
vars == <<api, caches, queue, timers, worker, changes, faults>>

\* status: not written yet, Ready, or not Ready with a LastError.
Object == [uid : Nat, spec : CRSpec, status : {"new", "ready", "failed"}]

\* What a copy of an object is read for.
Copy == [uid : Nat, spec : CRSpec]
NoObject == [uid |-> 0]

Data == [Keys -> Values \cup {NoValue}]
NoData == [k \in Keys |-> NoValue]

\* owner: the controller reference.
Owner == [cr : CRs, uid : Nat]
NoOwner == [uid |-> 0]
Secret == [data : Data, owner : Owner \cup {NoOwner}]
NoSecret == [owner |-> NoOwner]

Worker == [step : {"fetch", "secret", "ready", "fail"}, cr : CRs, obj : Copy,
           fresh : BOOLEAN, value : Values \cup {NoValue}]
Idle == [step |-> "idle"]

TypeOK ==
    /\ cr \in [CRs -> Object \cup {NoObject}]
    /\ born \in [CRs -> Nat]
    /\ secret \in [Targets -> Secret \cup {NoSecret}]
    /\ remote \in [Paths -> Values \cup {NoValue}]
    /\ crCache \in [CRs -> [obj : Copy \cup {NoObject}, fresh : BOOLEAN]]
    /\ secretCache \in [Targets -> [obj : Secret \cup {NoSecret}, fresh : BOOLEAN]]
    /\ queue \in Seq(CRs)
    /\ timers \subseteq CRs
    /\ worker \in Worker \cup {Idle}
    /\ worker.step = "secret" => worker.value # NoValue
    /\ changes \in Nat
    /\ faults \in Nat

-----------------------------------------------------------------------------
(* The cluster and the work queue. *)

Exists(c) == cr[c] # NoObject
Alive(owner) == owner # NoOwner /\ Exists(owner.cr) /\ cr[owner.cr].uid = owner.uid

NewObject(uid, spec) == [uid |-> uid, spec |-> spec, status |-> "new"]
CopyOf(obj) == IF obj = NoObject THEN NoObject ELSE [uid |-> obj.uid, spec |-> obj.spec]

Enqueue(q, c) == IF \E i \in DOMAIN q : q[i] = c THEN q ELSE Append(q, c)

\* The CRs that an event about a Secret enqueues.
EnqueueOwner(q, s) == IF s.owner = NoOwner THEN q ELSE Enqueue(q, s.owner.cr)

\* Every order of a set of names.
Orders(S) == {q \in [1 .. Cardinality(S) -> S] : \A i, j \in DOMAIN q : q[i] = q[j] => i = j}

\* A process that starts lists everything, and every CR is an event.
StartProcess ==
    /\ crCache' = [c \in CRs |-> [obj |-> CopyOf(cr[c]), fresh |-> TRUE]]
    /\ secretCache' = [t \in Targets |-> [obj |-> secret[t], fresh |-> TRUE]]
    /\ queue' \in Orders({c \in CRs : Exists(c)})
    /\ timers' = {}
    /\ worker' = Idle

\* Secrets that users have made may be there.
Init ==
    /\ cr \in [CRs -> {NewObject(1, s) : s \in FirstSpecs}]
    /\ born = [c \in CRs |-> 1]
    /\ secret \in [Targets -> {NoSecret, [data |-> NoData, owner |-> NoOwner]}]
    /\ remote \in [Paths -> FirstValues]
    /\ crCache = [c \in CRs |-> [obj |-> CopyOf(cr[c]), fresh |-> TRUE]]
    /\ secretCache = [t \in Targets |-> [obj |-> secret[t], fresh |-> TRUE]]
    /\ queue \in Orders(CRs)
    /\ timers = {}
    /\ worker = Idle
    /\ changes = 0 /\ faults = 0

\* A write of an object leaves every copy of it behind.
StaleCR(c) == crCache' = [crCache EXCEPT ![c].fresh = FALSE]
StaleSecret(t) == secretCache' = [secretCache EXCEPT ![t].fresh = FALSE]
StaleInWorker(c) ==
    worker' = IF worker # Idle /\ worker.cr = c THEN [worker EXCEPT !.fresh = FALSE] ELSE worker

\* The informers deliver what has changed.
SyncCR(c) ==
    /\ ~crCache[c].fresh
    /\ crCache' = [crCache EXCEPT ![c] = [obj |-> CopyOf(cr[c]), fresh |-> TRUE]]
    /\ queue' = Enqueue(queue, c)
    /\ UNCHANGED <<api, secretCache, timers, worker, changes, faults>>

SyncSecret(t) ==
    /\ ~secretCache[t].fresh
    /\ secretCache' = [secretCache EXCEPT ![t] = [obj |-> secret[t], fresh |-> TRUE]]
    /\ queue' = EnqueueOwner(EnqueueOwner(queue, secretCache[t].obj), secret[t])
    /\ UNCHANGED <<api, crCache, timers, worker, changes, faults>>

\* A refresh interval or a backoff is over.
Fire(c) ==
    /\ c \in timers
    /\ timers' = timers \ {c}
    /\ queue' = Enqueue(queue, c)
    /\ UNCHANGED <<api, caches, worker, changes, faults>>

-----------------------------------------------------------------------------
(* Reconcile. *)

Fault == faults < MaxFaults /\ faults' = faults + 1

Go(step) == worker' = [worker EXCEPT !.step = step]

\* parseRefreshInterval, and the check for the required fields.
Acceptable(spec) == spec.ok

\* The CR is read from the cache and its spec validated.
Start ==
    /\ worker = Idle /\ queue # <<>>
    /\ queue' = Tail(queue)
    /\ LET c == Head(queue)
           obj == crCache[c].obj
       IN worker' = IF obj = NoObject THEN Idle
                    ELSE [step |-> IF Acceptable(obj.spec) THEN "fetch" ELSE "fail", cr |-> c, obj |-> obj,
                          fresh |-> crCache[c].fresh, value |-> NoValue]
    /\ UNCHANGED <<api, caches, timers, changes, faults>>

\* What the server answers: NoValue for a status other than 2xx, a response
\* without a value, and a path that is not <namespace>/<name>.
fetchRemoteSecretValue(path) == remote[path]

\* Mutation: a response without a value is taken for one.
FetchUnchecked ==
    /\ worker.step = "fetch"
    /\ worker' = [worker EXCEPT !.step = "secret", !.value = fetchRemoteSecretValue(worker.obj.spec.path)]
    /\ UNCHANGED <<api, caches, queue, timers, changes, faults>>

\* The token request and the fetch.
Fetch ==
    /\ worker.step = "fetch"
    /\ LET value == fetchRemoteSecretValue(worker.obj.spec.path)
       IN \/ /\ value # NoValue
             /\ worker' = [worker EXCEPT !.step = "secret", !.value = value]
             /\ UNCHANGED faults
          \/ value = NoValue /\ Go("fail") /\ UNCHANGED faults
          \/ Fault /\ Go("fail")
    /\ UNCHANGED <<api, caches, queue, timers, changes>>

\* Mutation: a Secret that another CR has taken meanwhile is overwritten.
SecretWritableAlways(t) == (secretCache[t].obj = NoSecret) <=> (secret[t] = NoSecret)

\* Create wants no Secret to be there, Update the one that was read.
SecretWritable(t) ==
    IF secretCache[t].obj = NoSecret THEN secret[t] = NoSecret ELSE secretCache[t].fresh

\* A write that changes nothing makes no new version.
PutSecret(t, s) ==
    /\ secret' = [secret EXCEPT ![t] = s]
    /\ IF s = secret[t] THEN UNCHANGED secretCache ELSE StaleSecret(t)

\* SetControllerReference refuses a Secret that a CR of another name controls.
Taken(s, c) == s.owner # NoOwner /\ s.owner.cr # c

\* The Secret as it was read, with the value under its key and the CR as its
\* controller; other keys are kept.
Desired(s) ==
    LET data == IF s = NoSecret THEN NoData ELSE s.data
    IN [data  |-> [data EXCEPT ![worker.obj.spec.key] = worker.value],
        owner |-> [cr |-> worker.cr, uid |-> worker.obj.uid]]

\* From the read of the Secret in the cache to Create or Update.  A call that
\* times out may have taken effect.
WriteSecret ==
    /\ worker.step = "secret"
    /\ LET t == worker.obj.spec.target
           s == secretCache[t].obj
       IN \/ Taken(s, worker.cr) /\ Go("fail") /\ UNCHANGED <<secret, secretCache, faults>>
          \/ /\ ~Taken(s, worker.cr) /\ SecretWritable(t)
             /\ PutSecret(t, Desired(s))
             /\ \/ Go("ready") /\ UNCHANGED faults
                \/ Fault /\ Go("fail")
          \/ /\ ~Taken(s, worker.cr)
             /\ (~SecretWritable(t) /\ UNCHANGED faults) \/ Fault
             /\ Go("fail")
             /\ UNCHANGED <<secret, secretCache>>
    /\ UNCHANGED <<cr, born, remote, crCache, queue, timers, changes>>

\* Mutation: the status is patched whatever became of the object.
StatusWritableAlways(c) == Exists(c)

\* Status().Update wants the object that was read.
StatusWritable(c) == Exists(c) /\ worker.fresh

\* LastSyncTime has seconds, and errors have texts, so that a second success or
\* failure may change the object or not.
PutStatus(c, status) ==
    /\ cr' = [cr EXCEPT ![c].status = status]
    /\ \/ StaleCR(c)
       \/ cr[c].status = status /\ UNCHANGED crCache

\* The status write succeeds, is refused, or fails.
UpdateStatus(c, status) ==
    \/ StatusWritable(c) /\ PutStatus(c, status) /\ UNCHANGED faults
    \/ ~StatusWritable(c) /\ UNCHANGED <<cr, crCache, faults>>
    \/ Fault /\ UNCHANGED <<cr, crCache>>

\* Reconcile returns, and is called again after the refresh interval or, for an
\* error, after a backoff.
Return ==
    /\ worker' = Idle
    /\ timers' = timers \cup {worker.cr}
    /\ UNCHANGED <<born, secret, remote, secretCache, queue, changes>>

\* Mutation: no RequeueAfter.
SucceedForGood ==
    /\ worker.step = "ready"
    /\ UpdateStatus(worker.cr, "ready")
    /\ worker' = Idle
    /\ UNCHANGED <<born, secret, remote, secretCache, queue, timers, changes>>

Succeed ==
    /\ worker.step = "ready"
    /\ UpdateStatus(worker.cr, "ready")
    /\ Return

\* Mutation: the error is returned, and Ready stays.
FailSilently ==
    /\ worker.step = "fail"
    /\ Return
    /\ UNCHANGED <<cr, crCache, faults>>

\* fail.
Fail ==
    /\ worker.step = "fail"
    /\ UpdateStatus(worker.cr, "failed")
    /\ Return

\* The process dies and another one is elected.
Restart ==
    /\ Fault
    /\ StartProcess
    /\ UNCHANGED <<api, changes>>

-----------------------------------------------------------------------------
(* Users, the brinecrypt server and the garbage collector. *)

Change == changes < MaxChanges /\ changes' = changes + 1

PutCR(c, obj) ==
    /\ cr' = [cr EXCEPT ![c] = obj]
    /\ StaleCR(c) /\ StaleInWorker(c)
    /\ UNCHANGED <<secret, remote, secretCache, queue, timers, faults>>

EditSpec(c, s) ==
    /\ Change
    /\ Exists(c) /\ cr[c].spec # s
    /\ PutCR(c, [cr[c] EXCEPT !.spec = s])
    /\ UNCHANGED born

DeleteCR(c) ==
    /\ Change
    /\ Exists(c)
    /\ PutCR(c, NoObject)
    /\ UNCHANGED born

CreateCR(c, s) ==
    /\ ~Exists(c) /\ born[c] < MaxBorn
    /\ born' = [born EXCEPT ![c] = @ + 1]
    /\ PutCR(c, NewObject(born[c] + 1, s))
    /\ UNCHANGED changes

ChangeRemote(p, v) ==
    /\ Change
    /\ remote[p] # v
    /\ remote' = [remote EXCEPT ![p] = v]
    /\ UNCHANGED <<cr, born, secret, caches, queue, timers, worker, faults>>

\* A user deletes a Secret, makes one, or empties it and perhaps its owners.
UserPutsSecret(t, s) ==
    /\ Change
    /\ secret[t] # s
    /\ secret' = [secret EXCEPT ![t] = s]
    /\ StaleSecret(t)
    /\ UNCHANGED <<cr, born, remote, crCache, queue, timers, worker, faults>>

UserTouchesSecret(t) ==
    \/ UserPutsSecret(t, NoSecret)
    \/ UserPutsSecret(t, [data |-> NoData, owner |-> NoOwner])
    \/ secret[t] # NoSecret /\ UserPutsSecret(t, [data |-> NoData, owner |-> secret[t].owner])

\* A Secret whose controller is gone is deleted.
CollectGarbage(t) ==
    /\ secret[t].owner # NoOwner /\ ~Alive(secret[t].owner)
    /\ secret' = [secret EXCEPT ![t] = NoSecret]
    /\ StaleSecret(t)
    /\ UNCHANGED <<cr, born, remote, crCache, queue, timers, worker, changes, faults>>

Reconcile == Start \/ Fetch \/ WriteSecret \/ Succeed \/ Fail

Next ==
    \/ Reconcile \/ Restart
    \/ \E c \in CRs : SyncCR(c) \/ Fire(c) \/ DeleteCR(c)
    \/ \E c \in CRs, s \in Specs : EditSpec(c, s) \/ CreateCR(c, s)
    \/ \E t \in Targets : SyncSecret(t) \/ UserTouchesSecret(t) \/ CollectGarbage(t)
    \/ \E p \in Paths, v \in Values \cup {NoValue} : ChangeRemote(p, v)

\* The worker runs, informers catch up, timers go off and the garbage collector
\* collects.
Fairness ==
    /\ WF_vars(Reconcile)
    /\ \A c \in CRs : WF_vars(SyncCR(c)) /\ WF_vars(Fire(c))
    /\ \A t \in Targets : WF_vars(SyncSecret(t)) /\ WF_vars(CollectGarbage(t))

FairSpec == Init /\ [][Next]_vars /\ Fairness

-----------------------------------------------------------------------------
(* Properties. *)

\* Reconcile: the API server has c, and nothing keeps its Secret from it.
Wants(c) ==
    /\ Exists(c) /\ cr[c].spec.ok
    /\ remote[cr[c].spec.path] # NoValue
    /\ ~Taken(secret[cr[c].spec.target], c)

\* Reconcile never writes a Secret that is, at that moment, controlled by a CR
\* of another name, however old the copy of the Secret is that it read.
NoStolenSecret ==
    [][\A t \in Targets : worker # Idle /\ secret'[t] # secret[t] /\ worker' # worker =>
          ~Taken(secret[t], worker.cr)]_vars

\* Reconcile turns a CR to ready only when it has just written the Secret for
\* the spec that the CR has at that moment, although the spec may have been
\* edited, or the CR deleted and made anew, while the value was fetched.
ReadyDescribesSpec ==
    [][\A c \in CRs : Exists(c) /\ cr'[c] # NoObject /\ cr[c].status # "ready" /\ cr'[c].status = "ready" =>
          worker.step = "ready" /\ worker.cr = c /\ worker.obj = CopyOf(cr[c])]_vars

\* Once users and faults are over, every Secret has the value that the server
\* holds, and its CR as controller, for good: stale caches, refused writes,
\* lost answers, restarts and two CRs with one target are all repaired by the
\* queue, and changes on the server by RequeueAfter.  No Secret of a CR that
\* is gone is left.
SecretConverges ==
    <>[]/\ \A c \in CRs : Wants(c) =>
              /\ secret[cr[c].spec.target] # NoSecret
              /\ secret[cr[c].spec.target].data[cr[c].spec.key] = remote[cr[c].spec.path]
              /\ secret[cr[c].spec.target].owner = [cr |-> c, uid |-> cr[c].uid]
        /\ \A t \in Targets : secret[t].owner = NoOwner \/ Alive(secret[t].owner)

\* And the status says so: ready exactly where the Secret could be written.
StatusConverges == <>[](\A c \in CRs : Exists(c) => (cr[c].status = "ready" <=> Wants(c)))
=============================================================================
