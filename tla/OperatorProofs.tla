--------------------------- MODULE OperatorProofs ---------------------------
(***************************************************************************)
(* Invariants and action properties of Operator, proved for any CRs,       *)
(* Secrets, keys, paths, values, specs and bounds.                         *)
(***************************************************************************)
EXTENDS Operator, FiniteSetTheorems, TLAPS

-----------------------------------------------------------------------------
(* Type correctness. *)

\* The copy that an informer keeps of an object.
LEMMA CopyType ==
    ASSUME NEW obj \in Object \cup {NoObject}
    PROVE  CopyOf(obj) \in Copy \cup {NoObject}
  BY DEF CopyOf, Object, Copy

\* What is read from a copy that is not NoObject.
LEMMA CopyFields ==
    ASSUME NEW obj \in Copy \cup {NoObject}, obj # NoObject
    PROVE  /\ obj \in Copy
           /\ obj.uid \in Nat /\ obj.spec \in CRSpec
  BY DEF Copy

\* A Reconcile that has begun has all its variables.
LEMMA BusyWorker ==
    ASSUME worker \in Worker \cup {Idle}, worker # Idle
    PROVE  worker \in Worker
  OBVIOUS

LEMMA StepIsBusy ==
    ASSUME worker \in Worker \cup {Idle}, worker.step \in {"fetch", "secret", "ready", "fail"}
    PROVE  worker \in Worker
  BY DEF Idle

\* Enqueue adds a name at most.
LEMMA EnqueueType ==
    ASSUME NEW q \in Seq(CRs), NEW c \in CRs
    PROVE  Enqueue(q, c) \in Seq(CRs)
  BY DEF Enqueue

LEMMA EnqueueOwnerType ==
    ASSUME NEW q \in Seq(CRs), NEW s \in Secret \cup {NoSecret}
    PROVE  EnqueueOwner(q, s) \in Seq(CRs)
  <1>1. CASE s.owner = NoOwner
    BY <1>1 DEF EnqueueOwner
  <1>2. CASE s.owner # NoOwner
    <2>1. s \in Secret
      BY <1>2 DEF NoSecret
    <2>2. s.owner \in Owner
      BY <1>2, <2>1 DEF Secret
    <2>3. s.owner.cr \in CRs
      BY <2>2 DEF Owner
    <2>4. QED
      BY <1>2, <2>3, EnqueueType DEF EnqueueOwner
  <1>3. QED
    BY <1>1, <1>2

\* A list of the names of a set is a work queue.
LEMMA OrdersType ==
    ASSUME NEW S \in SUBSET CRs, IsFiniteSet(S), NEW q \in Orders(S)
    PROVE  q \in Seq(CRs)
  BY FS_CardinalityType DEF Orders

\* The Secret that Reconcile writes.
LEMMA DesiredType ==
    ASSUME worker \in Worker, NEW s \in Secret \cup {NoSecret}
    PROVE  Desired(s) \in Secret
  <1> DEFINE data == IF s = NoSecret THEN NoData ELSE s.data
             new == [data EXCEPT ![worker.obj.spec.key] = worker.value]
             owner == [cr |-> worker.cr, uid |-> worker.obj.uid]
  <1>1. data \in Data
    BY DEF Data, NoData, Secret
  <1>2. worker.value \in Values \cup {NoValue} /\ worker.cr \in CRs /\ worker.obj.uid \in Nat
    BY DEF Worker, Copy
  <1>3. new \in Data
    BY <1>1, <1>2 DEF Data
  <1>4. owner \in Owner
    BY <1>2 DEF Owner
  <1>5. Desired(s) = [data |-> new, owner |-> owner]
    BY DEF Desired
  <1> HIDE DEF new, owner
  <1>6. QED
    BY <1>3, <1>4, <1>5 DEF Secret

LEMMA TypeInit == Init => TypeOK
<1> SUFFICES ASSUME Init PROVE TypeOK
  OBVIOUS
<1> USE OperatorAssumption DEF Init
<1>1. cr \in [CRs -> Object \cup {NoObject}]
  BY DEF NewObject, Object
<1>2. secret \in [Targets -> Secret \cup {NoSecret}]
  <2>1. [data |-> NoData, owner |-> NoOwner] \in Secret
    BY DEF NoData, Data, Secret
  <2>2. QED
    BY <2>1
<1>3. crCache \in [CRs -> [obj : Copy \cup {NoObject}, fresh : BOOLEAN]]
  BY <1>1, CopyType
<1>4. secretCache \in [Targets -> [obj : Secret \cup {NoSecret}, fresh : BOOLEAN]]
  BY <1>2
<1>5. queue \in Seq(CRs)
  BY OrdersType
<1>6. remote \in [Paths -> Values \cup {NoValue}]
  OBVIOUS
<1>7. QED
  BY <1>1, <1>2, <1>3, <1>4, <1>5, <1>6 DEF TypeOK, Idle

\* What Reconcile does to its own variables.
LEMMA GoType ==
    ASSUME worker \in Worker, NEW step \in {"ready", "fail"}, Go(step)
    PROVE  /\ worker' \in Worker
           /\ worker'.step = step
           /\ worker'.cr = worker.cr /\ worker'.obj = worker.obj /\ worker'.fresh = worker.fresh
  BY DEF Worker, Go

LEMMA StaleCRType ==
    ASSUME TypeOK, NEW c \in CRs, StaleCR(c)
    PROVE  crCache' \in [CRs -> [obj : Copy \cup {NoObject}, fresh : BOOLEAN]]
  BY DEF TypeOK, StaleCR

LEMMA StaleSecretType ==
    ASSUME TypeOK, NEW t \in Targets, StaleSecret(t)
    PROVE  secretCache' \in [Targets -> [obj : Secret \cup {NoSecret}, fresh : BOOLEAN]]
  BY DEF TypeOK, StaleSecret

LEMMA StaleInWorkerType ==
    ASSUME TypeOK, NEW c \in CRs, StaleInWorker(c)
    PROVE  /\ worker' \in Worker \cup {Idle}
           /\ worker'.step = "secret" => worker'.value # NoValue
  <1>1. CASE worker # Idle /\ worker.cr = c
    <2>1. worker \in Worker /\ worker' = [worker EXCEPT !.fresh = FALSE]
      BY <1>1 DEF TypeOK, StaleInWorker
    <2>2. worker' \in Worker /\ worker'.step = worker.step /\ worker'.value = worker.value
      BY <2>1 DEF Worker
    <2>3. QED
      BY <2>2 DEF TypeOK
  <1>2. CASE ~(worker # Idle /\ worker.cr = c)
    <2>1. worker' = worker
      BY <1>2 DEF StaleInWorker
    <2>2. QED
      BY <2>1 DEF TypeOK
  <1>3. QED
    BY <1>1, <1>2

\* A change of an object by a user.
LEMMA PutCRType ==
    ASSUME TypeOK, NEW c \in CRs, NEW obj \in Object \cup {NoObject}, PutCR(c, obj),
           born' \in [CRs -> Nat], changes' \in Nat
    PROVE  TypeOK'
  <1>1. cr' \in [CRs -> Object \cup {NoObject}]
    BY DEF TypeOK, PutCR
  <1>2. /\ crCache' \in [CRs -> [obj : Copy \cup {NoObject}, fresh : BOOLEAN]]
        /\ worker' \in Worker \cup {Idle}
        /\ worker'.step = "secret" => worker'.value # NoValue
    BY StaleCRType, StaleInWorkerType DEF PutCR
  <1>3. QED
    BY <1>1, <1>2 DEF TypeOK, PutCR

\* A change of a Secret that is not Reconcile's.
LEMMA UserPutsSecretType ==
    ASSUME TypeOK, NEW t \in Targets, NEW s \in Secret \cup {NoSecret}, UserPutsSecret(t, s)
    PROVE  TypeOK'
  <1>1. secret' \in [Targets -> Secret \cup {NoSecret}]
    BY DEF TypeOK, UserPutsSecret
  <1>2. secretCache' \in [Targets -> [obj : Secret \cup {NoSecret}, fresh : BOOLEAN]]
    BY StaleSecretType DEF UserPutsSecret
  <1>3. QED
    BY <1>1, <1>2 DEF TypeOK, UserPutsSecret, Change

\* The write of a status, whatever comes of it.
LEMMA UpdateStatusType ==
    ASSUME TypeOK, NEW c \in CRs, NEW status \in {"ready", "failed"}, UpdateStatus(c, status)
    PROVE  /\ cr' \in [CRs -> Object \cup {NoObject}]
           /\ crCache' \in [CRs -> [obj : Copy \cup {NoObject}, fresh : BOOLEAN]]
           /\ faults' \in Nat
  <1>1. ASSUME StatusWritable(c), PutStatus(c, status)
        PROVE  /\ cr' \in [CRs -> Object \cup {NoObject}]
               /\ crCache' \in [CRs -> [obj : Copy \cup {NoObject}, fresh : BOOLEAN]]
    <2>1. cr[c] \in Object
      BY <1>1 DEF TypeOK, StatusWritable, Exists
    <2>2. [cr[c] EXCEPT !.status = status] \in Object
      BY <2>1 DEF Object
    <2>3. cr' = [cr EXCEPT ![c] = [cr[c] EXCEPT !.status = status]]
      BY <1>1 DEF PutStatus
    <2>4. cr' \in [CRs -> Object \cup {NoObject}]
      BY <2>2, <2>3 DEF TypeOK
    <2>5. QED
      BY <1>1, <2>4, StaleCRType DEF PutStatus, TypeOK
  <1>2. QED
    BY <1>1 DEF UpdateStatus, TypeOK, Fault

LEMMA TypeStep == TypeOK /\ [Next]_vars => TypeOK'
<1> SUFFICES ASSUME TypeOK, [Next]_vars PROVE TypeOK'
  OBVIOUS
<1> USE DEF api, caches
<1>1. CASE Start
  <2> DEFINE c == Head(queue)
             obj == crCache[c].obj
  <2>1. queue # <<>> /\ queue' = Tail(queue) /\ c \in CRs /\ queue' \in Seq(CRs)
    BY <1>1 DEF Start, TypeOK
  <2>2. obj \in Copy \cup {NoObject} /\ crCache[c].fresh \in BOOLEAN
    BY <2>1 DEF TypeOK
  <2>3. worker' \in Worker \cup {Idle} /\ worker'.step # "secret"
    <3>1. CASE obj = NoObject
      BY <1>1, <3>1 DEF Start, Idle
    <3>2. CASE obj # NoObject
      BY <1>1, <2>1, <2>2, <3>2, CopyFields DEF Start, Worker
    <3>3. QED
      BY <3>1, <3>2
  <2>4. QED
    BY <1>1, <2>1, <2>3 DEF Start, TypeOK
<1>2. CASE Fetch
  <2>1. worker \in Worker
    BY <1>2, StepIsBusy DEF Fetch, TypeOK
  <2>2. worker.obj.spec.path \in Paths
    BY <2>1 DEF Worker, Copy, CRSpec
  <2>3. fetchRemoteSecretValue(worker.obj.spec.path) \in Values \cup {NoValue}
    BY <2>2 DEF TypeOK, fetchRemoteSecretValue
  <2>4. worker' \in Worker /\ (worker'.step = "secret" => worker'.value # NoValue)
    BY <1>2, <2>1, <2>3, GoType DEF Fetch, Worker
  <2>5. faults' \in Nat
    BY <1>2 DEF Fetch, Fault, TypeOK
  <2>6. QED
    BY <1>2, <2>4, <2>5 DEF Fetch, TypeOK
<1>3. CASE WriteSecret
  <2> DEFINE t == worker.obj.spec.target
             s == secretCache[t].obj
  <2>1. worker \in Worker
    BY <1>3, StepIsBusy DEF WriteSecret, TypeOK
  <2>2. t \in Targets
    BY <2>1 DEF Worker, Copy, CRSpec
  <2>3. s \in Secret \cup {NoSecret}
    BY <2>2 DEF TypeOK
  <2>4. worker' \in Worker /\ worker'.step \in {"ready", "fail"}
    BY <1>3, <2>1, GoType, Zenon DEF WriteSecret
  <2>5. faults' \in Nat
    BY <1>3 DEF WriteSecret, Fault, TypeOK
  <2>6. ASSUME PutSecret(t, Desired(s))
        PROVE  /\ secret' \in [Targets -> Secret \cup {NoSecret}]
               /\ secretCache' \in [Targets -> [obj : Secret \cup {NoSecret}, fresh : BOOLEAN]]
    <3>1. Desired(s) \in Secret
      BY <2>1, <2>3, DesiredType
    <3>2. secret' \in [Targets -> Secret \cup {NoSecret}]
      BY <2>2, <2>6, <3>1 DEF PutSecret, TypeOK
    <3>3. QED
      BY <2>2, <2>6, <3>2, StaleSecretType DEF PutSecret, TypeOK
  <2>7. /\ secret' \in [Targets -> Secret \cup {NoSecret}]
        /\ secretCache' \in [Targets -> [obj : Secret \cup {NoSecret}, fresh : BOOLEAN]]
    BY <1>3, <2>6 DEF WriteSecret, TypeOK
  <2>8. QED
    BY <1>3, <2>4, <2>5, <2>7 DEF WriteSecret, TypeOK
<1>4. CASE Succeed \/ Fail
  <2>1. worker \in Worker
    BY <1>4, StepIsBusy DEF Succeed, Fail, TypeOK
  <2>2. worker.cr \in CRs
    BY <2>1 DEF Worker
  <2>3. /\ cr' \in [CRs -> Object \cup {NoObject}]
        /\ crCache' \in [CRs -> [obj : Copy \cup {NoObject}, fresh : BOOLEAN]]
        /\ faults' \in Nat
    BY <1>4, <2>2, UpdateStatusType DEF Succeed, Fail
  <2>4. Return
    BY <1>4 DEF Succeed, Fail
  <2>5. QED
    BY <2>2, <2>3, <2>4 DEF Return, TypeOK, Idle
<1>5. CASE Restart
  <2>1. crCache' \in [CRs -> [obj : Copy \cup {NoObject}, fresh : BOOLEAN]]
    BY <1>5, CopyType DEF Restart, StartProcess, TypeOK
  <2>2. secretCache' \in [Targets -> [obj : Secret \cup {NoSecret}, fresh : BOOLEAN]]
    BY <1>5 DEF Restart, StartProcess, TypeOK
  <2>3. queue' \in Seq(CRs)
    <3>1. IsFiniteSet({c \in CRs : Exists(c)})
      BY OperatorAssumption, FS_Subset
    <3>2. QED
      BY <1>5, <3>1, OrdersType DEF Restart, StartProcess
  <2>4. QED
    BY <1>5, <2>1, <2>2, <2>3 DEF Restart, StartProcess, TypeOK, Idle, Fault
<1>6. ASSUME NEW c \in CRs, SyncCR(c) PROVE TypeOK'
  <2>1. crCache' \in [CRs -> [obj : Copy \cup {NoObject}, fresh : BOOLEAN]]
    BY <1>6, CopyType DEF SyncCR, TypeOK
  <2>2. queue' \in Seq(CRs)
    BY <1>6, EnqueueType DEF SyncCR, TypeOK
  <2>3. QED
    BY <1>6, <2>1, <2>2 DEF SyncCR, TypeOK
<1>7. ASSUME NEW c \in CRs, Fire(c) PROVE TypeOK'
  BY <1>7, EnqueueType DEF Fire, TypeOK
<1>8. ASSUME NEW c \in CRs, DeleteCR(c) PROVE TypeOK'
  BY <1>8, PutCRType DEF DeleteCR, Change, TypeOK
<1>9. ASSUME NEW c \in CRs, NEW s \in Specs, EditSpec(c, s) PROVE TypeOK'
  <2>1. cr[c] \in Object
    BY <1>9 DEF EditSpec, Exists, TypeOK
  <2>2. [cr[c] EXCEPT !.spec = s] \in Object
    BY <2>1, OperatorAssumption DEF Object
  <2>3. born' \in [CRs -> Nat] /\ changes' \in Nat
    BY <1>9 DEF EditSpec, Change, TypeOK
  <2>4. QED
    BY <1>9, <2>2, <2>3, PutCRType DEF EditSpec
<1>10. ASSUME NEW c \in CRs, NEW s \in Specs, CreateCR(c, s) PROVE TypeOK'
  <2>1. born[c] + 1 \in Nat
    BY DEF TypeOK
  <2>2. NewObject(born[c] + 1, s) \in Object
    BY <2>1, OperatorAssumption DEF NewObject, Object
  <2>3. born' \in [CRs -> Nat] /\ changes' \in Nat
    BY <1>10, <2>1 DEF CreateCR, TypeOK
  <2>4. QED
    BY <1>10, <2>2, <2>3, PutCRType DEF CreateCR
<1>11. ASSUME NEW t \in Targets, SyncSecret(t) PROVE TypeOK'
  <2>1. secret[t] \in Secret \cup {NoSecret} /\ secretCache[t].obj \in Secret \cup {NoSecret}
    BY DEF TypeOK
  <2>2. secretCache' \in [Targets -> [obj : Secret \cup {NoSecret}, fresh : BOOLEAN]]
    BY <1>11, <2>1 DEF SyncSecret, TypeOK
  <2>3. queue' \in Seq(CRs)
    BY <1>11, <2>1, EnqueueOwnerType DEF SyncSecret, TypeOK
  <2>4. QED
    BY <1>11, <2>2, <2>3 DEF SyncSecret, TypeOK
<1>12. ASSUME NEW t \in Targets, UserTouchesSecret(t) PROVE TypeOK'
  <2>1. NoData \in Data
    BY DEF NoData, Data
  <2>2. [data |-> NoData, owner |-> NoOwner] \in Secret
    BY <2>1 DEF Secret
  <2>3. secret[t] # NoSecret => [data |-> NoData, owner |-> secret[t].owner] \in Secret
    BY <2>1 DEF Secret, TypeOK
  <2>4. QED
    BY <1>12, <2>2, <2>3, UserPutsSecretType DEF UserTouchesSecret
<1>13. ASSUME NEW t \in Targets, CollectGarbage(t) PROVE TypeOK'
  <2>1. secret' \in [Targets -> Secret \cup {NoSecret}]
    BY <1>13 DEF CollectGarbage, TypeOK
  <2>2. QED
    BY <1>13, <2>1, StaleSecretType DEF CollectGarbage, TypeOK
<1>14. ASSUME NEW p \in Paths, NEW v \in Values \cup {NoValue}, ChangeRemote(p, v) PROVE TypeOK'
  BY <1>14 DEF ChangeRemote, Change, TypeOK
<1>15. CASE UNCHANGED vars
  BY <1>15 DEF vars, TypeOK
<1>16. QED
  BY <1>1, <1>2, <1>3, <1>4, <1>5, <1>6, <1>7, <1>8, <1>9, <1>10, <1>11, <1>12, <1>13,
     <1>14, <1>15 DEF Next, Reconcile

\* Operator: Reconcile, the informers, the users and the garbage collector keep
\* every variable in its type, and a Secret is written only with a value.
THEOREM OperatorTypeCorrect == FairSpec => []TypeOK
<1>1. Init /\ [][Next]_vars => []TypeOK
  BY TypeInit, TypeStep, PTL
<1>2. QED
  BY <1>1, PTL DEF FairSpec

-----------------------------------------------------------------------------
(* Copies. *)

\* A copy that nothing has written behind is what the API server has: the copies of
\* the informers, and the one that Reconcile works on.  This is what the resource
\* versions of the API server stand for.
CRCopiesAreCurrent ==
    \A c \in CRs : crCache[c].fresh => crCache[c].obj = CopyOf(cr[c])

SecretCopiesAreCurrent ==
    \A t \in Targets : secretCache[t].fresh => secretCache[t].obj = secret[t]

WorkerIsCurrent ==
    worker # Idle /\ worker.fresh => worker.obj = CopyOf(cr[worker.cr])

CopiesInv == CRCopiesAreCurrent /\ SecretCopiesAreCurrent /\ WorkerIsCurrent

Inv == TypeOK /\ CopiesInv

\* A write of an object marks every copy of it, whatever the write.
LEMMA StaleCRKeeps ==
    ASSUME TypeOK, CRCopiesAreCurrent, NEW c \in CRs, StaleCR(c),
           \A d \in CRs \ {c} : cr'[d] = cr[d]
    PROVE  CRCopiesAreCurrent'
  BY DEF TypeOK, CRCopiesAreCurrent, StaleCR, CopyOf

LEMMA StaleSecretKeeps ==
    ASSUME TypeOK, SecretCopiesAreCurrent, NEW t \in Targets, StaleSecret(t),
           \A u \in Targets \ {t} : secret'[u] = secret[u]
    PROVE  SecretCopiesAreCurrent'
  BY DEF TypeOK, SecretCopiesAreCurrent, StaleSecret

LEMMA PutCRKeeps ==
    ASSUME Inv, NEW c \in CRs, NEW obj, PutCR(c, obj)
    PROVE  CopiesInv'
  <1> USE DEF Inv, CopiesInv
  <1>1. \A d \in CRs \ {c} : cr'[d] = cr[d]
    BY DEF PutCR, TypeOK
  <1>2. CRCopiesAreCurrent'
    BY <1>1, StaleCRKeeps DEF PutCR
  <1>3. SecretCopiesAreCurrent'
    BY DEF PutCR, SecretCopiesAreCurrent
  <1>4. WorkerIsCurrent'
    <2>1. CASE worker # Idle /\ worker.cr = c
      <3>1. worker \in Worker /\ worker' = [worker EXCEPT !.fresh = FALSE]
        BY <2>1 DEF PutCR, StaleInWorker, TypeOK
      <3>2. worker'.fresh = FALSE
        BY <3>1 DEF Worker
      <3>3. QED
        BY <3>2 DEF WorkerIsCurrent
    <2>2. CASE worker # Idle /\ worker.cr # c
      <3>1. worker' = worker /\ worker.cr \in CRs
        BY <2>2 DEF PutCR, StaleInWorker, TypeOK, Worker
      <3>2. cr'[worker.cr] = cr[worker.cr]
        BY <1>1, <2>2, <3>1
      <3>3. QED
        BY <3>1, <3>2 DEF WorkerIsCurrent, CopyOf
    <2>3. CASE worker = Idle
      BY <2>3 DEF PutCR, StaleInWorker, WorkerIsCurrent
    <2>4. QED
      BY <2>1, <2>2, <2>3
  <1>5. QED
    BY <1>2, <1>3, <1>4

\* A status is not in a copy.
LEMMA UpdateStatusKeeps ==
    ASSUME TypeOK, CRCopiesAreCurrent, NEW c \in CRs, NEW status \in {"ready", "failed"}, UpdateStatus(c, status)
    PROVE  CRCopiesAreCurrent'
  <1>1. ASSUME StatusWritable(c), PutStatus(c, status) PROVE CRCopiesAreCurrent'
    <2>1. \A d \in CRs \ {c} : cr'[d] = cr[d]
      BY <1>1 DEF PutStatus, TypeOK
    <2>2. CASE StaleCR(c)
      BY <2>1, <2>2, StaleCRKeeps
    <2>3. CASE cr[c].status = status /\ UNCHANGED crCache
      <3>1. cr[c] \in Object
        BY <1>1 DEF TypeOK, StatusWritable, Exists
      <3>2. cr' = [cr EXCEPT ![c] = [cr[c] EXCEPT !.status = status]]
        BY <1>1 DEF PutStatus
      <3>3. [cr[c] EXCEPT !.status = status] = cr[c]
        BY <2>3, <3>1 DEF Object
      <3>4. cr' = cr
        BY <3>2, <3>3 DEF TypeOK
      <3>5. QED
        BY <2>3, <3>4 DEF CRCopiesAreCurrent, CopyOf
    <2>4. QED
      BY <1>1, <2>2, <2>3 DEF PutStatus
  <1>2. QED
    BY <1>1 DEF UpdateStatus, CRCopiesAreCurrent, CopyOf

LEMMA CopiesInit == Init => CopiesInv
  BY DEF Init, CopiesInv, CRCopiesAreCurrent, SecretCopiesAreCurrent, WorkerIsCurrent, CopyOf

LEMMA CopiesStep == Inv /\ [Next]_vars => CopiesInv'
<1> SUFFICES ASSUME Inv, [Next]_vars PROVE CopiesInv'
  OBVIOUS
<1> USE DEF Inv, CopiesInv, api, caches
<1>1. CASE Start
  <2> DEFINE c == Head(queue)
             obj == crCache[c].obj
  <2>1. c \in CRs
    BY <1>1 DEF Start, TypeOK
  <2>2. CRCopiesAreCurrent' /\ SecretCopiesAreCurrent'
    BY <1>1 DEF Start, CRCopiesAreCurrent, SecretCopiesAreCurrent, CopyOf
  <2>3. WorkerIsCurrent'
    <3>1. CASE obj = NoObject
      BY <1>1, <3>1 DEF Start, WorkerIsCurrent
    <3>2. CASE obj # NoObject
      <4>1. worker'.cr = c /\ worker'.obj = obj /\ worker'.fresh = crCache[c].fresh /\ cr' = cr
        BY <1>1, <3>2 DEF Start
      <4>2. QED
        BY <2>1, <4>1 DEF WorkerIsCurrent, CRCopiesAreCurrent, CopyOf
    <3>3. QED
      BY <3>1, <3>2
  <2>4. QED
    BY <2>2, <2>3
<1>2. CASE Fetch
  <2>1. worker \in Worker
    BY <1>2, StepIsBusy DEF Fetch, TypeOK
  <2>2. worker # Idle
    BY <1>2 DEF Fetch, Idle
  <2>3. worker'.cr = worker.cr /\ worker'.obj = worker.obj /\ worker'.fresh = worker.fresh
    <3>1. CASE Go("fail")
      BY <2>1, <3>1, GoType
    <3>2. ASSUME NEW v, worker' = [worker EXCEPT !.step = "secret", !.value = v]
          PROVE  worker'.cr = worker.cr /\ worker'.obj = worker.obj /\ worker'.fresh = worker.fresh
      BY <2>1, <3>2 DEF Worker
    <3>3. QED
      BY <1>2, <3>1, <3>2, Zenon DEF Fetch
  <2>4. QED
    BY <1>2, <2>2, <2>3 DEF Fetch, CRCopiesAreCurrent, SecretCopiesAreCurrent, WorkerIsCurrent, CopyOf
<1>3. CASE WriteSecret
  <2> DEFINE t == worker.obj.spec.target
             s == secretCache[t].obj
  <2>1. worker \in Worker
    BY <1>3, StepIsBusy DEF WriteSecret, TypeOK
  <2>2. t \in Targets
    BY <2>1 DEF Worker, Copy, CRSpec
  <2>3. worker # Idle /\ worker'.cr = worker.cr /\ worker'.obj = worker.obj /\ worker'.fresh = worker.fresh
    BY <1>3, <2>1 DEF WriteSecret, Go, Worker, Idle
  <2>4. CRCopiesAreCurrent' /\ WorkerIsCurrent'
    BY <1>3, <2>3 DEF WriteSecret, CRCopiesAreCurrent, WorkerIsCurrent, CopyOf
  <2>5. ASSUME PutSecret(t, Desired(s)) PROVE SecretCopiesAreCurrent'
    <3>1. \A u \in Targets \ {t} : secret'[u] = secret[u]
      BY <2>5 DEF PutSecret, TypeOK
    <3>2. CASE Desired(s) = secret[t]
      <4>1. secret' = secret /\ secretCache' = secretCache
        BY <2>2, <2>5, <3>2 DEF PutSecret, TypeOK
      <4>2. QED
        BY <4>1 DEF SecretCopiesAreCurrent
    <3>3. CASE Desired(s) # secret[t]
      BY <2>2, <2>5, <3>1, <3>3, StaleSecretKeeps DEF PutSecret
    <3>4. QED
      BY <3>2, <3>3
  <2>6. SecretCopiesAreCurrent'
    BY <1>3, <2>5 DEF WriteSecret, SecretCopiesAreCurrent
  <2>7. QED
    BY <2>4, <2>6
<1>4. CASE Succeed \/ Fail
  <2>1. worker \in Worker
    BY <1>4, StepIsBusy DEF Succeed, Fail, TypeOK
  <2>2. worker.cr \in CRs
    BY <2>1 DEF Worker
  <2>3. CRCopiesAreCurrent'
    BY <1>4, <2>2, UpdateStatusKeeps DEF Succeed, Fail
  <2>4. Return
    BY <1>4 DEF Succeed, Fail
  <2>5. QED
    BY <2>3, <2>4 DEF Return, SecretCopiesAreCurrent, WorkerIsCurrent
<1>5. CASE Restart
  BY <1>5 DEF Restart, StartProcess, CRCopiesAreCurrent, SecretCopiesAreCurrent, WorkerIsCurrent, CopyOf, TypeOK
<1>6. ASSUME NEW c \in CRs, SyncCR(c) PROVE CopiesInv'
  BY <1>6 DEF SyncCR, CRCopiesAreCurrent, SecretCopiesAreCurrent, WorkerIsCurrent, CopyOf, TypeOK
<1>7. ASSUME NEW c \in CRs, Fire(c) PROVE CopiesInv'
  BY <1>7 DEF Fire, CRCopiesAreCurrent, SecretCopiesAreCurrent, WorkerIsCurrent, CopyOf
<1>8. ASSUME NEW c \in CRs, DeleteCR(c) PROVE CopiesInv'
  BY <1>8, PutCRKeeps DEF DeleteCR
<1>9. ASSUME NEW c \in CRs, NEW s \in Specs, EditSpec(c, s) PROVE CopiesInv'
  BY <1>9, PutCRKeeps DEF EditSpec
<1>10. ASSUME NEW c \in CRs, NEW s \in Specs, CreateCR(c, s) PROVE CopiesInv'
  BY <1>10, PutCRKeeps DEF CreateCR
<1>11. ASSUME NEW t \in Targets, SyncSecret(t) PROVE CopiesInv'
  BY <1>11 DEF SyncSecret, CRCopiesAreCurrent, SecretCopiesAreCurrent, WorkerIsCurrent, CopyOf, TypeOK
<1>12. ASSUME NEW t \in Targets, NEW s, secret' = [secret EXCEPT ![t] = s], StaleSecret(t),
              UNCHANGED <<cr, crCache, worker>>
       PROVE  CopiesInv'
  <2>1. \A u \in Targets \ {t} : secret'[u] = secret[u]
    BY <1>12 DEF TypeOK
  <2>2. QED
    BY <1>12, <2>1, StaleSecretKeeps DEF CRCopiesAreCurrent, WorkerIsCurrent, CopyOf
<1>13. ASSUME NEW t \in Targets, UserTouchesSecret(t) \/ CollectGarbage(t) PROVE CopiesInv'
  BY <1>12, <1>13 DEF UserTouchesSecret, UserPutsSecret, CollectGarbage
<1>14. ASSUME NEW p \in Paths, NEW v \in Values \cup {NoValue}, ChangeRemote(p, v) PROVE CopiesInv'
  BY <1>14 DEF ChangeRemote, CRCopiesAreCurrent, SecretCopiesAreCurrent, WorkerIsCurrent, CopyOf
<1>15. CASE UNCHANGED vars
  BY <1>15 DEF vars, CRCopiesAreCurrent, SecretCopiesAreCurrent, WorkerIsCurrent, CopyOf
<1>16. QED
  BY <1>1, <1>2, <1>3, <1>4, <1>5, <1>6, <1>7, <1>8, <1>9, <1>10, <1>11, <1>13,
     <1>14, <1>15 DEF Next, Reconcile

\* The inductive invariant holds of every state, under fairness too.
LEMMA InvAlways == FairSpec => []Inv /\ [][Next]_vars
<1>1. Init => Inv
  BY TypeInit, CopiesInit DEF Inv
<1>2. Inv /\ [Next]_vars => Inv'
  BY TypeStep, CopiesStep DEF Inv
<1>3. QED
  BY <1>1, <1>2, PTL DEF FairSpec

\* Operator: a copy of a CR or a Secret that carries the current version is what
\* the API server has, in the caches and in Reconcile, whatever users, the
\* garbage collector and restarts do.
THEOREM CopiesAreCurrent == FairSpec => []CopiesInv
<1>1. Inv => CopiesInv
  BY DEF Inv
<1>2. QED
  BY <1>1, InvAlways, PTL

-----------------------------------------------------------------------------
(* What a step may never do. *)

\* The Secret that Create finds nothing of, or that Update has read, is the one
\* that is overwritten.
LEMMA WritableIsCurrent ==
    ASSUME Inv, NEW t \in Targets, SecretWritable(t)
    PROVE  secretCache[t].obj = secret[t]
  BY DEF Inv, CopiesInv, SecretCopiesAreCurrent, SecretWritable

\* Only WriteSecret changes a Secret and Reconcile's own variables in one step.
LEMMA StolenStep ==
    ASSUME Inv, [Next]_vars, NEW t \in Targets, worker # Idle, secret'[t] # secret[t], worker' # worker
    PROVE  ~Taken(secret[t], worker.cr)
<1> USE DEF api, caches
<1>1. CASE WriteSecret
  <2> DEFINE u == worker.obj.spec.target
  <2>1. worker \in Worker
    BY <1>1, StepIsBusy DEF WriteSecret, Inv, TypeOK
  <2>2. u \in Targets
    BY <2>1 DEF Worker, Copy, CRSpec
  <2>3. ~Taken(secretCache[u].obj, worker.cr) /\ SecretWritable(u) /\ PutSecret(u, Desired(secretCache[u].obj))
    BY <1>1 DEF WriteSecret
  <2>4. t = u
    BY <2>3 DEF PutSecret, Inv, TypeOK
  <2>5. QED
    BY <2>2, <2>3, <2>4, WritableIsCurrent
<1>2. secret' = secret \/ worker' = worker \/ WriteSecret
  <2>1. ASSUME NEW c \in CRs, SyncCR(c) \/ Fire(c) \/ DeleteCR(c) PROVE secret' = secret
    BY <2>1 DEF SyncCR, Fire, DeleteCR, PutCR
  <2>2. ASSUME NEW c \in CRs, NEW s \in Specs, EditSpec(c, s) \/ CreateCR(c, s) PROVE secret' = secret
    BY <2>2 DEF EditSpec, CreateCR, PutCR
  <2>3. ASSUME NEW u \in Targets, SyncSecret(u) \/ UserTouchesSecret(u) \/ CollectGarbage(u) PROVE worker' = worker
    BY <2>3 DEF SyncSecret, UserTouchesSecret, UserPutsSecret, CollectGarbage
  <2>4. ASSUME NEW p \in Paths, NEW v \in Values \cup {NoValue}, ChangeRemote(p, v) PROVE secret' = secret
    BY <2>4 DEF ChangeRemote
  <2>5. CASE Start \/ Fetch \/ Succeed \/ Fail \/ Restart
    BY <2>5 DEF Start, Fetch, Succeed, Fail, Return, Restart
  <2>6. QED
    BY <2>1, <2>2, <2>3, <2>4, <2>5 DEF Next, Reconcile, vars
<1>3. QED
  BY <1>1, <1>2

\* A status turns to ready in Succeed only, which writes to the object it has read.
LEMMA ReadyStep ==
    ASSUME Inv, [Next]_vars, NEW c \in CRs, Exists(c), cr'[c] # NoObject,
           cr[c].status # "ready", cr'[c].status = "ready"
    PROVE  worker.step = "ready" /\ worker.cr = c /\ worker.obj = CopyOf(cr[c])
<1> USE DEF api, caches
<1>1. cr[c] \in Object /\ cr[c] # NoObject
  BY DEF Inv, TypeOK, Exists
<1>2. ASSUME NEW d \in CRs, NEW status \in {"ready", "failed"}, UpdateStatus(d, status), worker.cr = d
      PROVE  status = "ready" /\ d = c /\ worker.fresh
  <2>1. PutStatus(d, status) /\ StatusWritable(d)
    BY <1>2 DEF UpdateStatus
  <2>2. d = c
    BY <1>1, <1>2, <2>1 DEF PutStatus, Inv, TypeOK
  <2>3. cr'[c].status = status
    BY <1>1, <2>1, <2>2 DEF PutStatus, Inv, TypeOK, Object
  <2>4. QED
    BY <2>1, <2>2, <2>3 DEF StatusWritable
<1>3. CASE Succeed
  <2>1. worker \in Worker
    BY <1>3, StepIsBusy DEF Succeed, Inv, TypeOK
  <2>2. worker.cr \in CRs /\ worker # Idle
    BY <1>3, <2>1 DEF Worker, Succeed, Idle
  <2>3. worker.cr = c /\ worker.fresh
    BY <1>2, <1>3, <2>2 DEF Succeed
  <2>4. QED
    BY <1>3, <2>2, <2>3 DEF Succeed, Inv, CopiesInv, WorkerIsCurrent
<1>4. CASE Fail
  <2>1. worker \in Worker
    BY <1>4, StepIsBusy DEF Fail, Inv, TypeOK
  <2>2. worker.cr \in CRs
    BY <2>1 DEF Worker
  <2>3. QED
    BY <1>2, <1>4, <2>2 DEF Fail
<1>5. cr'[c] # cr[c]
  OBVIOUS
<1>6. ASSUME NEW d \in CRs, NEW obj, PutCR(d, obj) PROVE d = c /\ cr'[c] = obj
  BY <1>5, <1>6 DEF PutCR, Inv, TypeOK
<1>7. ASSUME NEW d \in CRs, DeleteCR(d) PROVE FALSE
  BY <1>6, <1>7 DEF DeleteCR
<1>8. ASSUME NEW d \in CRs, NEW s \in Specs, EditSpec(d, s) PROVE FALSE
  <2>1. cr'[c] = [cr[c] EXCEPT !.spec = s]
    BY <1>6, <1>8 DEF EditSpec
  <2>2. QED
    BY <1>1, <2>1 DEF Object
<1>9. ASSUME NEW d \in CRs, NEW s \in Specs, CreateCR(d, s) PROVE FALSE
  <2>1. cr'[c] = NewObject(born[d] + 1, s)
    BY <1>6, <1>9 DEF CreateCR
  <2>2. QED
    BY <2>1 DEF NewObject
<1>10. ASSUME NEW d \in CRs, SyncCR(d) \/ Fire(d) PROVE FALSE
  BY <1>5, <1>10 DEF SyncCR, Fire
<1>11. ASSUME NEW t \in Targets, SyncSecret(t) \/ UserTouchesSecret(t) \/ CollectGarbage(t) PROVE FALSE
  BY <1>5, <1>11 DEF SyncSecret, UserTouchesSecret, UserPutsSecret, CollectGarbage
<1>12. ASSUME NEW p \in Paths, NEW v \in Values \cup {NoValue}, ChangeRemote(p, v) PROVE FALSE
  BY <1>5, <1>12 DEF ChangeRemote
<1>13. ~(Start \/ Fetch \/ WriteSecret \/ Restart \/ UNCHANGED vars)
  BY <1>5 DEF Start, Fetch, WriteSecret, Restart, vars
<1>14. QED
  BY <1>3, <1>4, <1>7, <1>8, <1>9, <1>10, <1>11, <1>12, <1>13 DEF Next, Reconcile

\* WriteSecret: SetControllerReference looks at a copy of the Secret, and Create
\* and Update refuse what has changed since, so that no order of events lets
\* Reconcile overwrite a Secret that a CR of another name controls.
THEOREM SecretsAreNotStolen == FairSpec => NoStolenSecret
<1>1. Inv /\ [Next]_vars =>
        [\A t \in Targets : worker # Idle /\ secret'[t] # secret[t] /\ worker' # worker =>
            ~Taken(secret[t], worker.cr)]_vars
  BY StolenStep
<1>2. QED
  BY <1>1, InvAlways, PTL DEF NoStolenSecret

\* Succeed: Status().Update refuses an object that has changed since Reconcile read
\* it, so that ready is only said of the spec that the Secret was written for.
THEOREM ReadyMeansWritten == FairSpec => ReadyDescribesSpec
<1>1. Inv /\ [Next]_vars =>
        [\A c \in CRs : Exists(c) /\ cr'[c] # NoObject /\ cr[c].status # "ready" /\ cr'[c].status = "ready" =>
            worker.step = "ready" /\ worker.cr = c /\ worker.obj = CopyOf(cr[c])]_vars
  BY ReadyStep
<1>2. QED
  BY <1>1, InvAlways, PTL DEF ReadyDescribesSpec
=============================================================================
