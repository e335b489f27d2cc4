----------------------- MODULE ResourceStoreRefinement -----------------------
(***************************************************************************)
(* The handlers against VersionedStore, what the documentation promises.   *)
(* When no two requests overlap they implement it through every failed     *)
(* statement, crash and change of KEK, but for three departures, which are *)
(* named here.                                                             *)
(***************************************************************************)
EXTENDS ResourceStore, Sequences

\* Version rows of one resource in order, by who wrote them.
InOrder(rows) == [i \in 1 .. Cardinality(rows) |-> (CHOOSE v \in rows : v.version = i).uuid]

HistoryOf(ns, name) == InOrder({v \in versions : \E r \in ResRowsOf(ns, name) : r.id = v.rid})

\* The values in a response; a value that is still sealed is none.
ValuesIn(op, response) ==
    IF op = "listVersions"
    THEN InOrder(response.rows)
    ELSE [i \in 1 .. Cardinality(response.plain) |->
            LET b == CHOOSE x \in response.plain : TRUE
            IN IF b.under = None THEN b.text ELSE None]

StageOf(w) ==
    CASE pc[w] = "done"  -> reply[w].status
      [] pc[w] = "audit" -> "applied"
      [] OTHER           -> "pending"

Histories == [t \in NsNames \X ResNames |-> HistoryOf(t[1], t[2])]

Responses == [w \in Requests |-> [st |-> StageOf(w), vals |-> ValuesIn(body[w].op, reply[w])]]

Made == {t \in NsNames \X ResNames : ResRowsOf(t[1], t[2]) # {}}

NsMade == {x.name : x \in namespaces}

Abstract == INSTANCE VersionedStore WITH
    hist <- Histories, made <- Made, nss <- NsMade, call <- body, out <- Responses

\* What README.md and openapi.yaml say of the resource and namespace endpoints:
\* every statement of a handler is invisible or is the one instant at which its
\* request acts on the histories, and 404 and 409 mean what they are said to.
ImplementsVersionedStore == Abstract!AbsSpec

\* Nothing changes but the response to w, which is as if w had been applied.
OnlyAnswers(w, vals) ==
    /\ Abstract!Settle(w, "applied", vals)
    /\ UNCHANGED <<Histories, Made, NsMade, body>>

\* op=create of a namespace that exists: a failed lookup is taken for "none".
CreatesAgain(w) ==
    /\ faults > 0
    /\ Abstract!Pending(w, {"nsCreate"}) /\ body[w].ns \in NsMade
    /\ OnlyAnswers(w, <<>>)

\* op=delete of a namespace that does not exist is answered 204 and not 404.
DeletesNothing(w) ==
    /\ Abstract!Pending(w, {"nsDelete"}) /\ body[w].ns \notin NsMade
    /\ OnlyAnswers(w, <<>>)

\* A query for a version of the named resource, which must exist, by UUID gets
\* the version of another resource.
ReadsForeign(w) ==
    /\ Abstract!Pending(w, {"getByVersionUUID"}) /\ Abstract!Target(w) \in Made
    /\ \E t \in Made \ {Abstract!Target(w)} : Abstract!IsVersionOf(body[w].uuid, t)
    /\ OnlyAnswers(w, <<body[w].uuid>>)

Departs(w) == CreatesAgain(w) \/ DeletesNothing(w) \/ ReadsForeign(w)

NextButDepartures == Abstract!AbsNext \/ \E w \in Requests : Departs(w)

\* The handlers implement the documented store, except for the departures: no
\* failed statement, crash or change of KEK makes another difference.
ImplementsButDepartures ==
    /\ Abstract!AbsInit
    /\ [][NextButDepartures]_(Abstract!absVars)
=============================================================================
