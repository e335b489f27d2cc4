--------------------------- MODULE VersionedStore ---------------------------
(***************************************************************************)
(* What the documentation of the resource API promises clients (README.md, *)
(* openapi.yaml): named histories of values, grouped in namespaces, on     *)
(* which every request acts at one instant, and when it is answered 404 or *)
(* 409.                                                                    *)
(*                                                                         *)
(* A request is pending, then applied (its effect and its result are       *)
(* fixed), then answered.  An answer may be lost after the effect, and any *)
(* request may be abandoned before it.  There are no rows, ids, keys or    *)
(* statements here; a value is named by the request that submitted it.     *)
(***************************************************************************)
EXTENDS Naturals, Sequences

CONSTANTS Requests, NsNames, ResNames

VARIABLES
    hist,  \* hist[ns, name]: the values written, oldest first
    made,  \* the resources that exist, as <<ns, name>>
    nss,   \* the namespaces that exist
    call,  \* call[w]: what request w asks for
    out    \* out[w]: its stage or final status, and the values it returns

absVars == <<hist, made, nss, call, out>>

Target(w) == <<call[w].ns, call[w].name>>

Pending(w, ops) == out[w].st = "pending" /\ call[w].op \in ops

Settle(w, st, vals) == out' = [out EXCEPT ![w] = [st |-> st, vals |-> vals]]

AbsInit ==
    /\ hist = [t \in NsNames \X ResNames |-> <<>>]
    /\ made = {}
    /\ nss = {}
    /\ out = [w \in Requests |-> [st |-> "pending", vals |-> <<>>]]

\* The beginning of a PUT: the namespace if it does not exist, then the
\* resource.  What a PUT that is abandoned has made so far stays.
OpenNamespace(w) ==
    /\ Pending(w, {"put"})
    /\ nss' = nss \cup {call[w].ns}
    /\ UNCHANGED <<hist, made, call, out>>

OpenResource(w) ==
    /\ Pending(w, {"put"})
    /\ call[w].ns \in nss
    /\ made' = made \cup {Target(w)}
    /\ UNCHANGED <<hist, nss, call, out>>

Put(w) ==
    /\ Pending(w, {"put"})
    /\ Target(w) \in made
    /\ hist' = [hist EXCEPT ![Target(w)] = Append(@, w)]
    /\ Settle(w, "applied", <<>>)
    /\ UNCHANGED <<made, nss, call>>

\* "Delete a resource and all its versions."
Delete(w) ==
    /\ Pending(w, {"delete"})
    /\ Target(w) \in made
    /\ made' = made \ {Target(w)}
    /\ hist' = [hist EXCEPT ![Target(w)] = <<>>]
    /\ Settle(w, "applied", <<>>)
    /\ UNCHANGED <<nss, call>>

Queries == {"get", "getVersion", "listVersions", "getByUUID", "getByVersionUUID"}

\* Whether value u is a version of the resource t.
IsVersionOf(u, t) == \E i \in DOMAIN hist[t] : hist[t][i] = u

\* The answers a query may get; none of them means 404.  Only a query for a
\* UUID alone is not about the resource it names.
Answers(w) ==
    LET h == hist[Target(w)]
    IN CASE call[w].op = "get" ->
              IF Target(w) \notin made THEN {}
              ELSE IF h = <<>> THEN {<<>>} ELSE {<<h[Len(h)]>>}
         [] call[w].op = "getVersion" ->
              IF call[w].num \in DOMAIN h THEN {<<h[call[w].num]>>} ELSE {}
         [] call[w].op = "listVersions" -> IF Target(w) \in made THEN {h} ELSE {}
         [] call[w].op = "getByVersionUUID" ->
              IF IsVersionOf(call[w].uuid, Target(w)) THEN {<<call[w].uuid>>} ELSE {}
         [] OTHER ->
              IF \E t \in DOMAIN hist : IsVersionOf(call[w].uuid, t) THEN {<<call[w].uuid>>} ELSE {}

Read(w) ==
    /\ Pending(w, Queries)
    /\ \E vals \in Answers(w) : Settle(w, "applied", vals)
    /\ UNCHANGED <<hist, made, nss, call>>

\* 404: no such resource or version, or no such namespace to delete.
NotFound(w) ==
    /\ \/ Pending(w, Queries) /\ Answers(w) = {}
       \/ Pending(w, {"delete"}) /\ Target(w) \notin made
       \/ Pending(w, {"nsDelete"}) /\ call[w].ns \notin nss
    /\ Settle(w, "notFound", <<>>)
    /\ UNCHANGED <<hist, made, nss, call>>

Holds(ns) == \E name \in ResNames : <<ns, name>> \in made

CreateNamespace(w) ==
    /\ Pending(w, {"nsCreate"})
    /\ call[w].ns \notin nss
    /\ nss' = nss \cup {call[w].ns}
    /\ Settle(w, "applied", <<>>)
    /\ UNCHANGED <<hist, made, call>>

DeleteNamespace(w) ==
    /\ Pending(w, {"nsDelete"})
    /\ call[w].ns \in nss /\ ~Holds(call[w].ns)
    /\ nss' = nss \ {call[w].ns}
    /\ Settle(w, "applied", <<>>)
    /\ UNCHANGED <<hist, made, call>>

\* 409: the namespace to create exists; the one to delete is not empty.
Conflict(w) ==
    /\ \/ Pending(w, {"nsCreate"}) /\ call[w].ns \in nss
       \/ Pending(w, {"nsDelete"}) /\ Holds(call[w].ns)
    /\ Settle(w, "conflict", <<>>)
    /\ UNCHANGED <<hist, made, nss, call>>

Abandon(w) ==
    /\ out[w].st = "pending"
    /\ \E st \in {"error", "refused"} : Settle(w, st, <<>>)
    /\ UNCHANGED <<hist, made, nss, call>>

Answer(w) ==
    /\ out[w].st = "applied"
    /\ \E st \in {"ok", "error"} : Settle(w, st, out[w].vals)
    /\ UNCHANGED <<hist, made, nss, call>>

AbsNext ==
    \E w \in Requests :
      \/ OpenNamespace(w) \/ OpenResource(w) \/ Put(w) \/ Delete(w)
      \/ Read(w) \/ NotFound(w)
      \/ CreateNamespace(w) \/ DeleteNamespace(w) \/ Conflict(w)
      \/ Abandon(w) \/ Answer(w)

AbsSpec == AbsInit /\ [][AbsNext]_absVars
=============================================================================
