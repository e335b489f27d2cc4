------------------------------- MODULE Authz -------------------------------
(***************************************************************************)
(* What a caller may do: the permission checks of internal/authz, and the  *)
(* endpoints of internal/api that grant, revoke, show and copy             *)
(* permissions, as concurrent handlers over the tables they share.         *)
(*                                                                         *)
(* One action is one SQL statement or one commit.  A row of permissions    *)
(* that no join row refers to is never read, so CreatePermission and the   *)
(* join row that follows it are one step.  The middleware, the tokens'     *)
(* own expiry and revocation and the audit rows are in Credentials: here a *)
(* caller has a valid credential when its request arrives.                 *)
(***************************************************************************)
EXTENDS Permissions, Naturals, FiniteSets

CONSTANTS
    Requests,           \* the HTTP requests a behaviour may serve
    UserNames,          \* values of users.name
    SANames,            \* service accounts, by <namespace>/<name>
    None,               \* no principal; the origin of what was there before
    NamespaceTable,     \* names in table namespaces, not changed here
    InitialPrincipals,  \* rows of users and service_accounts at the start
    InitialGrants,      \* their permissions and the anonymous ones
    Bodies,             \* what clients ask for
    MaxInFlight,        \* bound: how many requests may overlap
    MaxFaults           \* bound: failed statements and crashes

\* Who a permission is given to or a request is from.  "pat" is a user who
\* presents a PAT and not a session; a token is named after its request.
Who == [kind : {"user", "pat", "sa", "token", "anon"},
        name : UserNames \cup SANames \cup Requests \cup {None}]
Anon == [kind |-> "anon", name |-> None]
TokenOf(w) == [kind |-> "token", name |-> w]

\* Rows of users and of service_accounts.
Principal == [id : Nat, kind : {"user", "sa"}, name : UserNames \cup SANames]

Entry == [verb : Verbs, pat : Pattern, expires : BOOLEAN]

\* A row of permissions or anon_permissions.  key names the entry of a request
\* whose expiry it carries; src and to are history: who granted it to whom.
Perm == [src : Requests \cup {None}, to : Who, key : (Requests \cup {None}) \X Nat,
         verb : Verbs, pat : Pattern, expires : BOOLEAN]

\* Endpoints behind requireMeta, and what each of them asks for.
MetaGoal ==
    LET Users(v) == [verb |-> v, res |-> [ns |-> Reserved, name |-> "users"]]
        SA(v) == [verb |-> v, res |-> [ns |-> Reserved, name |-> "sa"]]
    IN [create |-> Users("write"), delete |-> Users("delete"), grant |-> Users("write"),
        revoke |-> Users("write"), anonAdd |-> Users("write"), anonDel |-> Users("write"),
        anonList |-> Users("list"), query |-> Users("read"), principals |-> SA("read")]

MetaOps == DOMAIN MetaGoal

Ops == MetaOps \cup {"idle", "bootstrap", "self", "anonInfo", "anonToken",
                     "issueCap", "use", "nslist", "nsquery"}

\* target: the principal of a grant, revocation, query, creation or deletion;
\* verb, res: what a resource endpoint checks; ref: the id in the path of a
\* deletion of an anonymous permission.
Body == [op : Ops, caller : Who, target : Who, entries : Seq(Entry),
         verb : Verbs, res : Pattern, ref : Requests \cup {None}]

\* What was there before went to the first row of a name, as every grant does.
ASSUME AuthzAssumption ==
    /\ None \notin Requests \cup UserNames \cup SANames
    /\ NamespaceTable \subseteq Literals
    /\ InitialPrincipals \subseteq Principal
    /\ IsFiniteSet(InitialPrincipals)
    /\ \A u \in InitialPrincipals : u.id \in 1 .. Cardinality(InitialPrincipals)
    /\ \A u, x \in InitialPrincipals : u.id = x.id => u = x
    /\ InitialGrants \subseteq [owner : InitialPrincipals \cup {Anon}, perm : Perm]
    /\ \A g \in InitialGrants : g.perm.src = None
    /\ \A g \in InitialGrants :
         IF g.owner = Anon THEN g.perm.to = Anon /\ ValidateAddPattern(g.perm.pat)
         ELSE /\ g.perm.to = [kind |-> g.owner.kind, name |-> g.owner.name]
              /\ \A x \in InitialPrincipals : x.kind = g.owner.kind /\ x.name = g.owner.name
                                              => g.owner.id <= x.id
    /\ Bodies \subseteq Body
    /\ \A b \in Bodies : b.op \in {"create", "bootstrap", "delete"} =>
         b.target.kind = "user" /\ b.target.name \in UserNames
    /\ \A b \in Bodies : b.op # "idle"
    /\ MaxInFlight \in Nat
    /\ MaxFaults \in Nat

VARIABLES
    principals,  \* rows of users and service_accounts
    idSeq,       \* last id given out
    links,       \* rows of user_permissions and sa_permissions, joined
    anon,        \* rows of anon_permissions
    caps,        \* rows of capability_tokens with their permissions
    expired,     \* keys of the permissions whose expiry has passed
    faults,      \* number of faults so far
    pc,          \* pc[w]: the statement the handler of w runs next
    body,        \* body[w]: the request
    loc,         \* loc[w]: the handler's variables
    status,      \* status[w]: its response
    answer,      \* answer[w]: the permissions, or namespaces and verbs, it shows
    used,        \* history: the rows that w was allowed by or shows
    before       \* history: the requests answered "ok" when w arrived

tables == <<principals, idSeq, links, anon, caps, expired>>
history == <<used, before>>
vars == <<tables, faults, pc, body, loc, status, answer, history>>

Link == [owner : Principal, perm : Perm]
Cap == [id : Requests, issuer : Nat, perms : SUBSET Perm]

Statuses == {"none", "ok", "badRequest", "unauthorized", "forbidden", "notFound",
             "unavailable", "error"}

Labels == {"new", "done", "check.find", "check.perms", "check.anon", "own.find",
           "own.perms", "own.anon", "grant.find", "grant.link", "revoke.read",
           "revoke.delete", "anon.add", "anon.del", "anon.read", "token.list",
           "token.insert", "cap.insert", "query.find", "query.perms",
           "user.insert", "user.link", "del.find", "del.exec"}

\* uid: the user in the context; pid: the row found last; i: the entry or
\* check at hand; rows: permissions read and still to be used; meta: verbs
\* that collectMetaVerbs found; all: whether every namespace is listed.
Locals == [uid : Nat, pid : Nat, i : Nat, rows : SUBSET Perm, meta : SUBSET Verbs,
           all : BOOLEAN]

Shown == [verb : Verbs, pat : Pattern]

TypeOK ==
    /\ principals \subseteq Principal
    /\ idSeq \in Nat
    /\ links \subseteq Link
    /\ anon \subseteq Perm
    /\ caps \subseteq Cap
    /\ expired \subseteq (Requests \cup {None}) \X Nat
    /\ faults \in Nat
    /\ pc \in [Requests -> Labels]
    /\ body \in [Requests -> Body]
    /\ loc \in [Requests -> Locals]
    /\ status \in [Requests -> Statuses]
    /\ answer \in [Requests -> SUBSET Shown]
    /\ used \in [Requests -> SUBSET Perm]
    /\ before \in [Requests -> SUBSET Requests]

-----------------------------------------------------------------------------
(* Queries and control. *)

\* GetUser and GetSA: First, the lowest id among the rows of that name.
IsFirst(u, kind, name) ==
    /\ u \in principals /\ u.kind = kind /\ u.name = name
    /\ \A x \in principals : x.kind = kind /\ x.name = name => u.id <= x.id

\* The principal of a caller; a PAT stands for its user.
KindOf(who) == IF who.kind = "pat" THEN "user" ELSE who.kind

OwnedBy(id) == {l.perm : l \in {x \in links : x.owner.id = id}}

Unexpired(rows) == {p \in rows : p.key \notin expired}

\* ListAnonPermissions filters in the database.
ListAnon == Unexpired(anon)

InFlight(w) == pc[w] \notin {"new", "done"}

Goto(w, label) == pc' = [pc EXCEPT ![w] = label]

Respond(w, s) ==
    /\ Goto(w, "done")
    /\ status' = [status EXCEPT ![w] = s]

Uses(w, rows) == used' = [used EXCEPT ![w] = @ \cup rows]

\* Where a check, or the collection of the caller's namespaces, begins.  A
\* token needs no lookup, and a caller without a principal has nothing of its own.
CheckLabel(b) ==
    CASE KindOf(b.caller) \in {"user", "sa"} -> "check.find"
      [] b.caller.kind = "token"             -> "check.perms"
      [] OTHER                               -> "check.anon"

OwnLabel(b) ==
    CASE KindOf(b.caller) \in {"user", "sa"} -> "own.find"
      [] b.caller.kind = "token"             -> "own.perms"
      [] OTHER                               -> "own.anon"

\* What follows the checks of an endpoint, or its arrival if it has none.
HandlerLabel ==
    [create |-> "user.insert", bootstrap |-> "user.insert", delete |-> "del.find",
     grant |-> "grant.find", revoke |-> "grant.find", anonAdd |-> "anon.add",
     anonDel |-> "anon.del", anonList |-> "anon.read", anonInfo |-> "anon.read",
     anonToken |-> "token.list", query |-> "query.find", principals |-> "query.find",
     self |-> "query.perms"]

Idle == [op |-> "idle", caller |-> Anon, target |-> Anon, entries |-> <<>>,
         verb |-> "read", res |-> [ns |-> Star, name |-> Star], ref |-> None]

Fresh == [uid |-> 0, pid |-> 0, i |-> 1, rows |-> {}, meta |-> {}, all |-> FALSE]

\* Users and service accounts with the permissions they were given earlier.
Init ==
    /\ principals = InitialPrincipals
    /\ idSeq = Cardinality(InitialPrincipals)
    /\ links = {g \in InitialGrants : g.owner # Anon}
    /\ anon = {g.perm : g \in {x \in InitialGrants : x.owner = Anon}}
    /\ caps = {} /\ expired = {} /\ faults = 0
    /\ pc = [w \in Requests |-> "new"]
    /\ body = [w \in Requests |-> Idle]
    /\ loc = [w \in Requests |-> Fresh]
    /\ status = [w \in Requests |-> "none"]
    /\ answer = [w \in Requests |-> {}]
    /\ used = [w \in Requests |-> {}]
    /\ before = [w \in Requests |-> {}]

-----------------------------------------------------------------------------
(* Arrival, and the checks that most endpoints begin with. *)

\* The row the credential of a caller leads to.  Login finds the first user of
\* a name and ids only grow, so a session belongs to the first for as long as
\* it lives.
ContextIds(who) ==
    CASE KindOf(who) \in {"user", "sa"} ->
            {u.id : u \in {x \in principals : IsFirst(x, KindOf(who), who.name)}}
      [] who.kind = "token" -> IF \E c \in caps : c.id = who.name THEN {0} ELSE {}
      [] OTHER -> {0}

\* What an endpoint does first: its checks, or its first statement.
EntryLabel(b) ==
    CASE b.op \in MetaOps \cup {"use", "issueCap"} -> CheckLabel(b)
      [] b.op = "nslist"  -> IF b.caller = Anon THEN OwnLabel(b) ELSE CheckLabel(b)
      [] b.op = "nsquery" -> CheckLabel(b)
      [] OTHER            -> HandlerLabel[b.op]

\* The kinds of caller an endpoint serves, and how it refuses the others.
Refusal(b) ==
    CASE b.op \in MetaOps /\ b.caller.kind # "user"               -> "forbidden"
      [] b.op = "self" /\ b.caller.kind \notin {"user", "pat"}     -> "forbidden"
      [] b.op = "issueCap" /\ b.caller.kind \notin {"user", "pat"} -> "unauthorized"
      [] b.op = "issueCap" /\ b.caller.kind \in {"user", "pat"} /\ b.entries = <<>> -> "badRequest"
      [] b.op = "nsquery" /\ b.res.ns = Reserved                   -> "notFound"
      [] OTHER                                                     -> "none"

\* The first check of nsquery, hasMetaNS, is skipped without a principal.
FirstCheck(b) == IF b.op = "nsquery" /\ b.caller = Anon THEN 2 ELSE 1

Arrive(w) ==
    /\ pc[w] = "new"
    /\ Cardinality({u \in Requests : InFlight(u)}) < MaxInFlight
    /\ \E b \in Bodies : \E id \in ContextIds(b.caller) :
         /\ body' = [body EXCEPT ![w] = b]
         /\ loc' = [loc EXCEPT ![w].uid = id, ![w].pid = id, ![w].i = FirstCheck(b)]
         /\ IF Refusal(b) = "none"
            THEN Goto(w, EntryLabel(b)) /\ UNCHANGED status
            ELSE Respond(w, Refusal(b))
    /\ before' = [before EXCEPT ![w] = {u \in Requests : status[u] = "ok"}]
    /\ UNCHANGED <<tables, faults, answer, used>>

\* The verbs that an nslist checks on _/ns: list, and then collectMetaVerbs.
MetaVerbs == <<"list", "list", "read", "write", "delete">>

\* What the check at hand asks for.
Goal(w) ==
    LET b == body[w]
        ns == [ns |-> Reserved, name |-> "ns"]
    IN CASE b.op \in MetaOps   -> MetaGoal[b.op]
         [] b.op = "issueCap"  -> [verb |-> b.entries[loc[w].i].verb, res |-> b.entries[loc[w].i].pat]
         [] b.op = "nslist"    -> [verb |-> MetaVerbs[loc[w].i], res |-> ns]
         [] b.op = "nsquery" /\ loc[w].i = 1 -> [verb |-> "read", res |-> ns]
         [] b.op = "nsquery"   -> [verb |-> "list", res |-> [ns |-> b.res.ns, name |-> Star]]
         [] OTHER              -> [verb |-> b.verb, res |-> b.res]

\* Mutation: the anonymous permissions are for callers without a principal.
WithAnonUnlessKnown(w) == FALSE

\* Whether the check at hand is CheckWithAnon and not Check.
WithAnon(w) == body[w].op = "use" \/ (body[w].op = "nsquery" /\ loc[w].i = 2)

Valid(b) ==
    CASE b.op \in {"grant", "anonAdd"} ->
            b.entries # <<>> /\ \A k \in DOMAIN b.entries : ValidateAddPattern(b.entries[k].pat)
      [] b.op = "revoke" ->
            b.entries # <<>> /\ \A k \in DOMAIN b.entries : ValidateDeletePattern(b.entries[k].pat)
      [] OTHER -> TRUE

\* Mutation: only the first entry of a token is checked.
NoMoreEntries(b, i) == FALSE

MoreEntries(b, i) == i < Len(b.entries)

\* Where a handler goes once its check said yes or no, or failed.
AfterCheck(w, verdict) ==
    LET b == body[w]
        i == loc[w].i
        To(label, k) == [pc |-> label, i |-> k, status |-> "none"]
        End(s) == [pc |-> "done", i |-> i, status |-> s]
        Denied == IF verdict = "no" THEN "forbidden" ELSE "error"
    IN CASE b.op \in MetaOps ->
              IF verdict # "yes" THEN End("forbidden")
              ELSE IF Valid(b) THEN To(HandlerLabel[b.op], 1) ELSE End("badRequest")
         [] b.op = "issueCap" ->
              IF verdict # "yes" THEN End("unauthorized")
              ELSE IF MoreEntries(b, i) THEN To(CheckLabel(b), i + 1) ELSE To("cap.insert", 1)
         [] b.op = "nslist" ->
              IF i = 1 THEN To(OwnLabel(b), 1)
              ELSE IF i < 5 THEN To(CheckLabel(b), i + 1) ELSE End("ok")
         [] b.op = "nsquery" ->
              IF verdict = "yes" THEN To(OwnLabel(b), i)
              ELSE IF i = 1 THEN To(CheckLabel(b), 2) ELSE End(Denied)
         [] OTHER -> IF verdict = "yes" THEN End("ok") ELSE End(Denied)

\* What NamespaceHandler lists: the namespaces of the caller's permissions and,
\* for a holder of _/ns list, every other one, with the verbs held on _/ns.
NamespaceList(w, meta) ==
    LET own == {p.pat.ns : p \in loc[w].rows}
        all == IF loc[w].all THEN NamespaceTable \ own ELSE {}
        Show(ns, v) == [verb |-> v, pat |-> [ns |-> ns, name |-> Star]]
    IN {Show(p.pat.ns, p.verb) : p \in loc[w].rows}
       \cup {Show(ns, v) : ns \in own \cup all, v \in meta}

\* The check at hand ends with a verdict and the rows that gave it.
Decide(w, verdict, rows) ==
    LET next == AfterCheck(w, verdict)
        nslist == body[w].op = "nslist"
        meta == IF nslist /\ loc[w].i > 1 /\ verdict = "yes"
                THEN loc[w].meta \cup {Goal(w).verb} ELSE loc[w].meta
    IN /\ pc' = [pc EXCEPT ![w] = next.pc]
       /\ status' = [status EXCEPT ![w] = next.status]
       /\ loc' = [loc EXCEPT ![w].i = next.i, ![w].meta = meta,
                             ![w].all = @ \/ (nslist /\ loc[w].i = 1 /\ verdict = "yes")]
       /\ answer' = [answer EXCEPT ![w] =
                       IF nslist /\ next.pc = "done" THEN NamespaceList(w, meta) ELSE @]
       /\ Uses(w, rows)
       /\ UNCHANGED <<tables, body, before>>

\* GetUser or GetSA by the name in the principal, whatever row the credential
\* belongs to.  A principal that is gone makes the check fail, not say no.
CheckFind(w) ==
    LET who == body[w].caller
    IN /\ pc[w] = "check.find"
       /\ UNCHANGED faults
       /\ \/ \E u \in principals :
               /\ IsFirst(u, KindOf(who), who.name)
               /\ loc' = [loc EXCEPT ![w].pid = u.id]
               /\ Goto(w, "check.perms")
               /\ UNCHANGED <<tables, body, status, answer, history>>
          \/ /\ ~\E u \in principals : IsFirst(u, KindOf(who), who.name)
             /\ Decide(w, "error", {})

\* The rows of the principal found.
OwnRows(w) ==
    IF body[w].caller.kind = "token"
    THEN UNION {c.perms : c \in {x \in caps : x.id = body[w].caller.name}}
    ELSE OwnedBy(loc[w].pid)

Granting(w, rows) ==
    {p \in Unexpired(rows) : p.verb = Goal(w).verb /\ matchesPattern(Goal(w).res, p.pat)}

\* Rows whose pattern makes the loop over them end with an error.
Breaking(w, rows) == {p \in Unexpired(rows) : p.verb = Goal(w).verb /\ BadPattern(p.pat)}

\* The rows come in no order: the loop ends at a match or at a bad pattern.
CheckPerms(w) ==
    LET rows == Granting(w, OwnRows(w))
        bad == Breaking(w, OwnRows(w))
    IN /\ pc[w] = "check.perms"
       /\ UNCHANGED faults
       /\ \/ rows # {} /\ Decide(w, "yes", rows)
          \/ bad # {} /\ Decide(w, "error", {})
          \/ rows = {} /\ bad = {} /\ ~WithAnon(w) /\ Decide(w, "no", {})
          \/ /\ rows = {} /\ bad = {} /\ WithAnon(w)
             /\ Goto(w, "check.anon")
             /\ UNCHANGED <<tables, body, loc, status, answer, history>>

checkAnon(w) ==
    LET rows == Granting(w, ListAnon)
        bad == Breaking(w, ListAnon)
    IN /\ pc[w] = "check.anon"
       /\ UNCHANGED faults
       /\ \/ rows # {} /\ Decide(w, "yes", rows)
          \/ bad # {} /\ Decide(w, "error", {})
          \/ rows = {} /\ bad = {} /\ Decide(w, "no", {})

-----------------------------------------------------------------------------
(* NamespacesForPrincipalWithAnon, for the namespace endpoints. *)

Listable(rows) == {p \in Unexpired(rows) : IsLiteralNamespace(p.pat.ns)}

OwnFind(w) ==
    LET who == body[w].caller
    IN /\ pc[w] = "own.find"
       /\ \/ \E u \in principals :
               /\ IsFirst(u, KindOf(who), who.name)
               /\ loc' = [loc EXCEPT ![w].pid = u.id]
               /\ Goto(w, "own.perms")
               /\ UNCHANGED status
          \/ /\ ~\E u \in principals : IsFirst(u, KindOf(who), who.name)
             /\ Respond(w, "error")
             /\ UNCHANGED loc
       /\ UNCHANGED <<tables, faults, body, answer, history>>

OwnPerms(w) ==
    /\ pc[w] = "own.perms"
    /\ loc' = [loc EXCEPT ![w].rows = Listable(OwnRows(w))]
    /\ Uses(w, Listable(OwnRows(w)))
    /\ Goto(w, "own.anon")
    /\ UNCHANGED <<tables, faults, body, status, answer, before>>

\* The union with the anonymous set.  A listing goes on to collectMetaVerbs, a
\* query answers with the verbs of its namespace.
OwnAnon(w) ==
    LET rows == loc[w].rows \cup Listable(anon)
    IN /\ pc[w] = "own.anon"
       /\ loc' = [loc EXCEPT ![w].rows = rows, ![w].i = 2]
       /\ Uses(w, Listable(anon))
       /\ IF body[w].op = "nslist" /\ body[w].caller # Anon
          THEN Goto(w, CheckLabel(body[w])) /\ UNCHANGED <<status, answer>>
          ELSE /\ Respond(w, "ok")
               /\ answer' = [answer EXCEPT ![w] =
                    {[verb |-> p.verb, pat |-> [ns |-> p.pat.ns, name |-> Star]] :
                       p \in {x \in rows : body[w].op = "nslist" \/ x.pat.ns = body[w].res.ns}}]
       /\ UNCHANGED <<tables, faults, body, before>>

-----------------------------------------------------------------------------
(* Grants and revocations: the principal is looked up once, and then every *)
(* entry is a commit, or several, of its own.                              *)

\* Mutation: the last entry of a list is left out.
IsLastEarly(w, entries) == loc[w].i + 1 >= Len(entries)

IsLast(w, entries) == loc[w].i >= Len(entries)

\* The next entry, or the answer after the last.
NextEntry(w, entries, label) ==
    IF IsLast(w, entries)
    THEN Respond(w, "ok") /\ UNCHANGED loc
    ELSE Goto(w, label) /\ loc' = [loc EXCEPT ![w].i = @ + 1] /\ UNCHANGED status

\* The row that entry i of request w makes for who.
PermOf(w, who, entry) ==
    [src |-> w, to |-> who, key |-> <<w, loc[w].i>>,
     verb |-> entry.verb, pat |-> entry.pat, expires |-> entry.expires]

GrantFind(w) ==
    LET b == body[w]
    IN /\ pc[w] = "grant.find"
       /\ \/ \E u \in principals :
               /\ IsFirst(u, b.target.kind, b.target.name)
               /\ loc' = [loc EXCEPT ![w].pid = u.id]
               /\ Goto(w, IF b.op = "grant" THEN "grant.link" ELSE "revoke.read")
               /\ UNCHANGED status
          \/ /\ ~\E u \in principals : IsFirst(u, b.target.kind, b.target.name)
             /\ Respond(w, "notFound")
             /\ UNCHANGED loc
       /\ UNCHANGED <<tables, faults, body, answer, history>>

\* The foreign key refuses a join row for a principal that is gone.
AddPermission(w, entries, label) ==
    /\ \/ \E u \in principals :
            /\ u.id = loc[w].pid
            /\ links' = links \cup {[owner |-> u, perm |-> PermOf(w, body[w].target, entries[loc[w].i])]}
            /\ NextEntry(w, entries, label)
       \/ /\ \A u \in principals : u.id # loc[w].pid
          /\ Respond(w, "error")
          /\ UNCHANGED <<links, loc>>
    /\ UNCHANGED <<principals, idSeq, anon, caps, expired, faults, body, answer, history>>

GrantLink(w) == pc[w] = "grant.link" /\ AddPermission(w, body[w].entries, "grant.link")

\* The rows an entry of a revocation is about, as they are when it is reached.
RevokeRead(w) ==
    LET entry == body[w].entries[loc[w].i]
        rows == {p \in OwnedBy(loc[w].pid) :
                   p.verb = entry.verb /\ matchesDeletePattern(p.pat, entry.pat)}
    IN /\ pc[w] = "revoke.read"
       /\ \/ /\ rows # {}
             /\ loc' = [loc EXCEPT ![w].rows = rows]
             /\ Goto(w, "revoke.delete")
             /\ UNCHANGED status
          \/ rows = {} /\ NextEntry(w, body[w].entries, "revoke.read")
       /\ UNCHANGED <<tables, faults, body, answer, history>>

\* Mutation: the loop over the matching rows returns after the first.
RevokeDeleteOne(w) ==
    /\ pc[w] = "revoke.delete"
    /\ \E p \in loc[w].rows :
         links' = {l \in links : ~(l.owner.id = loc[w].pid /\ l.perm = p)}
    /\ NextEntry(w, body[w].entries, "revoke.read")
    /\ UNCHANGED <<principals, idSeq, anon, caps, expired, faults, body, answer, history>>

\* One join row; no error if it is gone already.
RevokeDelete(w) ==
    /\ pc[w] = "revoke.delete"
    /\ \E p \in loc[w].rows :
         /\ links' = {l \in links : ~(l.owner.id = loc[w].pid /\ l.perm = p)}
         /\ \/ /\ loc[w].rows # {p}
               /\ loc' = [loc EXCEPT ![w].rows = @ \ {p}]
               /\ UNCHANGED <<pc, status>>
            \/ loc[w].rows = {p} /\ NextEntry(w, body[w].entries, "revoke.read")
    /\ UNCHANGED <<principals, idSeq, anon, caps, expired, faults, body, answer, history>>

-----------------------------------------------------------------------------
(* The anonymous permission set, and the tokens that copy permissions. *)

AddAnonPermission(w) ==
    /\ pc[w] = "anon.add"
    /\ anon' = anon \cup {PermOf(w, Anon, body[w].entries[loc[w].i])}
    /\ NextEntry(w, body[w].entries, "anon.add")
    /\ UNCHANGED <<principals, idSeq, links, caps, expired, faults, body, answer, history>>

\* By id: the first row that request ref added, or that was there before.
DeleteAnonPermission(w) ==
    /\ pc[w] = "anon.del"
    /\ anon' = {p \in anon : p.key # <<body[w].ref, 1>>}
    /\ Respond(w, "ok")
    /\ UNCHANGED <<principals, idSeq, links, caps, expired, faults, body, loc, answer, history>>

\* GET /admin/anon and GET /admin/anon/permissions.
ListAnonPermissions(w) ==
    /\ pc[w] = "anon.read"
    /\ answer' = [answer EXCEPT ![w] = {[verb |-> p.verb, pat |-> p.pat] : p \in ListAnon}]
    /\ Uses(w, ListAnon)
    /\ Respond(w, "ok")
    /\ UNCHANGED <<tables, faults, body, loc, before>>

AnonTokenList(w) ==
    /\ pc[w] = "token.list"
    /\ loc' = [loc EXCEPT ![w].rows = ListAnon]
    /\ Uses(w, ListAnon)
    /\ \/ ListAnon # {} /\ Goto(w, "token.insert") /\ UNCHANGED status
       \/ ListAnon = {} /\ Respond(w, "unavailable")
    /\ UNCHANGED <<tables, faults, body, answer, before>>

\* One transaction: the token and its own copies of what was listed.
AnonTokenInsert(w) ==
    /\ pc[w] = "token.insert"
    /\ caps' = caps \cup {[id |-> w, issuer |-> 0,
                           perms |-> {[p EXCEPT !.src = w, !.to = TokenOf(w)] : p \in loc[w].rows}]}
    /\ Respond(w, "ok")
    /\ UNCHANGED <<principals, idSeq, links, anon, expired, faults, body, loc, answer, history>>

\* One transaction; the issuer is the user of the context, by id.
IssueCapInsert(w) ==
    LET entries == body[w].entries
        perms == {[src |-> w, to |-> TokenOf(w), key |-> <<w, k>>, verb |-> entries[k].verb,
                   pat |-> entries[k].pat, expires |-> entries[k].expires] : k \in DOMAIN entries}
    IN /\ pc[w] = "cap.insert"
       /\ \/ /\ \E u \in principals : u.id = loc[w].uid
             /\ caps' = caps \cup {[id |-> w, issuer |-> loc[w].uid, perms |-> perms]}
             /\ Respond(w, "ok")
          \/ /\ \A u \in principals : u.id # loc[w].uid
             /\ Respond(w, "error")
             /\ UNCHANGED caps
       /\ UNCHANGED <<principals, idSeq, links, anon, expired, faults, body, loc, answer, history>>

-----------------------------------------------------------------------------
(* What administrators see, and the users themselves. *)

QueryFind(w) ==
    LET b == body[w]
    IN /\ pc[w] = "query.find"
       /\ \/ \E u \in principals :
               /\ IsFirst(u, b.target.kind, b.target.name)
               /\ loc' = [loc EXCEPT ![w].pid = u.id]
               /\ Goto(w, "query.perms")
               /\ UNCHANGED status
          \/ /\ ~\E u \in principals : IsFirst(u, b.target.kind, b.target.name)
             /\ Respond(w, "notFound")
             /\ UNCHANGED loc
       /\ UNCHANGED <<tables, faults, body, answer, history>>

\* Mutation: the rows are sent as they are stored, ids and all.
QueryPermsRaw(w) ==
    LET rows == OwnedBy(loc[w].pid)
    IN /\ pc[w] = "query.perms"
       /\ answer' = [answer EXCEPT ![w] = rows]
       /\ Uses(w, rows)
       /\ Respond(w, "ok")
       /\ UNCHANGED <<tables, faults, body, loc, before>>

\* All rows of the principal, expired ones too.
QueryPerms(w) ==
    LET rows == OwnedBy(loc[w].pid)
    IN /\ pc[w] = "query.perms"
       /\ answer' = [answer EXCEPT ![w] = {[verb |-> p.verb, pat |-> p.pat] : p \in rows}]
       /\ Uses(w, rows)
       /\ Respond(w, "ok")
       /\ UNCHANGED <<tables, faults, body, loc, before>>

\* No look at the name: a second user of a name is a row of its own.
CreateUser(w) ==
    /\ pc[w] = "user.insert"
    /\ idSeq' = idSeq + 1
    /\ principals' = principals \cup {[id |-> idSeq + 1, kind |-> "user", name |-> body[w].target.name]}
    /\ loc' = [loc EXCEPT ![w].pid = idSeq + 1]
    /\ IF body[w].op = "bootstrap"
       THEN Goto(w, "user.link") /\ UNCHANGED status
       ELSE Respond(w, "ok")
    /\ UNCHANGED <<links, anon, caps, expired, faults, body, answer, history>>

BootstrapLink(w) == pc[w] = "user.link" /\ AddPermission(w, bootstrapGrants, "user.link")

DeleteUserFind(w) ==
    /\ pc[w] = "del.find"
    /\ \/ \E u \in principals :
            /\ IsFirst(u, "user", body[w].target.name)
            /\ loc' = [loc EXCEPT ![w].pid = u.id]
            /\ Goto(w, "del.exec")
            /\ UNCHANGED status
       \/ /\ ~\E u \in principals : IsFirst(u, "user", body[w].target.name)
          /\ Respond(w, "error")
          /\ UNCHANGED loc
    /\ UNCHANGED <<tables, faults, body, answer, history>>

\* The row with its join rows and the tokens it issued.
DeleteUserExec(w) ==
    /\ pc[w] = "del.exec"
    /\ principals' = {u \in principals : u.id # loc[w].pid}
    /\ links' = {l \in links : l.owner.id # loc[w].pid}
    /\ caps' = {c \in caps : c.issuer # loc[w].pid}
    /\ Respond(w, "ok")
    /\ UNCHANGED <<idSeq, anon, expired, faults, body, loc, answer, history>>

-----------------------------------------------------------------------------
(* Time, faults, and the specification. *)

Expire ==
    /\ \E p \in {l.perm : l \in links} \cup anon \cup UNION {c.perms : c \in caps} :
         /\ p.expires /\ p.key \notin expired
         /\ expired' = expired \cup {p.key}
    /\ UNCHANGED <<principals, idSeq, links, anon, caps, faults, pc, body, loc, status, answer, history>>

\* A statement fails or the replica dies.  A check that fails is a verdict of
\* its own; AdminUser drops the error of its last query and shows nothing.
Fail(w) ==
    /\ InFlight(w)
    /\ faults < MaxFaults
    /\ faults' = faults + 1
    /\ \/ /\ Respond(w, "error")
          /\ UNCHANGED <<tables, body, loc, answer, history>>
       \/ /\ pc[w] \in {"check.find", "check.perms", "check.anon"}
          /\ Decide(w, "error", {})
       \/ /\ pc[w] = "query.perms" /\ body[w].op \in {"query", "self"}
          /\ Respond(w, "ok")
          /\ UNCHANGED <<tables, body, loc, answer, history>>

Step(w) ==
    \/ CheckFind(w) \/ CheckPerms(w) \/ checkAnon(w)
    \/ OwnFind(w) \/ OwnPerms(w) \/ OwnAnon(w)
    \/ GrantFind(w) \/ GrantLink(w) \/ RevokeRead(w) \/ RevokeDelete(w)
    \/ AddAnonPermission(w) \/ DeleteAnonPermission(w) \/ ListAnonPermissions(w)
    \/ AnonTokenList(w) \/ AnonTokenInsert(w) \/ IssueCapInsert(w)
    \/ QueryFind(w) \/ QueryPerms(w)
    \/ CreateUser(w) \/ BootstrapLink(w) \/ DeleteUserFind(w) \/ DeleteUserExec(w)

\* Nothing is in flight.
Terminated == (\A w \in Requests : ~InFlight(w)) /\ UNCHANGED vars

Next ==
    \/ \E w \in Requests : Arrive(w) \/ Step(w) \/ Fail(w)
    \/ Expire
    \/ Terminated

Spec == Init /\ [][Next]_vars

-----------------------------------------------------------------------------
(* Properties. *)

OpOf(src) == IF src = None THEN "initial" ELSE body[src].op

\* Everything that src granted was there before v arrived.
Precedes(src, v) == src = None \/ src \in before[v]

\* Request v asks for the removal of what entry (verb, pat) gives to.
Removes(v, to, verb, pat, key) ==
    \/ /\ body[v].op = "revoke" /\ body[v].target = to
       /\ \E k \in DOMAIN body[v].entries :
            /\ body[v].entries[k].verb = verb
            /\ matchesDeletePattern(pat, body[v].entries[k].pat)
    \/ body[v].op = "delete" /\ body[v].target = to
    \/ body[v].op = "anonDel" /\ to = Anon /\ key = <<body[v].ref, 1>>

\* RevokePermissions, DeleteAnonPermission and DeleteUserByName: a permission
\* that was granted before its revocation (or the deletion of its user)
\* arrived allows nothing, is shown to nobody and is copied into no token by
\* any request that arrives after the revocation was answered, although the
\* revocation reads the rows and deletes them one commit at a time.  (What a
\* bootstrap gave is left out: it may belong to a second user of the name.)
RevocationIsFinal ==
    \A w \in Requests : \A p \in used[w], v \in before[w] :
        ~ /\ OpOf(p.src) \in {"initial", "grant", "anonAdd"}
          /\ Precedes(p.src, v)
          /\ Removes(v, p.to, p.verb, p.pat, p.key)

\* A removal that may have touched what g granted: it is not over before g began.
Undone(g, to, verb, pat, key) ==
    \E v \in Requests : pc[v] # "new" /\ v \notin before[g] /\ Removes(v, to, verb, pat, key)

EntriesOf(g) == IF body[g].op = "bootstrap" THEN bootstrapGrants ELSE body[g].entries

Granted == {g \in Requests : status[g] = "ok" /\ body[g].op \in {"grant", "bootstrap", "anonAdd"}}

Recipient(g) == IF body[g].op = "anonAdd" THEN Anon ELSE body[g].target

\* GrantPermissions, AddAnonPermissions and the bootstrap of CreateUser commit
\* entry by entry: an answer "ok" means that every entry is in the tables,
\* whatever failed or was deleted meanwhile, unless a later removal named it.
AckedGrantIsWhole ==
    \A g \in Granted : \A k \in DOMAIN EntriesOf(g) :
        LET e == EntriesOf(g)[k]
        IN \/ \E p \in anon \cup {l.perm : l \in links} : p.src = g /\ p.key = <<g, k>>
           \/ Undone(g, Recipient(g), e.verb, e.pat, <<g, k>>)

\* Check and CheckWithAnon: after a grant was answered, and while nothing takes
\* it back, no request of its recipient (or of anyone, for the anonymous set)
\* for what it covers is answered 403 (a malformed pattern among the rows read
\* may make the check fail), and the endpoints that show permissions and
\* namespaces show it.
GrantedPermissionSuffices ==
    \A w \in Requests : \A g \in before[w] : g \in Granted /\ body[g].op # "bootstrap" =>
        \A k \in DOMAIN body[g].entries :
            LET e == body[g].entries[k]
                b == body[w]
                mine == Recipient(g) \in {Anon, [kind |-> KindOf(b.caller), name |-> b.caller.name]}
                shown(pat) == [verb |-> e.verb, pat |-> pat] \in answer[w]
            IN ~Undone(g, Recipient(g), e.verb, e.pat, <<g, k>>) =>
                /\ b.op = "use" /\ mine /\ e.verb = b.verb /\ matchesPattern(b.res, e.pat)
                     /\ status[w] = "forbidden" => <<g, k>> \in expired
                /\ b.op \in {"query", "principals"} /\ b.target = Recipient(g) /\ status[w] = "ok"
                     => shown(e.pat) \/ (b.op = "query" /\ faults > 0)
                /\ b.op = "nslist" /\ mine /\ IsLiteralNamespace(e.pat.ns) /\ status[w] = "ok"
                     => shown([ns |-> e.pat.ns, name |-> Star]) \/ <<g, k>> \in expired

\* What ValidateAddPattern is for ("reserved namespace not allowed when granting
\* permissions"): no sequence of grants, tokens and anonymous permissions lets
\* anyone act on, or see, the reserved namespace; its permissions come from a
\* bootstrap, or from a token whose issuer had them.  The code compares the
\* segment with "_" and lets a glob such as "?" through, which matches it.
ReservedOnlyFromBootstrap ==
    \A w \in Requests : \A p \in used[w] :
        (\E n \in MetaNames : matchesPattern([ns |-> Reserved, name |-> n], p.pat))
            => OpOf(p.src) \in {"initial", "bootstrap", "issueCap"}

\* What ValidateAddPattern and the check of IssueCapabilityToken do ensure: a
\* permission that reaches the reserved namespace comes from a bootstrap, or
\* has a partial glob for a namespace, or is of a token whose issuer held such
\* a glob or reached the reserved namespace with that verb already.
ReservedOnlyByGlob ==
    \A w \in Requests : \A p \in used[w] :
        (\E n \in MetaNames : matchesPattern([ns |-> Reserved, name |-> n], p.pat)) =>
            \/ OpOf(p.src) \in {"initial", "bootstrap"}
            \/ p.pat.ns \in Globs
            \/ /\ OpOf(p.src) = "issueCap"
               /\ \E q \in used[p.src] :
                    q.verb = p.verb /\ (q.pat.ns \in Globs \/ SegmentMatch(q.pat.ns, Reserved))

\* "Scoped to a subset of the caller's own permissions": whatever a capability
\* token allows was allowed to its issuer by a permission that the issuing
\* request found.  The code checks the patterns of the token as if they were
\* resources, and a glob may match the text of a wider one.
CapWithinIssuer ==
    \A w \in Requests : \A p \in used[w] :
        body[w].op = "use" /\ OpOf(p.src) = "issueCap" =>
            \E q \in used[p.src] : q.verb = body[w].verb /\ matchesPattern(body[w].res, q.pat)

HasGlob(pat) == {pat.ns, pat.name} \cap Globs # {}
IsWild(pat) == {pat.ns, pat.name} \cap (Globs \cup {Star}) # {}

\* IssueCapabilityToken: for everything a token is used for its issuer had a
\* permission that allows it too, unless that permission has a partial glob and
\* the token a wildcard whose text the glob matches, although entries are
\* checked one by one while the issuer's permissions come and go.
CapExceedsOnlyByGlob ==
    \A w \in Requests : \A p \in used[w] :
        body[w].op = "use" /\ OpOf(p.src) = "issueCap" =>
            \E q \in used[p.src] :
                /\ q.verb = body[w].verb
                /\ \/ matchesPattern(body[w].res, q.pat)
                   \/ HasGlob(q.pat) /\ IsWild(p.pat) /\ matchesPattern(p.pat, q.pat)
=============================================================================
