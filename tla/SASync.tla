------------------------------- MODULE SASync -------------------------------
(***************************************************************************)
(* The loops of internal/k8s that follow a ConfigMap: the permissions of   *)
(* service accounts, which every replica of the server writes into the     *)
(* shared database, and the bootstrap tokens and CORS origins, which every *)
(* replica keeps in memory.  The loops share nothing with each other, so a *)
(* behaviour is about one of them: feed says which.                        *)
(*                                                                         *)
(* Around them: the cluster, which edits and deletes the ConfigMap and     *)
(* closes watches; requests with a service account JWT, which create the   *)
(* account they name; administrators, who grant and revoke; failed         *)
(* statements and crashes.  A Watch that fails is retried after 30 seconds *)
(* and changes nothing.                                                    *)
(***************************************************************************)
EXTENDS Permissions

CONSTANTS
    Replicas,    \* server processes
    Callers,     \* requests that present a JWT
    Presents,    \* Presents[c]: the account whose JWT it is
    SAs,         \* service accounts, by <namespace>/<name>
    Values,      \* bootstrap tokens, or origins
    Feeds,       \* which loops are looked at: "sa", "settings"
    Contents,    \* what the ConfigMap may hold under its key
    CMStates,    \* the ConfigMap as it may be when the replicas start
    AdminPerms,  \* what administrators grant and revoke
    MaxEdits,    \* bound: changes of the ConfigMap
    MaxTroubles  \* bound: failed statements, crashes, grants and revocations

\* A permission as it is listed: a verb, perhaps unknown, and path parts.
RawPerm == [verb : STRING, raw : Seq(STRING)]
SAEntry == [sa : SAs, permissions : SUBSET RawPerm]

\* The value of the key: absent or empty, unparsable, or a list.
Content == [form : {"empty", "bad", "list"}, entries : Seq(SAEntry), values : SUBSET Values]

Granted == [verb : Verbs, pat : Pattern]

\* Whether it is there, and what it holds or last held.
CMState == [there : BOOLEAN, content : Content]

ASSUME SyncAssumption ==
    /\ Replicas # {}
    /\ Presents \in [Callers -> SAs]
    /\ Feeds \subseteq {"sa", "settings"}
    /\ Contents \subseteq Content
    /\ CMStates \subseteq {x \in CMState : x.content \in Contents}
    /\ \A c \in Contents : \A i, j \in DOMAIN c.entries :
         c.entries[i].sa = c.entries[j].sa => i = j
    /\ \A c \in Contents : \A i \in DOMAIN c.entries : \A p \in c.entries[i].permissions :
         NormalizeResource(p.raw) \subseteq Pattern
    /\ AdminPerms \subseteq Granted
    /\ MaxEdits \in Nat /\ MaxTroubles \in Nat

VARIABLES
    feed,       \* the loop this behaviour is about
    cm,         \* the ConfigMap: whether it is there and what it holds or held
    edits,      \* changes so far
    published,  \* history: every content so far
    sas,        \* sas[s]: number of rows that service_accounts has for s
    perms,      \* rows of sa_permissions, joined with permissions
    setting,    \* setting[r]: the set a replica holds in memory
    pc,         \* pc[r]: the next step of the loop of replica r
    chan,       \* chan[r]: events its watch has not delivered yet
    loc,        \* loc[r]: the loop's variables
    caller,     \* caller[c]: the progress of a request through GetOrCreateSA
    faults,     \* number of faults so far
    admin       \* number of grants and revocations so far

database == <<sas, perms>>
cluster == <<feed, cm, edits, published>>
vars == <<cluster, database, setting, pc, chan, loc, caller, faults, admin>>

\* Ids only order the rows of one account, so a row is the nth of its account;
\* rows are never deleted.
SARow == [sa : SAs, nth : Nat]
None == [nth |-> 0]

PermRow == [owner : SARow, perm : Granted, by : {"sync", "admin"}]

Labels == {"get", "watch", "recv", "find", "create", "clear", "commit"}

\* back: where applySync returns to; todo: entries not yet synced; sa: the row
\* found; cleared: the rows that the open transaction has deleted.
Locals == [back : {"watch", "recv"}, todo : Seq(SAEntry), sa : SARow \cup {None}, cleared : SUBSET PermRow]

TypeOK ==
    /\ feed \in Feeds
    /\ cm \in CMState
    /\ edits \in Nat
    /\ published \subseteq Content
    /\ sas \in [SAs -> Nat]
    /\ perms \subseteq PermRow
    /\ setting \in [Replicas -> SUBSET Values]
    /\ pc \in [Replicas -> Labels]
    /\ chan \in [Replicas -> Seq(Content)]
    /\ loc \in [Replicas -> Locals]
    /\ caller \in [Callers -> {"new", "create", "done"}]
    /\ faults \in Nat
    /\ admin \in Nat

-----------------------------------------------------------------------------
(* Reads. *)

\* GetSA: the row with the lowest id among those of an account, if any.
First(s) == IF sas[s] > 0 THEN {[sa |-> s, nth |-> 1]} ELSE {}

\* What authz.Check finds for a service account.
Effective(s) == {p.perm : p \in {x \in perms : x.owner \in First(s)}}

\* What syncSA makes of an entry: patterns are normalised, and those that are
\* invalid, or have an unknown verb, are skipped.
ListedEntries == UNION {{c.entries[k] : k \in DOMAIN c.entries} : c \in Contents}
ParsePermissions ==
    [e \in ListedEntries |->
       {[verb |-> p.verb, pat |-> CHOOSE n \in NormalizeResource(p.raw) : TRUE] :
          p \in {q \in e.permissions :
                   q.verb \in Verbs /\ \E n \in NormalizeResource(q.raw) : ValidateResourcePattern(n)}}]

\* Mutation: the slice is not reset between entries.
EntryPermsAll(todo) == UNION {ParsePermissions[todo[k]] : k \in DOMAIN todo}

\* The permissions of the entry at hand.
EntryPerms(todo) == ParsePermissions[Head(todo)]

IsBootstrapToken(r, t) == t # "" /\ t \in setting[r]

\* CORSMiddleware: whether a request from origin o gets the CORS headers.
AllowsOrigin(r, o) == setting[r] \cap {o, Star} # {}

Rows(owner, granted, by) == {[owner |-> owner, perm |-> g, by |-> by] : g \in granted}

\* Rows committed now survive the open transactions, which do not see them,
\* even where they equal rows that such a transaction has deleted.
Spare(rows) == [r \in Replicas |-> [loc[r] EXCEPT !.cleared = @ \ rows]]

Goto(r, label) == pc' = [pc EXCEPT ![r] = label]

Connected(r) == pc[r] = "recv" \/ (pc[r] \notin {"get", "watch"} /\ loc[r].back = "recv")

NoWork == [back |-> "watch", todo |-> <<>>, sa |-> None, cleared |-> {}]

Init ==
    /\ feed \in Feeds
    /\ cm \in CMStates
    /\ edits = 0
    /\ published = {cm.content}
    /\ sas = [s \in SAs |-> 0] /\ perms = {}
    /\ setting = [r \in Replicas |-> {}]
    /\ pc = [r \in Replicas |-> "get"]
    /\ chan = [r \in Replicas |-> <<>>]
    /\ loc = [r \in Replicas |-> NoWork]
    /\ caller = [c \in Callers |-> "new"]
    /\ faults = 0 /\ admin = 0

-----------------------------------------------------------------------------
(* The cluster. *)

\* Every open watch gets the event; a DELETED event carries the last object.
Publish(content) ==
    chan' = [r \in Replicas |-> IF Connected(r) THEN Append(chan[r], content) ELSE chan[r]]

EditConfigMap ==
    /\ edits < MaxEdits
    /\ edits' = edits + 1
    /\ \E c \in Contents :
         /\ cm' = [there |-> TRUE, content |-> c]
         /\ published' = published \cup {c}
         /\ Publish(c)
    /\ UNCHANGED <<feed, database, setting, pc, loc, caller, faults, admin>>

DeleteConfigMap ==
    /\ edits < MaxEdits /\ cm.there
    /\ edits' = edits + 1
    /\ cm' = [cm EXCEPT !.there = FALSE]
    /\ Publish(cm.content)
    /\ UNCHANGED <<feed, published, database, setting, pc, loc, caller, faults, admin>>

\* The API server ends a watch after a while; what it has not delivered is lost.
CloseWatch(r) ==
    /\ pc[r] = "recv"
    /\ chan' = [chan EXCEPT ![r] = <<>>]
    /\ Goto(r, "watch")
    /\ UNCHANGED <<cluster, database, setting, loc, caller, faults, admin>>

-----------------------------------------------------------------------------
(* The loop of a replica: watchLoop, watchAdminTokens, watchCORSOrigins. *)

\* Mutation: an empty value is taken for no change.
SettingOfNonEmpty(old, content) == IF content.form = "list" THEN content.values ELSE old

\* applyAdminTokens and applyCORSOrigins.
SettingOf(old, content) ==
    CASE content.form = "empty" -> {}
      [] content.form = "list"  -> content.values
      [] OTHER                  -> old

\* applySync keeps what it has when there is nothing it can read.
Apply(r, content, back) ==
    \/ /\ feed = "settings"
       /\ setting' = [setting EXCEPT ![r] = SettingOf(@, content)]
       /\ Goto(r, back)
       /\ UNCHANGED loc
    \/ /\ feed = "sa"
       /\ LET todo == IF content.form = "list" THEN content.entries ELSE <<>>
          IN /\ Goto(r, IF todo = <<>> THEN back ELSE "find")
             /\ loc' = [loc EXCEPT ![r].todo = todo, ![r].back = back]
       /\ UNCHANGED setting

InitialGet(r) ==
    /\ pc[r] = "get"
    /\ \/ cm.there /\ Apply(r, cm.content, "watch")
       \/ ~cm.there /\ Goto(r, "watch") /\ UNCHANGED <<loc, setting>>
    /\ UNCHANGED <<cluster, database, chan, caller, faults, admin>>

\* Mutation: the watch goes on from the last event it saw.
WatchResumes(r) ==
    /\ pc[r] = "watch"
    /\ chan' = [chan EXCEPT ![r] = <<>>]
    /\ Goto(r, "recv")
    /\ UNCHANGED <<cluster, database, setting, loc, caller, faults, admin>>

\* Without a resource version, a watch begins with the object as it is now.
Watch(r) ==
    /\ pc[r] = "watch"
    /\ chan' = [chan EXCEPT ![r] = IF cm.there THEN <<cm.content>> ELSE <<>>]
    /\ Goto(r, "recv")
    /\ UNCHANGED <<cluster, database, setting, loc, caller, faults, admin>>

\* Mutation: events that came in behind the first one are dropped.
ReceiveFirst(r) ==
    /\ pc[r] = "recv" /\ chan[r] # <<>>
    /\ Apply(r, Head(chan[r]), "recv")
    /\ chan' = [chan EXCEPT ![r] = <<>>]
    /\ UNCHANGED <<cluster, database, caller, faults, admin>>

\* An event of any type is applied, a deletion too.
Receive(r) ==
    /\ pc[r] = "recv" /\ chan[r] # <<>>
    /\ Apply(r, Head(chan[r]), "recv")
    /\ chan' = [chan EXCEPT ![r] = Tail(@)]
    /\ UNCHANGED <<cluster, database, caller, faults, admin>>

-----------------------------------------------------------------------------
(* syncSA, one entry after the other. *)

NextEntry(r, l) ==
    LET rest == Tail(l[r].todo)
    IN /\ Goto(r, IF rest = <<>> THEN l[r].back ELSE "find")
       /\ loc' = [l EXCEPT ![r].todo = rest, ![r].sa = None, ![r].cleared = {}]

GetSA(r) ==
    LET found == First(Head(loc[r].todo).sa)
    IN /\ pc[r] = "find"
       /\ \/ \E x \in found : loc' = [loc EXCEPT ![r].sa = x] /\ Goto(r, "clear")
          \/ found = {} /\ Goto(r, "create") /\ UNCHANGED loc
       /\ UNCHANGED <<cluster, database, setting, chan, caller, faults, admin>>

\* Mutation: the row that was not found is used instead of the new one.
CreateSAUnset(r) ==
    LET s == Head(loc[r].todo).sa
    IN /\ pc[r] = "create"
       /\ sas' = [sas EXCEPT ![s] = @ + 1]
       /\ Goto(r, "clear")
       /\ UNCHANGED <<cluster, perms, setting, chan, loc, caller, faults, admin>>

\* Nothing makes the row unique.
CreateSA(r) ==
    LET s == Head(loc[r].todo).sa
    IN /\ pc[r] = "create"
       /\ sas' = [sas EXCEPT ![s] = @ + 1]
       /\ loc' = [loc EXCEPT ![r].sa = [sa |-> s, nth |-> sas[s] + 1]]
       /\ Goto(r, "clear")
       /\ UNCHANGED <<cluster, perms, setting, chan, caller, faults, admin>>

\* Mutation: the rows are cleared outside the transaction.
ClearAtOnce(r) ==
    /\ pc[r] = "clear"
    /\ perms' = {p \in perms : p.owner # loc[r].sa}
    /\ Goto(r, "commit")
    /\ UNCHANGED <<cluster, sas, setting, chan, loc, caller, faults, admin>>

\* ReplaceSAPermissions opens its transaction and deletes the rows it sees;
\* rows that others commit from here on are not among them.
ClearPermissions(r) ==
    /\ pc[r] = "clear"
    /\ loc' = [loc EXCEPT ![r].cleared = {p \in perms : p.owner = loc[r].sa}]
    /\ Goto(r, "commit")
    /\ UNCHANGED <<cluster, database, setting, chan, caller, faults, admin>>

\* ReplaceSAPermissions creates the new rows and commits; the time stamp that
\* follows is not read by anything.
ReplacePermissions(r) ==
    LET rows == Rows(loc[r].sa, EntryPerms(loc[r].todo), "sync")
    IN /\ pc[r] = "commit"
       /\ perms' = (perms \ loc[r].cleared) \cup rows
       /\ NextEntry(r, Spare(rows))
       /\ UNCHANGED <<cluster, sas, setting, chan, caller, faults, admin>>

\* An entry that fails is logged, and the next one is synced.
EntryFails(r) ==
    /\ pc[r] \in {"find", "create", "clear", "commit"}
    /\ faults + admin < MaxTroubles
    /\ faults' = faults + 1
    /\ NextEntry(r, loc)
    /\ UNCHANGED <<cluster, database, setting, chan, caller, admin>>

GetFails(r) ==
    /\ pc[r] = "get"
    /\ faults + admin < MaxTroubles
    /\ faults' = faults + 1
    /\ Goto(r, "watch")
    /\ UNCHANGED <<cluster, database, setting, chan, loc, caller, admin>>

\* The process dies, its transaction with it, and a new one starts.
Crash(r) ==
    /\ pc[r] # "get"
    /\ faults + admin < MaxTroubles
    /\ faults' = faults + 1
    /\ Goto(r, "get")
    /\ chan' = [chan EXCEPT ![r] = <<>>]
    /\ loc' = [loc EXCEPT ![r] = NoWork]
    /\ setting' = [setting EXCEPT ![r] = {}]
    /\ UNCHANGED <<cluster, database, caller, admin>>

-----------------------------------------------------------------------------
(* Requests with a JWT, and administrators. *)

\* resolveSAJWT calls GetOrCreateSA: a lookup, and an insert if it found none.
CallerFind(c) ==
    /\ feed = "sa" /\ caller[c] = "new"
    /\ caller' = [caller EXCEPT ![c] = IF First(Presents[c]) = {} THEN "create" ELSE "done"]
    /\ UNCHANGED <<cluster, database, setting, pc, chan, loc, faults, admin>>

CallerCreate(c) ==
    /\ caller[c] = "create"
    /\ sas' = [sas EXCEPT ![Presents[c]] = @ + 1]
    /\ caller' = [caller EXCEPT ![c] = "done"]
    /\ UNCHANGED <<cluster, perms, setting, pc, chan, loc, faults, admin>>

\* GrantPermissions and RevokePermissions on a service account, one entry.
AdminGrant(s, g) ==
    /\ faults + admin < MaxTroubles
    /\ admin' = admin + 1
    /\ \E x \in First(s) :
         /\ perms' = perms \cup Rows(x, {g}, "admin")
         /\ loc' = Spare(Rows(x, {g}, "admin"))
    /\ UNCHANGED <<cluster, sas, setting, pc, chan, caller, faults>>

AdminRevoke(s, g) ==
    /\ faults + admin < MaxTroubles
    /\ admin' = admin + 1
    /\ \E x \in First(s) : perms' = {p \in perms : ~(p.owner = x /\ p.perm = g)}
    /\ UNCHANGED <<cluster, sas, setting, pc, chan, loc, caller, faults>>

LoopStep(r) ==
    \/ InitialGet(r) \/ Watch(r)
    \/ GetSA(r) \/ CreateSA(r) \/ ClearPermissions(r) \/ ReplacePermissions(r)

Next ==
    \/ EditConfigMap \/ DeleteConfigMap
    \/ \E r \in Replicas : LoopStep(r) \/ Receive(r) \/ CloseWatch(r)
                           \/ EntryFails(r) \/ GetFails(r) \/ Crash(r)
    \/ \E c \in Callers : CallerFind(c) \/ CallerCreate(c)
    \/ \E s \in SAs, g \in AdminPerms : AdminGrant(s, g) \/ AdminRevoke(s, g)

\* The loops run, the API server ends every watch at some time, and a watch
\* lives long enough, now and then, for an event to be received.
Fairness ==
    \A r \in Replicas : WF_vars(LoopStep(r)) /\ SF_vars(Receive(r)) /\ WF_vars(CloseWatch(r))

Spec == Init /\ [][Next]_vars
FairSpec == Spec /\ Fairness

-----------------------------------------------------------------------------
(* Properties. *)

Listed(content) == IF content.form = "list" THEN content.entries ELSE <<>>

\* What the ConfigMap says of the accounts it lists is what they have.
AsListed ==
    \A k \in DOMAIN Listed(cm.content) :
        Effective(Listed(cm.content)[k].sa) = ParsePermissions[Listed(cm.content)[k]]

\* Every loop waits for an event, and nothing but the loops has interfered.
Quiet ==
    /\ feed = "sa" /\ cm.there
    /\ \A r \in Replicas : pc[r] = "recv" /\ chan[r] = <<>>
    /\ faults = 0 /\ admin = 0

\* watchLoop and applySync: replicas that lag behind each other replace the
\* permissions of one account in overlapping transactions, and may leave the
\* union of two revisions; once all of them wait for the next event, exactly
\* the last revision is left.  (Where an account has one row: see below.)
QuietlySynced ==
    Quiet /\ (\A s \in SAs : sas[s] <= 1) => AsListed

\* StartSync: the loop "watches the ConfigMap and syncs SA permissions on
\* change", also when a request creates the account in the meantime.
SyncsOnChange == Quiet => AsListed

\* syncSA: a row that the sync wrote gives an account what some revision lists
\* for that very account, and never a wildcard or reserved namespace.
SyncedRowsAreListed ==
    \A p \in perms : p.by = "sync" =>
        /\ p.perm.pat.ns \notin {Star, Reserved}
        /\ \E c \in published : \E k \in DOMAIN Listed(c) :
             Listed(c)[k].sa = p.owner.sa /\ p.perm \in ParsePermissions[Listed(c)[k]]

\* Every revision so far lists g for s.
AlwaysListed(s, g) ==
    \A c \in published : \E k \in DOMAIN Listed(c) :
        Listed(c)[k].sa = s /\ g \in ParsePermissions[Listed(c)[k]]

\* ReplaceSAPermissions: a permission that every revision lists is never lost
\* for a moment while replicas replace the set again and again, crash half
\* way or create the account twice; only a revocation takes it away.
ListedPermissionIsKept ==
    [][\A s \in SAs : \A g \in Effective(s) :
          AlwaysListed(s, g)' /\ admin' = admin => g \in Effective(s)']_vars

\* The sync converges: once the ConfigMap, the administrators and the faults
\* are over, the accounts it lists have what it lists, for good, even if
\* entries failed or an account was created twice; the next watch repairs it.
SyncConverges == <>[](feed = "sa" /\ cm.there => AsListed)

\* The bootstrap tokens and origins of every replica become those of the
\* ConfigMap, whatever crashed or was missed, and stay so; an empty value
\* empties them.
SettingsConverge ==
    <>[](feed = "settings" /\ cm.there /\ cm.content.form # "bad" =>
           \A r \in Replicas, v \in Values :
              LET want == IF cm.content.form = "list" THEN cm.content.values ELSE {}
              IN /\ IsBootstrapToken(r, v) <=> v \in want \ {""}
                 /\ AllowsOrigin(r, v) <=> want \cap {v, Star} # {})
=============================================================================
