---------------------------- MODULE AuthzProofs ----------------------------
(***************************************************************************)
(* Invariants of Authz, proved for any requests, principals, permissions   *)
(* that were there before, bodies and bounds.                              *)
(***************************************************************************)
EXTENDS Authz, FiniteSetTheorems, SequenceTheorems, TLAPS

-----------------------------------------------------------------------------
(* Patterns. *)

\* A segment covered as if it were a text covers nothing more, unless a partial
\* glob covers it and it is a wildcard itself.
LEMMA SegmentCovers ==
    ASSUME NEW q, NEW p, NEW s, SegmentMatch(q, p), SegmentMatch(p, s)
    PROVE  SegmentMatch(q, s) \/ (q \in Globs /\ p \in Globs \cup {Star})
  BY PermAssumption DEF SegmentMatch

\* The same for patterns, which is what the check of a token's entries gives.
LEMMA MatchCovers ==
    ASSUME NEW q \in Pattern, NEW p \in Pattern, NEW res \in Pattern,
           matchesPattern(p, q), matchesPattern(res, p)
    PROVE  matchesPattern(res, q) \/ (HasGlob(q) /\ IsWild(p))
  <1>1. CASE q.ns = Star /\ q.name = Star
    BY <1>1 DEF matchesPattern
  <1>2. CASE /\ ~BadPattern(q) /\ SegmentMatch(q.ns, p.ns) /\ SegmentMatch(q.name, p.name)
    <2>1. SegmentMatch(p.ns, res.ns) /\ SegmentMatch(p.name, res.name)
      BY DEF matchesPattern, SegmentMatch
    <2>2. /\ SegmentMatch(q.ns, res.ns) \/ (q.ns \in Globs /\ p.ns \in Globs \cup {Star})
          /\ SegmentMatch(q.name, res.name) \/ (q.name \in Globs /\ p.name \in Globs \cup {Star})
      BY <1>2, <2>1, SegmentCovers
    <2>3. QED
      BY <1>2, <2>2 DEF matchesPattern, HasGlob, IsWild
  <1>3. QED
    BY <1>1, <1>2 DEF matchesPattern

\* What reaches the reserved namespace and is no partial glob is not valid.
LEMMA ReachesReserved ==
    ASSUME NEW p \in Pattern, NEW n, matchesPattern([ns |-> Reserved, name |-> n], p)
    PROVE  /\ SegmentMatch(p.ns, Reserved)
           /\ p.ns \in Globs \/ p.ns \in {Star, Reserved}
           /\ ValidateAddPattern(p) => p.ns \in Globs
  BY DEF ValidateAddPattern, matchesPattern, SegmentMatch

\* A pattern that covers a star or the reserved namespace reaches the reserved
\* namespace, or has a partial glob there.
LEMMA CoversReserved ==
    ASSUME NEW q \in Pattern, NEW p \in Pattern, p.ns \in {Star, Reserved}, matchesPattern(p, q)
    PROVE  q.ns \in Globs \/ SegmentMatch(q.ns, Reserved)
  BY DEF matchesPattern, SegmentMatch

\* Ten grants on names of the reserved namespace.
LEMMA BootstrapGrantsType == bootstrapGrants \in Seq(Entry) /\ Len(bootstrapGrants) = 10
  <1> DEFINE On(name, verbs) ==
               [k \in DOMAIN verbs |->
                  [verb |-> verbs[k], pat |-> [ns |-> Reserved, name |-> name], expires |-> FALSE]]
  <1>1. ASSUME NEW name \in MetaNames, NEW verbs \in Seq(Verbs)
        PROVE  On(name, verbs) \in Seq(Entry) /\ Len(On(name, verbs)) = Len(verbs)
    <2>1. /\ DOMAIN verbs = 1 .. Len(verbs) /\ Len(verbs) \in Nat
          /\ \A k \in 1 .. Len(verbs) : verbs[k] \in Verbs
      OBVIOUS
    <2>2. [ns |-> Reserved, name |-> name] \in Pattern
      BY DEF Pattern, Segments
    <2>3. \A k \in 1 .. Len(verbs) :
            [verb |-> verbs[k], pat |-> [ns |-> Reserved, name |-> name], expires |-> FALSE] \in Entry
      BY <2>1, <2>2 DEF Entry
    <2>4. On(name, verbs) \in [1 .. Len(verbs) -> Entry]
      BY <2>1, <2>3
    <2> HIDE DEF On
    <2>5. QED
      BY <2>1, <2>4
  <1>2. /\ <<"list", "read", "write", "delete">> \in Seq(Verbs)
        /\ Len(<<"list", "read", "write", "delete">>) = 4
        /\ <<"list", "read">> \in Seq(Verbs) /\ Len(<<"list", "read">>) = 2
    BY DEF Verbs
  <1> DEFINE users == On("users", <<"list", "read", "write", "delete">>)
             sa == On("sa", <<"list", "read">>)
             ns == On("ns", <<"list", "read", "write", "delete">>)
  <1>3. users \in Seq(Entry) /\ Len(users) = 4 /\ ns \in Seq(Entry) /\ Len(ns) = 4
        /\ sa \in Seq(Entry) /\ Len(sa) = 2
    BY <1>1, <1>2 DEF MetaNames
  <1>4. bootstrapGrants = users \o sa \o ns
    BY DEF bootstrapGrants
  <1> HIDE DEF users, sa, ns
  <1> DEFINE first == users \o sa
  <1>5. first \in Seq(Entry) /\ Len(first) = Len(users) + Len(sa)
    BY <1>3, ConcatProperties, Zenon
  <1>6. bootstrapGrants = first \o ns
    BY <1>4
  <1> HIDE DEF first
  <1>7. bootstrapGrants \in Seq(Entry) /\ Len(bootstrapGrants) = Len(first) + Len(ns)
    BY <1>3, <1>5, <1>6, ConcatProperties, Zenon
  <1>8. QED
    BY <1>3, <1>5, <1>7

-----------------------------------------------------------------------------
(* The tables of labels. *)

LEMMA MetaOpsAre ==
    MetaOps = {"create", "delete", "grant", "revoke", "anonAdd", "anonDel", "anonList",
               "query", "principals"}
  BY DEF MetaOps, MetaGoal

LEMMA HandlerLabelsAre ==
    /\ \A op \in {"create", "bootstrap"} : HandlerLabel[op] = "user.insert"
    /\ \A op \in {"grant", "revoke"} : HandlerLabel[op] = "grant.find"
    /\ \A op \in {"anonList", "anonInfo"} : HandlerLabel[op] = "anon.read"
    /\ \A op \in {"query", "principals"} : HandlerLabel[op] = "query.find"
    /\ HandlerLabel["delete"] = "del.find" /\ HandlerLabel["anonAdd"] = "anon.add"
    /\ HandlerLabel["anonDel"] = "anon.del" /\ HandlerLabel["anonToken"] = "token.list"
    /\ HandlerLabel["self"] = "query.perms"
  BY DEF HandlerLabel

Checks == {"check.find", "check.perms", "check.anon"}
Owns == {"own.find", "own.perms", "own.anon"}

LEMMA CheckLabelIsCheck == \A b : CheckLabel(b) \in Checks /\ OwnLabel(b) \in Owns
  BY DEF CheckLabel, OwnLabel, Checks, Owns
-----------------------------------------------------------------------------
(* Where a handler is, what that says of its request, and which of its entries *)
(* it has checked.                                                             *)

\* A permission that the request was allowed by covers entry k of its token.
Covered(w, k) ==
    \E q \in used[w] : /\ q.verb = body[w].entries[k].verb
                       /\ matchesPattern(body[w].entries[k].pat, q.pat)

\* The endpoints with a check, in the order Authz.Step names the labels.
CheckOps == MetaOps \cup {"use", "issueCap", "nslist", "nsquery"}

PlaceOK(w) ==
    LET op == body[w].op
        entries == body[w].entries
        i == loc[w].i
    IN /\ pc[w] = "new" => used[w] = {}
       /\ pc[w] # "new" => body[w] \in Bodies
       /\ pc[w] \in Checks => op \in CheckOps
       /\ pc[w] \in Checks /\ op = "nslist" => i \in 1 .. 5
       /\ pc[w] \in Checks /\ op = "issueCap" =>
            i \in 1 .. Len(entries) /\ \A k \in 1 .. Len(entries) : k < i => Covered(w, k)
       /\ pc[w] = "cap.insert" => op = "issueCap" /\ \A k \in 1 .. Len(entries) : Covered(w, k)
       /\ pc[w] \in Owns => op \in {"nslist", "nsquery"}
       /\ pc[w] = "grant.find" => op \in {"grant", "revoke"} /\ Valid(body[w]) /\ i = 1
       /\ pc[w] = "grant.link" => op = "grant" /\ Valid(body[w]) /\ i \in 1 .. Len(entries)
       /\ pc[w] \in {"revoke.read", "revoke.delete"} => op = "revoke" /\ i \in 1 .. Len(entries)
       /\ pc[w] = "anon.add" => op = "anonAdd" /\ Valid(body[w]) /\ i \in 1 .. Len(entries)
       /\ pc[w] = "anon.del" => op = "anonDel"
       /\ pc[w] = "anon.read" => op \in {"anonList", "anonInfo"}
       /\ pc[w] \in {"token.list", "token.insert"} => op = "anonToken"
       /\ pc[w] \in {"query.find", "query.perms"} => op \in {"query", "principals", "self"}
       /\ pc[w] = "user.insert" => op \in {"create", "bootstrap"} /\ i = 1
       /\ pc[w] = "user.link" => op = "bootstrap" /\ i \in 1 .. 10
       /\ pc[w] \in {"del.find", "del.exec"} => op = "delete"

PlaceInv == \A w \in Requests : PlaceOK(w)

\* Nothing of another request changes.
Others(w) ==
    \A v \in Requests : v # w =>
        /\ pc'[v] = pc[v] /\ body'[v] = body[v] /\ loc'[v] = loc[v]
        /\ status'[v] = status[v] /\ used'[v] = used[v] /\ before'[v] = before[v]

\* A handler moves on: its request stays what it is and its history only grows.
Advances(w) ==
    /\ Others(w)
    /\ pc[w] \notin {"new", "done"} /\ pc'[w] # "new"
    /\ body' = body /\ before' = before
    /\ used[w] \subseteq used'[w]

LEMMA TypeOfBody ==
    ASSUME TypeOK, NEW w \in Requests
    PROVE  /\ body[w] \in Body /\ body[w].op \in Ops /\ body[w].caller \in Who
           /\ body[w].target \in Who /\ body[w].entries \in Seq(Entry)
           /\ body[w].verb \in Verbs /\ body[w].res \in Pattern
           /\ Len(body[w].entries) \in Nat /\ DOMAIN body[w].entries = 1 .. Len(body[w].entries)
           /\ \A k \in 1 .. Len(body[w].entries) : body[w].entries[k] \in Entry
  <1>1. body[w] \in Body
    BY DEF TypeOK
  <1>2. body[w].entries \in Seq(Entry)
    BY <1>1 DEF Body
  <1>3. QED
    BY <1>1, <1>2 DEF Body

LEMMA TypeOfLoc ==
    ASSUME TypeOK, NEW w \in Requests
    PROVE  /\ loc[w] \in Locals
           /\ loc[w].uid \in Nat /\ loc[w].pid \in Nat /\ loc[w].i \in Nat
           /\ loc[w].rows \subseteq Perm /\ loc[w].meta \subseteq Verbs /\ loc[w].all \in BOOLEAN
  BY DEF TypeOK, Locals

-----------------------------------------------------------------------------
(* What the assignments to a handler's variables do. *)

LEMMA GotoFacts ==
    ASSUME TypeOK, NEW w \in Requests, NEW label \in Labels, Goto(w, label)
    PROVE  /\ pc' \in [Requests -> Labels] /\ pc'[w] = label
           /\ \A v \in Requests : v # w => pc'[v] = pc[v]
  BY DEF TypeOK, Goto

LEMMA RespondFacts ==
    ASSUME TypeOK, NEW w \in Requests, NEW s \in Statuses, Respond(w, s)
    PROVE  /\ pc' \in [Requests -> Labels] /\ pc'[w] = "done"
           /\ status' \in [Requests -> Statuses] /\ status'[w] = s
           /\ \A v \in Requests : v # w => pc'[v] = pc[v] /\ status'[v] = status[v]
  BY DEF TypeOK, Respond, Goto, Labels

LEMMA UsesFacts ==
    ASSUME TypeOK, NEW w \in Requests, NEW rows \in SUBSET Perm, Uses(w, rows)
    PROVE  /\ used' \in [Requests -> SUBSET Perm] /\ used'[w] = used[w] \cup rows
           /\ \A v \in Requests : v # w => used'[v] = used[v]
  BY DEF TypeOK, Uses

LEMMA SetPidFacts ==
    ASSUME TypeOK, NEW w \in Requests, NEW id \in Nat, loc' = [loc EXCEPT ![w].pid = id]
    PROVE  /\ loc' \in [Requests -> Locals]
           /\ loc'[w] = [loc[w] EXCEPT !.pid = id]
           /\ loc'[w].pid = id /\ loc'[w].uid = loc[w].uid /\ loc'[w].i = loc[w].i
           /\ loc'[w].rows = loc[w].rows
           /\ \A v \in Requests : v # w => loc'[v] = loc[v]
  BY DEF TypeOK, Locals

LEMMA SetRowsFacts ==
    ASSUME TypeOK, NEW w \in Requests, NEW rows \in SUBSET Perm, loc' = [loc EXCEPT ![w].rows = rows]
    PROVE  /\ loc' \in [Requests -> Locals]
           /\ loc'[w].pid = loc[w].pid /\ loc'[w].uid = loc[w].uid /\ loc'[w].i = loc[w].i
           /\ loc'[w].rows = rows
           /\ \A v \in Requests : v # w => loc'[v] = loc[v]
  BY DEF TypeOK, Locals

LEMMA SetIFacts ==
    ASSUME TypeOK, NEW w \in Requests, NEW k \in Nat, loc' = [loc EXCEPT ![w].i = k]
    PROVE  /\ loc' \in [Requests -> Locals]
           /\ loc'[w].pid = loc[w].pid /\ loc'[w].uid = loc[w].uid /\ loc'[w].i = k
           /\ loc'[w].rows = loc[w].rows
           /\ \A v \in Requests : v # w => loc'[v] = loc[v]
  BY DEF TypeOK, Locals

LEMMA NextEntryFacts ==
    ASSUME TypeOK, NEW w \in Requests, NEW entries, NEW label \in Labels, Len(entries) \in Nat,
           loc[w].i \in 1 .. Len(entries), NextEntry(w, entries, label)
    PROVE  /\ pc' \in [Requests -> Labels] /\ status' \in [Requests -> Statuses]
           /\ loc' \in [Requests -> Locals]
           /\ \/ pc'[w] = "done" /\ status'[w] = "ok" /\ loc' = loc /\ loc[w].i = Len(entries)
              \/ /\ pc'[w] = label /\ status' = status
                 /\ loc'[w].i = loc[w].i + 1 /\ loc'[w].i \in 1 .. Len(entries)
           /\ loc'[w].pid = loc[w].pid /\ loc'[w].uid = loc[w].uid /\ loc'[w].rows = loc[w].rows
           /\ \A v \in Requests : v # w => pc'[v] = pc[v] /\ status'[v] = status[v] /\ loc'[v] = loc[v]
  <1>1. /\ loc[w].i \in Nat /\ loc \in [Requests -> Locals] /\ status \in [Requests -> Statuses]
        /\ "ok" \in Statuses
    BY DEF TypeOK, Locals, Statuses
  <1>2. CASE IsLast(w, entries)
    <2>1. Respond(w, "ok") /\ loc' = loc
      BY <1>2 DEF NextEntry
    <2>2. loc[w].i = Len(entries)
      BY <1>1, <1>2 DEF IsLast
    <2>3. QED
      BY <1>1, <2>1, <2>2, RespondFacts
  <1>3. CASE ~IsLast(w, entries)
    <2>1. Goto(w, label) /\ loc' = [loc EXCEPT ![w].i = loc[w].i + 1] /\ status' = status
      BY <1>3 DEF NextEntry
    <2>2. loc[w].i + 1 \in 1 .. Len(entries) /\ loc[w].i + 1 \in Nat
      BY <1>1, <1>3 DEF IsLast
    <2>3. /\ loc' \in [Requests -> Locals] /\ loc'[w].i = loc[w].i + 1
          /\ loc'[w].pid = loc[w].pid /\ loc'[w].uid = loc[w].uid /\ loc'[w].rows = loc[w].rows
          /\ \A v \in Requests : v # w => loc'[v] = loc[v]
      BY <2>1, <2>2, SetIFacts
    <2>4. QED
      BY <1>1, <2>1, <2>2, <2>3, GotoFacts
  <1>4. QED
    BY <1>2, <1>3

\* The rows that the queries return.
LEMMA OwnedType ==
    ASSUME TypeOK, NEW w \in Requests
    PROVE  /\ \A id : OwnedBy(id) \subseteq Perm
           /\ OwnRows(w) \subseteq Perm /\ ListAnon \subseteq Perm
           /\ Listable(anon) \subseteq Perm /\ Listable(OwnRows(w)) \subseteq Perm
           /\ \A rows : Unexpired(rows) \subseteq rows /\ Listable(rows) \subseteq rows
           /\ \A rows : Granting(w, rows) \subseteq rows
  <1>1. \A rows : Unexpired(rows) \subseteq rows /\ Listable(rows) \subseteq rows
    BY DEF Unexpired, Listable
  <1>2. \A rows : Granting(w, rows) \subseteq rows
    BY <1>1 DEF Granting
  <1>3. \A id : OwnedBy(id) \subseteq Perm
    BY DEF OwnedBy, TypeOK, Link
  <1>4. OwnRows(w) \subseteq Perm
    BY <1>3 DEF OwnRows, TypeOK, Cap
  <1>5. anon \subseteq Perm
    BY DEF TypeOK
  <1>6. QED
    BY <1>1, <1>2, <1>3, <1>4, <1>5 DEF ListAnon
-----------------------------------------------------------------------------
(* The checks. *)

\* What the check at hand asks for.
LEMMA GoalFacts ==
    ASSUME TypeOK, NEW w \in Requests, PlaceOK(w), pc[w] \in Checks
    PROVE  /\ body[w].op = "nslist" => Goal(w).verb \in Verbs
           /\ body[w].op = "use" => Goal(w).verb = body[w].verb /\ Goal(w).res = body[w].res
           /\ body[w].op = "issueCap" => /\ Goal(w).verb = body[w].entries[loc[w].i].verb
                                         /\ Goal(w).res = body[w].entries[loc[w].i].pat
  <1>1. CASE body[w].op = "nslist"
    <2>1. Goal(w).verb = MetaVerbs[loc[w].i]
      BY <1>1, MetaOpsAre DEF Goal
    <2>2. loc[w].i \in 1 .. 5
      BY <1>1 DEF PlaceOK
    <2>3. \A i \in 1 .. 5 : MetaVerbs[i] \in Verbs
      BY DEF MetaVerbs, Verbs
    <2>4. QED
      BY <1>1, <2>1, <2>2, <2>3
  <1>2. CASE body[w].op = "use"
    BY <1>2, MetaOpsAre DEF Goal
  <1>3. CASE body[w].op = "issueCap"
    BY <1>3, MetaOpsAre DEF Goal
  <1>4. QED
    BY <1>1, <1>2, <1>3

\* Where a verdict leads.
AfterOK(w, verdict, n) ==
    LET op == body[w].op
        i == loc[w].i
    IN /\ n.pc \in Labels /\ n.pc # "new" /\ n.i \in Nat /\ n.status \in Statuses
       /\ op \in MetaOps =>
            \/ n.pc = "done" /\ n.status \in {"forbidden", "badRequest"}
            \/ /\ verdict = "yes" /\ Valid(body[w])
               /\ n.pc = HandlerLabel[op] /\ n.i = 1 /\ n.status = "none"
       /\ op = "issueCap" =>
            \/ n.pc = "done" /\ n.status = "unauthorized"
            \/ /\ verdict = "yes" /\ i < Len(body[w].entries)
               /\ n.pc \in Checks /\ n.i = i + 1 /\ n.status = "none"
            \/ verdict = "yes" /\ i >= Len(body[w].entries) /\ n.pc = "cap.insert" /\ n.status = "none"
       /\ op = "nslist" =>
            \/ n.pc \in Owns /\ n.status = "none"
            \/ i < 5 /\ n.pc \in Checks /\ n.i = i + 1 /\ n.status = "none"
            \/ n.pc = "done" /\ n.status = "ok"
       /\ op = "nsquery" =>
            \/ n.pc \in Owns /\ n.status = "none"
            \/ n.pc \in Checks /\ n.status = "none"
            \/ n.pc = "done" /\ n.status \in {"forbidden", "error"}
       /\ op = "use" =>
            \/ verdict = "yes" /\ n.pc = "done" /\ n.status = "ok"
            \/ verdict # "yes" /\ n.pc = "done" /\ n.status \in {"forbidden", "error"}

LEMMA HandlerLabelType ==
    ASSUME NEW op \in MetaOps
    PROVE  HandlerLabel[op] \in Labels /\ HandlerLabel[op] # "new"
  BY MetaOpsAre, HandlerLabelsAre DEF Labels

LEMMA AfterCheckFacts ==
    ASSUME TypeOK, NEW w \in Requests, PlaceOK(w), pc[w] \in Checks, NEW verdict
    PROVE  AfterOK(w, verdict, AfterCheck(w, verdict))
  <1> DEFINE n == AfterCheck(w, verdict)
  <1> SUFFICES AfterOK(w, verdict, n)
    OBVIOUS
  <1>1. /\ loc[w].i \in Nat /\ Len(body[w].entries) \in Nat /\ body[w].op \in CheckOps
        /\ CheckLabel(body[w]) \in Checks /\ OwnLabel(body[w]) \in Owns
        /\ Checks \cup Owns \cup {"done", "cap.insert"} \subseteq Labels \ {"new"}
        /\ {"none", "ok", "badRequest", "unauthorized", "forbidden", "error"} \subseteq Statuses
    BY TypeOfLoc, TypeOfBody, CheckLabelIsCheck DEF PlaceOK, Checks, Owns, Labels, Statuses
  <1>2. CASE body[w].op \in MetaOps
    <2>1. n = IF verdict # "yes" THEN [pc |-> "done", i |-> loc[w].i, status |-> "forbidden"]
              ELSE IF ~Valid(body[w]) THEN [pc |-> "done", i |-> loc[w].i, status |-> "badRequest"]
              ELSE [pc |-> HandlerLabel[body[w].op], i |-> 1, status |-> "none"]
      BY <1>2, MetaOpsAre DEF AfterCheck
    <2>2. body[w].op \notin {"issueCap", "nslist", "nsquery", "use"}
      BY <1>2, MetaOpsAre
    <2> HIDE DEF n
    <2>3. QED
      BY <1>1, <1>2, <2>1, <2>2, HandlerLabelType DEF AfterOK
  <1>3. CASE body[w].op = "issueCap"
    <2>1. n = IF verdict # "yes" THEN [pc |-> "done", i |-> loc[w].i, status |-> "unauthorized"]
              ELSE IF loc[w].i < Len(body[w].entries)
              THEN [pc |-> CheckLabel(body[w]), i |-> loc[w].i + 1, status |-> "none"]
              ELSE [pc |-> "cap.insert", i |-> 1, status |-> "none"]
      BY <1>3, MetaOpsAre DEF AfterCheck, MoreEntries
    <2> HIDE DEF n
    <2>2. QED
      BY <1>1, <1>3, <2>1, MetaOpsAre DEF AfterOK
  <1>4. CASE body[w].op = "nslist"
    <2>1. n = IF loc[w].i = 1 THEN [pc |-> OwnLabel(body[w]), i |-> 1, status |-> "none"]
              ELSE IF loc[w].i < 5 THEN [pc |-> CheckLabel(body[w]), i |-> loc[w].i + 1, status |-> "none"]
              ELSE [pc |-> "done", i |-> loc[w].i, status |-> "ok"]
      BY <1>4, MetaOpsAre DEF AfterCheck
    <2> HIDE DEF n
    <2>2. QED
      BY <1>1, <1>4, <2>1, MetaOpsAre DEF AfterOK
  <1>5. CASE body[w].op = "nsquery"
    <2>1. \/ n = [pc |-> OwnLabel(body[w]), i |-> loc[w].i, status |-> "none"]
          \/ n = [pc |-> CheckLabel(body[w]), i |-> 2, status |-> "none"]
          \/ n = [pc |-> "done", i |-> loc[w].i, status |-> "forbidden"]
          \/ n = [pc |-> "done", i |-> loc[w].i, status |-> "error"]
      BY <1>5, MetaOpsAre DEF AfterCheck
    <2> HIDE DEF n
    <2>2. QED
      BY <1>1, <1>5, <2>1, MetaOpsAre DEF AfterOK
  <1>6. CASE body[w].op = "use"
    <2>1. \/ verdict = "yes" /\ n = [pc |-> "done", i |-> loc[w].i, status |-> "ok"]
          \/ verdict # "yes" /\ n = [pc |-> "done", i |-> loc[w].i, status |-> "forbidden"]
          \/ verdict # "yes" /\ n = [pc |-> "done", i |-> loc[w].i, status |-> "error"]
      BY <1>6, MetaOpsAre DEF AfterCheck
    <2> HIDE DEF n
    <2>2. QED
      BY <1>1, <1>6, <2>1, MetaOpsAre DEF AfterOK
  <1>7. QED
    BY <1>1, <1>2, <1>3, <1>4, <1>5, <1>6 DEF CheckOps

LEMMA NamespaceListType ==
    ASSUME TypeOK, NEW w \in Requests, NEW meta \in SUBSET Verbs
    PROVE  NamespaceList(w, meta) \in SUBSET Shown
  <1>1. \A p \in loc[w].rows : p.pat.ns \in Segments /\ p.verb \in Verbs
    BY TypeOfLoc DEF Perm, Pattern
  <1>2. Star \in Segments /\ NamespaceTable \subseteq Segments
    BY AuthzAssumption DEF Segments
  <1>3. \A ns \in Segments, v \in Verbs : [verb |-> v, pat |-> [ns |-> ns, name |-> Star]] \in Shown
    BY <1>2 DEF Shown, Pattern
  <1>4. QED
    BY <1>1, <1>2, <1>3 DEF NamespaceList

\* A check that ends.
LEMMA DecideFacts ==
    ASSUME TypeOK, NEW w \in Requests, PlaceOK(w), pc[w] \in Checks,
           NEW verdict, NEW rows \in SUBSET Perm, Decide(w, verdict, rows)
    PROVE  /\ pc' \in [Requests -> Labels] /\ status' \in [Requests -> Statuses]
           /\ loc' \in [Requests -> Locals] /\ answer' \in [Requests -> SUBSET Shown]
           /\ used' \in [Requests -> SUBSET Perm]
           /\ pc'[w] = AfterCheck(w, verdict).pc /\ status'[w] = AfterCheck(w, verdict).status
           /\ loc'[w].i = AfterCheck(w, verdict).i /\ loc'[w].rows = loc[w].rows
           /\ loc'[w].pid = loc[w].pid /\ loc'[w].uid = loc[w].uid
           /\ used'[w] = used[w] \cup rows
           /\ UNCHANGED <<tables, body, before>>
           /\ Advances(w)
  <1> DEFINE n == AfterCheck(w, verdict)
             nslist == body[w].op = "nslist"
             meta == IF nslist /\ loc[w].i > 1 /\ verdict = "yes"
                     THEN loc[w].meta \cup {Goal(w).verb} ELSE loc[w].meta
             all == loc[w].all \/ (nslist /\ loc[w].i = 1 /\ verdict = "yes")
             ans == IF nslist /\ n.pc = "done" THEN NamespaceList(w, meta) ELSE answer[w]
  <1>1. /\ pc' = [pc EXCEPT ![w] = n.pc]
        /\ status' = [status EXCEPT ![w] = n.status]
        /\ loc' = [loc EXCEPT ![w].i = n.i, ![w].meta = meta, ![w].all = all]
        /\ answer' = [answer EXCEPT ![w] = ans]
        /\ Uses(w, rows)
        /\ UNCHANGED <<tables, body, before>>
    BY DEF Decide
  <1>2. n.pc \in Labels /\ n.pc # "new" /\ n.i \in Nat /\ n.status \in Statuses
    BY AfterCheckFacts DEF AfterOK
  <1>3. meta \in SUBSET Verbs /\ all \in BOOLEAN
    BY TypeOfLoc, GoalFacts
  <1>4. ans \in SUBSET Shown
    BY <1>3, NamespaceListType DEF TypeOK
  <1> HIDE DEF n, nslist, meta, all, ans
  <1>5. /\ pc' \in [Requests -> Labels] /\ pc'[w] = n.pc
        /\ \A v \in Requests : v # w => pc'[v] = pc[v]
    BY <1>1, <1>2 DEF TypeOK
  <1>6. /\ status' \in [Requests -> Statuses] /\ status'[w] = n.status
        /\ \A v \in Requests : v # w => status'[v] = status[v]
    BY <1>1, <1>2 DEF TypeOK
  <1>7. /\ loc' \in [Requests -> Locals] /\ loc'[w].i = n.i /\ loc'[w].rows = loc[w].rows
        /\ loc'[w].pid = loc[w].pid /\ loc'[w].uid = loc[w].uid
        /\ \A v \in Requests : v # w => loc'[v] = loc[v]
    <2> DEFINE r == [loc[w] EXCEPT !.i = n.i, !.meta = meta, !.all = all]
    <2>1. loc' = [loc EXCEPT ![w] = r]
      BY <1>1
    <2>2. r \in Locals /\ r.i = n.i /\ r.rows = loc[w].rows /\ r.pid = loc[w].pid /\ r.uid = loc[w].uid
      BY <1>2, <1>3, TypeOfLoc DEF Locals
    <2> HIDE DEF r
    <2>3. QED
      BY <2>1, <2>2 DEF TypeOK
  <1>8. answer' \in [Requests -> SUBSET Shown]
    BY <1>1, <1>4 DEF TypeOK
  <1>9. /\ used' \in [Requests -> SUBSET Perm] /\ used'[w] = used[w] \cup rows
        /\ \A v \in Requests : v # w => used'[v] = used[v]
    BY <1>1, UsesFacts
  <1>10. body' = body /\ before' = before
    BY <1>1
  <1>11. Advances(w)
    BY <1>2, <1>5, <1>6, <1>7, <1>9, <1>10 DEF Advances, Others, Checks
  <1>12. QED
    BY <1>1, <1>5, <1>6, <1>7, <1>8, <1>9, <1>11 DEF n
-----------------------------------------------------------------------------
(* Type correctness, one lemma per action, with what the action does to the  *)
(* handler that takes it.                                                    *)

\* The handler keeps its entry and the rows it has read.
KeepsPlace(w) == loc'[w].i = loc[w].i /\ loc'[w].rows = loc[w].rows /\ loc'[w].uid = loc[w].uid

LEMMA AdvancesFacts ==
    ASSUME TypeOK, NEW w \in Requests, pc[w] \notin {"new", "done"}, pc'[w] # "new",
           body' = body, before' = before, used[w] \subseteq used'[w],
           \A v \in Requests : v # w => pc'[v] = pc[v],
           \A v \in Requests : v # w => loc'[v] = loc[v],
           \A v \in Requests : v # w => status'[v] = status[v],
           \A v \in Requests : v # w => used'[v] = used[v]
    PROVE  Advances(w)
  BY DEF Advances, Others

\* A query that finds its row, and one that does not.
LEMMA FoundFacts ==
    ASSUME TypeOK, NEW w \in Requests, NEW u \in principals, NEW label \in Labels, label # "new",
           pc[w] \notin {"new", "done"},
           loc' = [loc EXCEPT ![w].pid = u.id], Goto(w, label), status' = status,
           UNCHANGED <<tables, faults, body, answer, history>>
    PROVE  /\ TypeOK' /\ Advances(w) /\ KeepsPlace(w) /\ used' = used
           /\ pc'[w] = label /\ loc'[w].pid = u.id
  <1>1. body' = body /\ before' = before /\ used' = used
    BY DEF history
  <1>2. u.id \in Nat
    BY DEF TypeOK, Principal
  <1>3. /\ loc' \in [Requests -> Locals] /\ KeepsPlace(w) /\ loc'[w].pid = u.id
        /\ \A v \in Requests : v # w => loc'[v] = loc[v]
    BY <1>2, SetPidFacts DEF KeepsPlace
  <1>4. /\ pc' \in [Requests -> Labels] /\ pc'[w] = label
        /\ \A v \in Requests : v # w => pc'[v] = pc[v]
    BY GotoFacts
  <1>5. TypeOK'
    BY <1>3, <1>4 DEF TypeOK, tables, history
  <1>6. Advances(w)
    BY <1>1, <1>3, <1>4, AdvancesFacts
  <1>7. QED
    BY <1>1, <1>3, <1>4, <1>5, <1>6

LEMMA EndFacts ==
    ASSUME TypeOK, NEW w \in Requests, NEW s \in Statuses, pc[w] \notin {"new", "done"},
           Respond(w, s), faults' \in Nat,
           UNCHANGED <<tables, body, loc, answer, history>>
    PROVE  /\ TypeOK' /\ Advances(w) /\ KeepsPlace(w) /\ used' = used
           /\ pc'[w] = "done" /\ status'[w] = s
  <1>1. body' = body /\ before' = before /\ used' = used /\ loc' = loc
    BY DEF history
  <1>2. /\ pc' \in [Requests -> Labels] /\ pc'[w] = "done"
        /\ status' \in [Requests -> Statuses] /\ status'[w] = s
        /\ \A v \in Requests : v # w => pc'[v] = pc[v] /\ status'[v] = status[v]
    BY RespondFacts
  <1>3. TypeOK'
    BY <1>2 DEF TypeOK, tables, history
  <1>4. Advances(w)
    BY <1>1, <1>2, AdvancesFacts
  <1>5. QED
    BY <1>1, <1>2, <1>3, <1>4 DEF KeepsPlace

\* A check that ends, whatever becomes of the count of faults.
LEMMA DecideType ==
    ASSUME TypeOK, NEW w \in Requests, PlaceOK(w), pc[w] \in Checks, faults' \in Nat,
           NEW verdict, NEW rows \in SUBSET Perm, Decide(w, verdict, rows)
    PROVE  TypeOK' /\ Advances(w)
  BY DecideFacts DEF TypeOK, tables

LEMMA CheckFindFacts ==
    ASSUME TypeOK, NEW w \in Requests, PlaceOK(w), CheckFind(w)
    PROVE  /\ TypeOK' /\ Advances(w) /\ pc[w] = "check.find"
           /\ \/ /\ pc'[w] = "check.perms" /\ KeepsPlace(w) /\ used' = used /\ status' = status
                 /\ UNCHANGED <<tables, faults, body, answer, history>>
                 /\ \E u \in principals : /\ IsFirst(u, KindOf(body[w].caller), body[w].caller.name)
                                          /\ loc'[w].pid = u.id
              \/ /\ Decide(w, "error", {})
                 /\ ~\E u \in principals : IsFirst(u, KindOf(body[w].caller), body[w].caller.name)
  <1> DEFINE kind == KindOf(body[w].caller)
             name == body[w].caller.name
  <1>1. pc[w] = "check.find" /\ pc[w] \in Checks /\ pc[w] \notin {"new", "done"} /\ faults' = faults
    BY DEF CheckFind, Checks
  <1>2. \/ \E u \in principals :
             /\ IsFirst(u, kind, name)
             /\ loc' = [loc EXCEPT ![w].pid = u.id]
             /\ Goto(w, "check.perms")
             /\ UNCHANGED <<tables, body, status, answer, history>>
        \/ /\ ~\E u \in principals : IsFirst(u, kind, name)
           /\ Decide(w, "error", {})
    BY DEF CheckFind
  <1>3. CASE \E u \in principals :
               /\ IsFirst(u, kind, name)
               /\ loc' = [loc EXCEPT ![w].pid = u.id]
               /\ Goto(w, "check.perms")
               /\ UNCHANGED <<tables, body, status, answer, history>>
    <2>1. PICK u \in principals : /\ IsFirst(u, kind, name)
                                  /\ loc' = [loc EXCEPT ![w].pid = u.id]
                                  /\ Goto(w, "check.perms")
                                  /\ UNCHANGED <<tables, body, status, answer, history>>
      BY <1>3
    <2>2. /\ "check.perms" \in Labels /\ status' = status
          /\ UNCHANGED <<tables, faults, body, answer, history>>
      BY <1>1, <2>1 DEF Labels
    <2>3. /\ TypeOK' /\ Advances(w) /\ KeepsPlace(w) /\ used' = used
          /\ pc'[w] = "check.perms" /\ loc'[w].pid = u.id
      BY <1>1, <2>1, <2>2, FoundFacts
    <2>4. QED
      BY <1>1, <2>1, <2>2, <2>3
  <1>4. CASE /\ ~\E u \in principals : IsFirst(u, kind, name)
             /\ Decide(w, "error", {})
    <2>1. faults' \in Nat
      BY <1>1 DEF TypeOK
    <2>2. QED
      BY <1>1, <1>4, <2>1, DecideType
  <1>5. QED
    BY <1>2, <1>3, <1>4

LEMMA CheckPermsFacts ==
    ASSUME TypeOK, NEW w \in Requests, PlaceOK(w), CheckPerms(w)
    PROVE  /\ TypeOK' /\ Advances(w) /\ pc[w] = "check.perms"
           /\ \/ /\ Granting(w, OwnRows(w)) # {}
                 /\ Decide(w, "yes", Granting(w, OwnRows(w)))
              \/ Decide(w, "error", {})
              \/ Granting(w, OwnRows(w)) = {} /\ ~WithAnon(w) /\ Decide(w, "no", {})
              \/ /\ Granting(w, OwnRows(w)) = {} /\ WithAnon(w)
                 /\ pc'[w] = "check.anon" /\ loc' = loc /\ used' = used /\ status' = status
                 /\ UNCHANGED <<tables, faults, body, answer, history>>
  <1> DEFINE rows == Granting(w, OwnRows(w))
  <1>1. /\ pc[w] = "check.perms" /\ pc[w] \in Checks /\ pc[w] \notin {"new", "done"}
        /\ faults' = faults /\ faults' \in Nat
    BY DEF CheckPerms, Checks, TypeOK
  <1>2. rows \in SUBSET Perm
    BY OwnedType
  <1>3. \/ rows # {} /\ Decide(w, "yes", rows)
        \/ Decide(w, "error", {})
        \/ rows = {} /\ ~WithAnon(w) /\ Decide(w, "no", {})
        \/ /\ rows = {} /\ WithAnon(w) /\ Goto(w, "check.anon")
           /\ UNCHANGED <<tables, body, loc, status, answer, history>>
    BY DEF CheckPerms
  <1> HIDE DEF rows
  <1>4. CASE rows # {} /\ Decide(w, "yes", rows)
    BY <1>1, <1>2, <1>4, DecideType DEF rows
  <1>5. CASE rows = {} /\ ~WithAnon(w) /\ Decide(w, "no", {})
    BY <1>1, <1>5, DecideType DEF rows
  <1>6. CASE /\ rows = {} /\ WithAnon(w) /\ Goto(w, "check.anon")
             /\ UNCHANGED <<tables, body, loc, status, answer, history>>
    <2>1. "check.anon" \in Labels
      BY DEF Labels
    <2>2. /\ pc' \in [Requests -> Labels] /\ pc'[w] = "check.anon"
          /\ \A v \in Requests : v # w => pc'[v] = pc[v]
      BY <1>6, <2>1, GotoFacts
    <2>3. TypeOK'
      BY <1>1, <1>6, <2>2 DEF TypeOK, tables, history
    <2>4. loc' = loc /\ used' = used /\ status' = status /\ body' = body /\ before' = before
      BY <1>6 DEF history
    <2>5. Advances(w)
      BY <1>1, <2>2, <2>4, AdvancesFacts
    <2>6. QED
      BY <1>1, <1>6, <2>2, <2>3, <2>4, <2>5 DEF rows
  <1>7. CASE Decide(w, "error", {})
    BY <1>1, <1>7, DecideType
  <1>8. QED
    BY <1>3, <1>4, <1>5, <1>6, <1>7

LEMMA checkAnonFacts ==
    ASSUME TypeOK, NEW w \in Requests, PlaceOK(w), checkAnon(w)
    PROVE  /\ TypeOK' /\ Advances(w) /\ pc[w] = "check.anon"
           /\ \/ Granting(w, ListAnon) # {} /\ Decide(w, "yes", Granting(w, ListAnon))
              \/ Decide(w, "error", {})
              \/ Granting(w, ListAnon) = {} /\ Decide(w, "no", {})
  <1> DEFINE rows == Granting(w, ListAnon)
  <1>1. pc[w] = "check.anon" /\ pc[w] \in Checks /\ faults' \in Nat
    BY DEF checkAnon, Checks, TypeOK
  <1>2. rows \in SUBSET Perm
    BY OwnedType
  <1>3. \/ rows # {} /\ Decide(w, "yes", rows)
        \/ Decide(w, "error", {})
        \/ rows = {} /\ Decide(w, "no", {})
    BY DEF checkAnon
  <1> HIDE DEF rows
  <1>4. QED
    BY <1>1, <1>2, <1>3, DecideType DEF rows

\* A lookup of the row that a name stands for.
Looks(w, kind, name, label, s) ==
    \/ \E u \in principals :
         /\ IsFirst(u, kind, name)
         /\ loc'[w].pid = u.id /\ pc'[w] = label /\ status' = status
    \/ /\ ~\E u \in principals : IsFirst(u, kind, name)
       /\ pc'[w] = "done" /\ status'[w] = s

LEMMA OwnFindFacts ==
    ASSUME TypeOK, NEW w \in Requests, OwnFind(w)
    PROVE  /\ TypeOK' /\ Advances(w) /\ KeepsPlace(w) /\ used' = used /\ pc[w] = "own.find"
           /\ Looks(w, KindOf(body[w].caller), body[w].caller.name, "own.perms", "error")
           /\ UNCHANGED <<tables, faults>>
  <1> DEFINE kind == KindOf(body[w].caller)
             name == body[w].caller.name
  <1>1. /\ pc[w] = "own.find" /\ pc[w] \notin {"new", "done"} /\ faults' \in Nat
        /\ UNCHANGED <<tables, faults, body, answer, history>>
        /\ "own.perms" \in Labels /\ "error" \in Statuses
    BY DEF OwnFind, Labels, Statuses, TypeOK
  <1>2. \/ \E u \in principals :
             /\ IsFirst(u, kind, name)
             /\ loc' = [loc EXCEPT ![w].pid = u.id] /\ Goto(w, "own.perms") /\ status' = status
        \/ /\ ~\E u \in principals : IsFirst(u, kind, name)
           /\ Respond(w, "error") /\ loc' = loc
    BY Zenon DEF OwnFind
  <1> HIDE DEF kind, name
  <1>3. ASSUME NEW u \in principals, IsFirst(u, kind, name),
               loc' = [loc EXCEPT ![w].pid = u.id], Goto(w, "own.perms"), status' = status
        PROVE  /\ TypeOK' /\ Advances(w) /\ KeepsPlace(w) /\ used' = used
               /\ Looks(w, kind, name, "own.perms", "error")
    BY <1>1, <1>3, FoundFacts DEF Looks
  <1>4. ASSUME ~\E u \in principals : IsFirst(u, kind, name), Respond(w, "error"), loc' = loc
        PROVE  /\ TypeOK' /\ Advances(w) /\ KeepsPlace(w) /\ used' = used
               /\ Looks(w, kind, name, "own.perms", "error")
    BY <1>1, <1>4, EndFacts DEF Looks
  <1>5. QED
    BY <1>1, <1>2, <1>3, <1>4 DEF kind, name

LEMMA GrantFindFacts ==
    ASSUME TypeOK, NEW w \in Requests, GrantFind(w)
    PROVE  /\ TypeOK' /\ Advances(w) /\ KeepsPlace(w) /\ used' = used /\ pc[w] = "grant.find"
           /\ Looks(w, body[w].target.kind, body[w].target.name,
                    IF body[w].op = "grant" THEN "grant.link" ELSE "revoke.read", "notFound")
           /\ UNCHANGED <<tables, faults>>
  <1> DEFINE kind == body[w].target.kind
             name == body[w].target.name
             label == IF body[w].op = "grant" THEN "grant.link" ELSE "revoke.read"
  <1>1. /\ pc[w] = "grant.find" /\ pc[w] \notin {"new", "done"} /\ faults' \in Nat
        /\ UNCHANGED <<tables, faults, body, answer, history>>
        /\ label \in Labels /\ label # "new" /\ "notFound" \in Statuses
    BY DEF GrantFind, Labels, Statuses, TypeOK
  <1>2. \/ \E u \in principals :
             /\ IsFirst(u, kind, name)
             /\ loc' = [loc EXCEPT ![w].pid = u.id] /\ Goto(w, label) /\ status' = status
        \/ /\ ~\E u \in principals : IsFirst(u, kind, name)
           /\ Respond(w, "notFound") /\ loc' = loc
    BY Zenon DEF GrantFind
  <1> HIDE DEF kind, name, label
  <1>3. ASSUME NEW u \in principals, IsFirst(u, kind, name),
               loc' = [loc EXCEPT ![w].pid = u.id], Goto(w, label), status' = status
        PROVE  /\ TypeOK' /\ Advances(w) /\ KeepsPlace(w) /\ used' = used
               /\ Looks(w, kind, name, label, "notFound")
    BY <1>1, <1>3, FoundFacts DEF Looks
  <1>4. ASSUME ~\E u \in principals : IsFirst(u, kind, name), Respond(w, "notFound"), loc' = loc
        PROVE  /\ TypeOK' /\ Advances(w) /\ KeepsPlace(w) /\ used' = used
               /\ Looks(w, kind, name, label, "notFound")
    BY <1>1, <1>4, EndFacts DEF Looks
  <1>5. QED
    BY <1>1, <1>2, <1>3, <1>4 DEF kind, name, label

LEMMA QueryFindFacts ==
    ASSUME TypeOK, NEW w \in Requests, QueryFind(w)
    PROVE  /\ TypeOK' /\ Advances(w) /\ KeepsPlace(w) /\ used' = used /\ pc[w] = "query.find"
           /\ Looks(w, body[w].target.kind, body[w].target.name, "query.perms", "notFound")
           /\ UNCHANGED <<tables, faults>>
  <1> DEFINE kind == body[w].target.kind
             name == body[w].target.name
  <1>1. /\ pc[w] = "query.find" /\ pc[w] \notin {"new", "done"} /\ faults' \in Nat
        /\ UNCHANGED <<tables, faults, body, answer, history>>
        /\ "query.perms" \in Labels /\ "notFound" \in Statuses
    BY DEF QueryFind, Labels, Statuses, TypeOK
  <1>2. \/ \E u \in principals :
             /\ IsFirst(u, kind, name)
             /\ loc' = [loc EXCEPT ![w].pid = u.id] /\ Goto(w, "query.perms") /\ status' = status
        \/ /\ ~\E u \in principals : IsFirst(u, kind, name)
           /\ Respond(w, "notFound") /\ loc' = loc
    BY Zenon DEF QueryFind
  <1> HIDE DEF kind, name
  <1>3. ASSUME NEW u \in principals, IsFirst(u, kind, name),
               loc' = [loc EXCEPT ![w].pid = u.id], Goto(w, "query.perms"), status' = status
        PROVE  /\ TypeOK' /\ Advances(w) /\ KeepsPlace(w) /\ used' = used
               /\ Looks(w, kind, name, "query.perms", "notFound")
    BY <1>1, <1>3, FoundFacts DEF Looks
  <1>4. ASSUME ~\E u \in principals : IsFirst(u, kind, name), Respond(w, "notFound"), loc' = loc
        PROVE  /\ TypeOK' /\ Advances(w) /\ KeepsPlace(w) /\ used' = used
               /\ Looks(w, kind, name, "query.perms", "notFound")
    BY <1>1, <1>4, EndFacts DEF Looks
  <1>5. QED
    BY <1>1, <1>2, <1>3, <1>4 DEF kind, name

LEMMA DeleteUserFindFacts ==
    ASSUME TypeOK, NEW w \in Requests, DeleteUserFind(w)
    PROVE  /\ TypeOK' /\ Advances(w) /\ KeepsPlace(w) /\ used' = used /\ pc[w] = "del.find"
           /\ Looks(w, "user", body[w].target.name, "del.exec", "error")
           /\ UNCHANGED <<tables, faults>>
  <1> DEFINE name == body[w].target.name
  <1>1. /\ pc[w] = "del.find" /\ pc[w] \notin {"new", "done"} /\ faults' \in Nat
        /\ UNCHANGED <<tables, faults, body, answer, history>>
        /\ "del.exec" \in Labels /\ "error" \in Statuses
    BY DEF DeleteUserFind, Labels, Statuses, TypeOK
  <1>2. \/ \E u \in principals :
             /\ IsFirst(u, "user", name)
             /\ loc' = [loc EXCEPT ![w].pid = u.id] /\ Goto(w, "del.exec") /\ status' = status
        \/ /\ ~\E u \in principals : IsFirst(u, "user", name)
           /\ Respond(w, "error") /\ loc' = loc
    BY Zenon DEF DeleteUserFind
  <1> HIDE DEF name
  <1>3. ASSUME NEW u \in principals, IsFirst(u, "user", name),
               loc' = [loc EXCEPT ![w].pid = u.id], Goto(w, "del.exec"), status' = status
        PROVE  /\ TypeOK' /\ Advances(w) /\ KeepsPlace(w) /\ used' = used
               /\ Looks(w, "user", name, "del.exec", "error")
    BY <1>1, <1>3, FoundFacts DEF Looks
  <1>4. ASSUME ~\E u \in principals : IsFirst(u, "user", name), Respond(w, "error"), loc' = loc
        PROVE  /\ TypeOK' /\ Advances(w) /\ KeepsPlace(w) /\ used' = used
               /\ Looks(w, "user", name, "del.exec", "error")
    BY <1>1, <1>4, EndFacts DEF Looks
  <1>5. QED
    BY <1>1, <1>2, <1>3, <1>4 DEF name

LEMMA OwnPermsFacts ==
    ASSUME TypeOK, NEW w \in Requests, OwnPerms(w)
    PROVE  /\ TypeOK' /\ Advances(w) /\ pc[w] = "own.perms" /\ pc'[w] = "own.anon"
           /\ loc'[w].rows = Listable(OwnRows(w)) /\ used'[w] = used[w] \cup Listable(OwnRows(w))
           /\ status' = status /\ UNCHANGED <<tables, faults>>
  <1> DEFINE rows == Listable(OwnRows(w))
  <1>1. /\ pc[w] = "own.perms" /\ loc' = [loc EXCEPT ![w].rows = rows] /\ Uses(w, rows)
        /\ Goto(w, "own.anon") /\ UNCHANGED <<tables, faults, body, status, answer, before>>
        /\ rows \in SUBSET Perm /\ "own.anon" \in Labels
    BY OwnedType DEF OwnPerms, Labels
  <1> HIDE DEF rows
  <1>2. /\ loc' \in [Requests -> Locals] /\ loc'[w].rows = rows
        /\ \A v \in Requests : v # w => loc'[v] = loc[v]
    BY <1>1, SetRowsFacts
  <1>3. /\ used' \in [Requests -> SUBSET Perm] /\ used'[w] = used[w] \cup rows
        /\ \A v \in Requests : v # w => used'[v] = used[v]
    BY <1>1, UsesFacts
  <1>4. /\ pc' \in [Requests -> Labels] /\ pc'[w] = "own.anon"
        /\ \A v \in Requests : v # w => pc'[v] = pc[v]
    BY <1>1, GotoFacts
  <1>5. TypeOK'
    BY <1>1, <1>2, <1>3, <1>4 DEF TypeOK, tables
  <1>6. Advances(w)
    BY <1>1, <1>2, <1>3, <1>4, AdvancesFacts
  <1>7. QED
    BY <1>1, <1>2, <1>3, <1>4, <1>5, <1>6 DEF rows

LEMMA OwnAnonFacts ==
    ASSUME TypeOK, NEW w \in Requests, OwnAnon(w)
    PROVE  /\ TypeOK' /\ Advances(w) /\ pc[w] = "own.anon"
           /\ loc'[w].rows = loc[w].rows \cup Listable(anon) /\ loc'[w].i = 2
           /\ used'[w] = used[w] \cup Listable(anon)
           /\ \/ body[w].op = "nslist" /\ pc'[w] \in Checks /\ status' = status
              \/ pc'[w] = "done" /\ status'[w] = "ok"
           /\ UNCHANGED <<tables, faults>>
  <1> DEFINE own == Listable(anon)
             rows == loc[w].rows \cup own
             ans == {[verb |-> p.verb, pat |-> [ns |-> p.pat.ns, name |-> Star]] :
                       p \in {x \in rows : body[w].op = "nslist" \/ x.pat.ns = body[w].res.ns}}
  <1>1. /\ pc[w] = "own.anon" /\ loc' = [loc EXCEPT ![w].rows = rows, ![w].i = 2] /\ Uses(w, own)
        /\ IF body[w].op = "nslist" /\ body[w].caller # Anon
           THEN Goto(w, CheckLabel(body[w])) /\ UNCHANGED <<status, answer>>
           ELSE Respond(w, "ok") /\ answer' = [answer EXCEPT ![w] = ans]
        /\ UNCHANGED <<tables, faults, body, before>>
    BY DEF OwnAnon
  <1>2. own \in SUBSET Perm /\ rows \in SUBSET Perm
    BY OwnedType, TypeOfLoc
  <1>3. ans \in SUBSET Shown
    <2>1. \A p \in rows : p.pat.ns \in Segments /\ p.verb \in Verbs
      BY <1>2 DEF Perm, Pattern
    <2>2. \A ns \in Segments, v \in Verbs : [verb |-> v, pat |-> [ns |-> ns, name |-> Star]] \in Shown
      BY DEF Shown, Pattern, Segments
    <2> HIDE DEF rows
    <2>3. QED
      BY <2>1, <2>2
  <1> HIDE DEF own, rows, ans
  <1>4. /\ loc' \in [Requests -> Locals] /\ loc'[w].rows = rows /\ loc'[w].i = 2
        /\ \A v \in Requests : v # w => loc'[v] = loc[v]
    <2> DEFINE r == [loc[w] EXCEPT !.rows = rows, !.i = 2]
    <2>1. loc' = [loc EXCEPT ![w] = r]
      BY <1>1
    <2>2. r \in Locals /\ r.rows = rows /\ r.i = 2
      BY <1>2, TypeOfLoc DEF Locals
    <2> HIDE DEF r
    <2>3. QED
      BY <2>1, <2>2 DEF TypeOK
  <1>5. /\ used' \in [Requests -> SUBSET Perm] /\ used'[w] = used[w] \cup own
        /\ \A v \in Requests : v # w => used'[v] = used[v]
    BY <1>1, <1>2, UsesFacts
  <1>6. CheckLabel(body[w]) \in Checks /\ Checks \subseteq Labels \ {"new"} /\ "ok" \in Statuses
    BY CheckLabelIsCheck DEF Checks, Labels, Statuses
  <1>7. CASE body[w].op = "nslist" /\ body[w].caller # Anon
    <2>1. Goto(w, CheckLabel(body[w])) /\ status' = status /\ answer' = answer
      BY <1>1, <1>7
    <2>2. /\ pc' \in [Requests -> Labels] /\ pc'[w] \in Checks /\ pc'[w] # "new"
          /\ \A v \in Requests : v # w => pc'[v] = pc[v]
      BY <1>6, <2>1, GotoFacts
    <2>3. TypeOK'
      BY <1>1, <1>4, <1>5, <2>1, <2>2 DEF TypeOK, tables
    <2>4. Advances(w)
      BY <1>1, <1>4, <1>5, <2>1, <2>2, AdvancesFacts
    <2>5. QED
      BY <1>1, <1>4, <1>5, <1>7, <2>1, <2>2, <2>3, <2>4 DEF own, rows
  <1>8. CASE ~(body[w].op = "nslist" /\ body[w].caller # Anon)
    <2>1. Respond(w, "ok") /\ answer' = [answer EXCEPT ![w] = ans]
      BY <1>1, <1>8
    <2>2. /\ pc' \in [Requests -> Labels] /\ pc'[w] = "done"
          /\ status' \in [Requests -> Statuses] /\ status'[w] = "ok"
          /\ \A v \in Requests : v # w => pc'[v] = pc[v] /\ status'[v] = status[v]
      BY <1>6, <2>1, RespondFacts
    <2>3. answer' \in [Requests -> SUBSET Shown]
      BY <1>3, <2>1 DEF TypeOK
    <2>4. TypeOK'
      BY <1>1, <1>4, <1>5, <2>2, <2>3 DEF TypeOK, tables
    <2>5. Advances(w)
      BY <1>1, <1>4, <1>5, <2>2, AdvancesFacts
    <2>6. QED
      BY <1>1, <1>4, <1>5, <2>2, <2>4, <2>5 DEF own, rows
  <1>9. QED
    BY <1>7, <1>8

LEMMA PermOfType ==
    ASSUME TypeOK, NEW w \in Requests, NEW who \in Who, NEW e \in Entry
    PROVE  PermOf(w, who, e) \in Perm
  BY TypeOfLoc DEF PermOf, Perm, Entry

\* One entry of a grant, or the refusal of the foreign key.
LEMMA AddPermissionFacts ==
    ASSUME TypeOK, NEW w \in Requests, NEW entries \in Seq(Entry), loc[w].i \in 1 .. Len(entries),
           NEW label \in Labels, label # "new", pc[w] \notin {"new", "done"},
           AddPermission(w, entries, label)
    PROVE  /\ TypeOK' /\ Advances(w) /\ used' = used
           /\ loc'[w].pid = loc[w].pid /\ loc'[w].rows = loc[w].rows
           /\ UNCHANGED <<principals, idSeq, anon, caps, expired, faults>>
           /\ \/ /\ \E u \in principals :
                      /\ u.id = loc[w].pid
                      /\ links' = links \cup
                           {[owner |-> u, perm |-> PermOf(w, body[w].target, entries[loc[w].i])]}
                 /\ \/ pc'[w] = "done" /\ status'[w] = "ok" /\ loc' = loc /\ loc[w].i = Len(entries)
                    \/ /\ pc'[w] = label /\ status' = status
                       /\ loc'[w].i = loc[w].i + 1 /\ loc'[w].i \in 1 .. Len(entries)
              \/ links' = links /\ loc' = loc /\ pc'[w] = "done" /\ status'[w] = "error"
  <1> DEFINE perm == PermOf(w, body[w].target, entries[loc[w].i])
  <1>1. /\ UNCHANGED <<principals, idSeq, anon, caps, expired, faults, body, answer, history>>
        /\ "error" \in Statuses /\ Len(entries) \in Nat /\ faults' \in Nat
    BY DEF AddPermission, Statuses, TypeOK
  <1>2. body' = body /\ used' = used /\ before' = before
    BY <1>1 DEF history
  <1>3. perm \in Perm
    BY TypeOfBody, PermOfType
  <1>4. \/ \E u \in principals :
             /\ u.id = loc[w].pid
             /\ links' = links \cup {[owner |-> u, perm |-> perm]}
             /\ NextEntry(w, entries, label)
        \/ /\ \A u \in principals : u.id # loc[w].pid
           /\ Respond(w, "error")
           /\ UNCHANGED <<links, loc>>
    BY DEF AddPermission
  <1> HIDE DEF perm
  <1>5. ASSUME NEW u \in principals, u.id = loc[w].pid,
               links' = links \cup {[owner |-> u, perm |-> perm]}, NextEntry(w, entries, label)
        PROVE  /\ TypeOK' /\ Advances(w)
               /\ loc'[w].pid = loc[w].pid /\ loc'[w].rows = loc[w].rows
               /\ \/ pc'[w] = "done" /\ status'[w] = "ok" /\ loc' = loc /\ loc[w].i = Len(entries)
                  \/ /\ pc'[w] = label /\ status' = status
                     /\ loc'[w].i = loc[w].i + 1 /\ loc'[w].i \in 1 .. Len(entries)
    <2>1. /\ pc' \in [Requests -> Labels] /\ status' \in [Requests -> Statuses]
          /\ loc' \in [Requests -> Locals]
          /\ \/ pc'[w] = "done" /\ status'[w] = "ok" /\ loc' = loc /\ loc[w].i = Len(entries)
             \/ /\ pc'[w] = label /\ status' = status
                /\ loc'[w].i = loc[w].i + 1 /\ loc'[w].i \in 1 .. Len(entries)
          /\ loc'[w].pid = loc[w].pid /\ loc'[w].uid = loc[w].uid /\ loc'[w].rows = loc[w].rows
          /\ \A v \in Requests : v # w => pc'[v] = pc[v] /\ status'[v] = status[v] /\ loc'[v] = loc[v]
      BY <1>1, <1>5, NextEntryFacts
    <2>2. links' \subseteq Link
      BY <1>3, <1>5 DEF TypeOK, Link
    <2>3. TypeOK'
      BY <1>1, <2>1, <2>2 DEF TypeOK, history
    <2>4. pc'[w] # "new"
      BY <2>1
    <2>5. Advances(w)
      BY <1>2, <2>1, <2>4, AdvancesFacts
    <2>6. QED
      BY <2>1, <2>3, <2>5
  <1>6. ASSUME Respond(w, "error"), UNCHANGED <<links, loc>>
        PROVE  TypeOK' /\ Advances(w) /\ pc'[w] = "done" /\ status'[w] = "error"
    <2>1. UNCHANGED <<tables, body, loc, answer, history>>
      BY <1>1, <1>6 DEF tables
    <2>2. QED
      BY <1>1, <1>6, <2>1, EndFacts
  <1>7. QED
    BY <1>1, <1>2, <1>4, <1>5, <1>6 DEF perm

\* The links that an entry of a revocation names.
Revoked(w) ==
    {p \in OwnedBy(loc[w].pid) :
       /\ p.verb = body[w].entries[loc[w].i].verb
       /\ matchesDeletePattern(p.pat, body[w].entries[loc[w].i].pat)}

\* A handler goes on with its next entry, or is done.
Continues(w, entries, label) ==
    \/ pc'[w] = "done" /\ status'[w] = "ok" /\ loc' = loc /\ loc[w].i = Len(entries)
    \/ pc'[w] = label /\ status' = status /\ loc'[w].i = loc[w].i + 1 /\ loc'[w].i \in 1 .. Len(entries)

LEMMA RevokeReadFacts ==
    ASSUME TypeOK, NEW w \in Requests, PlaceOK(w), RevokeRead(w)
    PROVE  /\ TypeOK' /\ Advances(w) /\ pc[w] = "revoke.read" /\ used' = used
           /\ loc'[w].pid = loc[w].pid
           /\ \/ /\ Revoked(w) # {} /\ pc'[w] = "revoke.delete" /\ status' = status
                 /\ loc'[w].rows = Revoked(w) /\ loc'[w].i = loc[w].i
              \/ /\ Revoked(w) = {} /\ loc'[w].rows = loc[w].rows
                 /\ Continues(w, body[w].entries, "revoke.read")
           /\ UNCHANGED <<tables, faults>>
  <1> DEFINE rows == Revoked(w)
  <1>1. /\ pc[w] = "revoke.read"
        /\ \/ /\ rows # {} /\ loc' = [loc EXCEPT ![w].rows = rows] /\ Goto(w, "revoke.delete")
              /\ status' = status
           \/ rows = {} /\ NextEntry(w, body[w].entries, "revoke.read")
        /\ UNCHANGED <<tables, faults, body, answer, history>>
    BY DEF RevokeRead, Revoked
  <1>2. /\ rows \in SUBSET Perm /\ {"revoke.read", "revoke.delete"} \subseteq Labels
        /\ body' = body /\ used' = used /\ before' = before
    BY <1>1, OwnedType DEF Revoked, Labels, history
  <1>3. Len(body[w].entries) \in Nat /\ loc[w].i \in 1 .. Len(body[w].entries)
    BY <1>1, TypeOfBody DEF PlaceOK
  <1> HIDE DEF rows
  <1>4. CASE /\ rows # {} /\ loc' = [loc EXCEPT ![w].rows = rows] /\ Goto(w, "revoke.delete")
             /\ status' = status
    <2>1. /\ loc' \in [Requests -> Locals] /\ loc'[w].pid = loc[w].pid /\ loc'[w].i = loc[w].i
          /\ loc'[w].rows = rows /\ \A v \in Requests : v # w => loc'[v] = loc[v]
      BY <1>2, <1>4, SetRowsFacts
    <2>2. /\ pc' \in [Requests -> Labels] /\ pc'[w] = "revoke.delete"
          /\ \A v \in Requests : v # w => pc'[v] = pc[v]
      BY <1>2, <1>4, GotoFacts
    <2>3. TypeOK'
      BY <1>1, <1>4, <2>1, <2>2 DEF TypeOK, tables, history
    <2>4. Advances(w)
      BY <1>1, <1>2, <1>4, <2>1, <2>2, AdvancesFacts
    <2>5. QED
      BY <1>1, <1>2, <1>4, <2>1, <2>2, <2>3, <2>4 DEF rows
  <1>5. CASE rows = {} /\ NextEntry(w, body[w].entries, "revoke.read")
    <2>1. /\ pc' \in [Requests -> Labels] /\ status' \in [Requests -> Statuses]
          /\ loc' \in [Requests -> Locals] /\ Continues(w, body[w].entries, "revoke.read")
          /\ loc'[w].pid = loc[w].pid /\ loc'[w].rows = loc[w].rows
          /\ \A v \in Requests : v # w => pc'[v] = pc[v] /\ status'[v] = status[v] /\ loc'[v] = loc[v]
      BY <1>2, <1>3, <1>5, NextEntryFacts DEF Continues
    <2>2. TypeOK'
      BY <1>1, <2>1 DEF TypeOK, tables, history
    <2>3. pc'[w] # "new"
      BY <2>1 DEF Continues
    <2>4. Advances(w)
      BY <1>1, <1>2, <2>1, <2>3, AdvancesFacts
    <2>5. QED
      BY <1>1, <1>2, <1>5, <2>1, <2>2, <2>4 DEF rows
  <1>6. QED
    BY <1>1, <1>4, <1>5

LEMMA RevokeDeleteFacts ==
    ASSUME TypeOK, NEW w \in Requests, PlaceOK(w), RevokeDelete(w)
    PROVE  /\ TypeOK' /\ Advances(w) /\ pc[w] = "revoke.delete" /\ used' = used
           /\ loc'[w].pid = loc[w].pid
           /\ \E p \in loc[w].rows :
                /\ links' = {l \in links : ~(l.owner.id = loc[w].pid /\ l.perm = p)}
                /\ \/ /\ pc' = pc /\ status' = status
                      /\ loc'[w].rows = loc[w].rows \ {p} /\ loc'[w].i = loc[w].i
                   \/ /\ loc[w].rows = {p} /\ loc'[w].rows = loc[w].rows
                      /\ Continues(w, body[w].entries, "revoke.read")
           /\ UNCHANGED <<principals, idSeq, anon, caps, expired, faults>>
  <1>1. PICK p \in loc[w].rows :
          /\ links' = {l \in links : ~(l.owner.id = loc[w].pid /\ l.perm = p)}
          /\ \/ /\ loc[w].rows # {p}
                /\ loc' = [loc EXCEPT ![w].rows = @ \ {p}]
                /\ UNCHANGED <<pc, status>>
             \/ loc[w].rows = {p} /\ NextEntry(w, body[w].entries, "revoke.read")
    BY DEF RevokeDelete
  <1>2. /\ pc[w] = "revoke.delete"
        /\ UNCHANGED <<principals, idSeq, anon, caps, expired, faults, body, answer, history>>
    BY DEF RevokeDelete
  <1>3. /\ body' = body /\ used' = used /\ before' = before /\ "revoke.read" \in Labels
        /\ links' \subseteq links
    BY <1>1, <1>2 DEF history, Labels
  <1>4. Len(body[w].entries) \in Nat /\ loc[w].i \in 1 .. Len(body[w].entries)
    BY <1>2, TypeOfBody DEF PlaceOK
  <1>5. CASE loc' = [loc EXCEPT ![w].rows = @ \ {p}] /\ UNCHANGED <<pc, status>>
    <2>1. loc[w].rows \ {p} \in SUBSET Perm /\ loc' = [loc EXCEPT ![w].rows = loc[w].rows \ {p}]
      BY <1>5, TypeOfLoc
    <2>2. /\ loc' \in [Requests -> Locals] /\ loc'[w].pid = loc[w].pid /\ loc'[w].i = loc[w].i
          /\ loc'[w].rows = loc[w].rows \ {p} /\ \A v \in Requests : v # w => loc'[v] = loc[v]
      BY <2>1, SetRowsFacts
    <2>3. TypeOK'
      BY <1>2, <1>3, <1>5, <2>2 DEF TypeOK, history
    <2>4. Advances(w)
      BY <1>2, <1>3, <1>5, <2>2, AdvancesFacts
    <2>5. QED
      BY <1>1, <1>2, <1>3, <1>5, <2>2, <2>3, <2>4
  <1>6. CASE loc[w].rows = {p} /\ NextEntry(w, body[w].entries, "revoke.read")
    <2>1. /\ pc' \in [Requests -> Labels] /\ status' \in [Requests -> Statuses]
          /\ loc' \in [Requests -> Locals] /\ Continues(w, body[w].entries, "revoke.read")
          /\ loc'[w].pid = loc[w].pid /\ loc'[w].rows = loc[w].rows
          /\ \A v \in Requests : v # w => pc'[v] = pc[v] /\ status'[v] = status[v] /\ loc'[v] = loc[v]
      BY <1>3, <1>4, <1>6, NextEntryFacts DEF Continues
    <2>2. TypeOK'
      BY <1>2, <1>3, <2>1 DEF TypeOK, history
    <2>3. pc'[w] # "new"
      BY <2>1 DEF Continues
    <2>4. Advances(w)
      BY <1>2, <1>3, <2>1, <2>3, AdvancesFacts
    <2>5. QED
      BY <1>1, <1>2, <1>3, <1>6, <2>1, <2>2, <2>4
  <1>7. QED
    BY <1>1, <1>5, <1>6

LEMMA AddAnonFacts ==
    ASSUME TypeOK, NEW w \in Requests, PlaceOK(w), AddAnonPermission(w)
    PROVE  /\ TypeOK' /\ Advances(w) /\ pc[w] = "anon.add" /\ used' = used
           /\ loc'[w].rows = loc[w].rows
           /\ anon' = anon \cup {PermOf(w, Anon, body[w].entries[loc[w].i])}
           /\ Continues(w, body[w].entries, "anon.add")
           /\ UNCHANGED <<principals, idSeq, links, caps, expired, faults>>
  <1> DEFINE perm == PermOf(w, Anon, body[w].entries[loc[w].i])
  <1>1. /\ pc[w] = "anon.add" /\ anon' = anon \cup {perm}
        /\ NextEntry(w, body[w].entries, "anon.add")
        /\ UNCHANGED <<principals, idSeq, links, caps, expired, faults, body, answer, history>>
    BY DEF AddAnonPermission
  <1>2. /\ body' = body /\ used' = used /\ before' = before /\ "anon.add" \in Labels
        /\ Anon \in Who
    BY <1>1 DEF history, Labels, Anon, Who
  <1>3. Len(body[w].entries) \in Nat /\ loc[w].i \in 1 .. Len(body[w].entries)
    BY <1>1, TypeOfBody DEF PlaceOK
  <1>4. perm \in Perm
    BY <1>2, <1>3, TypeOfBody, PermOfType
  <1> HIDE DEF perm
  <1>5. /\ pc' \in [Requests -> Labels] /\ status' \in [Requests -> Statuses]
        /\ loc' \in [Requests -> Locals] /\ Continues(w, body[w].entries, "anon.add")
        /\ loc'[w].pid = loc[w].pid /\ loc'[w].rows = loc[w].rows
        /\ \A v \in Requests : v # w => pc'[v] = pc[v] /\ status'[v] = status[v] /\ loc'[v] = loc[v]
    BY <1>1, <1>2, <1>3, NextEntryFacts DEF Continues
  <1>6. TypeOK'
    BY <1>1, <1>4, <1>5 DEF TypeOK, history
  <1>7. pc'[w] # "new"
    BY <1>5 DEF Continues
  <1>8. Advances(w)
    BY <1>1, <1>2, <1>5, <1>7, AdvancesFacts
  <1>9. QED
    BY <1>1, <1>2, <1>5, <1>6, <1>8 DEF perm

\* A handler that answers after a statement that changes tables.
LEMMA AnswerAdvances ==
    ASSUME TypeOK, NEW w \in Requests, pc[w] \notin {"new", "done"}, NEW s \in Statuses,
           Respond(w, s), body' = body, loc' = loc, history' = history
    PROVE  /\ Advances(w) /\ KeepsPlace(w) /\ used' = used /\ pc'[w] = "done" /\ status'[w] = s
           /\ pc' \in [Requests -> Labels] /\ status' \in [Requests -> Statuses]
  <1>1. /\ pc' \in [Requests -> Labels] /\ pc'[w] = "done"
        /\ status' \in [Requests -> Statuses] /\ status'[w] = s
        /\ \A v \in Requests : v # w => pc'[v] = pc[v] /\ status'[v] = status[v]
    BY RespondFacts
  <1>2. used' = used /\ before' = before
    BY DEF history
  <1>3. Advances(w)
    BY <1>1, <1>2, AdvancesFacts
  <1>4. QED
    BY <1>1, <1>2, <1>3 DEF KeepsPlace

LEMMA DeleteAnonFacts ==
    ASSUME TypeOK, NEW w \in Requests, DeleteAnonPermission(w)
    PROVE  /\ TypeOK' /\ Advances(w) /\ KeepsPlace(w) /\ used' = used /\ pc[w] = "anon.del"
           /\ pc'[w] = "done" /\ status'[w] = "ok"
           /\ anon' = {p \in anon : p.key # <<body[w].ref, 1>>}
           /\ UNCHANGED <<principals, idSeq, links, caps, expired, faults>>
  <1>1. /\ pc[w] = "anon.del" /\ anon' = {p \in anon : p.key # <<body[w].ref, 1>>} /\ Respond(w, "ok")
        /\ UNCHANGED <<principals, idSeq, links, caps, expired, faults, body, loc, answer, history>>
        /\ "ok" \in Statuses
    BY DEF DeleteAnonPermission, Statuses
  <1>2. /\ Advances(w) /\ KeepsPlace(w) /\ used' = used /\ pc'[w] = "done" /\ status'[w] = "ok"
        /\ pc' \in [Requests -> Labels] /\ status' \in [Requests -> Statuses]
    BY <1>1, AnswerAdvances
  <1>3. TypeOK'
    BY <1>1, <1>2 DEF TypeOK, history
  <1>4. QED
    BY <1>1, <1>2, <1>3

\* A handler that shows the permissions it read.
LEMMA ShowFacts ==
    ASSUME TypeOK, NEW w \in Requests, pc[w] \notin {"new", "done"}, NEW rows \in SUBSET Perm,
           answer' = [answer EXCEPT ![w] = {[verb |-> p.verb, pat |-> p.pat] : p \in rows}],
           Uses(w, rows), Respond(w, "ok"),
           UNCHANGED <<tables, faults, body, loc, before>>
    PROVE  /\ TypeOK' /\ Advances(w) /\ KeepsPlace(w) /\ pc'[w] = "done" /\ status'[w] = "ok"
           /\ used'[w] = used[w] \cup rows
  <1>1. {[verb |-> p.verb, pat |-> p.pat] : p \in rows} \in SUBSET Shown
    BY DEF Perm, Shown
  <1>2. answer' \in [Requests -> SUBSET Shown]
    BY <1>1 DEF TypeOK
  <1>3. /\ used' \in [Requests -> SUBSET Perm] /\ used'[w] = used[w] \cup rows
        /\ \A v \in Requests : v # w => used'[v] = used[v]
    BY UsesFacts
  <1>4. "ok" \in Statuses
    BY DEF Statuses
  <1>5. /\ pc' \in [Requests -> Labels] /\ pc'[w] = "done"
        /\ status' \in [Requests -> Statuses] /\ status'[w] = "ok"
        /\ \A v \in Requests : v # w => pc'[v] = pc[v] /\ status'[v] = status[v]
    BY <1>4, RespondFacts
  <1>6. TypeOK'
    BY <1>2, <1>3, <1>5 DEF TypeOK, tables
  <1>7. Advances(w)
    BY <1>3, <1>5, AdvancesFacts
  <1>8. QED
    BY <1>3, <1>5, <1>6, <1>7 DEF KeepsPlace

LEMMA ListAnonFacts ==
    ASSUME TypeOK, NEW w \in Requests, ListAnonPermissions(w)
    PROVE  /\ TypeOK' /\ Advances(w) /\ KeepsPlace(w) /\ pc[w] = "anon.read" /\ pc'[w] = "done"
           /\ status'[w] = "ok" /\ used'[w] = used[w] \cup ListAnon
           /\ UNCHANGED <<tables, faults>>
  <1>1. /\ pc[w] = "anon.read" /\ Uses(w, ListAnon) /\ Respond(w, "ok")
        /\ answer' = [answer EXCEPT ![w] = {[verb |-> p.verb, pat |-> p.pat] : p \in ListAnon}]
        /\ UNCHANGED <<tables, faults, body, loc, before>>
        /\ ListAnon \in SUBSET Perm
    BY OwnedType DEF ListAnonPermissions
  <1>2. QED
    BY <1>1, ShowFacts

LEMMA QueryPermsFacts ==
    ASSUME TypeOK, NEW w \in Requests, QueryPerms(w)
    PROVE  /\ TypeOK' /\ Advances(w) /\ KeepsPlace(w) /\ pc[w] = "query.perms" /\ pc'[w] = "done"
           /\ status'[w] = "ok" /\ used'[w] = used[w] \cup OwnedBy(loc[w].pid)
           /\ UNCHANGED <<tables, faults>>
  <1> DEFINE rows == OwnedBy(loc[w].pid)
  <1>1. /\ pc[w] = "query.perms" /\ Uses(w, rows) /\ Respond(w, "ok")
        /\ answer' = [answer EXCEPT ![w] = {[verb |-> p.verb, pat |-> p.pat] : p \in rows}]
        /\ UNCHANGED <<tables, faults, body, loc, before>>
        /\ rows \in SUBSET Perm
    BY OwnedType DEF QueryPerms
  <1> HIDE DEF rows
  <1>2. QED
    BY <1>1, ShowFacts DEF rows

LEMMA AnonTokenListFacts ==
    ASSUME TypeOK, NEW w \in Requests, AnonTokenList(w)
    PROVE  /\ TypeOK' /\ Advances(w) /\ pc[w] = "token.list"
           /\ loc'[w].rows = ListAnon /\ used'[w] = used[w] \cup ListAnon
           /\ \/ pc'[w] = "token.insert" /\ status' = status
              \/ pc'[w] = "done" /\ status'[w] = "unavailable"
           /\ UNCHANGED <<tables, faults>>
  <1>1. /\ pc[w] = "token.list" /\ loc' = [loc EXCEPT ![w].rows = ListAnon] /\ Uses(w, ListAnon)
        /\ \/ Goto(w, "token.insert") /\ status' = status
           \/ Respond(w, "unavailable")
        /\ UNCHANGED <<tables, faults, body, answer, before>>
        /\ ListAnon \in SUBSET Perm /\ "token.insert" \in Labels /\ "unavailable" \in Statuses
    BY OwnedType DEF AnonTokenList, Labels, Statuses
  <1>2. /\ loc' \in [Requests -> Locals] /\ loc'[w].rows = ListAnon
        /\ \A v \in Requests : v # w => loc'[v] = loc[v]
    BY <1>1, SetRowsFacts
  <1>3. /\ used' \in [Requests -> SUBSET Perm] /\ used'[w] = used[w] \cup ListAnon
        /\ \A v \in Requests : v # w => used'[v] = used[v]
    BY <1>1, UsesFacts
  <1>4. CASE Goto(w, "token.insert") /\ status' = status
    <2>1. /\ pc' \in [Requests -> Labels] /\ pc'[w] = "token.insert"
          /\ \A v \in Requests : v # w => pc'[v] = pc[v]
      BY <1>1, <1>4, GotoFacts
    <2>2. TypeOK'
      BY <1>1, <1>2, <1>3, <1>4, <2>1 DEF TypeOK, tables
    <2>3. Advances(w)
      BY <1>1, <1>2, <1>3, <1>4, <2>1, AdvancesFacts
    <2>4. QED
      BY <1>1, <1>2, <1>3, <1>4, <2>1, <2>2, <2>3
  <1>5. CASE Respond(w, "unavailable")
    <2>1. /\ pc' \in [Requests -> Labels] /\ pc'[w] = "done"
          /\ status' \in [Requests -> Statuses] /\ status'[w] = "unavailable"
          /\ \A v \in Requests : v # w => pc'[v] = pc[v] /\ status'[v] = status[v]
      BY <1>1, <1>5, RespondFacts
    <2>2. TypeOK'
      BY <1>1, <1>2, <1>3, <2>1 DEF TypeOK, tables
    <2>3. Advances(w)
      BY <1>1, <1>2, <1>3, <2>1, AdvancesFacts
    <2>4. QED
      BY <1>1, <1>2, <1>3, <2>1, <2>2, <2>3
  <1>6. QED
    BY <1>1, <1>4, <1>5

\* The copies of the anonymous permissions that a token gets.
Copies(w) == {[p EXCEPT !.src = w, !.to = TokenOf(w)] : p \in loc[w].rows}

LEMMA AnonTokenInsertFacts ==
    ASSUME TypeOK, NEW w \in Requests, AnonTokenInsert(w)
    PROVE  /\ TypeOK' /\ Advances(w) /\ KeepsPlace(w) /\ used' = used /\ pc[w] = "token.insert"
           /\ pc'[w] = "done" /\ status'[w] = "ok"
           /\ caps' = caps \cup {[id |-> w, issuer |-> 0, perms |-> Copies(w)]}
           /\ UNCHANGED <<principals, idSeq, links, anon, expired, faults>>
  <1>1. /\ pc[w] = "token.insert" /\ Respond(w, "ok")
        /\ caps' = caps \cup {[id |-> w, issuer |-> 0, perms |-> Copies(w)]}
        /\ UNCHANGED <<principals, idSeq, links, anon, expired, faults, body, loc, answer, history>>
        /\ "ok" \in Statuses
    BY DEF AnonTokenInsert, Copies, Statuses
  <1>2. Copies(w) \subseteq Perm
    <2>1. TokenOf(w) \in Who
      BY DEF TokenOf, Who
    <2>2. \A p \in loc[w].rows : p \in Perm
      BY TypeOfLoc
    <2>3. \A p \in Perm : [p EXCEPT !.src = w, !.to = TokenOf(w)] \in Perm
      BY <2>1 DEF Perm
    <2>4. QED
      BY <2>2, <2>3 DEF Copies
  <1>3. caps' \subseteq Cap
    BY <1>1, <1>2 DEF TypeOK, Cap
  <1>4. /\ Advances(w) /\ KeepsPlace(w) /\ used' = used /\ pc'[w] = "done" /\ status'[w] = "ok"
        /\ pc' \in [Requests -> Labels] /\ status' \in [Requests -> Statuses]
    BY <1>1, AnswerAdvances
  <1>5. TypeOK'
    BY <1>1, <1>3, <1>4 DEF TypeOK, history
  <1>6. QED
    BY <1>1, <1>4, <1>5

\* The permissions of a token that was asked for.
Asked(w) ==
    {[src |-> w, to |-> TokenOf(w), key |-> <<w, k>>, verb |-> body[w].entries[k].verb,
      pat |-> body[w].entries[k].pat, expires |-> body[w].entries[k].expires] :
        k \in DOMAIN body[w].entries}

LEMMA IssueCapInsertFacts ==
    ASSUME TypeOK, NEW w \in Requests, IssueCapInsert(w)
    PROVE  /\ TypeOK' /\ Advances(w) /\ KeepsPlace(w) /\ used' = used /\ pc[w] = "cap.insert"
           /\ pc'[w] = "done"
           /\ \/ caps' = caps \cup {[id |-> w, issuer |-> loc[w].uid, perms |-> Asked(w)]}
              \/ caps' = caps
           /\ UNCHANGED <<principals, idSeq, links, anon, expired, faults>>
  <1>1. /\ pc[w] = "cap.insert" /\ "ok" \in Statuses /\ "error" \in Statuses
        /\ \/ /\ caps' = caps \cup {[id |-> w, issuer |-> loc[w].uid, perms |-> Asked(w)]}
              /\ Respond(w, "ok")
           \/ caps' = caps /\ Respond(w, "error")
        /\ UNCHANGED <<principals, idSeq, links, anon, expired, faults, body, loc, answer, history>>
    BY DEF IssueCapInsert, Asked, Statuses
  <1>2. Asked(w) \subseteq Perm
    <2>1. TokenOf(w) \in Who
      BY DEF TokenOf, Who
    <2>2. ASSUME NEW k \in DOMAIN body[w].entries
          PROVE  [src |-> w, to |-> TokenOf(w), key |-> <<w, k>>, verb |-> body[w].entries[k].verb,
                  pat |-> body[w].entries[k].pat, expires |-> body[w].entries[k].expires] \in Perm
      <3>1. k \in Nat /\ body[w].entries[k] \in Entry
        BY TypeOfBody
      <3>2. QED
        BY <2>1, <3>1 DEF Perm, Entry
    <2>3. QED
      BY <2>2 DEF Asked
  <1>3. caps' \subseteq Cap
    BY <1>1, <1>2, TypeOfLoc DEF TypeOK, Cap
  <1>4. /\ Advances(w) /\ KeepsPlace(w) /\ used' = used /\ pc'[w] = "done"
        /\ pc' \in [Requests -> Labels] /\ status' \in [Requests -> Statuses]
    BY <1>1, AnswerAdvances
  <1>5. TypeOK'
    BY <1>1, <1>3, <1>4 DEF TypeOK, history
  <1>6. QED
    BY <1>1, <1>4, <1>5

LEMMA CreateUserFacts ==
    ASSUME TypeOK, NEW w \in Requests, PlaceOK(w), CreateUser(w)
    PROVE  /\ TypeOK' /\ Advances(w) /\ KeepsPlace(w) /\ used' = used /\ pc[w] = "user.insert"
           /\ loc'[w].pid = idSeq + 1 /\ idSeq' = idSeq + 1
           /\ principals' = principals \cup
                {[id |-> idSeq + 1, kind |-> "user", name |-> body[w].target.name]}
           /\ \/ body[w].op = "bootstrap" /\ pc'[w] = "user.link" /\ status' = status
              \/ body[w].op # "bootstrap" /\ pc'[w] = "done" /\ status'[w] = "ok"
           /\ UNCHANGED <<links, anon, caps, expired, faults>>
  <1>1. /\ pc[w] = "user.insert" /\ idSeq' = idSeq + 1
        /\ principals' = principals \cup
             {[id |-> idSeq + 1, kind |-> "user", name |-> body[w].target.name]}
        /\ loc' = [loc EXCEPT ![w].pid = idSeq + 1]
        /\ IF body[w].op = "bootstrap" THEN Goto(w, "user.link") /\ status' = status
           ELSE Respond(w, "ok")
        /\ UNCHANGED <<links, anon, caps, expired, faults, body, answer, history>>
    BY DEF CreateUser
  <1>2. /\ body' = body /\ used' = used /\ before' = before /\ idSeq + 1 \in Nat
        /\ "user.link" \in Labels /\ "ok" \in Statuses
    BY <1>1 DEF TypeOK, history, Labels, Statuses
  <1>3. body[w].target.name \in UserNames
    BY <1>1, AuthzAssumption DEF PlaceOK
  <1>4. principals' \subseteq Principal
    BY <1>1, <1>2, <1>3 DEF TypeOK, Principal
  <1>5. /\ loc' \in [Requests -> Locals] /\ loc'[w].pid = idSeq + 1 /\ KeepsPlace(w)
        /\ \A v \in Requests : v # w => loc'[v] = loc[v]
    BY <1>1, <1>2, SetPidFacts DEF KeepsPlace
  <1>6. CASE body[w].op = "bootstrap"
    <2>1. Goto(w, "user.link") /\ status' = status
      BY <1>1, <1>6
    <2>2. /\ pc' \in [Requests -> Labels] /\ pc'[w] = "user.link"
          /\ \A v \in Requests : v # w => pc'[v] = pc[v]
      BY <1>2, <2>1, GotoFacts
    <2>3. TypeOK'
      BY <1>1, <1>2, <1>4, <1>5, <2>1, <2>2 DEF TypeOK, history
    <2>4. Advances(w)
      BY <1>1, <1>2, <1>5, <2>1, <2>2, AdvancesFacts
    <2>5. QED
      BY <1>1, <1>2, <1>5, <1>6, <2>1, <2>2, <2>3, <2>4
  <1>7. CASE body[w].op # "bootstrap"
    <2>1. /\ pc' \in [Requests -> Labels] /\ pc'[w] = "done"
          /\ status' \in [Requests -> Statuses] /\ status'[w] = "ok"
          /\ \A v \in Requests : v # w => pc'[v] = pc[v] /\ status'[v] = status[v]
      BY <1>1, <1>2, <1>7, RespondFacts
    <2>2. TypeOK'
      BY <1>1, <1>2, <1>4, <1>5, <2>1 DEF TypeOK, history
    <2>3. Advances(w)
      BY <1>1, <1>2, <1>5, <2>1, AdvancesFacts
    <2>4. QED
      BY <1>1, <1>2, <1>5, <1>7, <2>1, <2>2, <2>3
  <1>8. QED
    BY <1>6, <1>7

LEMMA DeleteUserExecFacts ==
    ASSUME TypeOK, NEW w \in Requests, DeleteUserExec(w)
    PROVE  /\ TypeOK' /\ Advances(w) /\ KeepsPlace(w) /\ used' = used /\ pc[w] = "del.exec"
           /\ pc'[w] = "done" /\ status'[w] = "ok"
           /\ principals' = {u \in principals : u.id # loc[w].pid}
           /\ links' = {l \in links : l.owner.id # loc[w].pid}
           /\ caps' = {c \in caps : c.issuer # loc[w].pid}
           /\ UNCHANGED <<idSeq, anon, expired, faults>>
  <1>1. /\ pc[w] = "del.exec" /\ Respond(w, "ok") /\ "ok" \in Statuses
        /\ principals' = {u \in principals : u.id # loc[w].pid}
        /\ links' = {l \in links : l.owner.id # loc[w].pid}
        /\ caps' = {c \in caps : c.issuer # loc[w].pid}
        /\ UNCHANGED <<idSeq, anon, expired, faults, body, loc, answer, history>>
    BY DEF DeleteUserExec, Statuses
  <1>2. /\ Advances(w) /\ KeepsPlace(w) /\ used' = used /\ pc'[w] = "done" /\ status'[w] = "ok"
        /\ pc' \in [Requests -> Labels] /\ status' \in [Requests -> Statuses]
    BY <1>1, AnswerAdvances
  <1>3. principals' \subseteq principals /\ links' \subseteq links /\ caps' \subseteq caps
    BY <1>1
  <1>4. TypeOK'
    BY <1>1, <1>2, <1>3 DEF TypeOK, history
  <1>5. QED
    BY <1>1, <1>2, <1>4

LEMMA ExpireFacts ==
    ASSUME TypeOK, Expire
    PROVE  /\ TypeOK' /\ expired \subseteq expired'
           /\ UNCHANGED <<principals, idSeq, links, anon, caps, faults, pc, body, loc, status,
                          answer, used, before>>
  <1>1. PICK p \in {l.perm : l \in links} \cup anon \cup UNION {c.perms : c \in caps} :
          expired' = expired \cup {p.key}
    BY DEF Expire
  <1>2. UNCHANGED <<principals, idSeq, links, anon, caps, faults, pc, body, loc, status, answer, history>>
    BY Zenon DEF Expire
  <1>3. p \in Perm
    BY DEF TypeOK, Link, Cap
  <1>4. p.key \in (Requests \cup {None}) \X Nat
    BY <1>3 DEF Perm
  <1>5. TypeOK'
    BY <1>1, <1>2, <1>4 DEF TypeOK, history
  <1>6. QED
    BY <1>1, <1>2, <1>5 DEF history

LEMMA FailFacts ==
    ASSUME TypeOK, NEW w \in Requests, PlaceOK(w), Fail(w)
    PROVE  /\ TypeOK' /\ Advances(w)
           /\ \/ /\ pc'[w] = "done" /\ KeepsPlace(w) /\ used' = used
                 /\ \/ status'[w] = "error"
                    \/ pc[w] = "query.perms" /\ status'[w] = "ok" /\ body[w].op \in {"query", "self"}
                 /\ UNCHANGED <<tables, body, loc, answer, history>>
              \/ pc[w] \in Checks /\ Decide(w, "error", {})
           /\ faults' = faults + 1
           /\ UNCHANGED tables
  <1>1. /\ pc[w] \notin {"new", "done"} /\ faults' = faults + 1 /\ faults' \in Nat
        /\ "error" \in Statuses /\ "ok" \in Statuses
        /\ \/ /\ Respond(w, "error")
              /\ UNCHANGED <<tables, body, loc, answer, history>>
           \/ pc[w] \in Checks /\ Decide(w, "error", {})
           \/ /\ pc[w] = "query.perms" /\ body[w].op \in {"query", "self"} /\ Respond(w, "ok")
              /\ UNCHANGED <<tables, body, loc, answer, history>>
    BY DEF Fail, InFlight, Statuses, TypeOK, Checks
  <1>2. CASE Respond(w, "error") /\ UNCHANGED <<tables, body, loc, answer, history>>
    BY <1>1, <1>2, EndFacts
  <1>3. CASE pc[w] \in Checks /\ Decide(w, "error", {})
    <2>1. UNCHANGED tables
      BY <1>3 DEF Decide
    <2>2. QED
      BY <1>1, <1>3, <2>1, DecideType
  <1>4. CASE /\ pc[w] = "query.perms" /\ body[w].op \in {"query", "self"} /\ Respond(w, "ok")
             /\ UNCHANGED <<tables, body, loc, answer, history>>
    BY <1>1, <1>4, EndFacts
  <1>5. QED
    BY <1>1, <1>2, <1>3, <1>4

\* Where a request that is not refused begins.
EntryOK(b) ==
    /\ EntryLabel(b) \in Labels /\ EntryLabel(b) # "new"
    /\ b.op \in MetaOps \cup {"use", "issueCap", "nsquery"} => EntryLabel(b) \in Checks
    /\ b.op = "nslist" => EntryLabel(b) \in Checks \cup Owns
    /\ b.op = "bootstrap" => EntryLabel(b) = "user.insert"
    /\ b.op = "self" => EntryLabel(b) = "query.perms"
    /\ b.op = "anonInfo" => EntryLabel(b) = "anon.read"
    /\ b.op = "anonToken" => EntryLabel(b) = "token.list"

LEMMA EntryFacts ==
    ASSUME NEW b \in Bodies
    PROVE  EntryOK(b)
  <1>1. /\ b.op \in Ops \ {"idle"}
        /\ CheckLabel(b) \in Checks /\ OwnLabel(b) \in Owns
        /\ Checks \cup Owns \subseteq Labels \ {"new"}
        /\ {"user.insert", "query.perms", "anon.read", "token.list"} \subseteq Labels
    BY AuthzAssumption, CheckLabelIsCheck DEF Body, Checks, Owns, Labels
  <1>2. CASE b.op \in MetaOps \cup {"use", "issueCap", "nsquery"}
    <2>1. EntryLabel(b) = CheckLabel(b)
      BY <1>2, MetaOpsAre DEF EntryLabel
    <2>2. QED
      BY <1>1, <1>2, <2>1, MetaOpsAre DEF EntryOK
  <1>3. CASE b.op = "nslist"
    <2>1. EntryLabel(b) \in {CheckLabel(b), OwnLabel(b)}
      BY <1>3, MetaOpsAre DEF EntryLabel
    <2>2. QED
      BY <1>1, <1>3, <2>1, MetaOpsAre DEF EntryOK
  <1>4. CASE b.op \in {"bootstrap", "self", "anonInfo", "anonToken"}
    <2>1. EntryLabel(b) = HandlerLabel[b.op]
      BY <1>4, MetaOpsAre DEF EntryLabel
    <2>2. QED
      BY <1>1, <1>4, <2>1, MetaOpsAre, HandlerLabelsAre DEF EntryOK
  <1>5. QED
    BY <1>1, <1>2, <1>3, <1>4 DEF Ops

LEMMA ContextIdsType ==
    ASSUME TypeOK, NEW who
    PROVE  ContextIds(who) \subseteq Nat
  BY DEF ContextIds, TypeOK, Principal

LEMMA RefusalFacts ==
    ASSUME NEW b \in Bodies
    PROVE  /\ Refusal(b) \in Statuses /\ Refusal(b) # "ok"
           /\ b.op = "issueCap" /\ Refusal(b) = "none" => b.entries # <<>>
  <1>1. Refusal(b) \in {"forbidden", "unauthorized", "badRequest", "notFound", "none"}
    BY DEF Refusal
  <1>2. ASSUME b.op = "issueCap", b.entries = <<>>
        PROVE  Refusal(b) # "none"
    BY <1>2, MetaOpsAre DEF Refusal
  <1>3. QED
    BY <1>1, <1>2 DEF Statuses

LEMMA ArriveFacts ==
    ASSUME TypeOK, NEW w \in Requests, Arrive(w)
    PROVE  /\ TypeOK' /\ Others(w) /\ pc[w] = "new" /\ pc'[w] # "new"
           /\ body'[w] \in Bodies /\ loc'[w].rows = loc[w].rows /\ loc'[w].i = FirstCheck(body'[w])
           /\ used' = used /\ UNCHANGED <<tables, faults, answer>>
           /\ before'[w] = {u \in Requests : status[u] = "ok"}
           /\ \/ pc'[w] = EntryLabel(body'[w]) /\ Refusal(body'[w]) = "none" /\ status' = status
              \/ pc'[w] = "done" /\ status'[w] # "ok"
  <1>1. PICK b \in Bodies : \E id \in ContextIds(b.caller) :
          /\ body' = [body EXCEPT ![w] = b]
          /\ loc' = [loc EXCEPT ![w].uid = id, ![w].pid = id, ![w].i = FirstCheck(b)]
          /\ IF Refusal(b) = "none"
             THEN Goto(w, EntryLabel(b)) /\ UNCHANGED status
             ELSE Respond(w, Refusal(b))
    BY DEF Arrive
  <1>2. PICK id \in ContextIds(b.caller) :
          /\ body' = [body EXCEPT ![w] = b]
          /\ loc' = [loc EXCEPT ![w].uid = id, ![w].pid = id, ![w].i = FirstCheck(b)]
          /\ IF Refusal(b) = "none"
             THEN Goto(w, EntryLabel(b)) /\ UNCHANGED status
             ELSE Respond(w, Refusal(b))
    BY <1>1
  <1>3. /\ pc[w] = "new" /\ UNCHANGED <<tables, faults, answer, used>>
        /\ before' = [before EXCEPT ![w] = {u \in Requests : status[u] = "ok"}]
    BY Zenon DEF Arrive
  <1>4. id \in Nat /\ FirstCheck(b) \in Nat /\ b \in Body
    BY ContextIdsType, AuthzAssumption DEF FirstCheck
  <1>5. /\ body' \in [Requests -> Body] /\ body'[w] = b
        /\ \A v \in Requests : v # w => body'[v] = body[v]
    BY <1>2, <1>4 DEF TypeOK
  <1>6. /\ loc' \in [Requests -> Locals] /\ loc'[w].rows = loc[w].rows /\ loc'[w].i = FirstCheck(b)
        /\ \A v \in Requests : v # w => loc'[v] = loc[v]
    <2> DEFINE r == [loc[w] EXCEPT !.uid = id, !.pid = id, !.i = FirstCheck(b)]
    <2>1. loc' = [loc EXCEPT ![w] = r]
      BY <1>2
    <2>2. r \in Locals /\ r.rows = loc[w].rows /\ r.i = FirstCheck(b)
      BY <1>4, TypeOfLoc DEF Locals
    <2> HIDE DEF r
    <2>3. QED
      BY <2>1, <2>2 DEF TypeOK
  <1>7. /\ before' \in [Requests -> SUBSET Requests]
        /\ before'[w] = {u \in Requests : status[u] = "ok"}
        /\ \A v \in Requests : v # w => before'[v] = before[v]
    BY <1>3 DEF TypeOK
  <1>8. CASE Refusal(b) = "none"
    <2>1. Goto(w, EntryLabel(b)) /\ status' = status
      BY <1>2, <1>8
    <2>2. EntryLabel(b) \in Labels /\ EntryLabel(b) # "new"
      BY EntryFacts DEF EntryOK
    <2>3. /\ pc' \in [Requests -> Labels] /\ pc'[w] = EntryLabel(b)
          /\ \A v \in Requests : v # w => pc'[v] = pc[v]
      BY <2>1, <2>2, GotoFacts
    <2>4. TypeOK'
      BY <1>3, <1>5, <1>6, <1>7, <2>1, <2>3 DEF TypeOK, tables
    <2>5. Others(w)
      BY <1>3, <1>5, <1>6, <1>7, <2>1, <2>3 DEF Others
    <2>6. QED
      BY <1>3, <1>5, <1>6, <1>7, <1>8, <2>1, <2>2, <2>3, <2>4, <2>5
  <1>9. CASE Refusal(b) # "none"
    <2>1. Respond(w, Refusal(b))
      BY <1>2, <1>9
    <2>2. Refusal(b) \in Statuses /\ Refusal(b) # "ok"
      BY RefusalFacts
    <2>3. /\ pc' \in [Requests -> Labels] /\ pc'[w] = "done"
          /\ status' \in [Requests -> Statuses] /\ status'[w] = Refusal(b)
          /\ \A v \in Requests : v # w => pc'[v] = pc[v] /\ status'[v] = status[v]
      BY <2>1, <2>2, RespondFacts
    <2>4. TypeOK'
      BY <1>3, <1>5, <1>6, <1>7, <2>3 DEF TypeOK, tables
    <2>5. Others(w)
      BY <1>3, <1>5, <1>6, <1>7, <2>3 DEF Others
    <2>6. QED
      BY <1>3, <1>5, <1>6, <1>7, <2>2, <2>3, <2>4, <2>5
  <1>10. QED
    BY <1>8, <1>9
-----------------------------------------------------------------------------
(* Every step keeps the handlers in their places. *)

LEMMA PlaceKept ==
    ASSUME NEW w \in Requests, NEW v \in Requests, v # w, Others(w), PlaceOK(v)
    PROVE  PlaceOK(v)'
  <1>1. pc'[v] = pc[v] /\ body'[v] = body[v] /\ loc'[v] = loc[v] /\ used'[v] = used[v]
    BY DEF Others
  <1>2. \A k : Covered(v, k) => Covered(v, k)'
    BY <1>1 DEF Covered
  <1>3. QED
    BY <1>1, <1>2 DEF PlaceOK

LEMMA PlaceDone ==
    ASSUME NEW w \in Requests, pc'[w] = "done", body'[w] \in Bodies
    PROVE  PlaceOK(w)'
  BY DEF PlaceOK, Checks, Owns

LEMMA CoveredKept ==
    ASSUME NEW w \in Requests, Advances(w), NEW k, Covered(w, k)
    PROVE  Covered(w, k)'
  BY DEF Covered, Advances

\* The request of a handler that is at work.
LEMMA AtWork ==
    ASSUME NEW w \in Requests, PlaceOK(w), Advances(w)
    PROVE  body'[w] = body[w] /\ body'[w] \in Bodies
  BY DEF PlaceOK, Advances

LEMMA PlaceDecide ==
    ASSUME TypeOK, NEW w \in Requests, PlaceOK(w), pc[w] \in Checks,
           NEW verdict, NEW rows \in SUBSET Perm, Decide(w, verdict, rows),
           verdict = "yes" => \E p \in rows : p.verb = Goal(w).verb /\ matchesPattern(Goal(w).res, p.pat)
    PROVE  PlaceOK(w)'
  <1> DEFINE n == AfterCheck(w, verdict)
  <1>1. /\ Advances(w) /\ pc'[w] = n.pc /\ loc'[w].i = n.i /\ used'[w] = used[w] \cup rows
        /\ AfterOK(w, verdict, n)
    BY DecideFacts, AfterCheckFacts
  <1> HIDE DEF n
  <1>2. /\ body'[w] = body[w] /\ body'[w] \in Bodies
        /\ body[w].op \in CheckOps /\ loc[w].i \in Nat /\ Len(body[w].entries) \in Nat
    BY <1>1, AtWork, TypeOfLoc, TypeOfBody DEF PlaceOK
  <1>3. n.pc # "new"
    BY <1>1 DEF AfterOK
  <1>4. CASE n.pc = "done"
    BY <1>1, <1>2, <1>4, PlaceDone
  <1>5. CASE body[w].op \in MetaOps /\ n.pc # "done"
    <2>1. n.pc = HandlerLabel[body[w].op] /\ n.i = 1 /\ Valid(body[w])
      BY <1>1, <1>5 DEF AfterOK
    <2>2. ASSUME body[w].op \in {"grant", "revoke", "anonAdd"}
          PROVE  1 \in 1 .. Len(body[w].entries)
      <3>1. body[w].entries # <<>>
        BY <2>1, <2>2 DEF Valid
      <3>2. QED
        BY <3>1, TypeOfBody
    <2>3. QED
      BY <1>1, <1>2, <1>5, <2>1, <2>2, MetaOpsAre, HandlerLabelsAre DEF PlaceOK, Checks, Owns
  <1>6. CASE body[w].op = "issueCap" /\ n.pc # "done"
    <2>1. verdict = "yes" /\ loc[w].i \in 1 .. Len(body[w].entries)
      BY <1>1, <1>6 DEF AfterOK, PlaceOK
    <2>2. \A k \in 1 .. Len(body[w].entries) : k < loc[w].i => Covered(w, k)'
      BY <1>1, <1>6, CoveredKept DEF PlaceOK
    <2>3. ASSUME NEW k \in 1 .. Len(body[w].entries), k = loc[w].i
          PROVE  Covered(w, k)'
      <3>1. PICK p \in rows : p.verb = Goal(w).verb /\ matchesPattern(Goal(w).res, p.pat)
        BY <2>1
      <3>2. p \in used'[w] /\ body'[w].entries = body[w].entries
        BY <1>1, <1>2
      <3>3. p.verb = body[w].entries[k].verb /\ matchesPattern(body[w].entries[k].pat, p.pat)
        BY <1>6, <2>3, <3>1, GoalFacts
      <3>4. QED
        BY <3>2, <3>3 DEF Covered
    <2>4. CASE n.pc = "cap.insert" /\ loc[w].i >= Len(body[w].entries)
      <3>1. \A k \in 1 .. Len(body[w].entries) : k < loc[w].i \/ k = loc[w].i
        BY <1>2, <2>1, <2>4
      <3>2. \A k \in 1 .. Len(body[w].entries) : Covered(w, k)'
        BY <2>2, <2>3, <3>1
      <3>3. QED
        BY <1>1, <1>2, <1>6, <2>4, <3>2 DEF PlaceOK, Checks, Owns
    <2>5. CASE n.pc \in Checks /\ n.i = loc[w].i + 1 /\ loc[w].i < Len(body[w].entries)
      <3>1. /\ n.i \in 1 .. Len(body[w].entries)
            /\ \A k \in 1 .. Len(body[w].entries) : k < n.i => k < loc[w].i \/ k = loc[w].i
        BY <1>2, <2>1, <2>5
      <3>2. \A k \in 1 .. Len(body[w].entries) : k < n.i => Covered(w, k)'
        BY <2>2, <2>3, <3>1
      <3>3. QED
        BY <1>1, <1>2, <1>6, <2>5, <3>1, <3>2, MetaOpsAre DEF PlaceOK, Checks, Owns, CheckOps
    <2>6. QED
      BY <1>1, <1>6, <2>4, <2>5 DEF AfterOK
  <1>7. CASE body[w].op = "nslist" /\ n.pc # "done"
    BY <1>1, <1>2, <1>3, <1>7, MetaOpsAre DEF PlaceOK, AfterOK, Checks, Owns, CheckOps
  <1>8. CASE body[w].op = "nsquery" /\ n.pc # "done"
    BY <1>1, <1>2, <1>3, <1>8, MetaOpsAre DEF PlaceOK, AfterOK, Checks, Owns, CheckOps
  <1>9. CASE body[w].op = "use" /\ n.pc # "done"
    BY <1>1, <1>9 DEF AfterOK
  <1>10. QED
    BY <1>2, <1>4, <1>5, <1>6, <1>7, <1>8, <1>9 DEF CheckOps

LEMMA GrantingFacts ==
    ASSUME NEW w \in Requests, NEW rows, NEW p \in Granting(w, rows)
    PROVE  p \in rows /\ p.verb = Goal(w).verb /\ matchesPattern(Goal(w).res, p.pat) /\ p.key \notin expired
  BY DEF Granting, Unexpired

\* The checks.
LEMMA PlaceCheck ==
    ASSUME TypeOK, NEW w \in Requests, PlaceOK(w), CheckFind(w) \/ CheckPerms(w) \/ checkAnon(w)
    PROVE  PlaceOK(w)'
  <1>1. CASE CheckFind(w)
    <2>1. CASE Decide(w, "error", {})
      BY <1>1, <2>1, CheckFindFacts, PlaceDecide DEF Checks
    <2>2. CASE pc'[w] = "check.perms" /\ KeepsPlace(w) /\ used' = used
      <3>1. Advances(w) /\ pc[w] = "check.find" /\ body'[w] = body[w] /\ body'[w] \in Bodies
        BY <1>1, CheckFindFacts, AtWork
      <3>2. \A k : Covered(w, k) => Covered(w, k)'
        BY <3>1, CoveredKept
      <3>3. QED
        BY <2>2, <3>1, <3>2 DEF PlaceOK, Checks, Owns, KeepsPlace
    <2>3. QED
      BY <1>1, <2>1, <2>2, CheckFindFacts
  <1>2. CASE CheckPerms(w)
    <2>1. /\ pc[w] \in Checks /\ Advances(w) /\ Granting(w, OwnRows(w)) \in SUBSET Perm
          /\ pc[w] = "check.perms"
      BY <1>2, CheckPermsFacts, OwnedType DEF Checks
    <2>2. CASE Granting(w, OwnRows(w)) # {} /\ Decide(w, "yes", Granting(w, OwnRows(w)))
      <3>1. \E p \in Granting(w, OwnRows(w)) : p.verb = Goal(w).verb /\ matchesPattern(Goal(w).res, p.pat)
        BY <2>2, GrantingFacts
      <3>2. QED
        BY <2>1, <2>2, <3>1, PlaceDecide
    <2>3. CASE Decide(w, "no", {}) \/ Decide(w, "error", {})
      BY <2>1, <2>3, PlaceDecide
    <2>4. CASE pc'[w] = "check.anon" /\ loc' = loc /\ used' = used
      <3>1. body'[w] = body[w] /\ body'[w] \in Bodies
        BY <2>1, AtWork
      <3>2. \A k : Covered(w, k) => Covered(w, k)'
        BY <2>1, CoveredKept
      <3>3. QED
        BY <2>1, <2>4, <3>1, <3>2 DEF PlaceOK, Checks, Owns
    <2>5. QED
      BY <1>2, <2>2, <2>3, <2>4, CheckPermsFacts
  <1>3. CASE checkAnon(w)
    <2>1. pc[w] \in Checks /\ Granting(w, ListAnon) \in SUBSET Perm
      BY <1>3, checkAnonFacts, OwnedType DEF Checks
    <2>2. CASE Granting(w, ListAnon) # {} /\ Decide(w, "yes", Granting(w, ListAnon))
      <3>1. \E p \in Granting(w, ListAnon) : p.verb = Goal(w).verb /\ matchesPattern(Goal(w).res, p.pat)
        BY <2>2, GrantingFacts
      <3>2. QED
        BY <2>1, <2>2, <3>1, PlaceDecide
    <2>3. CASE Decide(w, "no", {}) \/ Decide(w, "error", {})
      BY <2>1, <2>3, PlaceDecide
    <2>4. QED
      BY <1>3, <2>2, <2>3, checkAnonFacts
  <1>4. QED
    BY <1>1, <1>2, <1>3

LEMMA PlaceArrive ==
    ASSUME TypeOK, NEW w \in Requests, PlaceOK(w), Arrive(w)
    PROVE  PlaceOK(w)'
  <1> DEFINE b == body'[w]
  <1>1. /\ b \in Bodies /\ b \in Body /\ pc'[w] # "new" /\ loc'[w].i = FirstCheck(b)
        /\ \/ pc'[w] = EntryLabel(b) /\ Refusal(b) = "none"
           \/ pc'[w] = "done"
    BY ArriveFacts, AuthzAssumption
  <1> HIDE DEF b
  <1>2. CASE pc'[w] = "done"
    BY <1>1, <1>2, PlaceDone DEF b
  <1>3. CASE pc'[w] = EntryLabel(b) /\ Refusal(b) = "none"
    <2>1. EntryOK(b) /\ b.op \in Ops \ {"idle"}
      BY <1>1, EntryFacts, AuthzAssumption DEF Body
    <2>2. /\ FirstCheck(b) \in 1 .. 2 /\ (b.op # "nsquery" => FirstCheck(b) = 1)
      BY DEF FirstCheck
    <2>3. ASSUME b.op = "issueCap"
          PROVE  /\ 1 \in 1 .. Len(b.entries) /\ Len(b.entries) \in Nat
                 /\ \A k \in 1 .. Len(b.entries) : ~(k < 1)
      <3>1. b.entries # <<>> /\ b.entries \in Seq(Entry)
        BY <1>1, <1>3, <2>3, RefusalFacts DEF Body
      <3>2. QED
        BY <3>1
    <2>4. CASE b.op \in MetaOps \cup {"use", "nsquery"}
      <3>1. pc'[w] \in Checks /\ b.op \notin {"nslist", "issueCap"}
        BY <1>3, <2>1, <2>4, MetaOpsAre DEF EntryOK
      <3>2. QED
        BY <1>1, <2>4, <3>1 DEF PlaceOK, Checks, Owns, CheckOps, b
    <2>5. CASE b.op = "issueCap"
      <3>1. pc'[w] \in Checks /\ loc'[w].i = 1
        BY <1>1, <1>3, <2>1, <2>2, <2>5 DEF EntryOK
      <3>2. QED
        BY <1>1, <2>3, <2>5, <3>1 DEF PlaceOK, Checks, Owns, CheckOps, b
    <2>6. CASE b.op = "nslist"
      <3>1. pc'[w] \in Checks \cup Owns /\ loc'[w].i = 1
        BY <1>1, <1>3, <2>1, <2>2, <2>6 DEF EntryOK
      <3>2. QED
        BY <1>1, <2>6, <3>1 DEF PlaceOK, Checks, Owns, CheckOps, b
    <2>7. CASE b.op \in {"bootstrap", "self", "anonInfo", "anonToken"}
      <3>1. /\ b.op = "bootstrap" => pc'[w] = "user.insert"
            /\ b.op = "self" => pc'[w] = "query.perms"
            /\ b.op = "anonInfo" => pc'[w] = "anon.read"
            /\ b.op = "anonToken" => pc'[w] = "token.list"
            /\ loc'[w].i = 1
        BY <1>1, <1>3, <2>1, <2>2, <2>7 DEF EntryOK
      <3>2. QED
        BY <1>1, <2>7, <3>1 DEF PlaceOK, Checks, Owns, b
    <2>8. QED
      BY <2>1, <2>4, <2>5, <2>6, <2>7 DEF Ops
  <1>4. QED
    BY <1>1, <1>2, <1>3

LEMMA PlaceStep ==
    ASSUME TypeOK, PlaceInv, NEW w \in Requests, Step(w)
    PROVE  TypeOK' /\ Advances(w) /\ PlaceOK(w)'
  <1>1. PlaceOK(w)
    BY DEF PlaceInv
  <1>2. ASSUME Advances(w)
        PROVE  body'[w] = body[w] /\ body'[w] \in Bodies
    BY <1>1, <1>2, AtWork
  <1>3. CASE CheckFind(w) \/ CheckPerms(w) \/ checkAnon(w)
    BY <1>1, <1>3, PlaceCheck, CheckFindFacts, CheckPermsFacts, checkAnonFacts
  <1>4. CASE OwnFind(w)
    BY <1>1, <1>2, <1>4, OwnFindFacts DEF PlaceOK, Checks, Owns, Looks
  <1>5. CASE OwnPerms(w)
    BY <1>1, <1>2, <1>5, OwnPermsFacts DEF PlaceOK, Checks, Owns
  <1>6. CASE OwnAnon(w)
    BY <1>1, <1>2, <1>6, OwnAnonFacts DEF PlaceOK, Checks, Owns, CheckOps
  <1>7. CASE GrantFind(w)
    <2>1. /\ TypeOK' /\ Advances(w) /\ pc[w] = "grant.find" /\ loc'[w].i = loc[w].i
          /\ body'[w] = body[w] /\ body'[w] \in Bodies
          /\ \/ pc'[w] = "done"
             \/ pc'[w] = IF body[w].op = "grant" THEN "grant.link" ELSE "revoke.read"
      BY <1>2, <1>7, GrantFindFacts DEF Looks, KeepsPlace
    <2>2. body[w].op \in {"grant", "revoke"} /\ Valid(body[w]) /\ loc[w].i = 1
      BY <1>1, <2>1 DEF PlaceOK
    <2>3. body[w].entries # <<>>
      BY <2>2 DEF Valid
    <2>4. 1 \in 1 .. Len(body[w].entries)
      BY <2>3, TypeOfBody
    <2>5. QED
      BY <2>1, <2>2, <2>4 DEF PlaceOK, Checks, Owns
  <1>8. CASE GrantLink(w)
    <2>1. /\ body[w].entries \in Seq(Entry) /\ loc[w].i \in 1 .. Len(body[w].entries)
          /\ pc[w] = "grant.link" /\ AddPermission(w, body[w].entries, "grant.link")
          /\ "grant.link" \in Labels
      BY <1>1, <1>8, TypeOfBody DEF GrantLink, PlaceOK, Labels
    <2>2. /\ TypeOK' /\ Advances(w)
          /\ \/ pc'[w] = "done"
             \/ pc'[w] = "grant.link" /\ loc'[w].i \in 1 .. Len(body[w].entries)
      BY <2>1, AddPermissionFacts
    <2>3. QED
      BY <1>1, <1>2, <2>1, <2>2 DEF PlaceOK, Checks, Owns
  <1>9. CASE RevokeRead(w)
    <2>1. /\ TypeOK' /\ Advances(w) /\ pc[w] = "revoke.read"
          /\ \/ pc'[w] = "done"
             \/ /\ pc'[w] \in {"revoke.read", "revoke.delete"}
                /\ \/ loc'[w].i = loc[w].i
                   \/ loc'[w].i \in 1 .. Len(body[w].entries)
      BY <1>1, <1>9, RevokeReadFacts DEF Continues
    <2>2. QED
      BY <1>1, <1>2, <2>1 DEF PlaceOK, Checks, Owns
  <1>10. CASE RevokeDelete(w)
    <2>1. /\ TypeOK' /\ Advances(w) /\ pc[w] = "revoke.delete"
          /\ \/ pc'[w] = "done"
             \/ /\ pc'[w] \in {"revoke.read", "revoke.delete"}
                /\ \/ loc'[w].i = loc[w].i
                   \/ loc'[w].i \in 1 .. Len(body[w].entries)
      BY <1>1, <1>10, RevokeDeleteFacts DEF Continues
    <2>2. QED
      BY <1>1, <1>2, <2>1 DEF PlaceOK, Checks, Owns
  <1>11. CASE AddAnonPermission(w)
    <2>1. /\ TypeOK' /\ Advances(w) /\ pc[w] = "anon.add"
          /\ \/ pc'[w] = "done"
             \/ pc'[w] = "anon.add" /\ loc'[w].i \in 1 .. Len(body[w].entries)
      BY <1>1, <1>11, AddAnonFacts DEF Continues
    <2>2. QED
      BY <1>1, <1>2, <2>1 DEF PlaceOK, Checks, Owns
  <1>12. CASE DeleteAnonPermission(w)
    BY <1>2, <1>12, DeleteAnonFacts, PlaceDone
  <1>13. CASE ListAnonPermissions(w)
    BY <1>2, <1>13, ListAnonFacts, PlaceDone
  <1>14. CASE AnonTokenList(w)
    BY <1>1, <1>2, <1>14, AnonTokenListFacts DEF PlaceOK, Checks, Owns
  <1>15. CASE AnonTokenInsert(w)
    BY <1>2, <1>15, AnonTokenInsertFacts, PlaceDone
  <1>16. CASE IssueCapInsert(w)
    BY <1>2, <1>16, IssueCapInsertFacts, PlaceDone
  <1>17. CASE QueryFind(w)
    BY <1>1, <1>2, <1>17, QueryFindFacts DEF PlaceOK, Checks, Owns, Looks
  <1>18. CASE QueryPerms(w)
    BY <1>2, <1>18, QueryPermsFacts, PlaceDone
  <1>19. CASE CreateUser(w)
    BY <1>1, <1>2, <1>19, CreateUserFacts DEF PlaceOK, Checks, Owns, KeepsPlace
  <1>20. CASE BootstrapLink(w)
    <2>1. /\ bootstrapGrants \in Seq(Entry) /\ loc[w].i \in 1 .. Len(bootstrapGrants)
          /\ pc[w] = "user.link" /\ AddPermission(w, bootstrapGrants, "user.link")
          /\ "user.link" \in Labels /\ Len(bootstrapGrants) = 10
      BY <1>1, <1>20, BootstrapGrantsType DEF BootstrapLink, PlaceOK, Labels
    <2>2. /\ TypeOK' /\ Advances(w)
          /\ \/ pc'[w] = "done"
             \/ pc'[w] = "user.link" /\ loc'[w].i \in 1 .. 10
      BY <2>1, AddPermissionFacts
    <2>3. QED
      BY <1>1, <1>2, <2>1, <2>2 DEF PlaceOK, Checks, Owns
  <1>21. CASE DeleteUserFind(w)
    BY <1>1, <1>2, <1>21, DeleteUserFindFacts DEF PlaceOK, Checks, Owns, Looks
  <1>22. CASE DeleteUserExec(w)
    BY <1>2, <1>22, DeleteUserExecFacts, PlaceDone
  <1>23. QED
    BY <1>3, <1>4, <1>5, <1>6, <1>7, <1>8, <1>9, <1>10, <1>11, <1>12, <1>13, <1>14, <1>15, <1>16,
       <1>17, <1>18, <1>19, <1>20, <1>21, <1>22 DEF Step

LEMMA PlaceFail ==
    ASSUME TypeOK, NEW w \in Requests, PlaceOK(w), Fail(w)
    PROVE  PlaceOK(w)'
  <1>1. Advances(w) /\ body'[w] \in Bodies
    BY FailFacts, AtWork
  <1>2. CASE pc'[w] = "done"
    BY <1>1, <1>2, PlaceDone
  <1>3. CASE pc[w] \in Checks /\ Decide(w, "error", {})
    BY <1>3, PlaceDecide
  <1>4. QED
    BY <1>2, <1>3, FailFacts

LEMMA InitType == Init => TypeOK
  <1> SUFFICES ASSUME Init PROVE TypeOK
    OBVIOUS
  <1>1. idSeq \in Nat /\ principals \subseteq Principal
    BY AuthzAssumption, FS_CardinalityType DEF Init
  <1>2. links \subseteq Link
    BY AuthzAssumption DEF Init, Link
  <1>3. anon \subseteq Perm
    BY AuthzAssumption DEF Init
  <1>4. caps = {} /\ expired = {} /\ faults = 0
    BY DEF Init
  <1>5. Idle \in Body
    <2>1. Anon \in Who /\ <<>> \in Seq(Entry) /\ [ns |-> Star, name |-> Star] \in Pattern
      BY DEF Anon, Who, Pattern, Segments
    <2>2. "idle" \in Ops /\ "read" \in Verbs
      BY DEF Ops, Verbs
    <2>3. QED
      BY <2>1, <2>2 DEF Idle, Body
  <1>6. body \in [Requests -> Body]
    BY <1>5 DEF Init
  <1>7. Fresh \in Locals
    BY DEF Fresh, Locals
  <1>8. loc \in [Requests -> Locals]
    BY <1>7 DEF Init
  <1>9. /\ pc \in [Requests -> Labels] /\ status \in [Requests -> Statuses]
        /\ answer \in [Requests -> SUBSET Shown] /\ used \in [Requests -> SUBSET Perm]
        /\ before \in [Requests -> SUBSET Requests]
    BY DEF Init, Labels, Statuses
  <1>10. QED
    BY <1>1, <1>2, <1>3, <1>4, <1>6, <1>8, <1>9 DEF TypeOK

LEMMA InitPlace == Init => PlaceInv
  BY DEF Init, PlaceInv, PlaceOK, Checks, Owns

LEMMA NextPlace ==
    ASSUME TypeOK, PlaceInv, [Next]_vars
    PROVE  TypeOK' /\ PlaceInv'
  <1>1. ASSUME NEW w \in Requests, Arrive(w)
        PROVE  TypeOK' /\ PlaceInv'
    BY <1>1, ArriveFacts, PlaceArrive, PlaceKept DEF PlaceInv
  <1>2. ASSUME NEW w \in Requests, Step(w)
        PROVE  TypeOK' /\ PlaceInv'
    BY <1>2, PlaceStep, PlaceKept DEF PlaceInv, Advances
  <1>3. ASSUME NEW w \in Requests, Fail(w)
        PROVE  TypeOK' /\ PlaceInv'
    BY <1>3, FailFacts, PlaceFail, PlaceKept DEF PlaceInv, Advances
  <1>4. ASSUME UNCHANGED <<pc, body, loc, used>>
        PROVE  PlaceInv'
    BY <1>4 DEF PlaceInv, PlaceOK, Covered
  <1>5. CASE Expire
    BY <1>4, <1>5, ExpireFacts
  <1>6. CASE UNCHANGED vars
    BY <1>4, <1>6 DEF vars, tables, history, TypeOK
  <1>7. QED
    BY <1>1, <1>2, <1>3, <1>5, <1>6 DEF Next, Terminated

\* Every handler's variables, and every row, have their types, in every state:
\* an entry is never read beyond the end of a request's list, and a handler is
\* only ever at a statement of its own endpoint.
THEOREM AuthzTypeCorrect == Spec => []TypeOK
  <1>1. Init => TypeOK /\ PlaceInv
    BY InitType, InitPlace
  <1>2. TypeOK /\ PlaceInv /\ [Next]_vars => TypeOK' /\ PlaceInv'
    BY NextPlace
  <1>3. QED
    BY <1>1, <1>2, PTL DEF Spec
-----------------------------------------------------------------------------
(* Where permissions come from. *)

\* The endpoints that add permissions, and those that validate their patterns,
\* or copy what was validated.
Granters == {"grant", "anonAdd", "bootstrap", "issueCap", "anonToken"}
Validated == {"grant", "anonAdd", "anonToken"}

\* A row names the request that made it, its pattern passed the validation that
\* the endpoint has, and the entry of a token was covered when it was checked.
RowOK(p) ==
    p.src # None =>
        /\ pc[p.src] # "new"
        /\ body[p.src].op \in Granters
        /\ body[p.src].op \in Validated => ValidateAddPattern(p.pat)
        /\ body[p.src].op = "issueCap" =>
             \E q \in used[p.src] : q.verb = p.verb /\ matchesPattern(p.pat, q.pat)

RowInv ==
    /\ \A l \in links : RowOK(l.perm)
    /\ \A p \in anon : RowOK(p) /\ ValidateAddPattern(p.pat)
    /\ \A c \in caps : \A p \in c.perms : RowOK(p)
    /\ \A w \in Requests : \A p \in used[w] : RowOK(p)

\* What a handler that copies has read, and what one that checked was allowed by.
ReadOK(w) ==
    /\ pc[w] = "token.insert" => \A p \in loc[w].rows : ValidateAddPattern(p.pat)
    /\ body[w].op = "use" =>
         \A p \in used[w] : p.verb = body[w].verb /\ matchesPattern(body[w].res, p.pat)

ReadInv == \A w \in Requests : ReadOK(w)

\* No request is taken back: what arrived stays, and history grows.
Onward ==
    \A v \in Requests : pc[v] # "new" =>
        pc'[v] # "new" /\ body'[v] = body[v] /\ used[v] \subseteq used'[v]

\* A row of some table.
Stored(p) ==
    \/ p \in anon
    \/ \E l \in links : p = l.perm
    \/ \E c \in caps : p \in c.perms

LEMMA AdvancesOnward ==
    ASSUME NEW w \in Requests, Advances(w)
    PROVE  Onward
  BY DEF Advances, Others, Onward

LEMMA RowKept ==
    ASSUME NEW p \in Perm, RowOK(p), Onward
    PROVE  RowOK(p)'
  <1>1. CASE p.src = None
    BY <1>1 DEF RowOK
  <1>2. CASE p.src # None
    <2>1. p.src \in Requests
      BY <1>2 DEF Perm
    <2>2. pc[p.src] # "new"
      BY <1>2 DEF RowOK
    <2>3. pc'[p.src] # "new" /\ body'[p.src] = body[p.src] /\ used[p.src] \subseteq used'[p.src]
      BY <2>1, <2>2 DEF Onward
    <2>4. QED
      BY <1>2, <2>3 DEF RowOK
  <1>3. QED
    BY <1>1, <1>2

LEMMA StoredFacts ==
    ASSUME TypeOK, RowInv, NEW p, Stored(p)
    PROVE  p \in Perm /\ RowOK(p)
  BY DEF Stored, TypeOK, Link, Cap, RowInv

LEMMA RowInvFrom ==
    ASSUME TypeOK, RowInv, Onward,
           \A l \in links' : l \in links \/ RowOK(l.perm)',
           \A p \in anon' : p \in anon \/ (RowOK(p)' /\ ValidateAddPattern(p.pat)),
           \A c \in caps' : c \in caps \/ \A p \in c.perms : RowOK(p)',
           \A v \in Requests : \A p \in used'[v] : p \in used[v] \/ Stored(p)
    PROVE  RowInv'
  <1>1. \A l \in links' : RowOK(l.perm)'
    BY RowKept DEF RowInv, TypeOK, Link
  <1>2. \A p \in anon' : RowOK(p)' /\ ValidateAddPattern(p.pat)
    BY RowKept DEF RowInv, TypeOK
  <1>3. \A c \in caps' : \A p \in c.perms : RowOK(p)'
    BY RowKept DEF RowInv, TypeOK, Cap
  <1>4. ASSUME NEW v \in Requests, NEW p \in used'[v]
        PROVE  RowOK(p)'
    <2>1. CASE p \in used[v]
      BY <2>1, RowKept DEF RowInv, TypeOK
    <2>2. CASE Stored(p)
      BY <2>2, StoredFacts, RowKept
    <2>3. QED
      BY <2>1, <2>2
  <1>5. QED
    BY <1>1, <1>2, <1>3, <1>4 DEF RowInv

\* Nothing is granted, and nothing is read that is not in a table.
LEMMA RowInvRead ==
    ASSUME TypeOK, RowInv, NEW w \in Requests, Advances(w),
           links' \subseteq links, anon' \subseteq anon, caps' \subseteq caps,
           NEW rows, used'[w] \subseteq used[w] \cup rows, \A p \in rows : Stored(p)
    PROVE  RowInv'
  <1>1. Onward
    BY AdvancesOnward
  <1>2. \A v \in Requests : \A p \in used'[v] : p \in used[v] \/ Stored(p)
    BY DEF Advances, Others
  <1>3. QED
    BY <1>1, <1>2, RowInvFrom

LEMMA RowInvQuiet ==
    ASSUME TypeOK, RowInv, NEW w \in Requests, Advances(w),
           links' \subseteq links, anon' \subseteq anon, caps' \subseteq caps, used' = used
    PROVE  RowInv'
  BY AdvancesOnward, RowInvFrom

LEMMA RowsAreStored ==
    ASSUME NEW w \in Requests
    PROVE  /\ \A p \in OwnedBy(loc[w].pid) : Stored(p)
           /\ \A p \in OwnRows(w) : Stored(p)
           /\ \A p \in Listable(OwnRows(w)) : Stored(p)
           /\ \A p \in Granting(w, OwnRows(w)) : Stored(p)
           /\ \A p \in ListAnon : Stored(p) /\ p \in anon
           /\ \A p \in Listable(anon) : Stored(p)
           /\ \A p \in Granting(w, ListAnon) : Stored(p)
  <1>1. \A id : \A p \in OwnedBy(id) : Stored(p)
    BY DEF OwnedBy, Stored
  <1>2. \A p \in OwnRows(w) : Stored(p)
    BY <1>1 DEF OwnRows, Stored
  <1>3. \A p \in anon : Stored(p)
    BY DEF Stored
  <1>4. \A rows : Unexpired(rows) \subseteq rows /\ Listable(rows) \subseteq rows
    BY DEF Unexpired, Listable
  <1>5. ListAnon \subseteq anon
    BY <1>4 DEF ListAnon
  <1>6. \A rows : Granting(w, rows) \subseteq rows
    BY <1>4 DEF Granting
  <1>7. QED
    BY <1>1, <1>2, <1>3, <1>4, <1>5, <1>6

LEMMA ReadKept ==
    ASSUME NEW w \in Requests, NEW v \in Requests, v # w, Others(w), ReadOK(v)
    PROVE  ReadOK(v)'
  BY DEF Others, ReadOK

\* A handler that has nothing to copy and is not at a check.
LEMMA ReadMoves ==
    ASSUME NEW w \in Requests, ReadOK(w), Advances(w), pc'[w] # "token.insert",
           used'[w] = used[w] \/ body[w].op # "use"
    PROVE  ReadOK(w)'
  BY DEF ReadOK, Advances

LEMMA RowsDecide ==
    ASSUME TypeOK, RowInv, NEW w \in Requests, PlaceOK(w), ReadOK(w), pc[w] \in Checks,
           NEW verdict, NEW rows \in SUBSET Perm, Decide(w, verdict, rows),
           \A p \in rows : /\ Stored(p) /\ p.verb = Goal(w).verb
                           /\ matchesPattern(Goal(w).res, p.pat)
    PROVE  RowInv' /\ ReadOK(w)'
  <1>1. /\ Advances(w) /\ UNCHANGED <<links, anon, caps>> /\ used'[w] = used[w] \cup rows
        /\ pc'[w] = AfterCheck(w, verdict).pc
    BY DecideFacts DEF tables
  <1>2. RowInv'
    BY <1>1, RowInvRead
  <1>3. pc'[w] # "token.insert"
    <2>1. AfterOK(w, verdict, AfterCheck(w, verdict)) /\ body[w].op \in CheckOps
      BY AfterCheckFacts DEF PlaceOK
    <2>2. QED
      BY <1>1, <2>1, MetaOpsAre, HandlerLabelsAre DEF AfterOK, CheckOps, Checks, Owns
  <1>4. body'[w] = body[w]
    BY <1>1 DEF Advances
  <1>5. QED
    BY <1>1, <1>2, <1>3, <1>4, GoalFacts DEF ReadOK

LEMMA RowsCheck ==
    ASSUME TypeOK, RowInv, NEW w \in Requests, PlaceOK(w), ReadOK(w),
           CheckFind(w) \/ CheckPerms(w) \/ checkAnon(w)
    PROVE  RowInv' /\ ReadOK(w)'
  <1>1. CASE CheckFind(w)
    <2>1. pc[w] \in Checks /\ Advances(w)
      BY <1>1, CheckFindFacts DEF Checks
    <2>2. CASE Decide(w, "error", {})
      BY <2>1, <2>2, RowsDecide
    <2>3. CASE pc'[w] = "check.perms" /\ used' = used /\ UNCHANGED tables
      BY <2>1, <2>3, RowInvQuiet, ReadMoves DEF tables
    <2>4. QED
      BY <1>1, <2>2, <2>3, CheckFindFacts
  <1>2. CASE CheckPerms(w)
    <2> DEFINE rows == Granting(w, OwnRows(w))
    <2>1. pc[w] \in Checks /\ Advances(w) /\ rows \in SUBSET Perm
      BY <1>2, CheckPermsFacts, OwnedType DEF Checks
    <2>2. \A p \in rows : Stored(p) /\ p.verb = Goal(w).verb /\ matchesPattern(Goal(w).res, p.pat)
      BY RowsAreStored, GrantingFacts
    <2>3. \/ Decide(w, "yes", rows) \/ Decide(w, "no", {}) \/ Decide(w, "error", {})
          \/ pc'[w] = "check.anon" /\ used' = used /\ UNCHANGED tables
      BY <1>2, CheckPermsFacts
    <2> HIDE DEF rows
    <2>4. CASE Decide(w, "yes", rows) \/ Decide(w, "no", {}) \/ Decide(w, "error", {})
      BY <2>1, <2>2, <2>4, RowsDecide
    <2>5. CASE pc'[w] = "check.anon" /\ used' = used /\ UNCHANGED tables
      BY <2>1, <2>5, RowInvQuiet, ReadMoves DEF tables
    <2>6. QED
      BY <2>3, <2>4, <2>5
  <1>3. CASE checkAnon(w)
    <2> DEFINE rows == Granting(w, ListAnon)
    <2>1. pc[w] \in Checks /\ rows \in SUBSET Perm
      BY <1>3, checkAnonFacts, OwnedType DEF Checks
    <2>2. \A p \in rows : Stored(p) /\ p.verb = Goal(w).verb /\ matchesPattern(Goal(w).res, p.pat)
      BY RowsAreStored, GrantingFacts
    <2>3. Decide(w, "yes", rows) \/ Decide(w, "no", {}) \/ Decide(w, "error", {})
      BY <1>3, checkAnonFacts
    <2> HIDE DEF rows
    <2>4. QED
      BY <2>1, <2>2, <2>3, RowsDecide
  <1>4. QED
    BY <1>1, <1>2, <1>3

LEMMA GrantLinkCalls ==
    ASSUME TypeOK, NEW w \in Requests, PlaceOK(w), GrantLink(w)
    PROVE  /\ body[w].entries \in Seq(Entry) /\ loc[w].i \in 1 .. Len(body[w].entries)
           /\ pc[w] = "grant.link" /\ pc[w] \notin {"new", "done"} /\ body[w].op = "grant"
           /\ Valid(body[w])
           /\ AddPermission(w, body[w].entries, "grant.link") /\ "grant.link" \in Labels
  BY TypeOfBody DEF GrantLink, PlaceOK, Labels

LEMMA BootstrapLinkCalls ==
    ASSUME TypeOK, NEW w \in Requests, PlaceOK(w), BootstrapLink(w)
    PROVE  /\ bootstrapGrants \in Seq(Entry) /\ loc[w].i \in 1 .. Len(bootstrapGrants)
           /\ pc[w] = "user.link" /\ pc[w] \notin {"new", "done"} /\ body[w].op = "bootstrap"
           /\ AddPermission(w, bootstrapGrants, "user.link") /\ "user.link" \in Labels
  BY BootstrapGrantsType DEF BootstrapLink, PlaceOK, Labels

\* What an entry that passed the validation becomes.
LEMMA ValidEntry ==
    ASSUME TypeOK, NEW w \in Requests, body[w].op \in {"grant", "anonAdd"}, Valid(body[w]),
           NEW k \in 1 .. Len(body[w].entries)
    PROVE  ValidateAddPattern(body[w].entries[k].pat)
  BY TypeOfBody DEF Valid

LEMMA RowsGrant ==
    ASSUME TypeOK, RowInv, NEW w \in Requests, PlaceOK(w), ReadOK(w),
           GrantLink(w) \/ BootstrapLink(w) \/ AddAnonPermission(w)
    PROVE  RowInv' /\ ReadOK(w)'
  <1>1. CASE GrantLink(w)
    <2> DEFINE perm == PermOf(w, body[w].target, body[w].entries[loc[w].i])
    <2>1. /\ body[w].op = "grant" /\ ValidateAddPattern(body[w].entries[loc[w].i].pat)
      BY <1>1, GrantLinkCalls, ValidEntry
    <2>2. /\ Advances(w) /\ used' = used /\ UNCHANGED <<anon, caps>>
          /\ \A l \in links' : l \in links \/ l.perm = perm
          /\ pc'[w] \in {"done", "grant.link"}
      BY <1>1, GrantLinkCalls, AddPermissionFacts
    <2>3. perm.src = w /\ perm.pat = body[w].entries[loc[w].i].pat
      BY DEF PermOf
    <2> HIDE DEF perm
    <2>4. pc'[w] # "new" /\ body'[w] = body[w]
      BY <2>2 DEF Advances
    <2>5. \A q : q = perm => RowOK(q)'
      BY <2>1, <2>3, <2>4 DEF RowOK, Granters, Validated
    <2>6. Onward
      BY <2>2, AdvancesOnward
    <2>7. RowInv'
      BY <2>2, <2>5, <2>6, RowInvFrom
    <2>8. QED
      BY <2>2, <2>7, ReadMoves
  <1>2. CASE BootstrapLink(w)
    <2> DEFINE perm == PermOf(w, body[w].target, bootstrapGrants[loc[w].i])
    <2>1. body[w].op = "bootstrap"
      BY <1>2, BootstrapLinkCalls
    <2>2. /\ Advances(w) /\ used' = used /\ UNCHANGED <<anon, caps>>
          /\ \A l \in links' : l \in links \/ l.perm = perm
          /\ pc'[w] \in {"done", "user.link"}
      BY <1>2, BootstrapLinkCalls, AddPermissionFacts
    <2>3. perm.src = w
      BY DEF PermOf
    <2> HIDE DEF perm
    <2>4. pc'[w] # "new" /\ body'[w] = body[w]
      BY <2>2 DEF Advances
    <2>5. \A q : q = perm => RowOK(q)'
      BY <2>1, <2>3, <2>4 DEF RowOK, Granters, Validated
    <2>6. Onward
      BY <2>2, AdvancesOnward
    <2>7. RowInv'
      BY <2>2, <2>5, <2>6, RowInvFrom
    <2>8. QED
      BY <2>2, <2>7, ReadMoves
  <1>3. CASE AddAnonPermission(w)
    <2> DEFINE perm == PermOf(w, Anon, body[w].entries[loc[w].i])
    <2>1. /\ Advances(w) /\ used' = used /\ UNCHANGED <<links, caps>>
          /\ anon' = anon \cup {perm} /\ pc[w] = "anon.add" /\ pc'[w] \in {"done", "anon.add"}
      BY <1>3, AddAnonFacts DEF Continues
    <2>2. /\ body[w].op = "anonAdd" /\ Valid(body[w]) /\ loc[w].i \in 1 .. Len(body[w].entries)
      BY <2>1 DEF PlaceOK
    <2>3. ValidateAddPattern(body[w].entries[loc[w].i].pat)
      BY <2>2, ValidEntry
    <2>4. perm.src = w /\ perm.pat = body[w].entries[loc[w].i].pat
      BY DEF PermOf
    <2> HIDE DEF perm
    <2>5. pc'[w] # "new" /\ body'[w] = body[w]
      BY <2>1 DEF Advances
    <2>6. \A q : q = perm => RowOK(q)' /\ ValidateAddPattern(q.pat)
      BY <2>2, <2>3, <2>4, <2>5 DEF RowOK, Granters, Validated
    <2>7. Onward
      BY <2>1, AdvancesOnward
    <2>8. RowInv'
      BY <2>1, <2>6, <2>7, RowInvFrom
    <2>9. QED
      BY <2>1, <2>8, ReadMoves
  <1>4. QED
    BY <1>1, <1>2, <1>3

LEMMA RowsToken ==
    ASSUME TypeOK, RowInv, NEW w \in Requests, PlaceOK(w), ReadOK(w),
           AnonTokenList(w) \/ AnonTokenInsert(w) \/ IssueCapInsert(w)
    PROVE  RowInv' /\ ReadOK(w)'
  <1>1. CASE AnonTokenList(w)
    <2>1. /\ Advances(w) /\ pc[w] = "token.list" /\ UNCHANGED <<links, anon, caps>>
          /\ loc'[w].rows = ListAnon /\ used'[w] = used[w] \cup ListAnon /\ body' = body
      BY <1>1, AnonTokenListFacts DEF tables, Advances
    <2>2. \A p \in ListAnon : Stored(p) /\ p \in anon
      BY RowsAreStored
    <2>3. RowInv'
      BY <2>1, <2>2, RowInvRead
    <2>4. \A p \in loc'[w].rows : ValidateAddPattern(p.pat)
      BY <2>1, <2>2 DEF RowInv
    <2>5. body[w].op = "anonToken"
      BY <2>1 DEF PlaceOK
    <2>6. QED
      BY <2>1, <2>3, <2>4, <2>5 DEF ReadOK
  <1>2. CASE AnonTokenInsert(w)
    <2>1. /\ Advances(w) /\ pc[w] = "token.insert" /\ pc'[w] = "done" /\ used' = used
          /\ caps' = caps \cup {[id |-> w, issuer |-> 0, perms |-> Copies(w)]}
          /\ UNCHANGED <<links, anon>>
      BY <1>2, AnonTokenInsertFacts
    <2>2. /\ body[w].op = "anonToken" /\ body'[w] = body[w]
          /\ \A p \in loc[w].rows : ValidateAddPattern(p.pat)
      BY <2>1 DEF PlaceOK, ReadOK, Advances
    <2>3. ASSUME NEW q \in Copies(w)
          PROVE  RowOK(q)'
      <3>1. PICK p \in loc[w].rows : q = [p EXCEPT !.src = w, !.to = TokenOf(w)]
        BY DEF Copies
      <3>2. p \in Perm
        BY TypeOfLoc
      <3>3. q.src = w /\ q.pat = p.pat
        BY <3>1, <3>2 DEF Perm
      <3>4. QED
        BY <2>1, <2>2, <3>3 DEF RowOK, Granters, Validated
    <2>4. Onward
      BY <2>1, AdvancesOnward
    <2>5. RowInv'
      BY <2>1, <2>3, <2>4, RowInvFrom
    <2>6. QED
      BY <2>1, <2>5, ReadMoves
  <1>3. CASE IssueCapInsert(w)
    <2>1. /\ Advances(w) /\ pc[w] = "cap.insert" /\ pc'[w] = "done" /\ used' = used
          /\ \/ caps' = caps \cup {[id |-> w, issuer |-> loc[w].uid, perms |-> Asked(w)]}
             \/ caps' = caps
          /\ UNCHANGED <<links, anon>>
      BY <1>3, IssueCapInsertFacts
    <2>2. /\ body[w].op = "issueCap" /\ body'[w] = body[w]
          /\ \A k \in DOMAIN body[w].entries : Covered(w, k)
      BY <2>1, TypeOfBody DEF PlaceOK, Advances
    <2>3. ASSUME NEW q \in Asked(w)
          PROVE  RowOK(q)'
      <3>1. PICK k \in DOMAIN body[w].entries :
              q = [src |-> w, to |-> TokenOf(w), key |-> <<w, k>>, verb |-> body[w].entries[k].verb,
                   pat |-> body[w].entries[k].pat, expires |-> body[w].entries[k].expires]
        BY DEF Asked
      <3>2. q.src = w /\ q.verb = body[w].entries[k].verb /\ q.pat = body[w].entries[k].pat
        BY <3>1
      <3>3. \E r \in used[w] : r.verb = q.verb /\ matchesPattern(q.pat, r.pat)
        BY <2>2, <3>2 DEF Covered
      <3>4. QED
        BY <2>1, <2>2, <3>2, <3>3 DEF RowOK, Granters, Validated
    <2>4. Onward
      BY <2>1, AdvancesOnward
    <2>5. RowInv'
      BY <2>1, <2>3, <2>4, RowInvFrom
    <2>6. QED
      BY <2>1, <2>5, ReadMoves
  <1>4. QED
    BY <1>1, <1>2, <1>3

LEMMA RowsStep ==
    ASSUME TypeOK, RowInv, NEW w \in Requests, PlaceOK(w), ReadOK(w), Step(w)
    PROVE  RowInv' /\ ReadOK(w)'
  <1>1. CASE CheckFind(w) \/ CheckPerms(w) \/ checkAnon(w)
    BY <1>1, RowsCheck
  <1>2. CASE GrantLink(w) \/ BootstrapLink(w) \/ AddAnonPermission(w)
    BY <1>2, RowsGrant
  <1>3. CASE AnonTokenList(w) \/ AnonTokenInsert(w) \/ IssueCapInsert(w)
    BY <1>3, RowsToken
  <1>4. ASSUME Advances(w), pc'[w] # "token.insert", used' = used,
               links' \subseteq links, anon' \subseteq anon, caps' \subseteq caps
        PROVE  RowInv' /\ ReadOK(w)'
    BY <1>4, RowInvQuiet, ReadMoves
  <1>5. CASE OwnFind(w)
    BY <1>4, <1>5, OwnFindFacts DEF Looks, tables
  <1>6. CASE GrantFind(w)
    BY <1>4, <1>6, GrantFindFacts DEF Looks, tables
  <1>7. CASE QueryFind(w)
    BY <1>4, <1>7, QueryFindFacts DEF Looks, tables
  <1>8. CASE DeleteUserFind(w)
    BY <1>4, <1>8, DeleteUserFindFacts DEF Looks, tables
  <1>9. CASE RevokeRead(w)
    BY <1>4, <1>9, RevokeReadFacts DEF Continues, tables
  <1>10. CASE RevokeDelete(w)
    <2>1. Advances(w) /\ used' = used /\ anon' = anon /\ caps' = caps /\ links' \subseteq links
      BY <1>10, RevokeDeleteFacts
    <2>2. pc'[w] # "token.insert"
      BY <1>10, RevokeDeleteFacts DEF Continues
    <2>3. QED
      BY <1>4, <2>1, <2>2
  <1>11. CASE DeleteAnonPermission(w)
    <2>1. /\ Advances(w) /\ used' = used /\ links' = links /\ caps' = caps /\ anon' \subseteq anon
          /\ pc'[w] = "done"
      BY <1>11, DeleteAnonFacts
    <2>2. QED
      BY <1>4, <2>1
  <1>12. CASE CreateUser(w)
    BY <1>4, <1>12, CreateUserFacts
  <1>13. CASE DeleteUserExec(w)
    <2>1. /\ Advances(w) /\ used' = used /\ links' \subseteq links /\ caps' \subseteq caps /\ anon' = anon
          /\ pc'[w] = "done"
      BY <1>13, DeleteUserExecFacts
    <2>2. QED
      BY <1>4, <2>1
  <1>14. ASSUME NEW rows, Advances(w), pc'[w] # "token.insert", used'[w] = used[w] \cup rows,
                \A p \in rows : Stored(p), UNCHANGED tables, body[w].op # "use"
         PROVE  RowInv' /\ ReadOK(w)'
    BY <1>14, RowInvRead, ReadMoves DEF tables
  <1>15. CASE OwnPerms(w)
    <2>1. body[w].op # "use"
      BY <1>15, OwnPermsFacts DEF PlaceOK, Owns
    <2>2. QED
      BY <1>14, <1>15, <2>1, OwnPermsFacts, RowsAreStored
  <1>16. CASE OwnAnon(w)
    <2>1. body[w].op # "use" /\ pc'[w] # "token.insert"
      BY <1>16, OwnAnonFacts DEF PlaceOK, Owns, Checks
    <2>2. QED
      BY <1>14, <1>16, <2>1, OwnAnonFacts, RowsAreStored
  <1>17. CASE ListAnonPermissions(w)
    <2>1. body[w].op # "use"
      BY <1>17, ListAnonFacts DEF PlaceOK
    <2>2. QED
      BY <1>14, <1>17, <2>1, ListAnonFacts, RowsAreStored
  <1>18. CASE QueryPerms(w)
    <2>1. body[w].op # "use"
      BY <1>18, QueryPermsFacts DEF PlaceOK
    <2>2. QED
      BY <1>14, <1>18, <2>1, QueryPermsFacts, RowsAreStored
  <1>19. QED
    BY <1>1, <1>2, <1>3, <1>5, <1>6, <1>7, <1>8, <1>9, <1>10, <1>11, <1>12, <1>13, <1>15, <1>16,
       <1>17, <1>18 DEF Step

LEMMA RowsArrive ==
    ASSUME TypeOK, RowInv, NEW w \in Requests, PlaceOK(w), Arrive(w)
    PROVE  RowInv' /\ ReadOK(w)' /\ Onward
  <1>1. /\ Others(w) /\ pc[w] = "new" /\ used' = used /\ UNCHANGED <<links, anon, caps>>
        /\ body'[w] \in Bodies
        /\ \/ pc'[w] = EntryLabel(body'[w])
           \/ pc'[w] = "done"
    BY ArriveFacts DEF tables
  <1>2. Onward
    BY <1>1 DEF Onward, Others
  <1>3. RowInv'
    BY <1>1, <1>2, RowInvFrom
  <1>4. used'[w] = {}
    BY <1>1 DEF PlaceOK
  <1>5. pc'[w] # "token.insert"
    <2>1. EntryOK(body'[w]) /\ body'[w].op \in Ops \ {"idle"}
      BY <1>1, EntryFacts, AuthzAssumption DEF Body
    <2>2. QED
      BY <1>1, <2>1 DEF EntryOK, Ops, Checks, Owns
  <1>6. QED
    BY <1>2, <1>3, <1>4, <1>5 DEF ReadOK

LEMMA RowsFail ==
    ASSUME TypeOK, RowInv, NEW w \in Requests, PlaceOK(w), ReadOK(w), Fail(w)
    PROVE  RowInv' /\ ReadOK(w)'
  <1>1. Advances(w) /\ UNCHANGED <<links, anon, caps>>
    BY FailFacts DEF tables
  <1>2. CASE pc'[w] = "done" /\ used' = used
    BY <1>1, <1>2, RowInvQuiet, ReadMoves
  <1>3. CASE pc[w] \in Checks /\ Decide(w, "error", {})
    BY <1>3, RowsDecide
  <1>4. QED
    BY <1>2, <1>3, FailFacts

Inv == TypeOK /\ PlaceInv /\ RowInv /\ ReadInv

LEMMA InitInv == Init => Inv
  <1> SUFFICES ASSUME Init PROVE Inv
    OBVIOUS
  <1>1. TypeOK /\ PlaceInv
    BY InitType, InitPlace
  <1>2. \A l \in links : l.perm.src = None
    BY AuthzAssumption DEF Init
  <1>3. \A p \in anon : p.src = None /\ ValidateAddPattern(p.pat)
    BY AuthzAssumption DEF Init
  <1>4. caps = {} /\ \A w \in Requests : used[w] = {} /\ pc[w] = "new"
    BY DEF Init
  <1>5. RowInv
    BY <1>2, <1>3, <1>4 DEF RowInv, RowOK
  <1>6. ReadInv
    BY <1>4 DEF ReadInv, ReadOK
  <1>7. QED
    BY <1>1, <1>5, <1>6 DEF Inv

LEMMA NextInv ==
    ASSUME Inv, [Next]_vars
    PROVE  Inv'
  <1>1. TypeOK /\ PlaceInv /\ RowInv /\ ReadInv
    BY DEF Inv
  <1>2. TypeOK' /\ PlaceInv'
    BY <1>1, NextPlace
  <1>3. \A w \in Requests : PlaceOK(w) /\ ReadOK(w)
    BY <1>1 DEF PlaceInv, ReadInv
  <1>4. ASSUME NEW w \in Requests, Arrive(w)
        PROVE  RowInv' /\ ReadInv'
    <2>1. RowInv' /\ ReadOK(w)' /\ Others(w)
      BY <1>1, <1>3, <1>4, RowsArrive, ArriveFacts
    <2>2. QED
      BY <1>3, <2>1, ReadKept DEF ReadInv
  <1>5. ASSUME NEW w \in Requests, Step(w) \/ Fail(w)
        PROVE  RowInv' /\ ReadInv'
    <2>1. RowInv' /\ ReadOK(w)' /\ Others(w)
      BY <1>1, <1>3, <1>5, RowsStep, RowsFail, PlaceStep, FailFacts DEF Advances
    <2>2. QED
      BY <1>3, <2>1, ReadKept DEF ReadInv
  <1>6. ASSUME links' = links, anon' = anon, caps' = caps, pc' = pc, body' = body, loc' = loc,
               used' = used
        PROVE  RowInv' /\ ReadInv'
    <2>1. Onward
      BY <1>6 DEF Onward
    <2>2. RowInv'
      BY <1>1, <1>6, <2>1, RowInvFrom
    <2>3. ReadInv'
      BY <1>1, <1>6 DEF ReadInv, ReadOK
    <2>4. QED
      BY <2>2, <2>3
  <1>7. ASSUME Expire
        PROVE  RowInv' /\ ReadInv'
    <2>1. /\ links' = links /\ anon' = anon /\ caps' = caps /\ pc' = pc /\ body' = body /\ loc' = loc
          /\ used' = used
      BY <1>1, <1>7, ExpireFacts
    <2>2. QED
      BY <1>6, <2>1
  <1>8. ASSUME UNCHANGED vars
        PROVE  RowInv' /\ ReadInv'
    <2>1. /\ links' = links /\ anon' = anon /\ caps' = caps /\ pc' = pc /\ body' = body /\ loc' = loc
          /\ used' = used
      BY <1>8 DEF vars, tables, history
    <2>2. QED
      BY <1>6, <2>1
  <1>9. RowInv' /\ ReadInv'
    BY <1>4, <1>5, <1>7, <1>8 DEF Next, Terminated
  <1>10. QED
    BY <1>2, <1>9 DEF Inv

LEMMA InvHolds == Spec => []Inv
  <1>1. Inv /\ [Next]_vars => Inv'
    BY NextInv
  <1>2. QED
    BY <1>1, InitInv, PTL DEF Spec

-----------------------------------------------------------------------------
(* What follows. *)

\* ValidateAddPattern and IssueCapabilityToken: however many grants, anonymous
\* permissions and tokens overlap, whoever is allowed to act on the reserved
\* namespace, or shown it, owes it to a bootstrap, to what was there before, to
\* a partial glob for a namespace, or to a token whose issuer held such a glob
\* or reached the reserved namespace with that verb already.
THEOREM ReservedComesByGlob == Spec => []ReservedOnlyByGlob
  <1>1. ASSUME Inv PROVE ReservedOnlyByGlob
    <2>1. TypeOK /\ RowInv
      BY <1>1 DEF Inv
    <2>2. SUFFICES ASSUME NEW w \in Requests, NEW p \in used[w], NEW n \in MetaNames,
                          matchesPattern([ns |-> Reserved, name |-> n], p.pat),
                          p.pat.ns \notin Globs,
                          OpOf(p.src) \notin {"initial", "bootstrap"}
                   PROVE  /\ OpOf(p.src) = "issueCap"
                          /\ \E q \in used[p.src] :
                               /\ q.verb = p.verb
                               /\ q.pat.ns \in Globs \/ SegmentMatch(q.pat.ns, Reserved)
      BY DEF ReservedOnlyByGlob
    <2>3. RowOK(p) /\ p \in Perm /\ p.pat \in Pattern
      BY <2>1 DEF RowInv, TypeOK, Perm
    <2>4. ~ValidateAddPattern(p.pat) /\ p.pat.ns \in {Star, Reserved}
      BY <2>2, <2>3, ReachesReserved
    <2>5. /\ p.src # None /\ p.src \in Requests /\ body[p.src].op = "issueCap"
          /\ OpOf(p.src) = "issueCap"
      BY <2>2, <2>3, <2>4 DEF RowOK, OpOf, Granters, Validated, Perm
    <2>6. PICK q \in used[p.src] : q.verb = p.verb /\ matchesPattern(p.pat, q.pat)
      BY <2>3, <2>5 DEF RowOK
    <2>7. q.pat \in Pattern
      BY <2>1, <2>5 DEF TypeOK, Perm
    <2>8. QED
      BY <2>3, <2>4, <2>5, <2>6, <2>7, CoversReserved
  <1>2. QED
    BY <1>1, InvHolds, PTL

\* IssueCapabilityToken: whatever a capability token is used for was allowed to
\* its issuer by a permission that the issuing request found, although entries
\* are checked one by one while permissions come and go; the one exception is
\* an entry that is a wildcard and whose text a partial glob of the issuer
\* matches, because patterns are checked as if they were resources.
THEOREM CapsExceedByGlobsAlone == Spec => []CapExceedsOnlyByGlob
  <1>1. ASSUME Inv PROVE CapExceedsOnlyByGlob
    <2>1. TypeOK /\ RowInv /\ ReadInv
      BY <1>1 DEF Inv
    <2>2. SUFFICES ASSUME NEW w \in Requests, NEW p \in used[w], body[w].op = "use",
                          OpOf(p.src) = "issueCap"
                   PROVE  \E q \in used[p.src] :
                            /\ q.verb = body[w].verb
                            /\ \/ matchesPattern(body[w].res, q.pat)
                               \/ HasGlob(q.pat) /\ IsWild(p.pat) /\ matchesPattern(p.pat, q.pat)
      BY DEF CapExceedsOnlyByGlob
    <2>3. RowOK(p) /\ p \in Perm /\ p.pat \in Pattern
      BY <2>1 DEF RowInv, TypeOK, Perm
    <2>4. p.src # None /\ body[p.src].op = "issueCap" /\ p.src \in Requests
      BY <2>2, <2>3 DEF OpOf, Perm
    <2>5. PICK q \in used[p.src] : q.verb = p.verb /\ matchesPattern(p.pat, q.pat)
      BY <2>3, <2>4 DEF RowOK
    <2>6. p.verb = body[w].verb /\ matchesPattern(body[w].res, p.pat)
      BY <2>1, <2>2 DEF ReadInv, ReadOK
    <2>7. q.pat \in Pattern /\ body[w].res \in Pattern
      BY <2>1, <2>4, TypeOfBody DEF TypeOK, Perm
    <2>8. QED
      BY <2>3, <2>5, <2>6, <2>7, MatchCovers
  <1>2. QED
    BY <1>1, InvHolds, PTL
=============================================================================
