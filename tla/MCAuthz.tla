------------------------------ MODULE MCAuthz ------------------------------
(***************************************************************************)
(* A small instance of Authz: an administrator, a user and a service       *)
(* account, two namespaces, and requests about them.                       *)
(***************************************************************************)
EXTENDS Authz, TLC

\* Globs, and what path.Match makes of them on the segments of this instance:
\* the backslash quotes "_", and "[" lacks its other end.
MCGlobs == {"n*", "n?", "?", "\\_", "["}
MCExpands ==
    [g \in MCGlobs |->
       CASE g = "n*"   -> {"n1", "n22", "n*", "n?", "ns"}
         [] g = "n?"   -> {"n1", "n*", "n?", "ns"}
         [] g = "?"    -> {"_", "*", "?", "["}
         [] g = "\\_" -> {"_"}
         [] g = "["    -> {}]
MCEscaped == {"\\_"}

Root == [kind |-> "user", name |-> "root"]
Alice == [kind |-> "user", name |-> "alice"]
AlicePAT == [kind |-> "pat", name |-> "alice"]
SA == [kind |-> "sa", name |-> "s"]

rootRow == [id |-> 1, kind |-> "user", name |-> "root"]
aliceRow == [id |-> 2, kind |-> "user", name |-> "alice"]
saRow == [id |-> 3, kind |-> "sa", name |-> "s"]

MCPrincipals == {rootRow, aliceRow, saRow}

At(ns, name) == [ns |-> ns, name |-> name]
E(verb, ns, name) == [verb |-> verb, pat |-> At(ns, name), expires |-> FALSE]
Expiring(verb, ns, name) == [E(verb, ns, name) EXCEPT !.expires = TRUE]

Earlier(owner, to, k, e) ==
    [owner |-> owner,
     perm |-> [src |-> None, to |-> to, key |-> <<None, k>>, verb |-> e.verb,
               pat |-> e.pat, expires |-> e.expires]]

\* root was bootstrapped and has lost what these requests do not ask for;
\* alice may read one resource and list what a glob matches; everyone may list
\* a namespace, and so may the service account, which also has a malformed
\* pattern.
MCGrants ==
    {Earlier(rootRow, Root, 10 + k, bootstrapGrants[k]) : k \in {2, 3, 4, 6}}
    \cup {Earlier(aliceRow, Alice, 2, E("read", "n1", "r1")),
          Earlier(aliceRow, Alice, 3, E("list", "n?", "*")),
          Earlier(saRow, SA, 4, E("list", "n1", "*")),
          Earlier(saRow, SA, 5, E("list", "[", "*")),
          Earlier(Anon, Anon, 1, E("list", "n1", "*"))}

Do(op, caller) == [Idle EXCEPT !.op = op, !.caller = caller]
To(op, target, entries) == [Idle EXCEPT !.op = op, !.caller = Root, !.target = target, !.entries = entries]
Use(caller, verb, ns, name) == [Do("use", caller) EXCEPT !.verb = verb, !.res = At(ns, name)]

MCBodies ==
    {To("grant", Alice, <<E("read", "n1", "r1"), Expiring("list", "\\_", "ns")>>),
     To("grant", Alice, <<E("read", "*", "*")>>),
     To("revoke", Alice, <<E("read", "n1", "*"), E("list", "n?", "*")>>),
     To("anonAdd", Anon, <<E("read", "n1", "r1")>>),
     To("bootstrap", Alice, <<>>), To("delete", Alice, <<>>),
     To("query", Alice, <<>>),
     Do("anonInfo", Anon), Do("anonToken", Anon), Do("nslist", Alice),
     [Do("nsquery", SA) EXCEPT !.res = At("n1", "*")],
     [Do("issueCap", Alice) EXCEPT !.entries = <<E("read", "n1", "r1"), E("list", "n*", "*")>>],
     Use(AlicePAT, "read", "n1", "r1")}
    \cup {[To("anonDel", Anon, <<>>) EXCEPT !.ref = w] : w \in Requests}
    \cup {Use(TokenOf(w), "list", "n22", "r1") : w \in Requests}

\* The grants of a pattern that matches the reserved namespace, and its use.
ReservedBodies ==
    {To("grant", Alice, <<E("write", "?", "users")>>),
     [To("anonAdd", Anon, <<E("read", "n1", "r1")>>) EXCEPT !.caller = Alice]}

\* A partial glob, and a token issued and used on the strength of it.
CapBodies ==
    {To("grant", Alice, <<E("list", "n?", "r1")>>),
     [Do("issueCap", Alice) EXCEPT !.entries = <<E("list", "n*", "r1")>>]}
    \cup {Use(TokenOf(w), "list", "n22", "r1") : w \in Requests}

Symmetry == Permutations(Requests)
=============================================================================
