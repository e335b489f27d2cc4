---------------------------- MODULE MCCredentials ----------------------------
(***************************************************************************)
(* Small instances of Credentials for TLC.                                 *)
(***************************************************************************)
EXTENDS Credentials, TLC

CONSTANTS alice, bob, pw

Names == {alice, bob}
OnePassword == {pw}
JustAlice == {[id |-> 1, name |-> alice, pass |-> pw]}
AliceAndBob == JustAlice \cup {[id |-> 2, name |-> bob, pass |-> pw]}

MCBody(op, bearer, target) ==
    [op |-> op, bearer |-> bearer, target |-> target, user |-> None, pass |-> None,
     expires |-> FALSE]

Login == {[MCBody("login", None, None) EXCEPT !.user = u.name, !.pass = u.pass] :
            u \in InitialUsers}

WithBearer(ops) == {MCBody(op, t, None) : op \in ops, t \in Requests}

\* A client refreshes a session under any token it has.
Refreshes == {MCBody("refresh", t, u) : t, u \in Requests}

Deletions == {[b EXCEPT !.user = alice] : b \in WithBearer({"deleteUser"})}
Creations == {[b EXCEPT !.user = alice, !.pass = pw] : b \in WithBearer({"createUser"})}

\* The life of sessions and anonymous tokens.
SessionBodies ==
    Login \cup Refreshes \cup WithBearer({"logout"})
      \cup Deletions \cup Creations
      \cup {MCBody(op, None, None) : op \in {"logout", "anon"}}

\* The life of PATs and capability tokens.
TokenBodies ==
    Login \cup WithBearer({"issueCap", "access"})
      \cup {[b EXCEPT !.expires = TRUE] : b \in WithBearer({"issuePAT"})}
      \cup {MCBody(op, t, u) : op \in {"revokePAT", "revokeCap"}, t, u \in Requests}
      \cup Deletions

Symmetry == Permutations(Requests)
=============================================================================
