---------------------------- MODULE Permissions ----------------------------
(***************************************************************************)
(* Resource patterns and what is done with them: the match of a permission *)
(* check (internal/authz), the match of a revocation (internal/store) and  *)
(* the validations before a pattern is stored.                             *)
(*                                                                         *)
(* A pattern, or a resource, is a pair of path segments.  A segment is a   *)
(* literal name, the star, the reserved namespace, or a partial glob such  *)
(* as "names-*", of which only the set of texts it matches is kept.  That  *)
(* may be any text: another name, "_", "*", or the text of another glob.   *)
(***************************************************************************)
EXTENDS Naturals, Sequences

CONSTANTS
    Literals,  \* names of namespaces and resources
    Globs,     \* segments with a metacharacter of path.Match, except the star
    Expands,   \* Expands[g]: the segments whose text the glob g matches
    Malformed, \* globs that path.Match refuses, such as "["
    Escaped    \* globs whose only metacharacter is the backslash

Verbs == {"list", "read", "write", "delete"}

Star == "*"
Reserved == "_"
MetaNames == {"users", "sa", "ns"}

Segments == Literals \cup Globs \cup MetaNames \cup {Star, Reserved}

Pattern == [ns : Segments, name : Segments]

ASSUME PermAssumption ==
    /\ Literals \cup Globs \subseteq STRING
    /\ Literals \cap (Globs \cup MetaNames \cup {Star, Reserved}) = {}
    /\ Globs \cap (MetaNames \cup {Star, Reserved}) = {}
    /\ Expands \in [Globs -> SUBSET Segments]
    /\ Malformed \cup Escaped \subseteq Globs

\* path.Match on one segment; a glob need not match its own text.
SegmentMatch(p, s) ==
    \/ p = Star
    \/ p \notin Globs /\ p = s
    \/ p \in Globs /\ s \in Expands[p]

\* ErrBadPattern, which path.Match returns whether or not the rest matches.
BadPattern(pat) == {pat.ns, pat.name} \cap Malformed # {}

matchesPattern(res, pat) ==
    \/ pat.ns = Star /\ pat.name = Star
    \/ /\ ~BadPattern(pat)
       /\ SegmentMatch(pat.ns, res.ns) /\ SegmentMatch(pat.name, res.name)

\* A revocation compares patterns as text; only the star is special in it.
matchesDeletePattern(existing, del) ==
    /\ del.ns \in {Star, existing.ns}
    /\ del.name \in {Star, existing.name}

\* Mutation: only the reserved namespace is refused.
ValidateAddPatternLax(pat) == pat.ns # Reserved

ValidateAddPattern(pat) == pat.ns \notin {Star, Reserved}

ValidateDeletePattern(pat) == pat.ns # Reserved

\* What the sync of service accounts lets through.
ValidateResourcePattern(pat) == pat.ns \notin {Star, Reserved}

\* A raw pattern is a sequence of path parts; an API path is accepted for a
\* pattern, and anything that is not two parts is refused (the empty set).
NormalizeResource(raw) ==
    LET parts == IF Len(raw) >= 2 /\ raw[1] = "api" /\ raw[2] = "v1"
                 THEN SubSeq(raw, 3, Len(raw)) ELSE raw
    IN IF Len(parts) = 2 THEN {[ns |-> parts[1], name |-> parts[2]]} ELSE {}

\* A namespace that a listing can name: no "*", "?" or "[" in it.
IsLiteralNamespace(ns) == ns \notin (Globs \ Escaped) \cup {Star, Reserved}

\* The grants of a user created with a bootstrap token, in the code's order.
bootstrapGrants ==
    LET On(name, verbs) ==
          [k \in DOMAIN verbs |->
             [verb |-> verbs[k], pat |-> [ns |-> Reserved, name |-> name], expires |-> FALSE]]
    IN On("users", <<"list", "read", "write", "delete">>)
       \o On("sa", <<"list", "read">>)
       \o On("ns", <<"list", "read", "write", "delete">>)
=============================================================================
