--------------------------- MODULE MCResourceStore ---------------------------
(***************************************************************************)
(* Small instances of ResourceStore for TLC.                               *)
(***************************************************************************)
EXTENDS ResourceStoreRefinement, TLC

CONSTANTS n1, nameA, nameB

OneNs == {n1}
OneName == {nameA}
TwoNames == {nameA, nameB}

MCBody(op, name, type, num, uuid) ==
    [op |-> op, ns |-> n1, name |-> name, type |-> type, num |-> num, uuid |-> uuid]

\* A field that the handler of op does not read has one value.
Puts(names) == {MCBody("put", n, t, 0, None) : n \in names, t \in Types}
Simple(op, names) == {MCBody(op, n, "cleartext", 0, None) : n \in names}

\* Everything that changes the tables, on one name.
WriteBodies ==
    Puts(OneName) \cup Simple("delete", OneName)
      \cup Simple("nsCreate", OneName) \cup Simple("nsDelete", OneName)

\* The whole API on one name, and writers of another.
AllBodies ==
    WriteBodies \cup Simple("put", TwoNames) \cup Simple("get", OneName) \cup Simple("listVersions", OneName)
      \cup {MCBody("getVersion", nameA, "cleartext", i, None) : i \in 1 .. 2}
      \cup {MCBody(op, nameA, "cleartext", 0, u) :
               op \in {"getByUUID", "getByVersionUUID"}, u \in Requests}

\* The bodies of the runs in which the code and its documentation differ.
NsDeletes == Simple("nsDelete", OneName)
NsCreates == Simple("nsCreate", OneName)
PutsOfA == Puts(OneName)
PutsAndDeletes == Simple("put", OneName) \cup Simple("delete", OneName)
VersionsByUUID ==
    Simple("put", TwoNames)
      \cup {MCBody("getByVersionUUID", nameA, "cleartext", 0, u) : u \in Requests}

Symmetry == Permutations(Requests) \cup Permutations(KEKs)
=============================================================================
