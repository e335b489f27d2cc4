------------------------------ MODULE MCSASync ------------------------------
(***************************************************************************)
(* Small instances of SASync.                                              *)
(***************************************************************************)
EXTENDS SASync

MCExpands == [g \in {} |-> {}]

P(verb, raw) == [verb |-> verb, raw |-> raw]
List(entries, values) == [form |-> "list", entries |-> entries, values |-> values]

\* Two revisions that agree on one permission of s1.  The first one gives it
\* another, has a pattern and a verb to be skipped; the
\* other one also lists s2, and the empty text among the tokens.
MCFirst ==
    List(<<[sa |-> "s1", permissions |-> {P("read", <<"api", "v1", "n1", "r1">>),
                                          P("write", <<"n1", "r1">>),
                                          P("read", <<"*", "*">>),
                                          P("own", <<"n1", "r1">>)}]>>, {"*"})
MCCMStates == {[there |-> TRUE, content |-> MCFirst]}
MCContents ==
    {MCFirst,
     List(<<[sa |-> "s1", permissions |-> {P("read", <<"n1", "r1">>)}],
            [sa |-> "s2", permissions |-> {P("read", <<"n2", "*">>)}]>>, {"v1", ""}),
     [form |-> "bad", entries |-> <<>>, values |-> {}],
     [form |-> "empty", entries |-> <<>>, values |-> {}]}

MCPresents == [c \in {"c1"} |-> "s2"]
MCAdminPerms == {[verb |-> "read", pat |-> [ns |-> "n1", name |-> "r1"]]}
=============================================================================
