----------------------------- MODULE MCOperator -----------------------------
(***************************************************************************)
(* A small instance of Operator: two CRs that name the same Secret, one of *)
(* which can be edited to use another key or to be invalid.                *)
(***************************************************************************)
EXTENDS Operator

S(ok, key) == [ok |-> ok, path |-> "p1", target |-> "t1", key |-> key]

MCSpecs == {S(TRUE, "k1"), S(TRUE, "k2"), S(FALSE, "k1")}
MCFirstSpecs == {S(TRUE, "k1")}
=============================================================================
