----------------------------- MODULE MCPolicies -----------------------------
(***************************************************************************)
(* Three policies of one collection, with a chain of requirements that     *)
(* their weights contradict, or with none.                                 *)
(***************************************************************************)
EXTENDS Policies

CONSTANTS p1, p2, p3, c1, root

PolicyWeight == (p1 :> 2) @@ (p2 :> 1) @@ (p3 :> 3)
CollectionParent == c1 :> root
CollectionOrder == c1 :> 0

Together == [p \in Policies |-> c1]
On(p, result) == [task |-> p, result |-> result]
Reqs(a, b, c) == (p1 :> a) @@ (p2 :> b) @@ (p3 :> c)

NoRequirements == {[coll |-> Together, reqs |-> Reqs({}, {}, {})]}
Chain == {[coll |-> Together,
           reqs |-> Reqs({}, {On(p1, "only_failed")}, {On(p2, "only_success")})]}
=============================================================================
