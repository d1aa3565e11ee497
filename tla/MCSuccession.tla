----------------------------- MODULE MCSuccession -----------------------------
(***************************************************************************)
(* An instance: an owner, a successor and two members who may approve.      *)
(***************************************************************************)
EXTENDS Succession, TLC

CONSTANTS ann, ben, cat, dan, r1, r2

AnnOwns == (ann :> "owner") @@ (ben :> "admin") @@ [m \in Member \ {ann, ben} |-> "member"]

\* The approver leaves.
Leaves == {<<cat, "none">>}

Symmetric == Permutations({r1, r2})
=============================================================================
