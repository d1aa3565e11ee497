---------------------------- MODULE MCOrganization ----------------------------
(***************************************************************************)
(* Instances: an owner, a successor and two members who may approve, or one *)
(* owner and two others.                                                    *)
(***************************************************************************)
EXTENDS Organization, TLC

CONSTANTS ann, ben, cat, dan

AnnOwns == (ann :> "owner") @@ (ben :> "admin") @@ [m \in {cat, dan} |-> "member"]

\* The owner steps back, an approver becomes an owner or leaves.
Reshuffle == {<<ann, "member">>, <<cat, "owner">>, <<cat, "none">>}

\* Two owners, each of whom steps back.
TwoOwn == [m \in Member |-> IF m \in {ann, ben} THEN "owner" ELSE "member"]
StepBack == {<<ann, "member">>, <<ben, "none">>}

Transfer == {"configure", "activate", "approve", "finalize"}
=============================================================================
