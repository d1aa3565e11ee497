---------------------------- MODULE SuccessionLife ----------------------------
(***************************************************************************)
(* What succession promises of an organization's roles: at most one case is *)
(* in its grace period; a case is settled once and for good; completing it  *)
(* and handing its owner's role to its successor are one step; nothing else *)
(* about it touches a role.                                                 *)
(***************************************************************************)
CONSTANTS Member, Case, Role

VARIABLES
    role,      \* account -> role
    stage,     \* case -> "none", "grace" or how it was settled
    party      \* case -> <<owner, successor>>

Init ==
    /\ role \in [Member -> Role]
    /\ stage = [c \in Case |-> "none"]
    /\ party \in [Case -> (Member \X Member) \cup {<<>>}]

Open(c) ==
    /\ stage[c] = "none"
    /\ \A d \in Case : stage[d] # "grace"
    /\ stage' = [stage EXCEPT ![c] = "grace"]
    /\ \E p \in Member \X Member : party' = [party EXCEPT ![c] = p]
    /\ UNCHANGED role

CallOff(c) ==
    /\ stage[c] = "grace"
    /\ \E how \in {"cancelled", "superseded"} :
           stage' = [stage EXCEPT ![c] = how]
    /\ UNCHANGED <<role, party>>

HandOver(c) ==
    /\ stage[c] = "grace"
    /\ role[party[c][1]] = "owner"
    /\ role[party[c][2]] \in {"admin", "member"}
    /\ stage' = [stage EXCEPT ![c] = "completed"]
    /\ role' = [role EXCEPT ![party[c][1]] = "admin", ![party[c][2]] = "owner"]
    /\ UNCHANGED party

\* The roster changes by other means.
Reassign ==
    /\ \E m \in Member, r \in Role : role' = [role EXCEPT ![m] = r]
    /\ UNCHANGED <<stage, party>>

Next == Reassign \/ \E c \in Case : Open(c) \/ CallOff(c) \/ HandOver(c)

Spec == Init /\ [][Next]_<<role, stage, party>>
=============================================================================
