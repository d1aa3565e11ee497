----------------------------- MODULE Organization -----------------------------
(***************************************************************************)
(* The roster of an organization under everything that changes it: direct   *)
(* changes, invitations and succession, whose requests interleave.          *)
(***************************************************************************)
EXTENDS Succession, OrgInvites

CONSTANT MaxCrowd   \* bound on the requests that run at one time

orgVars == <<vars, invites>>

OrgInit == Init /\ InvitesInit

Crowd == Busy + Cardinality({p \in Post : sending[p] # NotSending})
              + Cardinality({g \in Guest : answer[g] # NoAnswer})

\* Letters are written and answered; the rest goes on between.
Invitation ==
    /\ InvitesNext
    /\ UNCHANGED <<ledger, seen, clock, req>>
    /\ Crowd' <= MaxCrowd

Others ==
    /\ Next
    /\ UNCHANGED invites
    /\ Crowd' <= MaxCrowd

OrgNext == Others \/ Invitation

OrgSpec == OrgInit /\ [][OrgNext]_orgVars

-----------------------------------------------------------------------------
(* Properties. *)

\* An invitation adds, with the role an owner, or for a member's role an admin,
\* put in it, and only who has no role yet: it never lowers one.
Invited(m) ==
    /\ role[m] = "none"
    /\ \/ \E p \in Post : sending[p].at = "address" /\ sending[p].by = "owner"
       \/ \E g \in Guest : /\ answer[g].at = "accept" /\ answer[g].by = m
                           /\ letter[answer[g].letter].by = "owner"

\* An administrative role is given only by an owner's request, by an owner's
\* invitation to one who is no member, or by a case of succession whose
\* conditions hold at that moment (its owner becomes an admin).
AdminsAreEarned ==
    [][\A m \in Member :
          role'[m] \in {"owner", "admin"} /\ role'[m] # role[m] =>
              Given(m) \/ Invited(m) \/ Earned(m)]_orgVars

\* What the code claims and does not do.
\* entry.py:25390: accepting enforces single use.
SingleUse ==
    [][\A g \in Guest :
          answer[g].at = "accept" /\ answer'[g].at = "accepted" =>
              letter[answer[g].letter].status # "accepted"]_orgVars
=============================================================================
