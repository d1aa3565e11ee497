------------------------------ MODULE OrgInvites ------------------------------
(***************************************************************************)
(* Invitations to an organization by email (org_invitations_handler and     *)
(* org_invitation_action_handler, entry.py), over the roster they add to.   *)
(* Letters all go to one address, so at most one is pending; whoever holds  *)
(* a letter may answer it.  As in OrgRoster, a statement is a step.         *)
(***************************************************************************)
EXTENDS OrgRoster

CONSTANTS
    Letter,    \* invitations that may be sent
    Offers,    \* the roles they may offer
    Guest,     \* answers to letters that may be under way at one time
    Post       \* requests to send a letter that may run at one time

ASSUME InvitesAssumption == Offers \subseteq Role \ {"none"}

VARIABLES
    letter,    \* org_invitations
    sending,   \* request -> where it is and what it read
    answer     \* request -> where it is and what it read

invites == <<letter, sending, answer>>

\* "by" is the role the sender had, for the properties only.
LetterRow == [status : {"none", "pending", "accepted", "declined", "revoked",
                        "expired", "deleted"},
              role : Role, by : Role]

NoLetter == [status |-> "none", role |-> "none", by |-> "none"]

Sending == [at : {"idle", "address", "mail", "revoke"}, by : Role, role : Role,
            letter : Letter \cup {NoMember}]
NotSending == [at |-> "idle", by |-> "none", role |-> "none", letter |-> NoMember]

Answer == [at : {"idle", "expired", "decline", "accept", "accepted"},
           letter : Letter \cup {NoMember}, by : Member \cup {NoMember}]
NoAnswer == [at |-> "idle", letter |-> NoMember, by |-> NoMember]

Pending == {l \in Letter : letter[l].status = "pending"}

InvitesInit ==
    /\ letter = [l \in Letter |-> NoLetter]
    /\ sending = [p \in Post |-> NotSending]
    /\ answer = [g \in Guest |-> NoAnswer]

\* UPDATE org_invitations SET status ... WHERE status='pending'
Retire(l, status) ==
    letter' = IF l \in Pending THEN [letter EXCEPT ![l].status = status]
                               ELSE letter

\* INSERT INTO org_members ... DO NOTHING
Joins(m, r) == role' = IF role[m] = "none" THEN [role EXCEPT ![m] = r] ELSE role

\* Mutant: DO UPDATE, as a direct add.
JoinsOver(m, r) == role' = [role EXCEPT ![m] = r]

-----------------------------------------------------------------------------
(* Sending. *)

\* Only owners hand out administrative roles.
InviteAsked(p) ==
    /\ sending[p] = NotSending
    /\ \E caller \in Member, r \in Offers :
        /\ role[caller] \in {"owner", "admin"}
        /\ r \in {"owner", "admin"} => role[caller] = "owner"
        /\ sending' = [sending EXCEPT ![p] =
               [NotSending EXCEPT !.at = "address", !.by = role[caller], !.role = r]]
    /\ UNCHANGED <<role, visit, letter, answer>>

\* The address is an account's: it is added, and no letter written.
InviteAdds(p) ==
    /\ sending[p].at = "address"
    /\ \E m \in Member : Joins(m, sending[p].role)
    /\ sending' = [sending EXCEPT ![p] = NotSending]
    /\ UNCHANGED <<visit, letter, answer>>

\* The row comes before the mail; the index refuses a second pending one.
InviteWrites(p) ==
    /\ sending[p].at = "address"
    /\ Pending = {}
    /\ \E l \in Letter :
        /\ letter[l].status = "none"
        /\ letter' = [letter EXCEPT ![l] =
               [status |-> "pending", role |-> sending[p].role, by |-> sending[p].by]]
        /\ sending' = [sending EXCEPT ![p].at = "mail", ![p].letter = l]
    /\ UNCHANGED <<role, visit, answer>>

\* A letter that cannot be delivered is deleted again.
InviteRefused(p) ==
    /\ sending[p].at = "mail"
    /\ Retire(sending[p].letter, "deleted")
    /\ sending' = [sending EXCEPT ![p] = NotSending]
    /\ UNCHANGED <<role, visit, answer>>

\* Sent; or refused, failed or lost before.
InviteEnds(p) ==
    /\ sending[p] # NotSending
    /\ sending' = [sending EXCEPT ![p] = NotSending]
    /\ UNCHANGED <<role, visit, letter, answer>>

RevokeAsked(p) ==
    /\ sending[p] = NotSending
    /\ \E caller \in Member, l \in Pending :
        /\ role[caller] \in {"owner", "admin"}
        /\ sending' = [sending EXCEPT ![p] =
               [NotSending EXCEPT !.at = "revoke", !.letter = l]]
    /\ UNCHANGED <<role, visit, letter, answer>>

Revoke(p) ==
    /\ sending[p].at = "revoke"
    /\ Retire(sending[p].letter, "revoked")
    /\ sending' = [sending EXCEPT ![p] = NotSending]
    /\ UNCHANGED <<role, visit, answer>>

-----------------------------------------------------------------------------
(* Answers, by an account that holds the letter. *)

Delivered(l) == \A p \in Post : sending[p].at = "mail" => sending[p].letter # l

\* The row is read and must be pending.
AnswerReads(g) ==
    /\ answer[g] = NoAnswer
    /\ \E l \in Pending, m \in Member, at \in {"expired", "decline", "accept"} :
        /\ Delivered(l)
        /\ answer' = [answer EXCEPT ![g] = [at |-> at, letter |-> l, by |-> m]]
    /\ UNCHANGED <<role, visit, letter, sending>>

Expire(g) ==
    /\ answer[g].at = "expired"
    /\ Retire(answer[g].letter, "expired")
    /\ answer' = [answer EXCEPT ![g] = NoAnswer]
    /\ UNCHANGED <<role, visit, sending>>

Decline(g) ==
    /\ answer[g].at = "decline"
    /\ Retire(answer[g].letter, "declined")
    /\ answer' = [answer EXCEPT ![g] = NoAnswer]
    /\ UNCHANGED <<role, visit, sending>>

\* The member first, then the letter.
Accept(g) ==
    /\ answer[g].at = "accept"
    /\ Joins(answer[g].by, letter[answer[g].letter].role)
    /\ answer' = [answer EXCEPT ![g].at = "accepted"]
    /\ UNCHANGED <<visit, letter, sending>>

Accepted(g) ==
    /\ answer[g].at = "accepted"
    /\ Retire(answer[g].letter, "accepted")
    /\ answer' = [answer EXCEPT ![g] = NoAnswer]
    /\ UNCHANGED <<role, visit, sending>>

AnswerEnds(g) ==
    /\ answer[g] # NoAnswer
    /\ answer' = [answer EXCEPT ![g] = NoAnswer]
    /\ UNCHANGED <<role, visit, letter, sending>>

InvitesNext ==
    \/ \E p \in Post : InviteAsked(p) \/ InviteAdds(p) \/ InviteWrites(p)
                       \/ InviteRefused(p) \/ InviteEnds(p)
                       \/ RevokeAsked(p) \/ Revoke(p)
    \/ \E g \in Guest : AnswerReads(g) \/ Expire(g) \/ Decline(g) \/ Accept(g)
                        \/ Accepted(g) \/ AnswerEnds(g)

InvitesTypeOK ==
    /\ letter \in [Letter -> LetterRow]
    /\ sending \in [Post -> Sending]
    /\ answer \in [Guest -> Answer]
=============================================================================
