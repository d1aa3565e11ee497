-------------------------- MODULE OrganizationProofs --------------------------
(***************************************************************************)
(* What an organization keeps while direct changes of its roster,           *)
(* invitations and succession interleave, for every number of requests,     *)
(* letters and cases.                                                       *)
(*                                                                         *)
(* What succession keeps on its own (SuccessionProofs) it keeps here,       *)
(* because an invitation touches none of its tables and puts no more than a *)
(* role into the roster.  Who may hand out an administrative role is judged *)
(* when a request or a letter begins and used steps later; HandsOut says    *)
(* that what is under way still carries an owner's judgement.               *)
(***************************************************************************)
EXTENDS Organization, SuccessionProofs

USE SuccessionAssumption, RosterAssumption, InvitesAssumption
    DEF Role, Someone, Settled, AllOps, OwnerOps

-----------------------------------------------------------------------------
(* The inductive invariant. *)

Administrative == {"owner", "admin"}

\* An answer under way is a member's, to a letter.
AnswersOK ==
    \A g \in Guest : answer[g].at # "idle" =>
        answer[g].letter \in Letter /\ answer[g].by \in Member

\* Whatever is about to hand out an administrative role does so for an owner.
HandsOut ==
    /\ \A k \in Clerk :
           visit[k].at \in {"owners", "write"} /\ visit[k].to \in Administrative =>
               visit[k].by = "owner"
    /\ \A p \in Post :
           sending[p].at = "address" /\ sending[p].role \in Administrative =>
               sending[p].by = "owner"
    /\ \A l \in Letter :
           letter[l].role \in Administrative => letter[l].by = "owner"

LettersOK == InvitesTypeOK /\ AnswersOK

OrgInv == IInv /\ LettersOK /\ HandsOut

-----------------------------------------------------------------------------
(* Letters and answers keep their types, and add only roles. *)

\* A letter that is retired stays a letter, with its role and its sender.
LEMMA RetireIs ==
  ASSUME letter \in [Letter -> LetterRow], NEW l, NEW status,
         status \in {"accepted", "declined", "revoked", "expired", "deleted"},
         Retire(l, status)
  PROVE  /\ letter' \in [Letter -> LetterRow]
         /\ \A k \in Letter :
                letter'[k].role = letter[k].role /\ letter'[k].by = letter[k].by
  <1>1. CASE l \in Pending
    <2>1. l \in Letter
      BY <1>1 DEF Pending
    <2>2. letter' = [letter EXCEPT ![l] = [letter[l] EXCEPT !.status = status]]
      BY <1>1, <2>1 DEF Retire
    <2>3. [letter[l] EXCEPT !.status = status] \in LetterRow
      BY <2>1 DEF LetterRow
    <2>4. [letter[l] EXCEPT !.status = status].role = letter[l].role
          /\ [letter[l] EXCEPT !.status = status].by = letter[l].by
      BY <2>1 DEF LetterRow
    <2> QED BY <2>2, <2>3, <2>4
  <1>2. CASE l \notin Pending
    BY <1>2 DEF Retire
  <1> QED BY <1>1, <1>2

\* A member who joins gets a role, and only who had none.
LEMMA JoinsIs ==
  ASSUME role \in [Member -> Role], NEW m \in Member, NEW r \in Role, Joins(m, r)
  PROVE  /\ role' \in [Member -> Role]
         /\ \A n \in Member : role'[n] # role[n] =>
                n = m /\ role[n] = "none" /\ role'[n] = r
         /\ role' # role => role' = [role EXCEPT ![m] = r]
  BY DEF Joins

\* The requests to send a letter or to revoke one.
Sends(p) ==
    \/ InviteAsked(p) \/ InviteAdds(p) \/ InviteWrites(p) \/ InviteRefused(p)
    \/ InviteEnds(p) \/ RevokeAsked(p) \/ Revoke(p)

\* The answers.
Replies(g) ==
    \/ AnswerReads(g) \/ Expire(g) \/ Decline(g) \/ Accept(g) \/ Accepted(g)
    \/ AnswerEnds(g)

\* What the step of a request to send does to the letters and the roster.
LEMMA SendsKeep ==
  ASSUME RosterTypeOK, LettersOK, HandsOut, NEW p \in Post, Sends(p)
  PROVE  /\ role' \in [Member -> Role] /\ UNCHANGED <<visit, answer>>
         /\ letter' \in [Letter -> LetterRow] /\ sending' \in [Post -> Sending]
         /\ \A q \in Post : sending'[q].at = "address"
                /\ sending'[q].role \in Administrative => sending'[q].by = "owner"
         /\ \A l \in Letter :
                letter'[l].role \in Administrative => letter'[l].by = "owner"
         /\ role' # role => InviteAdds(p)
  <1>1. /\ letter \in [Letter -> LetterRow] /\ sending \in [Post -> Sending]
        /\ role \in [Member -> Role] /\ sending[p] \in Sending
    BY DEF LettersOK, InvitesTypeOK, RosterTypeOK
  <1>2. NotSending \in Sending /\ NotSending.at = "idle"
    BY DEF NotSending, Sending
  <1>3. /\ \A q \in Post : sending[q].at = "address"
                /\ sending[q].role \in Administrative => sending[q].by = "owner"
        /\ \A l \in Letter :
                letter[l].role \in Administrative => letter[l].by = "owner"
    BY DEF HandsOut
  <1>4. CASE InviteAsked(p)
    <2>1. PICK caller \in Member, r \in Offers :
            /\ r \in {"owner", "admin"} => role[caller] = "owner"
            /\ sending' = [sending EXCEPT ![p] =
                 [NotSending EXCEPT !.at = "address", !.by = role[caller], !.role = r]]
      BY <1>4 DEF InviteAsked
    <2> DEFINE s == [NotSending EXCEPT !.at = "address", !.by = role[caller], !.role = r]
    <2>2. /\ s \in Sending /\ s.at = "address" /\ s.role = r
          /\ s.by = role[caller]
      BY <1>1 DEF NotSending, Sending
    <2>3. sending' = [sending EXCEPT ![p] = s]
      BY <2>1
    <2> HIDE DEF s
    <2> QED BY <1>1, <1>3, <1>4, <2>1, <2>2, <2>3 DEF InviteAsked, Administrative
  <1>5. CASE InviteAdds(p)
    <2>1. sending[p].role \in Role
      BY <1>1 DEF Sending
    <2>2. role' \in [Member -> Role]
      BY <1>1, <1>5, <2>1, JoinsIs DEF InviteAdds
    <2> QED BY <1>1, <1>2, <1>3, <1>5, <2>2 DEF InviteAdds
  <1>6. CASE InviteWrites(p)
    <2>1. PICK l \in Letter :
            /\ letter' = [letter EXCEPT ![l] =
                   [status |-> "pending", role |-> sending[p].role, by |-> sending[p].by]]
            /\ sending' = [sending EXCEPT ![p].at = "mail", ![p].letter = l]
      BY <1>6 DEF InviteWrites
    <2> DEFINE row == [status |-> "pending", role |-> sending[p].role,
                       by |-> sending[p].by]
               s == [[sending[p] EXCEPT !.at = "mail"] EXCEPT !.letter = l]
    <2>2. row \in LetterRow /\ row.role = sending[p].role /\ row.by = sending[p].by
      BY <1>1 DEF LetterRow, Sending
    <2>3. s \in Sending /\ s.at = "mail"
      BY <1>1 DEF Sending
    <2>4. sending' = [sending EXCEPT ![p] = s] /\ letter' = [letter EXCEPT ![l] = row]
      BY <1>1, <2>1
    <2>5. sending[p].at = "address"
      BY <1>6 DEF InviteWrites
    <2> HIDE DEF s, row
    <2> QED BY <1>1, <1>3, <1>6, <2>2, <2>3, <2>4, <2>5 DEF InviteWrites
  <1>7. CASE InviteRefused(p) \/ Revoke(p)
    <2>1. /\ letter' \in [Letter -> LetterRow]
          /\ \A k \in Letter :
                 letter'[k].role = letter[k].role /\ letter'[k].by = letter[k].by
      BY <1>1, <1>7, RetireIs DEF InviteRefused, Revoke
    <2> QED BY <1>1, <1>2, <1>3, <1>7, <2>1 DEF InviteRefused, Revoke
  <1>8. CASE InviteEnds(p)
    BY <1>1, <1>2, <1>3, <1>8 DEF InviteEnds
  <1>9. CASE RevokeAsked(p)
    <2>1. PICK l \in Pending :
            sending' = [sending EXCEPT ![p] =
                [NotSending EXCEPT !.at = "revoke", !.letter = l]]
      BY <1>9 DEF RevokeAsked
    <2> DEFINE s == [NotSending EXCEPT !.at = "revoke", !.letter = l]
    <2>2. s \in Sending /\ s.at = "revoke"
      BY DEF NotSending, Sending, Pending
    <2>3. sending' = [sending EXCEPT ![p] = s]
      BY <2>1
    <2> HIDE DEF s
    <2> QED BY <1>1, <1>3, <1>9, <2>2, <2>3 DEF RevokeAsked
  <1> QED BY <1>4, <1>5, <1>6, <1>7, <1>8, <1>9 DEF Sends

\* What the step of an answer does to them.
LEMMA RepliesKeep ==
  ASSUME RosterTypeOK, LettersOK, HandsOut, NEW g \in Guest, Replies(g)
  PROVE  /\ role' \in [Member -> Role] /\ UNCHANGED <<visit, sending>>
         /\ letter' \in [Letter -> LetterRow] /\ answer' \in [Guest -> Answer]
         /\ AnswersOK'
         /\ \A l \in Letter :
                letter'[l].role \in Administrative => letter'[l].by = "owner"
         /\ role' # role => Accept(g)
  <1>1. /\ letter \in [Letter -> LetterRow] /\ answer \in [Guest -> Answer]
        /\ role \in [Member -> Role] /\ answer[g] \in Answer
    BY DEF LettersOK, InvitesTypeOK, RosterTypeOK
  <1>2. NoAnswer \in Answer /\ NoAnswer.at = "idle"
    BY DEF NoAnswer, Answer
  <1>3. /\ AnswersOK
        /\ \A l \in Letter :
                letter[l].role \in Administrative => letter[l].by = "owner"
    BY DEF HandsOut, LettersOK
  <1>4. CASE AnswerReads(g)
    <2>1. PICK l \in Pending, m \in Member, at \in {"expired", "decline", "accept"} :
              answer' = [answer EXCEPT ![g] = [at |-> at, letter |-> l, by |-> m]]
      BY <1>4 DEF AnswerReads
    <2>2. [at |-> at, letter |-> l, by |-> m] \in Answer /\ l \in Letter
      BY DEF Answer, Pending
    <2>3. answer' \in [Guest -> Answer] /\ AnswersOK'
      BY <1>1, <1>3, <2>1, <2>2 DEF AnswersOK
    <2> QED BY <1>1, <1>3, <1>4, <2>3 DEF AnswerReads
  <1>5. CASE Expire(g) \/ Decline(g) \/ Accepted(g)
    <2>1. /\ letter' \in [Letter -> LetterRow]
          /\ \A k \in Letter :
                 letter'[k].role = letter[k].role /\ letter'[k].by = letter[k].by
      BY <1>1, <1>5, RetireIs DEF Expire, Decline, Accepted
    <2>2. answer' = [answer EXCEPT ![g] = NoAnswer]
      BY <1>5 DEF Expire, Decline, Accepted
    <2>3. answer' \in [Guest -> Answer] /\ AnswersOK'
      BY <1>1, <1>2, <1>3, <2>2 DEF AnswersOK
    <2> QED BY <1>1, <1>3, <1>5, <2>1, <2>3 DEF Expire, Decline, Accepted
  <1>6. CASE Accept(g)
    <2>1. answer[g].letter \in Letter /\ answer[g].by \in Member
      BY <1>3, <1>6 DEF AnswersOK, Accept
    <2>2. letter[answer[g].letter].role \in Role
      BY <1>1, <2>1 DEF LetterRow
    <2>3. role' \in [Member -> Role]
      BY <1>1, <1>6, <2>1, <2>2, JoinsIs DEF Accept
    <2>4. [answer[g] EXCEPT !.at = "accepted"] \in Answer
          /\ [answer[g] EXCEPT !.at = "accepted"].letter = answer[g].letter
          /\ [answer[g] EXCEPT !.at = "accepted"].by = answer[g].by
      BY <1>1 DEF Answer
    <2>5. answer' = [answer EXCEPT ![g] = [answer[g] EXCEPT !.at = "accepted"]]
      BY <1>6 DEF Accept
    <2>6. answer' \in [Guest -> Answer] /\ AnswersOK'
      BY <1>1, <1>3, <2>1, <2>4, <2>5 DEF AnswersOK
    <2> QED BY <1>1, <1>3, <1>6, <2>3, <2>6 DEF Accept
  <1>7. CASE AnswerEnds(g)
    <2>1. answer' \in [Guest -> Answer] /\ AnswersOK'
      BY <1>1, <1>2, <1>3, <1>7 DEF AnswerEnds, AnswersOK
    <2> QED BY <1>1, <1>3, <1>7, <2>1 DEF AnswerEnds
  <1> QED BY <1>4, <1>5, <1>6, <1>7 DEF Replies

LEMMA InvitesAre ==
  ASSUME InvitesNext
  PROVE  (\E p \in Post : Sends(p)) \/ (\E g \in Guest : Replies(g))
  BY DEF InvitesNext, Sends, Replies

\* An invitation's step keeps the invariant.
LEMMA InvitationKeeps == ASSUME OrgInv, Invitation PROVE OrgInv'
  <1>1. /\ RosterTypeOK /\ LettersOK /\ HandsOut /\ IInv
        /\ UNCHANGED <<ledger, seen, clock, req>>
    BY DEF OrgInv, IInv, TypeOK, Invitation
  <1>2. seen' \in [Member -> [Table -> Time]] /\ visit \in [Clerk -> Visit]
    BY <1>1 DEF IInv, TypeOK, RosterTypeOK
  <1>3. ASSUME NEW p \in Post, Sends(p) PROVE OrgInv'
    <2>1. /\ role' \in [Member -> Role] /\ UNCHANGED <<visit, answer>>
          /\ letter' \in [Letter -> LetterRow] /\ sending' \in [Post -> Sending]
          /\ \A q \in Post : sending'[q].at = "address"
                 /\ sending'[q].role \in Administrative => sending'[q].by = "owner"
          /\ \A l \in Letter :
                 letter'[l].role \in Administrative => letter'[l].by = "owner"
      BY <1>1, <1>3, SendsKeep
    <2>2. IInv'
      BY <1>1, <1>2, <2>1, OthersKeep
    <2>3. LettersOK'
      BY <1>1, <2>1 DEF LettersOK, InvitesTypeOK, AnswersOK
    <2>4. HandsOut'
      BY <1>1, <2>1 DEF HandsOut
    <2> QED BY <2>2, <2>3, <2>4 DEF OrgInv
  <1>4. ASSUME NEW g \in Guest, Replies(g) PROVE OrgInv'
    <2>1. /\ role' \in [Member -> Role] /\ UNCHANGED <<visit, sending>>
          /\ letter' \in [Letter -> LetterRow] /\ answer' \in [Guest -> Answer]
          /\ AnswersOK'
          /\ \A l \in Letter :
                 letter'[l].role \in Administrative => letter'[l].by = "owner"
      BY <1>1, <1>4, RepliesKeep
    <2>2. IInv'
      BY <1>1, <1>2, <2>1, OthersKeep
    <2>3. LettersOK'
      BY <1>1, <2>1 DEF LettersOK, InvitesTypeOK
    <2>4. HandsOut'
      BY <1>1, <2>1 DEF HandsOut
    <2> QED BY <2>2, <2>3, <2>4 DEF OrgInv
  <1> QED BY <1>3, <1>4, InvitesAre DEF Invitation

-----------------------------------------------------------------------------
(* The requests of the roster and of succession. *)

\* What succession does to the visits: nothing.
LEMMA ServeLeavesVisits ==
  ASSUME NEW r \in Caller, Serve(r) PROVE UNCHANGED visit
  <1>1. CASE Quiet(r)
    BY <1>1, QuietIs
  <1>2. CASE Configure(r) \/ Disable(r) \/ CheckIn(r) \/ Activate(r)
             \/ Cancel(r) \/ Finalize(r)
    BY <1>2 DEF Configure, Disable, CheckIn, Activate, Cancel, Finalize
  <1> QED BY <1>1, <1>2 DEF Serve, Quiet

\* A visit that may write hands out an administrative role for an owner: the
\* role asked for is read with the request, so nothing can change it later.
VisitsHandOut ==
    \A k \in Clerk :
        visit[k].at \in {"owners", "write"} /\ visit[k].to \in Administrative =>
            visit[k].by = "owner"

LEMMA VisitsKeep == ASSUME IInv, VisitsHandOut, [Next]_vars PROVE VisitsHandOut'
  <1>1. CASE RosterNext
    <2>1. visit \in [Clerk -> Visit]
      BY DEF IInv, TypeOK, RosterTypeOK
    <2>2. PICK k \in Clerk : VisitAsked(k) \/ VisitReads(k) \/ VisitCounts(k)
                             \/ VisitWrites(k) \/ VisitEnds(k)
      BY <1>1 DEF RosterNext
    <2>3. CASE VisitAsked(k)
      BY <2>1, <2>3 DEF VisitAsked, VisitsHandOut
    <2>4. CASE VisitReads(k)
      <3>1. visit[k].to \in Administrative => visit[k].by = "owner"
        BY <2>4 DEF VisitReads, Administrative
      <3>2. PICK at \in {"owners", "write"} : visit' = [visit EXCEPT ![k].at = at]
        BY <2>4 DEF VisitReads
      <3>3. visit'[k].to = visit[k].to /\ visit'[k].by = visit[k].by
        BY <2>1, <3>2 DEF Visit
      <3> QED BY <2>1, <3>1, <3>2, <3>3 DEF VisitsHandOut
    <2>5. CASE VisitCounts(k)
      <3>1. /\ visit'[k].to = visit[k].to /\ visit'[k].by = visit[k].by
            /\ visit[k].at = "owners"
            /\ \A j \in Clerk \ {k} : visit'[j] = visit[j]
        BY <2>1, <2>5 DEF VisitCounts, Visit
      <3> QED BY <3>1 DEF VisitsHandOut
    <2>6. CASE VisitWrites(k) \/ VisitEnds(k)
      BY <2>1, <2>6 DEF VisitWrites, VisitEnds, VisitsHandOut, NoVisit
    <2> QED BY <2>2, <2>3, <2>4, <2>5, <2>6
  <1>2. CASE UNCHANGED visit
    BY <1>2 DEF VisitsHandOut
  <1> QED BY <1>1, <1>2, ServeLeavesVisits
          DEF Next, Roster, DeviceSeen, DeviceGone, Tick, vars

\* The other steps keep the invariant, as they do without invitations.
LEMMA OthersKeepAll == ASSUME OrgInv, Next, UNCHANGED invites PROVE OrgInv'
  <1>1. IInv'
    BY NextKeeps DEF OrgInv
  <1>2. LettersOK'
    BY DEF OrgInv, invites, LettersOK, InvitesTypeOK, AnswersOK
  <1>3. VisitsHandOut'
    BY VisitsKeep DEF OrgInv, HandsOut, VisitsHandOut
  <1>4. HandsOut'
    BY <1>3 DEF OrgInv, HandsOut, VisitsHandOut, invites
  <1> QED BY <1>1, <1>2, <1>4 DEF OrgInv

LEMMA OrgKeeps == ASSUME OrgInv, [OrgNext]_orgVars PROVE OrgInv'
  <1>1. CASE Invitation
    BY <1>1, InvitationKeeps
  <1>2. CASE Others
    BY <1>2, OthersKeepAll DEF Others
  <1>3. CASE UNCHANGED orgVars
    <2>1. UNCHANGED vars /\ UNCHANGED invites
      BY <1>3 DEF orgVars
    <2>2. IInv'
      BY <2>1, NextKeeps DEF OrgInv
    <2>3. LettersOK' /\ HandsOut'
      BY <2>1 DEF vars, invites, OrgInv, LettersOK, InvitesTypeOK, AnswersOK, HandsOut
    <2> QED BY <2>2, <2>3 DEF OrgInv
  <1> QED BY <1>1, <1>2, <1>3 DEF OrgNext

LEMMA InitOrgInv == OrgInit => OrgInv
  <1> SUFFICES ASSUME OrgInit PROVE OrgInv
    OBVIOUS
  <1>1. IInv
    BY InitIInv DEF OrgInit
  <1>2. LettersOK
    BY DEF OrgInit, InvitesInit, LettersOK, InvitesTypeOK, AnswersOK, LetterRow,
       NoLetter, Sending, NotSending, Answer, NoAnswer
  <1>3. HandsOut
    BY DEF OrgInit, Init, RosterInit, InvitesInit, HandsOut, NoVisit, NotSending,
       NoLetter, Administrative
  <1> QED BY <1>1, <1>2, <1>3 DEF OrgInv

\* The invariant holds in every state of the organization.
THEOREM OrgInvariant == OrgSpec => []OrgInv
  BY InitOrgInv, OrgKeeps, PTL DEF OrgSpec

-----------------------------------------------------------------------------
(* Theorems. *)

\* Roster, letters, answers and the tables of succession keep their types
\* while all requests interleave; and with invitations, too, at most one case
\* is in grace and none is settled without its event.
THEOREM OrgSafe == OrgSpec => [](TypeOK /\ InvitesTypeOK /\ OneGrace /\ OutcomeIsRecorded)
  <1>1. OrgInv => TypeOK /\ InvitesTypeOK /\ OneGrace /\ OutcomeIsRecorded
    BY DEF OrgInv, IInv, LettersOK
  <1> QED BY <1>1, OrgInvariant, PTL

\* What a step that changes an account's role to an administrative one was.
LEMMA StepEarns ==
  ASSUME OrgInv, [OrgNext]_orgVars, NEW m \in Member,
         role'[m] \in Administrative, role'[m] # role[m]
  PROVE  Given(m) \/ Invited(m) \/ Earned(m)
  <1>1. role \in [Member -> Role] /\ role' # role /\ RosterTypeOK
        /\ LettersOK /\ HandsOut /\ IInv
    BY DEF OrgInv, IInv, TypeOK, RosterTypeOK
  <1>2. ASSUME NEW p \in Post, Sends(p) PROVE Invited(m)
    <2>1. InviteAdds(p)
      BY <1>1, <1>2, SendsKeep
    <2>2. sending[p].role \in Role /\ sending[p].at = "address"
      BY <2>1 DEF InviteAdds, OrgInv, LettersOK, InvitesTypeOK, Sending
    <2>3. role[m] = "none" /\ role'[m] = sending[p].role
      BY <1>1, <2>1, <2>2, JoinsIs DEF InviteAdds
    <2>4. sending[p].by = "owner"
      BY <1>1, <2>2, <2>3 DEF HandsOut
    <2> QED BY <2>2, <2>3, <2>4 DEF Invited
  <1>3. ASSUME NEW g \in Guest, Replies(g) PROVE Invited(m)
    <2>1. Accept(g)
      BY <1>1, <1>3, RepliesKeep
    <2>2. /\ answer[g].at = "accept" /\ answer[g].letter \in Letter
          /\ answer[g].by \in Member
      BY <2>1 DEF Accept, OrgInv, LettersOK, AnswersOK
    <2>3. letter[answer[g].letter].role \in Role
      BY <1>1, <2>2 DEF LettersOK, InvitesTypeOK, LetterRow
    <2>4. /\ answer[g].by = m /\ role[m] = "none"
          /\ role'[m] = letter[answer[g].letter].role
      BY <1>1, <2>1, <2>2, <2>3, JoinsIs DEF Accept
    <2>5. letter[answer[g].letter].by = "owner"
      BY <1>1, <2>2, <2>4 DEF HandsOut
    <2> QED BY <2>2, <2>4, <2>5 DEF Invited
  <1>4. CASE RosterNext
    <2>1. PICK k \in Clerk : VisitWrites(k)
      BY <1>1, <1>4, VisitIs
    <2>2. visit[k].member = m /\ visit[k].to = role'[m] /\ visit[k].at = "write"
      BY <1>1, <2>1 DEF VisitWrites
    <2>3. visit[k].by = "owner"
      BY <1>1, <2>2 DEF HandsOut
    <2> QED BY <2>2, <2>3 DEF Given
  <1>5. ASSUME NEW r \in Caller, Serve(r) PROVE Earned(m)
    <2>1. Finalize(r)
      BY <1>1, <1>5, QuietIs
         DEF Serve, Quiet, Configure, Disable, CheckIn, Activate, Cancel
    <2>2. cases[req[r].case].status = "grace"
      BY <1>1, <2>1 DEF Finalize
    <2> DEFINE c == req[r].case
    <2>3. /\ c \in Case /\ MayComplete(c, clock)
          /\ cases'[c].status = "completed"
          /\ role' = [role EXCEPT ![cases[c].owner] = "admin",
                                  ![cases[c].heir] = "owner"]
      BY <1>1, <2>1, <2>2, FinalizeIs
    <2>4. cases[c].owner \in Member /\ cases[c].heir \in Member
      BY <1>1, <2>2, <2>3 DEF IInv, PartiesAreMembers
    <2>5. m \in {cases[c].owner, cases[c].heir}
      BY <1>1, <2>3, <2>4
    <2> QED BY <2>2, <2>3, <2>5 DEF Earned
  <1>6. CASE DeviceSeen \/ DeviceGone \/ Tick \/ UNCHANGED orgVars
    BY <1>1, <1>6 DEF DeviceSeen, DeviceGone, Tick, orgVars, vars
  <1> QED BY <1>2, <1>3, <1>4, <1>5, <1>6, InvitesAre
          DEF OrgNext, Others, Invitation, Next, Roster

\* Nobody becomes an owner or an admin but by the request of one who was an
\* owner when it was judged, by the invitation of such a one to an account that
\* is no member, or by a case of succession that may complete at that moment,
\* whatever demotions, removals, revocations and answers come between the
\* judgement and the write (org_members_handler, org_invitations_handler,
\* org_invitation_action_handler, _finalize).
THEOREM AdminsEarned == OrgSpec => AdminsAreEarned
  <1>1. ASSUME OrgInv, [OrgNext]_orgVars
        PROVE  [\A m \in Member :
                   role'[m] \in {"owner", "admin"} /\ role'[m] # role[m] =>
                       Given(m) \/ Invited(m) \/ Earned(m)]_orgVars
    BY <1>1, StepEarns DEF Administrative
  <1> QED BY <1>1, OrgInvariant, PTL DEF OrgSpec, AdminsAreEarned

-----------------------------------------------------------------------------
(* With invitations, too, succession does what SuccessionLife promises. *)

LEMMA InvitationImplements ==
  ASSUME OrgInv, Invitation PROVE [Life!Next]_<<role, Stage, Party>>
  <1>1. UNCHANGED <<Stage, Party>> /\ role \in [Member -> Role]
    BY DEF Invitation, ledger, Stage, Party, OrgInv, IInv, TypeOK, RosterTypeOK
  <1>2. RosterTypeOK /\ LettersOK /\ HandsOut
    BY DEF OrgInv, IInv, TypeOK
  <1>3. CASE role' = role
    BY <1>1, <1>3
  <1>4. ASSUME NEW m \in Member, NEW r \in Role, Joins(m, r), role' # role
        PROVE  [Life!Next]_<<role, Stage, Party>>
    <2>1. Life!Reassign
      BY <1>1, <1>4, JoinsIs DEF Life!Reassign
    <2> QED BY <2>1 DEF Life!Next
  <1>5. ASSUME NEW p \in Post, Sends(p), role' # role
        PROVE  [Life!Next]_<<role, Stage, Party>>
    <2>1. InviteAdds(p) /\ sending[p].role \in Role
      BY <1>2, <1>5, SendsKeep DEF LettersOK, InvitesTypeOK, Sending
    <2> QED BY <1>4, <1>5, <2>1 DEF InviteAdds
  <1>6. ASSUME NEW g \in Guest, Replies(g), role' # role
        PROVE  [Life!Next]_<<role, Stage, Party>>
    <2>1. Accept(g)
      BY <1>2, <1>6, RepliesKeep
    <2>2. answer[g].letter \in Letter /\ answer[g].by \in Member
      BY <1>2, <2>1 DEF LettersOK, AnswersOK, Accept
    <2>3. letter[answer[g].letter].role \in Role
      BY <1>2, <2>2 DEF LettersOK, InvitesTypeOK, LetterRow
    <2> QED BY <1>4, <1>6, <2>1, <2>2, <2>3 DEF Accept
  <1> QED BY <1>3, <1>5, <1>6, InvitesAre DEF Invitation

\* Whatever invitations add to the roster, at most one case is open, one is
\* settled once and for good, and completing it moves its two roles in the
\* same step, and no others.
THEOREM OrgImplements == OrgSpec => ImplementsLife
  <1>1. OrgInit => Life!Init
    <2> SUFFICES ASSUME OrgInit PROVE Life!Init
      OBVIOUS
    <2>1. \A c \in Case : cases[c].status = "none"
      BY DEF OrgInit, Init, NoCase
    <2>2. Stage = [c \in Case |-> "none"] /\ Party = [c \in Case |-> <<>>]
      BY <2>1 DEF Stage, Party
    <2>3. role \in [Member -> Role]
      BY DEF OrgInit, Init, RosterInit
    <2> QED BY <2>2, <2>3 DEF Life!Init
  <1>2. OrgInv /\ [OrgNext]_orgVars => [Life!Next]_<<role, Stage, Party>>
    <2>1. OrgInv => IInv
      BY DEF OrgInv
    <2> QED BY <2>1, InvitationImplements, StepImplements
            DEF OrgNext, Others, orgVars
  <1> QED BY <1>1, <1>2, OrgInvariant, PTL DEF OrgSpec, ImplementsLife, Life!Spec

\* With invitations, too, what an activation finds on record is old enough when
\* it opens a case: a letter moves neither the clock, nor what the owner's devices
\* and nodes say, nor a request of succession.
THEOREM OrgOpensInTime ==
  OrgSpec => [][\A r \in Caller, t \in Table :
                  At(r, "activate", "write") /\ cases' # cases /\ req'[r] = Idle =>
                      req[r].since[t] + Inactivity <= clock]_orgVars
  <1>1. OrgInit => SinceOK
    BY TimeIsNat DEF OrgInit, Init, SinceOK, SinceIs, Idle, Never
  <1>2. ASSUME OrgInv, SinceOK, [OrgNext]_orgVars PROVE SinceOK'
    <2>1. CASE Invitation
      BY <1>2, <2>1 DEF Invitation, SinceOK, SinceIs
    <2>2. CASE Others \/ UNCHANGED orgVars
      BY <1>2, <2>2, SinceKept DEF OrgInv, Others, orgVars
    <2> QED BY <1>2, <2>1, <2>2 DEF OrgNext
  <1>3. SinceOK => [\A r \in Caller, t \in Table :
            At(r, "activate", "write") /\ cases' # cases /\ req'[r] = Idle =>
                req[r].since[t] + Inactivity <= clock]_orgVars
    BY DEF SinceOK, SinceIs, At
  <1> QED BY <1>1, <1>2, <1>3, OrgInvariant, PTL DEF OrgSpec
=============================================================================
