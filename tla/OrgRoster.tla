------------------------------- MODULE OrgRoster -------------------------------
(***************************************************************************)
(* The members of one organization and the requests that change their       *)
(* roles (org_members_handler, entry.py).  Requests run concurrently, each  *)
(* in its own isolate of the worker; every statement is a round trip to the *)
(* database, and the statements of other requests run between two of one    *)
(* request.  A statement that reads is a step, and so is one that writes.   *)
(***************************************************************************)
EXTENDS Naturals, FiniteSets

CONSTANTS
    Member,    \* accounts
    NoMember,
    Hired,     \* [Member -> Role] the roster to begin with
    Clerk,     \* requests to org_members_handler that may run at one time
    Moves      \* the changes asked for: <<account, role>>, "none" is DELETE

Role == {"owner", "admin", "member", "none"}

ASSUME RosterAssumption ==
    /\ NoMember \notin Member
    /\ Hired \in [Member -> Role]
    /\ Moves \subseteq Member \X Role

VARIABLES
    role,      \* org_members: account -> role, "none" has no row
    visit      \* request -> where it is and what it read

\* A visit's "by" is caller_role.
Visit == [at : {"idle", "existing", "owners", "write"}, by : Role,
          member : Member \cup {NoMember}, to : Role]

NoVisit == [at |-> "idle", by |-> "none", member |-> NoMember, to |-> "none"]

Owners == {m \in Member : role[m] = "owner"}

RosterInit == role = Hired /\ visit = [k \in Clerk |-> NoVisit]

\* org_members_handler as far as caller_role: only owners and admins write.
VisitAsked(k) ==
    /\ visit[k] = NoVisit
    /\ \E caller \in Member, move \in Moves :
        /\ role[caller] \in {"owner", "admin"}
        /\ visit' = [visit EXCEPT ![k] =
               [at |-> "existing", by |-> role[caller],
                member |-> move[1], to |-> move[2]]]
    /\ UNCHANGED role

\* Mutant: only the role that is taken away is looked at.
VisitReadsLeniently(k) ==
    /\ visit[k].at = "existing"
    /\ LET had == role[visit[k].member]  to == visit[k].to IN
        /\ to = "none" => had # "none"
        /\ had \in {"owner", "admin"} => visit[k].by = "owner"
        /\ visit' = [visit EXCEPT ![k].at =
               IF had = "owner" /\ to # "owner" THEN "owners" ELSE "write"]
    /\ UNCHANGED role

\* existing_role: only owners hand out or take away the administrative roles.
VisitReads(k) ==
    /\ visit[k].at = "existing"
    /\ LET had == role[visit[k].member]  to == visit[k].to IN
        /\ to = "none" => had # "none"
        /\ {had, to} \cap {"owner", "admin"} # {} => visit[k].by = "owner"
        /\ visit' = [visit EXCEPT ![k].at =
               IF had = "owner" /\ to # "owner" THEN "owners" ELSE "write"]
    /\ UNCHANGED role

\* _org_owner_count: the last owner stays.
VisitCounts(k) ==
    /\ visit[k].at = "owners"
    /\ Cardinality(Owners) > 1
    /\ visit' = [visit EXCEPT ![k].at = "write"]
    /\ UNCHANGED role

VisitWrites(k) ==
    /\ visit[k].at = "write"
    /\ role' = [role EXCEPT ![visit[k].member] = visit[k].to]
    /\ visit' = [visit EXCEPT ![k] = NoVisit]

\* A request that is refused, whose statement fails or whose isolate is lost
\* ends with no further effect.
VisitEnds(k) ==
    /\ visit[k] # NoVisit
    /\ visit' = [visit EXCEPT ![k] = NoVisit]
    /\ UNCHANGED role

RosterNext ==
    \E k \in Clerk :
        \/ VisitAsked(k) \/ VisitReads(k) \/ VisitCounts(k)
        \/ VisitWrites(k) \/ VisitEnds(k)

RosterTypeOK == role \in [Member -> Role] /\ visit \in [Clerk -> Visit]
=============================================================================
