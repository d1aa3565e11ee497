------------------------------ MODULE Succession ------------------------------
(***************************************************************************)
(* Succession of an organization's owner (organization_succession_api.py,   *)
(* the runtime it is given in entry.py, the triggers of migration 0064),    *)
(* over the roster, which other requests change meanwhile.                  *)
(*                                                                         *)
(* As in OrgRoster, a request is a sequence of statements with those of     *)
(* other requests between.  A batch is one transaction: when a statement of *)
(* it is refused, by a trigger or a unique key, none has an effect.         *)
(* Time counts in units of the grace period's length, against which a       *)
(* request is short: the clock moves at most once while it runs.            *)
(***************************************************************************)
EXTENDS OrgRoster

CONSTANTS
    Caller,      \* succession requests that may run at one time
    Ops,         \* what they ask for
    Named,       \* accounts that a configuration may name as successor
    Case,        \* cases that may be opened, numbered from 1
    Reporting,   \* the tables of activity that change while requests run
    Threshold,   \* approvals a case needs
    Inactivity,  \* time without activity after which a case may be opened
    Grace,       \* how long the owner may call it off
    MaxTime,     \* bound on the clock
    MaxBusy      \* bound on the requests, of both kinds, that run at one time

OwnerOps == {"configure", "disable", "check-in", "cancel"}
AllOps == OwnerOps \cup {"activate", "approve", "finalize"}
Table == {"account_devices", "nodes"}

ASSUME SuccessionAssumption ==
    /\ Ops \subseteq AllOps /\ Named \subseteq Member
    /\ Case \subseteq Nat \ {0} /\ Reporting \subseteq Table
    /\ Threshold \in Nat /\ Inactivity \in Nat /\ Grace \in Nat
    /\ MaxTime \in Nat /\ MaxBusy \in Nat

VARIABLES
    policy,      \* the organization's row of org_succession_policies
    cases,       \* org_succession_cases
    approvals,   \* org_succession_approvals: <<case, approver>>
    history,     \* org_succession_events that say how a case ended
    seen,        \* the latest last_seen of an account's rows in either table
    clock,
    req          \* request -> where it is and what it read

ledger == <<policy, cases, approvals, history>>
vars == <<role, visit, ledger, seen, clock, req>>

Time == 0..MaxTime
Someone == Member \cup {NoMember}
Settled == {"cancelled", "superseded", "completed"}

Policy == [on : BOOLEAN, owner : Someone, heir : Someone, active : Time]

CaseRow == [status : {"none", "grace"} \cup Settled, owner : Someone,
            heir : Someone, ends : 0..(MaxTime + Grace)]

Event == [type : {"disabled", "check-in", "superseded", "cancelled", "completed"},
          case : Case]

Request == [at : {"idle", "row", "case", "roster", "now", "devices", "nodes",
                  "count", "write"},
            op : AllOps \cup {"none"}, actor : Someone, heir : Someone,
            row : Policy, case : Case \cup {0}, now : Time, last : Time,
            since : [Table -> Time], ticked : BOOLEAN]

NoPolicy == [on |-> FALSE, owner |-> NoMember, heir |-> NoMember, active |-> 0]
NoCase == [status |-> "none", owner |-> NoMember, heir |-> NoMember, ends |-> 0]

Never == [t \in Table |-> 0]

\* "last" is the owner's activity as far as an activation has read it.  "since"
\* is kept for the properties only: the least a table has said of the owner from
\* the moment an activation read the policy until it read that table.
Idle == [at |-> "idle", op |-> "none", actor |-> NoMember, heir |-> NoMember,
         row |-> NoPolicy, case |-> 0, now |-> 0, last |-> 0, since |-> Never,
         ticked |-> FALSE]

Init ==
    /\ RosterInit
    /\ policy = NoPolicy
    /\ cases = [c \in Case |-> NoCase]
    /\ approvals = {} /\ history = {}
    /\ seen = [m \in Member |-> Never] /\ clock = 0
    /\ req = [r \in Caller |-> Idle]

-----------------------------------------------------------------------------
(* What the statements read and write. *)

\* _active_case
InGrace == {c \in Case : cases[c].status = "grace"}
ActiveCase == IF InGrace = {} THEN 0 ELSE CHOOSE c \in InGrace : TRUE

\* eligible_approver
Independent(c) == {m \in Member : role[m] # "none"} \ {cases[c].owner, cases[c].heir}

\* _current_approval_count: those who approved and still are members.
Approving(c) == {m \in Independent(c) : <<c, m>> \in approvals}

\* owner_activity takes the latest of the policy's row and both tables.
Later(s, t) == IF s < t THEN t ELSE s

\* Where an activation is that has yet to read a table.
Before(t) == {"case", "roster", "devices"} \cup (IF t = "nodes" THEN {"nodes"} ELSE {})

\* The event of a request that found case c, or none when it found none.
Told(type, c) == {[type |-> type, case |-> d] : d \in Case \cap {c}}

\* Mutant: whatever the case's status is.
SettleAnyway(c, how) ==
    [d \in Case |-> IF d = c THEN [cases[d] EXCEPT !.status = how] ELSE cases[d]]

\* UPDATE ... WHERE case_id=? AND status='grace', which may find no row.
Settle(c, how) ==
    [d \in Case |-> IF d = c /\ cases[d].status = "grace"
                    THEN [cases[d] EXCEPT !.status = how] ELSE cases[d]]

\* UPDATE org_succession_policies ... WHERE owner_bi=? AND enabled=1
PolicyOf(m, new) == IF policy.on /\ policy.owner = m THEN new ELSE policy

At(r, op, at) == req[r].op = op /\ req[r].at = at
GoTo(r, new) == req' = [req EXCEPT ![r] = new]
End(r) == GoTo(r, Idle)
Busy == Cardinality({r \in Caller : req[r] # Idle})
            + Cardinality({k \in Clerk : visit[k] # NoVisit})
ReadsOnly == UNCHANGED <<role, visit, ledger, seen, clock>>

-----------------------------------------------------------------------------
(* Requests. *)

\* handle and _context: the session, the organization and the actor's role.
Ask(r) ==
    /\ req[r] = Idle /\ Busy < MaxBusy
    /\ \E op \in Ops, m \in Member :
        /\ role[m] # "none"
        /\ op \in OwnerOps => role[m] = "owner"
        /\ GoTo(r, [Idle EXCEPT
               !.op = op,
               !.actor = IF op \in OwnerOps \cup {"approve"} THEN m ELSE NoMember,
               !.at = CASE op = "configure" -> "roster"
                        [] op \in {"approve", "cancel", "finalize"} -> "case"
                        [] OTHER -> "row"])
    /\ ReadsOnly

\* _configure: a single owner names a successor whom enough others can judge.
ConfigureReadsRoster(r) ==
    /\ At(r, "configure", "roster")
    /\ Owners = {req[r].actor}
    /\ \E heir \in Named :
        /\ role[heir] \in {"admin", "member"}
        /\ Cardinality({m \in Member : role[m] # "none"} \ {req[r].actor, heir})
               >= Threshold
        /\ GoTo(r, [req[r] EXCEPT !.heir = heir, !.at = "now"])
    /\ ReadsOnly

\* The successor's account is looked up, then the time.
ConfigureReadsNow(r) ==
    /\ At(r, "configure", "now")
    /\ GoTo(r, [req[r] EXCEPT !.now = clock, !.at = "case"])
    /\ ReadsOnly

ConfigureReadsCase(r) ==
    /\ At(r, "configure", "case")
    /\ GoTo(r, [req[r] EXCEPT !.case = ActiveCase, !.at = "write"])
    /\ ReadsOnly

Configure(r) ==
    /\ At(r, "configure", "write")
    /\ LET told == Told("superseded", req[r].case) IN
        /\ told \cap history = {}
        /\ history' = history \cup told
    /\ cases' = Settle(req[r].case, "superseded")
    /\ policy' = [on |-> TRUE, owner |-> req[r].actor, heir |-> req[r].heir,
                  active |-> req[r].now]
    /\ End(r)
    /\ UNCHANGED <<role, visit, approvals, seen, clock>>

\* _disable and _check_in begin alike; a check-in is the policy's owner's own.
ReadsRow(r) ==
    /\ req[r].op \in {"disable", "check-in"} /\ req[r].at = "row"
    /\ policy.on
    /\ req[r].op = "check-in" => policy.owner = req[r].actor
    /\ GoTo(r, [req[r] EXCEPT !.now = clock, !.at = "case"])
    /\ ReadsOnly

ReadsCase(r) ==
    /\ req[r].op \in {"disable", "check-in"} /\ req[r].at = "case"
    /\ GoTo(r, [req[r] EXCEPT !.case = ActiveCase, !.at = "write"])
    /\ ReadsOnly

\* Mutant: the case is called off and nobody told.
CheckInSilently(r) ==
    /\ At(r, "check-in", "write")
    /\ policy' = PolicyOf(req[r].actor, [policy EXCEPT !.active = req[r].now])
    /\ cases' = Settle(req[r].case, "cancelled")
    /\ End(r)
    /\ UNCHANGED <<role, visit, approvals, history, seen, clock>>

Disable(r) ==
    /\ At(r, "disable", "write")
    /\ policy' = PolicyOf(req[r].actor, [policy EXCEPT !.on = FALSE])
    /\ cases' = Settle(req[r].case, "cancelled")
    /\ history' = history \cup Told("disabled", req[r].case)
    /\ End(r)
    /\ UNCHANGED <<role, visit, approvals, seen, clock>>

CheckIn(r) ==
    /\ At(r, "check-in", "write")
    /\ policy' = PolicyOf(req[r].actor, [policy EXCEPT !.active = req[r].now])
    /\ cases' = Settle(req[r].case, "cancelled")
    /\ history' = history \cup Told("check-in", req[r].case)
    /\ End(r)
    /\ UNCHANGED <<role, visit, approvals, seen, clock>>

\* _activate
ActivateReadsRow(r) ==
    /\ At(r, "activate", "row")
    /\ policy.on
    /\ GoTo(r, [req[r] EXCEPT !.row = policy, !.at = "case",
                               !.since = seen[policy.owner]])
    /\ ReadsOnly

ActivateReadsCase(r) ==
    /\ At(r, "activate", "case")
    /\ InGrace = {}
    /\ GoTo(r, [req[r] EXCEPT !.at = "roster"])
    /\ ReadsOnly

ActivateReadsRoster(r) ==
    /\ At(r, "activate", "roster")
    /\ role[req[r].row.owner] = "owner"
    /\ role[req[r].row.heir] \in {"admin", "member"}
    /\ GoTo(r, [req[r] EXCEPT !.at = "devices"])
    /\ ReadsOnly

ActivateReadsDevices(r) ==
    /\ At(r, "activate", "devices")
    /\ LET row == req[r].row IN
           GoTo(r, [req[r] EXCEPT
               !.last = Later(row.active, seen[row.owner]["account_devices"]),
               !.at = "nodes"])
    /\ ReadsOnly

\* Mutant: the nodes' last_seen takes the place of what was read before.
ActivateReadsNodesOnly(r) ==
    /\ At(r, "activate", "nodes")
    /\ seen[req[r].row.owner]["nodes"] + Inactivity <= clock
    /\ GoTo(r, [req[r] EXCEPT !.now = clock, !.at = "write"])
    /\ ReadsOnly

ActivateReadsNodes(r) ==
    /\ At(r, "activate", "nodes")
    /\ Later(req[r].last, seen[req[r].row.owner]["nodes"]) + Inactivity <= clock
    /\ GoTo(r, [req[r] EXCEPT !.now = clock, !.at = "write"])
    /\ ReadsOnly

\* Mutant: without idx_org_succession_one_active_case.
ActivateUnindexed(r) ==
    /\ At(r, "activate", "write")
    /\ \E c \in Case :
        /\ \A d \in Case : (d < c) <=> cases[d].status # "none"
        /\ cases' = [cases EXCEPT ![c] =
               [status |-> "grace", owner |-> req[r].row.owner,
                heir |-> req[r].row.heir, ends |-> req[r].now + Grace]]
    /\ End(r)
    /\ UNCHANGED <<role, visit, policy, approvals, history, seen, clock>>

\* The index refuses a second case in grace.
Activate(r) ==
    /\ At(r, "activate", "write")
    /\ InGrace = {}
    /\ \E c \in Case :
        /\ \A d \in Case : (d < c) <=> cases[d].status # "none"
        /\ cases' = [cases EXCEPT ![c] =
               [status |-> "grace", owner |-> req[r].row.owner,
                heir |-> req[r].row.heir, ends |-> req[r].now + Grace]]
    /\ End(r)
    /\ UNCHANGED <<role, visit, policy, approvals, history, seen, clock>>

\* _approve
ApproveReadsCase(r) ==
    /\ At(r, "approve", "case")
    /\ \E c \in InGrace :
        /\ clock <= cases[c].ends
        /\ req[r].actor \notin {cases[c].owner, cases[c].heir}
        /\ GoTo(r, [req[r] EXCEPT !.case = c, !.now = clock, !.at = "write"])
    /\ ReadsOnly

\* trg_org_succession_approval_authorized judges the roster and the case anew.
Approve(r) ==
    /\ At(r, "approve", "write")
    /\ LET c == req[r].case IN
        /\ cases[c].status = "grace"
        /\ req[r].now <= cases[c].ends
        /\ req[r].actor \in Independent(c)
        /\ approvals' = approvals \cup {<<c, req[r].actor>>}
    /\ End(r)
    /\ UNCHANGED <<role, visit, policy, cases, history, seen, clock>>

\* _cancel: any owner, until the grace period ends.
CancelReadsCase(r) ==
    /\ At(r, "cancel", "case")
    /\ \E c \in InGrace :
        /\ clock <= cases[c].ends
        /\ GoTo(r, [req[r] EXCEPT !.case = c, !.now = clock, !.at = "write"])
    /\ ReadsOnly

\* Mutant: the time when the policy is due is stored for that of the activity.
CancelStoresDue(r) ==
    /\ At(r, "cancel", "write")
    /\ history' = history \cup Told("cancelled", req[r].case)
    /\ cases' = Settle(req[r].case, "cancelled")
    /\ policy' = PolicyOf(req[r].actor,
                          [policy EXCEPT !.active = req[r].now + Inactivity])
    /\ End(r)
    /\ UNCHANGED <<role, visit, approvals, seen, clock>>

Cancel(r) ==
    /\ At(r, "cancel", "write")
    /\ LET told == Told("cancelled", req[r].case) IN
        /\ told \cap history = {}
        /\ history' = history \cup told
    /\ cases' = Settle(req[r].case, "cancelled")
    /\ policy' = PolicyOf(req[r].actor, [policy EXCEPT !.active = req[r].now])
    /\ End(r)
    /\ UNCHANGED <<role, visit, approvals, seen, clock>>

\* _finalize
FinalizeReadsCase(r) ==
    /\ At(r, "finalize", "case")
    /\ \E c \in InGrace :
           GoTo(r, [req[r] EXCEPT !.case = c, !.now = clock, !.at = "count"])
    /\ ReadsOnly

FinalizeCounts(r) ==
    /\ At(r, "finalize", "count")
    /\ LET c == req[r].case IN
        /\ req[r].now >= cases[c].ends
        /\ Cardinality(Approving(c)) >= Threshold
        /\ GoTo(r, [req[r] EXCEPT !.at = "write"])
    /\ ReadsOnly

\* trg_org_succession_completion_guard
MayComplete(c, now) ==
    /\ now >= cases[c].ends
    /\ role[cases[c].owner] = "owner"
    /\ role[cases[c].heir] \in {"admin", "member"}
    /\ Cardinality(Approving(c)) >= Threshold

\* Mutant: the handler's reads alone, no trg_org_succession_completion_guard.
FinalizeUnguarded(r) ==
    /\ At(r, "finalize", "write")
    /\ LET c == req[r].case
           told == Told("completed", c)
           owner == cases[c].owner  heir == cases[c].heir IN
        /\ told \cap history = {}
        /\ history' = history \cup told
        /\ cases' = Settle(c, "completed")
        /\ IF cases[c].status = "grace"
           THEN role' = [role EXCEPT ![owner] = "admin", ![heir] = "owner"]
           ELSE UNCHANGED role
        /\ policy' = IF policy.owner = owner /\ policy.heir = heir
                     THEN [policy EXCEPT !.on = FALSE] ELSE policy
    /\ End(r)
    /\ UNCHANGED <<visit, approvals, seen, clock>>

\* The case, with what trg_org_succession_role_transfer adds, the policy that
\* names its two parties and the event.  A case that left its grace period
\* meanwhile fires no trigger, and the rest of the batch goes through.
Finalize(r) ==
    /\ At(r, "finalize", "write")
    /\ LET c == req[r].case
           told == Told("completed", c)
           owner == cases[c].owner  heir == cases[c].heir IN
        /\ told \cap history = {}
        /\ history' = history \cup told
        /\ cases' = Settle(c, "completed")
        /\ IF cases[c].status = "grace"
           THEN /\ MayComplete(c, req[r].now)
                /\ role' = [role EXCEPT ![owner] = "admin", ![heir] = "owner"]
           ELSE UNCHANGED role
        /\ policy' = IF policy.owner = owner /\ policy.heir = heir
                     THEN [policy EXCEPT !.on = FALSE] ELSE policy
    /\ End(r)
    /\ UNCHANGED <<visit, approvals, seen, clock>>

\* A request that is refused, whose statement or batch fails or whose isolate
\* is lost ends with no further effect.
Ends(r) ==
    /\ req[r] # Idle
    /\ End(r)
    /\ ReadsOnly

-----------------------------------------------------------------------------
(* The surroundings. *)

\* Whose rows an activation under way will ask for.  Nothing else reads them, and
\* whatever they held before, reports and removals bring about here too.
Watched ==
    {m \in Member : \E r \in Caller :
        \/ At(r, "activate", "row") /\ policy.on /\ policy.owner = m
        \/ /\ req[r].op = "activate" /\ req[r].at \in Before("nodes")
           /\ req[r].row.owner = m}

\* A device or a node reports.
DeviceSeen ==
    /\ \E m \in Watched, t \in Reporting : seen' = [seen EXCEPT ![m][t] = clock]
    /\ UNCHANGED <<role, visit, ledger, clock, req>>

\* The latest that a table held of an account is deleted, disabled, revoked or
\* goes to another account; an earlier row, or none, is the latest then.
DeviceGone ==
    /\ \E m \in Watched, t \in Reporting :
        \E left \in 0..(seen[m][t] - 1) :
            /\ seen' = [seen EXCEPT ![m][t] = left]
            /\ req' = [r \in Caller |->
                   IF /\ req[r].op = "activate" /\ req[r].row.owner = m
                      /\ req[r].at \in Before(t) /\ left < req[r].since[t]
                   THEN [req[r] EXCEPT !.since[t] = left] ELSE req[r]]
    /\ UNCHANGED <<role, visit, ledger, clock>>

Tick ==
    /\ clock < MaxTime
    /\ \A r \in Caller : ~req[r].ticked
    /\ clock' = clock + 1
    /\ req' = [r \in Caller |-> IF req[r] = Idle THEN Idle
                                ELSE [req[r] EXCEPT !.ticked = TRUE]]
    /\ UNCHANGED <<role, visit, ledger, seen>>

Roster ==
    /\ RosterNext
    /\ UNCHANGED <<ledger, seen, clock, req>>
    /\ Busy' <= MaxBusy

Serve(r) ==
    \/ Ask(r)
    \/ ConfigureReadsRoster(r) \/ ConfigureReadsNow(r) \/ ConfigureReadsCase(r)
    \/ Configure(r)
    \/ ReadsRow(r) \/ ReadsCase(r) \/ Disable(r) \/ CheckIn(r)
    \/ ActivateReadsRow(r) \/ ActivateReadsCase(r) \/ ActivateReadsRoster(r)
    \/ ActivateReadsDevices(r) \/ ActivateReadsNodes(r) \/ Activate(r)
    \/ ApproveReadsCase(r) \/ Approve(r)
    \/ CancelReadsCase(r) \/ Cancel(r)
    \/ FinalizeReadsCase(r) \/ FinalizeCounts(r) \/ Finalize(r)
    \/ Ends(r)

Next == Roster \/ DeviceSeen \/ DeviceGone \/ Tick \/ \E r \in Caller : Serve(r)

Spec == Init /\ [][Next]_vars

-----------------------------------------------------------------------------
(* Properties. *)

\* Every variable keeps its type.
TypeOK ==
    /\ RosterTypeOK
    /\ policy \in Policy
    /\ cases \in [Case -> CaseRow]
    /\ approvals \subseteq Case \X Member
    /\ history \subseteq Event
    /\ seen \in [Member -> [Table -> Time]] /\ clock \in Time
    /\ req \in [Caller -> Request]

\* Two activations that both saw no case open one between them.
OneGrace == \A c, d \in InGrace : c = d

\* A case is never settled without its event: whoever settles it, and whatever
\* ran meanwhile, the history says how it ended.
Tells(status) ==
    CASE status = "cancelled"  -> {"cancelled", "check-in", "disabled"}
      [] status = "superseded" -> {"superseded"}
      [] OTHER                 -> {"completed"}

OutcomeIsRecorded ==
    \A c \in Case : cases[c].status \in Settled =>
        \E e \in history : e.case = c /\ e.type \in Tells(cases[c].status)

\* An account becomes an owner only by a request of someone who was an owner
\* when it began, or by a case that is over its grace period, whose two parties
\* still hold their roles and which enough members approve who, at that moment,
\* belong to the organization and are neither party.
Given(m) ==
    \E k \in Clerk : visit[k].at = "write" /\ visit[k].member = m
                     /\ visit[k].by = "owner"

Earned(m) ==
    \E c \in Case :
        /\ m \in {cases[c].owner, cases[c].heir}
        /\ cases[c].status = "grace" /\ cases'[c].status = "completed"
        /\ MayComplete(c, clock)

RolesAreEarned ==
    [][\A m \in Member :
          role[m] # "owner" /\ role'[m] = "owner" =>
              Given(m) \/ Earned(m)]_vars

\* What stays on record is not missed: an activity of the owner's devices or
\* nodes that was there when an activation read the policy and is still there
\* when it reads their table keeps the case from being opened, whatever reports,
\* goes or ticks between its reads.  Of a check-in, a configuration or a disabling
\* that commits between the reads and the write it says nothing: neither does
\* the write, an INSERT that asks for none of it.
OpensOnlyIfInactive ==
    [][\A r \in Caller, t \in Table :
          At(r, "activate", "write") /\ cases' # cases /\ req'[r] = Idle =>
              req[r].since[t] + Inactivity <= clock]_vars

\* Succession does to the roles what SuccessionLife promises.
Stage == [c \in Case |-> cases[c].status]
Party == [c \in Case |-> IF cases[c].status = "none" THEN <<>>
                         ELSE <<cases[c].owner, cases[c].heir>>]

Life == INSTANCE SuccessionLife WITH stage <- Stage, party <- Party

ImplementsLife == Life!Spec

\* What the code claims and does not do.
\* organization_succession_api.py:591: completion and history commit together.
HistoryIsTrue ==
    \A e \in history : e.type = "completed" => cases[e.case].status = "completed"

\* entry.py:24889: the last owner can never leave.
LastOwnerStays == Owners # {}
=============================================================================
