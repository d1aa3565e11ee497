--------------------------- MODULE SuccessionProofs ---------------------------
(***************************************************************************)
(* What module Succession keeps for every organization, whatever number of  *)
(* requests run at one time and of cases are opened.                        *)
(***************************************************************************)
EXTENDS Succession, TLAPS

-----------------------------------------------------------------------------
(* The inductive invariant. *)

\* What a request has read when it writes: members, a case that was opened,
\* and a time that has come.
RequestOK(q, t) ==
    /\ q \in Request
    /\ q.now <= t
    /\ q.op \in OwnerOps => q.actor \in Member
    /\ q.op = "configure" /\ q.at \in {"now", "case", "write"} => q.heir \in Member
    /\ q.op = "activate" /\ q.at \in {"case", "roster", "devices", "nodes", "write"} =>
           q.row.owner \in Member /\ q.row.heir \in Member
    /\ q.op \in {"approve", "cancel", "finalize"} /\ q.at \in {"count", "write"} =>
           q.case \in Case

RequestsOK == \A r \in Caller : RequestOK(req[r], clock)

\* A policy in force and a case that was opened name members.
PartiesAreMembers ==
    /\ policy.on => policy.owner \in Member /\ policy.heir \in Member
    /\ \A c \in Case : cases[c].status # "none" =>
           cases[c].owner \in Member /\ cases[c].heir \in Member

IInv == TypeOK /\ OneGrace /\ OutcomeIsRecorded /\ RequestsOK /\ PartiesAreMembers

USE SuccessionAssumption, RosterAssumption
    DEF Role, Someone, Settled, AllOps, OwnerOps

LEMMA TimeIsNat == 0 \in Time /\ \A t \in Time : t \in Nat /\ t >= 0 /\ t <= MaxTime
  BY DEF Time

LEMMA NeverTyped == Never \in [Table -> Time]
  BY TimeIsNat DEF Never

\* A request that takes the time, perhaps with a case, goes on as a request.
LEMMA NowTyped ==
  ASSUME NEW q \in Request, NEW t \in Time, NEW at \in {"case", "count", "write"},
         NEW c \in Case \cup {0}
  PROVE  /\ [q EXCEPT !.now = t, !.at = at] \in Request
         /\ [q EXCEPT !.case = c, !.now = t, !.at = at] \in Request
  BY DEF Request

\* A request that found case c goes on as one.
LEMMA FoundOK ==
  ASSUME NEW q \in Request, RequestOK(q, clock), NEW c \in Case, clock \in Time,
         q.op \in {"approve", "cancel", "finalize"}, NEW at \in {"count", "write"}
  PROVE  RequestOK([q EXCEPT !.case = c, !.now = clock, !.at = at], clock)
  <1> DEFINE n == [q EXCEPT !.case = c, !.now = clock, !.at = at]
  <1>1. n \in Request
    BY NowTyped
  <1>2. n.case = c /\ n.now = clock /\ n.at = at /\ n.op = q.op /\ n.actor = q.actor
    BY DEF Request
  <1>3. clock <= clock
    BY TimeIsNat
  <1> HIDE DEF n
  <1>4. RequestOK(n, clock)
    BY <1>1, <1>2, <1>3 DEF RequestOK
  <1> QED BY <1>4 DEF n

\* The initial state has no policy, no case and no request.
LEMMA InitIInv == Init => IInv
  <1> SUFFICES ASSUME Init PROVE IInv
    OBVIOUS
  <1>1. NoPolicy \in Policy /\ NoCase \in CaseRow /\ Idle \in Request
    BY TimeIsNat, NeverTyped DEF NoPolicy, Policy, NoCase, CaseRow, Idle, Request
  <1>2. TypeOK
    BY <1>1, TimeIsNat, NeverTyped
       DEF Init, RosterInit, TypeOK, RosterTypeOK, Visit, NoVisit
  <1>3. OneGrace /\ OutcomeIsRecorded
    BY DEF Init, OneGrace, InGrace, OutcomeIsRecorded, NoCase
  <1>4. RequestsOK
    BY <1>1 DEF Init, RequestsOK, RequestOK, Idle
  <1>5. PartiesAreMembers
    BY DEF Init, PartiesAreMembers, NoPolicy, NoCase
  <1> QED BY <1>2, <1>3, <1>4, <1>5 DEF IInv

\* Idle asks nothing of the state.
LEMMA IdleOK == ASSUME NEW t \in Nat PROVE RequestOK(Idle, t)
  BY TimeIsNat, NeverTyped DEF RequestOK, Idle, Request, NoPolicy, Policy

\* A request that only read goes on as a request.
LEMMA ReadKeeps ==
  ASSUME IInv, NEW r \in Caller, NEW q, RequestOK(q, clock), GoTo(r, q), ReadsOnly
  PROVE  IInv'
  <1>1. TypeOK'
    BY DEF IInv, TypeOK, RosterTypeOK, GoTo, ReadsOnly, ledger, RequestOK
  <1>2. OneGrace' /\ OutcomeIsRecorded' /\ PartiesAreMembers'
    BY DEF IInv, ReadsOnly, ledger, OneGrace, InGrace, OutcomeIsRecorded,
           PartiesAreMembers
  <1>3. RequestsOK'
    BY DEF IInv, TypeOK, RequestsOK, GoTo, ReadsOnly
  <1> QED BY <1>1, <1>2, <1>3 DEF IInv

\* The types of what a request has read.
LEMMA Typed ==
  ASSUME IInv, NEW r \in Caller
  PROVE  /\ req[r] \in Request /\ RequestOK(req[r], clock)
         /\ clock \in Nat /\ clock <= MaxTime
         /\ policy \in Policy
         /\ req[r].row \in Policy
  BY TimeIsNat DEF IInv, TypeOK, RequestsOK, Request

-----------------------------------------------------------------------------
(* One lemma per kind of step. *)

\* Asking: an owner's request is a member's.
LEMMA AskKeeps == ASSUME IInv, NEW r \in Caller, Ask(r) PROVE IInv'
  <1>1. PICK op \in Ops, m \in Member :
            GoTo(r, [Idle EXCEPT
               !.op = op,
               !.actor = IF op \in OwnerOps \cup {"approve"} THEN m ELSE NoMember,
               !.at = CASE op = "configure" -> "roster"
                        [] op \in {"approve", "cancel", "finalize"} -> "case"
                        [] OTHER -> "row"])
    BY DEF Ask
  <1> DEFINE
        actor == IF op \in OwnerOps \cup {"approve"} THEN m ELSE NoMember
        at == CASE op = "configure" -> "roster"
                [] op \in {"approve", "cancel", "finalize"} -> "case"
                [] OTHER -> "row"
        q == [Idle EXCEPT !.op = op, !.actor = actor, !.at = at]
  <1>3. /\ actor \in Someone /\ at \in {"roster", "case", "row"}
        /\ op \in OwnerOps => actor \in Member
        /\ op = "configure" => at = "roster"
        /\ op = "activate" => at = "row"
    OBVIOUS
  <1>4. GoTo(r, q)
    BY <1>1
  <1> HIDE DEF actor, at
  <1>5. q \in Request
    <2>1. Idle \in Request
      BY IdleOK DEF RequestOK
    <2> QED BY <1>3, <2>1 DEF Request
  <1>6. q.op = op /\ q.at = at /\ q.actor = actor /\ q.now = 0
    BY DEF Idle
  <1>7. clock \in Nat
    BY TimeIsNat DEF IInv, TypeOK
  <1> HIDE DEF q
  <1>8. RequestOK(q, clock)
    BY <1>3, <1>5, <1>6, <1>7 DEF RequestOK
  <1> QED BY <1>4, <1>8, ReadKeeps DEF Ask

\* The reads of a configuration, of _disable and of _check_in.
LEMMA ConfigureReadsKeep ==
  ASSUME IInv, NEW r \in Caller,
         ConfigureReadsRoster(r) \/ ConfigureReadsNow(r) \/ ConfigureReadsCase(r)
             \/ ReadsRow(r) \/ ReadsCase(r)
  PROVE  IInv'
  <1>1. /\ req[r] \in Request /\ RequestOK(req[r], clock) /\ clock \in Nat
        /\ clock \in Time
    BY Typed DEF IInv, TypeOK
  <1>2. ActiveCase \in Case \cup {0}
    BY DEF ActiveCase, InGrace
  <1>3. CASE ConfigureReadsRoster(r)
    <2>1. PICK heir \in Named :
              GoTo(r, [req[r] EXCEPT !.heir = heir, !.at = "now"])
      BY <1>3 DEF ConfigureReadsRoster
    <2>2. RequestOK([req[r] EXCEPT !.heir = heir, !.at = "now"], clock)
      BY <1>1, <1>3 DEF ConfigureReadsRoster, At, RequestOK, Request
    <2> QED BY <1>3, <2>1, <2>2, ReadKeeps DEF ConfigureReadsRoster
  <1>4. CASE ConfigureReadsNow(r)
    <2>1. RequestOK([req[r] EXCEPT !.now = clock, !.at = "case"], clock)
      <3>1. [req[r] EXCEPT !.now = clock, !.at = "case"] \in Request
        BY <1>1, NowTyped
      <3> QED BY <3>1, <1>1, <1>4 DEF ConfigureReadsNow, At, RequestOK, Request
    <2> QED BY <1>4, <2>1, ReadKeeps DEF ConfigureReadsNow
  <1>5. CASE ConfigureReadsCase(r)
    <2>1. RequestOK([req[r] EXCEPT !.case = ActiveCase, !.at = "write"], clock)
      BY <1>1, <1>2, <1>5 DEF ConfigureReadsCase, At, RequestOK, Request
    <2> QED BY <1>5, <2>1, ReadKeeps DEF ConfigureReadsCase
  <1>6. CASE ReadsRow(r)
    <2>1. RequestOK([req[r] EXCEPT !.now = clock, !.at = "case"], clock)
      <3>1. [req[r] EXCEPT !.now = clock, !.at = "case"] \in Request
        BY <1>1, NowTyped
      <3> QED BY <3>1, <1>1, <1>6 DEF ReadsRow, RequestOK, Request
    <2> QED BY <1>6, <2>1, ReadKeeps DEF ReadsRow
  <1>7. CASE ReadsCase(r)
    <2>1. RequestOK([req[r] EXCEPT !.case = ActiveCase, !.at = "write"], clock)
      BY <1>1, <1>2, <1>7 DEF ReadsCase, RequestOK, Request
    <2> QED BY <1>7, <2>1, ReadKeeps DEF ReadsCase
  <1> QED BY <1>3, <1>4, <1>5, <1>6, <1>7

\* The reads of an activation.
LEMMA ActivateReadsKeep ==
  ASSUME IInv, NEW r \in Caller,
         ActivateReadsRow(r) \/ ActivateReadsCase(r) \/ ActivateReadsRoster(r)
             \/ ActivateReadsDevices(r) \/ ActivateReadsNodes(r)
  PROVE  IInv'
  <1>1. /\ req[r] \in Request /\ RequestOK(req[r], clock) /\ clock \in Nat
        /\ clock \in Time /\ policy \in Policy
    BY Typed DEF IInv, TypeOK
  <1>2. CASE ActivateReadsRow(r)
    <2>1. policy.owner \in Member /\ policy.heir \in Member
      BY <1>2 DEF ActivateReadsRow, IInv, PartiesAreMembers
    <2> DEFINE q == [req[r] EXCEPT !.row = policy, !.at = "case",
                                   !.since = seen[policy.owner]]
    <2>2. seen[policy.owner] \in [Table -> Time]
      BY <2>1 DEF IInv, TypeOK
    <2>3. /\ q \in Request /\ q.row = policy /\ q.at = "case"
          /\ q.op = req[r].op /\ q.actor = req[r].actor /\ q.now = req[r].now
      BY <1>1, <2>2 DEF Request
    <2>4. GoTo(r, q)
      BY <1>2 DEF ActivateReadsRow
    <2> HIDE DEF q
    <2>5. RequestOK(q, clock)
      BY <1>1, <1>2, <2>1, <2>3 DEF ActivateReadsRow, At, RequestOK
    <2> QED BY <1>2, <2>4, <2>5, ReadKeeps DEF ActivateReadsRow
  <1>3. CASE ActivateReadsCase(r)
    <2>1. RequestOK([req[r] EXCEPT !.at = "roster"], clock)
      BY <1>1, <1>3 DEF ActivateReadsCase, At, RequestOK, Request
    <2> QED BY <1>3, <2>1, ReadKeeps DEF ActivateReadsCase
  <1>4. CASE ActivateReadsRoster(r)
    <2>1. RequestOK([req[r] EXCEPT !.at = "devices"], clock)
      BY <1>1, <1>4 DEF ActivateReadsRoster, At, RequestOK, Request
    <2> QED BY <1>4, <2>1, ReadKeeps DEF ActivateReadsRoster
  <1>5. CASE ActivateReadsDevices(r)
    <2> DEFINE heard == Later(req[r].row.active, seen[req[r].row.owner]["account_devices"])
               q == [req[r] EXCEPT !.last = heard, !.at = "nodes"]
    <2>1. req[r].row.owner \in Member /\ req[r].row.heir \in Member
      BY <1>1, <1>5 DEF ActivateReadsDevices, At, RequestOK
    <2>2. /\ seen[req[r].row.owner]["account_devices"] \in Time
          /\ req[r].row.active \in Time
      BY <2>1, Typed DEF IInv, TypeOK, Table, Policy
    <2>3. heard \in Time
      BY <2>2 DEF Later
    <2>4. GoTo(r, q)
      BY <1>5 DEF ActivateReadsDevices
    <2> HIDE DEF heard
    <2>5. /\ q \in Request /\ q.row = req[r].row /\ q.at = "nodes"
          /\ q.op = req[r].op /\ q.actor = req[r].actor /\ q.now = req[r].now
      BY <1>1, <2>3 DEF Request
    <2> HIDE DEF q
    <2>6. RequestOK(q, clock)
      BY <1>1, <1>5, <2>1, <2>5 DEF ActivateReadsDevices, At, RequestOK
    <2> QED BY <1>5, <2>4, <2>6, ReadKeeps DEF ActivateReadsDevices
  <1>6. CASE ActivateReadsNodes(r)
    <2>1. RequestOK([req[r] EXCEPT !.now = clock, !.at = "write"], clock)
      <3>1. [req[r] EXCEPT !.now = clock, !.at = "write"] \in Request
        BY <1>1, NowTyped
      <3> QED BY <3>1, <1>1, <1>6 DEF ActivateReadsNodes, At, RequestOK, Request
    <2> QED BY <1>6, <2>1, ReadKeeps DEF ActivateReadsNodes
  <1> QED BY <1>2, <1>3, <1>4, <1>5, <1>6

\* The reads of _approve, _cancel and _finalize, which find a case.
LEMMA CaseReadsKeep ==
  ASSUME IInv, NEW r \in Caller,
         ApproveReadsCase(r) \/ CancelReadsCase(r) \/ FinalizeReadsCase(r)
             \/ FinalizeCounts(r) \/ Ends(r)
  PROVE  IInv'
  <1>1. /\ req[r] \in Request /\ RequestOK(req[r], clock) /\ clock \in Nat
        /\ clock \in Time
    BY Typed DEF IInv, TypeOK
  <1>2. CASE ApproveReadsCase(r)
    <2>1. PICK c \in Case :
              GoTo(r, [req[r] EXCEPT !.case = c, !.now = clock, !.at = "write"])
      BY <1>2 DEF ApproveReadsCase, InGrace
    <2>2. RequestOK([req[r] EXCEPT !.case = c, !.now = clock, !.at = "write"], clock)
      BY <1>1, <1>2, FoundOK DEF ApproveReadsCase, At
    <2> QED BY <1>2, <2>1, <2>2, ReadKeeps DEF ApproveReadsCase
  <1>3. CASE CancelReadsCase(r)
    <2>1. PICK c \in Case :
              GoTo(r, [req[r] EXCEPT !.case = c, !.now = clock, !.at = "write"])
      BY <1>3 DEF CancelReadsCase, InGrace
    <2>2. RequestOK([req[r] EXCEPT !.case = c, !.now = clock, !.at = "write"], clock)
      BY <1>1, <1>3, FoundOK DEF CancelReadsCase, At
    <2> QED BY <1>3, <2>1, <2>2, ReadKeeps DEF CancelReadsCase
  <1>4. CASE FinalizeReadsCase(r)
    <2>1. PICK c \in Case :
              GoTo(r, [req[r] EXCEPT !.case = c, !.now = clock, !.at = "count"])
      BY <1>4 DEF FinalizeReadsCase, InGrace
    <2>2. RequestOK([req[r] EXCEPT !.case = c, !.now = clock, !.at = "count"], clock)
      BY <1>1, <1>4, FoundOK DEF FinalizeReadsCase, At
    <2> QED BY <1>4, <2>1, <2>2, ReadKeeps DEF FinalizeReadsCase
  <1>5. CASE FinalizeCounts(r)
    <2>1. RequestOK([req[r] EXCEPT !.at = "write"], clock)
      BY <1>1, <1>5 DEF FinalizeCounts, At, RequestOK, Request
    <2> QED BY <1>5, <2>1, ReadKeeps DEF FinalizeCounts
  <1>6. CASE Ends(r)
    BY <1>1, <1>6, IdleOK, ReadKeeps DEF Ends, End
  <1> QED BY <1>2, <1>3, <1>4, <1>5, <1>6

-----------------------------------------------------------------------------
(* The steps that write. *)

\* A batch that settles a case, if it still is in grace, and tells so.
LEMMA SettleKeeps ==
  ASSUME IInv, NEW c \in Case \cup {0}, NEW how \in Settled, NEW type,
         cases' = Settle(c, how), history' = history \cup Told(type, c),
         type \in Tells(how), type \in {"disabled", "check-in"} \cup Settled
  PROVE  /\ cases' \in [Case -> CaseRow] /\ history' \subseteq Event
         /\ OneGrace' /\ OutcomeIsRecorded'
         /\ \A d \in Case :
                /\ cases'[d].owner = cases[d].owner /\ cases'[d].heir = cases[d].heir
                /\ cases'[d].status = "none" <=> cases[d].status = "none"
  <1>1. cases \in [Case -> CaseRow] /\ history \subseteq Event
    BY DEF IInv, TypeOK
  <1>2. \A d \in Case :
            cases'[d] = IF d = c /\ cases[d].status = "grace"
                        THEN [cases[d] EXCEPT !.status = how] ELSE cases[d]
    BY DEF Settle
  <1>3. \A d \in Case :
            /\ cases'[d] \in CaseRow
            /\ cases'[d].owner = cases[d].owner /\ cases'[d].heir = cases[d].heir
            /\ cases'[d].status =
                   IF d = c /\ cases[d].status = "grace" THEN how ELSE cases[d].status
    <2> TAKE d \in Case
    <2>1. cases[d] \in CaseRow
      BY <1>1
    <2>2. CASE d = c /\ cases[d].status = "grace"
      <3>1. cases'[d] = [cases[d] EXCEPT !.status = how]
        BY <1>2, <2>2
      <3> HIDE DEF Settled
      <3>2. [cases[d] EXCEPT !.status = how] \in CaseRow
        BY <2>1 DEF CaseRow
      <3> QED BY <2>1, <2>2, <3>1, <3>2 DEF CaseRow
    <2>3. CASE ~(d = c /\ cases[d].status = "grace")
      BY <1>2, <2>1, <2>3
    <2> QED BY <2>2, <2>3
  <1>4. cases' \in [Case -> CaseRow]
    BY <1>3 DEF Settle
  <1>5. history' \subseteq Event
    BY <1>1 DEF Told, Event
  <1>6. OneGrace'
    BY <1>3 DEF IInv, OneGrace, InGrace
  <1>7. ASSUME NEW d \in Case, cases'[d].status \in Settled
        PROVE  \E e \in history' : e.case = d /\ e.type \in Tells(cases'[d].status)
    <2>1. CASE d = c /\ cases[d].status = "grace"
      <3>1. [type |-> type, case |-> d] \in history' /\ cases'[d].status = how
        BY <1>3, <2>1 DEF Told
      <3> QED BY <3>1
    <2>2. CASE ~(d = c /\ cases[d].status = "grace")
      <3>1. cases'[d].status = cases[d].status
        BY <1>3, <2>2
      <3>2. \E e \in history : e.case = d /\ e.type \in Tells(cases[d].status)
        BY <1>7, <3>1 DEF IInv, OutcomeIsRecorded
      <3> QED BY <3>1, <3>2
    <2> QED BY <2>1, <2>2
  <1>8. OutcomeIsRecorded'
    BY <1>7 DEF OutcomeIsRecorded
  <1>9. \A d \in Case : cases'[d].status = "none" <=> cases[d].status = "none"
    BY <1>3
  <1> QED BY <1>3, <1>4, <1>5, <1>6, <1>8, <1>9

\* The same for the whole invariant, given what becomes of the policy.
LEMMA BatchKeeps ==
  ASSUME IInv, NEW r \in Caller, NEW c \in Case \cup {0}, NEW how \in Settled,
         NEW type, cases' = Settle(c, how), history' = history \cup Told(type, c),
         type \in Tells(how), type \in {"disabled", "check-in"} \cup Settled,
         End(r), UNCHANGED <<visit, approvals, seen, clock>>,
         role' \in [Member -> Role], policy' \in Policy,
         policy'.on => policy'.owner \in Member /\ policy'.heir \in Member
  PROVE  IInv'
  <1>1. /\ cases' \in [Case -> CaseRow] /\ history' \subseteq Event
        /\ OneGrace' /\ OutcomeIsRecorded'
        /\ \A d \in Case :
               /\ cases'[d].owner = cases[d].owner /\ cases'[d].heir = cases[d].heir
               /\ cases'[d].status = "none" <=> cases[d].status = "none"
    BY SettleKeeps
  <1>2. clock \in Nat /\ RequestOK(Idle, clock)
    BY IdleOK, TimeIsNat DEF IInv, TypeOK
  <1>3. TypeOK'
    BY <1>1, <1>2 DEF IInv, TypeOK, RosterTypeOK, End, GoTo, RequestOK
  <1>4. RequestsOK'
    BY <1>2 DEF IInv, TypeOK, RequestsOK, End, GoTo
  <1>5. PartiesAreMembers'
    BY <1>1 DEF IInv, PartiesAreMembers
  <1> QED BY <1>1, <1>3, <1>4, <1>5 DEF IInv

LEMMA ConfigureKeeps == ASSUME IInv, NEW r \in Caller, Configure(r) PROVE IInv'
  <1>1. /\ req[r] \in Request /\ RequestOK(req[r], clock)
        /\ req[r].op = "configure" /\ req[r].at = "write"
    BY Typed DEF Configure, At
  <1>2. /\ req[r].actor \in Member /\ req[r].heir \in Member
        /\ req[r].now \in Time /\ req[r].case \in Case \cup {0}
    BY <1>1 DEF RequestOK, Request
  <1>3. /\ policy' \in Policy
        /\ policy'.owner \in Member /\ policy'.heir \in Member
    BY <1>2 DEF Configure, Policy
  <1>4. role' \in [Member -> Role]
    BY DEF IInv, TypeOK, RosterTypeOK, Configure
  <1> QED BY <1>2, <1>3, <1>4, BatchKeeps DEF Configure, Tells

\* PolicyOf changes a policy in force, and keeps its parties when new does.
LEMMA DisableKeeps ==
  ASSUME IInv, NEW r \in Caller, Disable(r) \/ CheckIn(r) \/ Cancel(r)
  PROVE  IInv'
  <1>1. /\ req[r] \in Request /\ RequestOK(req[r], clock)
        /\ req[r].now \in Time /\ req[r].case \in Case \cup {0}
    BY Typed DEF Request
  <1>2. policy \in Policy /\ role \in [Member -> Role]
    BY DEF IInv, TypeOK, RosterTypeOK
  <1>3. ASSUME NEW new \in Policy, policy' = PolicyOf(req[r].actor, new),
               new.owner = policy.owner, new.heir = policy.heir
        PROVE  /\ policy' \in Policy
               /\ policy'.on => policy'.owner \in Member /\ policy'.heir \in Member
    BY <1>2, <1>3 DEF PolicyOf, IInv, PartiesAreMembers
  <1>4. CASE Disable(r)
    <2>1. [policy EXCEPT !.on = FALSE] \in Policy
      BY <1>2 DEF Policy
    <2>2. /\ policy' \in Policy
          /\ policy'.on => policy'.owner \in Member /\ policy'.heir \in Member
      BY <1>2, <1>3, <1>4, <2>1 DEF Disable, Policy
    <2> QED BY <1>1, <1>2, <1>4, <2>2, BatchKeeps DEF Disable, Tells
  <1>5. CASE CheckIn(r)
    <2>1. [policy EXCEPT !.active = req[r].now] \in Policy
      BY <1>1, <1>2 DEF Policy
    <2>2. /\ policy' \in Policy
          /\ policy'.on => policy'.owner \in Member /\ policy'.heir \in Member
      BY <1>2, <1>3, <1>5, <2>1 DEF CheckIn, Policy
    <2> QED BY <1>1, <1>2, <1>5, <2>2, BatchKeeps DEF CheckIn, Tells
  <1>6. CASE Cancel(r)
    <2>1. [policy EXCEPT !.active = req[r].now] \in Policy
      BY <1>1, <1>2 DEF Policy
    <2>2. /\ policy' \in Policy
          /\ policy'.on => policy'.owner \in Member /\ policy'.heir \in Member
      BY <1>2, <1>3, <1>6, <2>1 DEF Cancel, Policy
    <2> QED BY <1>1, <1>2, <1>6, <2>2, BatchKeeps DEF Cancel, Tells
  <1> QED BY <1>4, <1>5, <1>6

LEMMA FinalizeKeeps == ASSUME IInv, NEW r \in Caller, Finalize(r) PROVE IInv'
  <1>1. req[r].case \in Case
    BY Typed DEF Finalize, At, RequestOK
  <1>2. policy \in Policy /\ role \in [Member -> Role]
    BY DEF IInv, TypeOK, RosterTypeOK
  <1>3. role' \in [Member -> Role]
    BY <1>2 DEF Finalize
  <1>4. policy' = policy \/ policy' = [policy EXCEPT !.on = FALSE]
    BY DEF Finalize
  <1>5. /\ policy' \in Policy
        /\ policy'.on => policy'.owner \in Member /\ policy'.heir \in Member
    BY <1>2, <1>4 DEF Policy, IInv, PartiesAreMembers
  <1> QED BY <1>1, <1>3, <1>5, BatchKeeps DEF Finalize, Tells

\* The index lets a case be opened only when none is in grace.
LEMMA ActivateKeeps == ASSUME IInv, NEW r \in Caller, Activate(r) PROVE IInv'
  <1>1. /\ req[r] \in Request /\ RequestOK(req[r], clock) /\ clock \in Nat
        /\ req[r].op = "activate" /\ req[r].at = "write"
    BY Typed DEF Activate, At
  <1>2. /\ req[r].row.owner \in Member /\ req[r].row.heir \in Member
        /\ req[r].now \in Time
    BY <1>1 DEF RequestOK, Request
  <1>3. PICK c \in Case :
            /\ \A d \in Case : (d < c) <=> cases[d].status # "none"
            /\ cases' = [cases EXCEPT ![c] =
                   [status |-> "grace", owner |-> req[r].row.owner,
                    heir |-> req[r].row.heir, ends |-> req[r].now + Grace]]
    BY DEF Activate
  <1> DEFINE new == [status |-> "grace", owner |-> req[r].row.owner,
                     heir |-> req[r].row.heir, ends |-> req[r].now + Grace]
  <1>4. new \in CaseRow
    BY <1>2 DEF CaseRow, Time
  <1>5. cases \in [Case -> CaseRow]
    BY DEF IInv, TypeOK
  <1>6. /\ cases' \in [Case -> CaseRow] /\ cases'[c] = new
        /\ \A d \in Case \ {c} : cases'[d] = cases[d]
    BY <1>3, <1>4, <1>5
  <1>7. RequestOK(Idle, clock)
    BY <1>1, IdleOK
  <1>8. TypeOK'
    BY <1>6, <1>7 DEF IInv, TypeOK, RosterTypeOK, Activate, End, GoTo, RequestOK
  <1>9. OneGrace'
    BY <1>6 DEF OneGrace, InGrace, Activate
  <1>10. OutcomeIsRecorded'
    BY <1>6 DEF IInv, OutcomeIsRecorded, Activate
  <1>11. RequestsOK'
    BY <1>7 DEF IInv, TypeOK, RequestsOK, Activate, End, GoTo
  <1>12. PartiesAreMembers'
    <2>1. \A d \in Case : cases'[d].status # "none" =>
              cases'[d].owner \in Member /\ cases'[d].heir \in Member
      BY <1>2, <1>6 DEF IInv, PartiesAreMembers
    <2>2. policy' = policy
      BY DEF Activate
    <2> QED BY <2>1, <2>2 DEF IInv, PartiesAreMembers
  <1> QED BY <1>8, <1>9, <1>10, <1>11, <1>12 DEF IInv

LEMMA ApproveKeeps == ASSUME IInv, NEW r \in Caller, Approve(r) PROVE IInv'
  <1>1. /\ req[r].case \in Case /\ req[r].actor \in Member /\ clock \in Nat
    BY Typed DEF Approve, At, RequestOK, Independent
  <1>2. RequestOK(Idle, clock)
    BY <1>1, IdleOK
  <1>3. TypeOK'
    BY <1>1, <1>2 DEF IInv, TypeOK, RosterTypeOK, Approve, End, GoTo, RequestOK
  <1>4. OneGrace' /\ OutcomeIsRecorded' /\ PartiesAreMembers'
    BY DEF IInv, Approve, OneGrace, InGrace, OutcomeIsRecorded, PartiesAreMembers
  <1>5. RequestsOK'
    BY <1>2 DEF IInv, TypeOK, RequestsOK, Approve, End, GoTo
  <1> QED BY <1>3, <1>4, <1>5 DEF IInv

\* The clock moves, and what has been read stays read.
LEMMA TickKeeps == ASSUME IInv, Tick PROVE IInv'
  <1>1. clock \in Nat /\ clock' = clock + 1 /\ clock' \in Time
    BY TimeIsNat DEF IInv, TypeOK, Tick, Time
  <1>2. ASSUME NEW r \in Caller PROVE RequestOK(req'[r], clock')
    <2>1. req[r] \in Request /\ RequestOK(req[r], clock) /\ req[r].now \in Nat
      BY Typed, TimeIsNat DEF Request
    <2>2. CASE req[r] = Idle
      BY <1>1, <2>2, IdleOK DEF Tick
    <2>3. CASE req[r] # Idle
      <3>1. req'[r] = [req[r] EXCEPT !.ticked = TRUE]
        BY <2>3 DEF Tick
      <3>2. [req[r] EXCEPT !.ticked = TRUE] \in Request
        BY <2>1 DEF Request
      <3>3. req[r].now <= clock'
        BY <1>1, <2>1 DEF RequestOK
      <3> QED BY <2>1, <3>1, <3>2, <3>3 DEF RequestOK, Request
    <2> QED BY <2>2, <2>3
  <1>3. TypeOK'
    BY <1>1, <1>2 DEF IInv, TypeOK, RosterTypeOK, Tick, ledger, RequestOK
  <1>4. OneGrace' /\ OutcomeIsRecorded' /\ PartiesAreMembers'
    BY DEF IInv, Tick, ledger, OneGrace, InGrace, OutcomeIsRecorded,
           PartiesAreMembers
  <1>5. RequestsOK'
    BY <1>2 DEF RequestsOK
  <1> QED BY <1>3, <1>4, <1>5 DEF IInv

\* The steps of the roster's requests.
LEMMA RosterKeeps ==
  ASSUME role \in [Member -> Role], visit \in [Clerk -> Visit], RosterNext
  PROVE  role' \in [Member -> Role] /\ visit' \in [Clerk -> Visit]
  <1>1. NoVisit \in Visit
    BY DEF NoVisit, Visit
  <1>2. PICK k \in Clerk : VisitAsked(k) \/ VisitReads(k) \/ VisitCounts(k)
                           \/ VisitWrites(k) \/ VisitEnds(k)
    BY DEF RosterNext
  <1>3. CASE VisitAsked(k)
    <2>1. PICK caller \in Member, move \in Moves :
              visit' = [visit EXCEPT ![k] =
                  [at |-> "existing", by |-> role[caller],
                   member |-> move[1], to |-> move[2]]]
      BY <1>3 DEF VisitAsked
    <2>2. move[1] \in Member /\ move[2] \in Role
      OBVIOUS
    <2>3. [at |-> "existing", by |-> role[caller],
           member |-> move[1], to |-> move[2]] \in Visit
      BY <2>2 DEF Visit
    <2> QED BY <1>3, <2>1, <2>3 DEF VisitAsked
  <1>4. CASE VisitReads(k)
    <2>1. \A at \in {"owners", "write"} : [visit[k] EXCEPT !.at = at] \in Visit
      BY DEF Visit
    <2> QED BY <1>4, <2>1 DEF VisitReads
  <1>5. CASE VisitCounts(k)
    <2>1. [visit[k] EXCEPT !.at = "write"] \in Visit
      BY DEF Visit
    <2> QED BY <1>5, <2>1 DEF VisitCounts
  <1>6. CASE VisitWrites(k)
    <2>1. visit[k].to \in Role
      BY DEF Visit
    <2> QED BY <1>1, <1>6, <2>1 DEF VisitWrites
  <1>7. CASE VisitEnds(k)
    BY <1>1, <1>7 DEF VisitEnds
  <1> QED BY <1>2, <1>3, <1>4, <1>5, <1>6, <1>7

\* Whatever else leaves the requests and the tables of succession alone.
LEMMA OthersKeep ==
  ASSUME IInv, UNCHANGED <<ledger, clock, req>>,
         role' \in [Member -> Role], visit' \in [Clerk -> Visit],
         seen' \in [Member -> [Table -> Time]]
  PROVE  IInv'
  <1>1. TypeOK'
    BY DEF IInv, TypeOK, RosterTypeOK, ledger
  <1>2. OneGrace' /\ OutcomeIsRecorded' /\ PartiesAreMembers' /\ RequestsOK'
    BY DEF IInv, ledger, OneGrace, InGrace, OutcomeIsRecorded,
           PartiesAreMembers, RequestsOK
  <1> QED BY <1>1, <1>2 DEF IInv

\* What a removal does: the time of one row goes back, and with it what the
\* activations remember that have yet to read its table.
Goes(m, t, left) ==
    /\ left < seen[m][t]
    /\ seen' = [seen EXCEPT ![m][t] = left]
    /\ req' = [r \in Caller |->
           IF /\ req[r].op = "activate" /\ req[r].row.owner = m
              /\ req[r].at \in Before(t) /\ left < req[r].since[t]
           THEN [req[r] EXCEPT !.since[t] = left] ELSE req[r]]
    /\ UNCHANGED <<role, visit, ledger, clock>>

LEMMA GoneIs ==
  ASSUME IInv, DeviceGone
  PROVE  \E m \in Member, t \in Table, left \in Time : Goes(m, t, left)
  <1>1. PICK m \in Watched, t \in Reporting :
            \E left \in 0..(seen[m][t] - 1) :
                /\ seen' = [seen EXCEPT ![m][t] = left]
                /\ req' = [r \in Caller |->
                       IF /\ req[r].op = "activate" /\ req[r].row.owner = m
                          /\ req[r].at \in Before(t) /\ left < req[r].since[t]
                       THEN [req[r] EXCEPT !.since[t] = left] ELSE req[r]]
    BY DEF DeviceGone
  <1>2. m \in Member /\ t \in Table
    BY DEF Watched
  <1>3. seen[m][t] \in Time
    BY <1>2 DEF IInv, TypeOK
  <1>4. \A left \in 0..(seen[m][t] - 1) : left \in Time /\ left < seen[m][t]
    BY <1>3 DEF Time
  <1>5. PICK left \in 0..(seen[m][t] - 1) :
            /\ seen' = [seen EXCEPT ![m][t] = left]
            /\ req' = [r \in Caller |->
                   IF /\ req[r].op = "activate" /\ req[r].row.owner = m
                      /\ req[r].at \in Before(t) /\ left < req[r].since[t]
                   THEN [req[r] EXCEPT !.since[t] = left] ELSE req[r]]
    BY <1>1
  <1>6. left \in Time /\ Goes(m, t, left)
    BY <1>4, <1>5 DEF DeviceGone, Goes
  <1> QED BY <1>2, <1>6

\* A request differs in nothing else afterwards.
LEMMA GoesIs ==
  ASSUME IInv, NEW m \in Member, NEW t \in Table, NEW left \in Time,
         Goes(m, t, left), NEW r \in Caller
  PROVE  /\ req'[r] \in Request
         /\ req'[r].op = req[r].op /\ req'[r].at = req[r].at
         /\ req'[r].actor = req[r].actor /\ req'[r].heir = req[r].heir
         /\ req'[r].row = req[r].row /\ req'[r].case = req[r].case
         /\ req'[r].now = req[r].now /\ req'[r].last = req[r].last
         /\ req'[r].since = IF /\ req[r].op = "activate" /\ req[r].row.owner = m
                               /\ req[r].at \in Before(t) /\ left < req[r].since[t]
                            THEN [req[r].since EXCEPT ![t] = left]
                            ELSE req[r].since
  <1>1. req[r] \in Request
    BY Typed
  <1>2. req'[r] = IF /\ req[r].op = "activate" /\ req[r].row.owner = m
                     /\ req[r].at \in Before(t) /\ left < req[r].since[t]
                  THEN [req[r] EXCEPT !.since = [req[r].since EXCEPT ![t] = left]]
                  ELSE req[r]
    BY DEF Goes
  <1>3. [req[r].since EXCEPT ![t] = left] \in [Table -> Time]
    BY <1>1 DEF Request
  <1> QED BY <1>1, <1>2, <1>3 DEF Request

LEMMA GoneKeeps == ASSUME IInv, DeviceGone PROVE IInv'
  <1>1. PICK m \in Member, t \in Table, left \in Time : Goes(m, t, left)
    BY GoneIs
  <1>2. seen' \in [Member -> [Table -> Time]]
    BY <1>1 DEF Goes, IInv, TypeOK
  <1>3. ASSUME NEW r \in Caller PROVE RequestOK(req'[r], clock')
    <2>1. RequestOK(req[r], clock) /\ clock' = clock
      BY <1>1, Typed DEF Goes
    <2> QED BY <1>1, <2>1, GoesIs DEF RequestOK
  <1>4. req' \in [Caller -> Request]
    BY <1>1, <1>3 DEF Goes, RequestOK
  <1>5. TypeOK'
    BY <1>1, <1>2, <1>4 DEF Goes, IInv, TypeOK, RosterTypeOK, ledger
  <1>6. OneGrace' /\ OutcomeIsRecorded' /\ PartiesAreMembers'
    BY <1>1 DEF Goes, IInv, ledger, OneGrace, InGrace, OutcomeIsRecorded,
           PartiesAreMembers
  <1>7. RequestsOK'
    BY <1>3 DEF RequestsOK
  <1> QED BY <1>5, <1>6, <1>7 DEF IInv

\* Every step keeps the invariant.
LEMMA NextKeeps == ASSUME IInv, [Next]_vars PROVE IInv'
  <1>1. CASE Roster
    BY <1>1, RosterKeeps, OthersKeep DEF Roster, IInv, TypeOK, RosterTypeOK
  <1>2. CASE DeviceSeen
    <2>1. seen' \in [Member -> [Table -> Time]]
      <3>1. PICK m \in Member, t \in Table : seen' = [seen EXCEPT ![m][t] = clock]
        BY <1>2 DEF DeviceSeen, Watched
      <3>2. seen \in [Member -> [Table -> Time]] /\ clock \in Time
        BY DEF IInv, TypeOK
      <3>3. [seen[m] EXCEPT ![t] = clock] \in [Table -> Time]
        BY <3>2
      <3> QED BY <3>1, <3>2, <3>3
    <2> QED BY <1>2, <2>1, OthersKeep DEF DeviceSeen, IInv, TypeOK, RosterTypeOK
  <1>3. CASE Tick
    BY <1>3, TickKeeps
  <1>4. ASSUME NEW r \in Caller, Serve(r) PROVE IInv'
    BY <1>4, AskKeeps, ConfigureReadsKeep, ActivateReadsKeep, CaseReadsKeep,
       ConfigureKeeps, DisableKeeps, FinalizeKeeps, ActivateKeeps, ApproveKeeps
       DEF Serve
  <1>5. CASE UNCHANGED vars
    BY <1>5, OthersKeep DEF vars, IInv, TypeOK, RosterTypeOK
  <1>6. CASE DeviceGone
    BY <1>6, GoneKeeps
  <1> QED BY <1>1, <1>2, <1>3, <1>4, <1>5, <1>6 DEF Next

LEMMA Invariant == Spec => []IInv
  <1>1. IInv /\ [Next]_vars => IInv'
    BY NextKeeps
  <1> QED BY <1>1, InitIInv, PTL DEF Spec

-----------------------------------------------------------------------------
(* Theorems. *)

\* Every variable keeps its type, for every roster, threshold and period.
THEOREM TypeCorrect == Spec => []TypeOK
  <1>1. IInv => TypeOK
    BY DEF IInv
  <1> QED BY <1>1, Invariant, PTL

\* At most one case is in its grace period, however many activations race.
THEOREM AtMostOneGrace == Spec => []OneGrace
  <1>1. IInv => OneGrace
    BY DEF IInv
  <1> QED BY <1>1, Invariant, PTL

\* A case is never settled without its event.
THEOREM OutcomesRecorded == Spec => []OutcomeIsRecorded
  <1>1. IInv => OutcomeIsRecorded
    BY DEF IInv
  <1> QED BY <1>1, Invariant, PTL

\* The reads and the writes that leave the roster and the cases alone.
Quiet(r) ==
    \/ Ask(r)
    \/ ConfigureReadsRoster(r) \/ ConfigureReadsNow(r) \/ ConfigureReadsCase(r)
    \/ ReadsRow(r) \/ ReadsCase(r)
    \/ ActivateReadsRow(r) \/ ActivateReadsCase(r) \/ ActivateReadsRoster(r)
    \/ ActivateReadsDevices(r) \/ ActivateReadsNodes(r)
    \/ ApproveReadsCase(r) \/ Approve(r)
    \/ CancelReadsCase(r) \/ FinalizeReadsCase(r) \/ FinalizeCounts(r)
    \/ Ends(r)

LEMMA QuietIs ==
  ASSUME NEW r \in Caller, Quiet(r)
  PROVE  UNCHANGED <<role, cases, visit>>
  BY DEF Quiet, Ask, ConfigureReadsRoster, ConfigureReadsNow, ConfigureReadsCase,
         ReadsRow, ReadsCase, ActivateReadsRow, ActivateReadsCase,
         ActivateReadsRoster, ActivateReadsDevices, ActivateReadsNodes,
         ApproveReadsCase, Approve, CancelReadsCase, FinalizeReadsCase,
         FinalizeCounts, Ends, ReadsOnly, ledger

\* What settling a case does to it.
LEMMA Settled1 ==
  ASSUME IInv, NEW c, NEW how, cases' = Settle(c, how), NEW d \in Case
  PROVE  /\ ~(d = c /\ cases[d].status = "grace") => cases'[d] = cases[d]
         /\ d = c /\ cases[d].status = "grace" =>
                /\ cases'[d].status = how
                /\ cases'[d].owner = cases[d].owner
                /\ cases'[d].heir = cases[d].heir
  <1>1. cases[d] \in CaseRow
    BY DEF IInv, TypeOK
  <1>2. cases'[d] = IF d = c /\ cases[d].status = "grace"
                    THEN [cases[d] EXCEPT !.status = how] ELSE cases[d]
    BY DEF Settle
  <1> QED BY <1>1, <1>2 DEF CaseRow

\* A finalization that changes the roster earned it at that moment.
LEMMA FinalizeIs ==
  ASSUME IInv, NEW r \in Caller, Finalize(r), cases[req[r].case].status = "grace"
  PROVE  LET c == req[r].case IN
         /\ c \in Case /\ MayComplete(c, clock)
         /\ cases'[c].status = "completed"
         /\ role' = [role EXCEPT ![cases[c].owner] = "admin",
                                 ![cases[c].heir] = "owner"]
  <1>1. req[r].case \in Case /\ req[r].now <= clock /\ req[r].now \in Time
    BY Typed DEF Finalize, At, RequestOK, Request
  <1>2. MayComplete(req[r].case, req[r].now)
    BY DEF Finalize
  <1>3. cases[req[r].case].ends \in Nat /\ clock \in Nat /\ req[r].now \in Nat
    <2>1. cases[req[r].case] \in CaseRow /\ clock \in Time
      BY <1>1 DEF IInv, TypeOK
    <2>2. cases[req[r].case].ends \in 0..(MaxTime + Grace)
      BY <2>1 DEF CaseRow
    <2> QED BY <1>1, <2>1, <2>2, TimeIsNat
  <1>4. MayComplete(req[r].case, clock)
    BY <1>1, <1>2, <1>3 DEF MayComplete
  <1>5. cases'[req[r].case].status = "completed"
    BY <1>1, Settled1 DEF Finalize
  <1> QED BY <1>1, <1>4, <1>5 DEF Finalize

\* A step of the roster's requests changes one role, as the visit said.
LEMMA VisitIs ==
  ASSUME IInv, RosterNext, role' # role
  PROVE  \E k \in Clerk : VisitWrites(k)
  BY DEF RosterNext, VisitAsked, VisitReads, VisitCounts, VisitEnds

\* A visit that may write hands out an administrative role for an owner.
VisitsOK ==
    \A k \in Clerk :
        visit[k].at \in {"owners", "write"} /\ visit[k].to = "owner" =>
            visit[k].by = "owner"

LEMMA VisitsInvariant == Spec => []VisitsOK
  <1>1. Init => VisitsOK
    BY DEF Init, RosterInit, NoVisit, VisitsOK
  <1>2. ASSUME IInv, VisitsOK, [Next]_vars PROVE VisitsOK'
    <2>1. CASE RosterNext
      <3>1. visit \in [Clerk -> Visit]
        BY <1>2 DEF IInv, TypeOK, RosterTypeOK
      <3>2. PICK k \in Clerk : VisitAsked(k) \/ VisitReads(k) \/ VisitCounts(k)
                               \/ VisitWrites(k) \/ VisitEnds(k)
        BY <2>1 DEF RosterNext
      <3>3. CASE VisitAsked(k)
        BY <1>2, <3>1, <3>3 DEF VisitAsked, VisitsOK
      <3>4. CASE VisitReads(k)
        BY <1>2, <3>1, <3>4 DEF VisitReads, VisitsOK, Visit
      <3>5. CASE VisitCounts(k)
        BY <1>2, <3>1, <3>5 DEF VisitCounts, VisitsOK, Visit
      <3>6. CASE VisitWrites(k) \/ VisitEnds(k)
        BY <1>2, <3>1, <3>6 DEF VisitWrites, VisitEnds, VisitsOK, NoVisit
      <3> QED BY <3>2, <3>3, <3>4, <3>5, <3>6
    <2>2. CASE UNCHANGED visit
      BY <1>2, <2>2 DEF VisitsOK
    <2>3. ASSUME NEW r \in Caller, Serve(r) PROVE UNCHANGED visit
      <3>1. CASE Quiet(r)
        BY <3>1, QuietIs
      <3>2. CASE Configure(r) \/ Disable(r) \/ CheckIn(r) \/ Activate(r)
                 \/ Cancel(r) \/ Finalize(r)
        BY <3>2 DEF Configure, Disable, CheckIn, Activate, Cancel, Finalize
      <3> QED BY <2>3, <3>1, <3>2 DEF Serve, Quiet
    <2> QED BY <1>2, <2>1, <2>2, <2>3
            DEF Next, Roster, DeviceSeen, DeviceGone, Tick, vars
  <1> QED BY <1>1, <1>2, Invariant, PTL DEF Spec

\* Only an owner's request or an earned case makes an owner.
THEOREM RolesEarned == Spec => RolesAreEarned
  <1>1. ASSUME IInv, VisitsOK, [Next]_vars
        PROVE  [\A m \in Member :
                   role[m] # "owner" /\ role'[m] = "owner" =>
                       Given(m) \/ Earned(m)]_vars
    <2>1. ASSUME NEW m \in Member, role[m] # "owner", role'[m] = "owner"
          PROVE  Given(m) \/ Earned(m)
      <3>1. role' # role /\ role \in [Member -> Role]
        BY <1>1, <2>1 DEF IInv, TypeOK, RosterTypeOK
      <3>2. CASE RosterNext
        <4>1. PICK k \in Clerk : VisitWrites(k)
          BY <1>1, <3>1, <3>2, VisitIs
        <4>2. visit[k].member = m /\ visit[k].to = "owner"
          BY <2>1, <3>1, <4>1 DEF VisitWrites
        <4> QED BY <1>1, <4>1, <4>2 DEF VisitWrites, VisitsOK, Given
      <3>3. ASSUME NEW r \in Caller, Serve(r) PROVE Earned(m)
        <4>1. Finalize(r)
          BY <3>1, <3>3, QuietIs
             DEF Serve, Quiet, Configure, Disable, CheckIn, Activate, Cancel
        <4>2. cases[req[r].case].status = "grace"
          BY <3>1, <4>1 DEF Finalize
        <4> DEFINE c == req[r].case
        <4>3. /\ c \in Case /\ MayComplete(c, clock)
              /\ cases'[c].status = "completed"
              /\ role' = [role EXCEPT ![cases[c].owner] = "admin",
                                      ![cases[c].heir] = "owner"]
          BY <1>1, <4>1, <4>2, FinalizeIs
        <4>4. cases[c].owner \in Member /\ cases[c].heir \in Member
          BY <1>1, <4>2, <4>3 DEF IInv, PartiesAreMembers
        <4>5. m \in {cases[c].owner, cases[c].heir}
          BY <2>1, <3>1, <4>3, <4>4
        <4> QED BY <4>2, <4>3, <4>5 DEF Earned
      <3>4. CASE DeviceSeen \/ DeviceGone \/ Tick \/ UNCHANGED vars
        BY <3>1, <3>4 DEF DeviceSeen, DeviceGone, Tick, vars
      <3> QED BY <1>1, <3>2, <3>3, <3>4 DEF Next, Roster
    <2> QED BY <2>1
  <1> QED BY <1>1, Invariant, VisitsInvariant, PTL DEF Spec, RolesAreEarned

-----------------------------------------------------------------------------
(* Succession implements SuccessionLife. *)

\* A case's two parties stay when it is settled.
LEMMA SettleImplements ==
  ASSUME IInv, NEW c \in Case \cup {0}, NEW how \in {"cancelled", "superseded"},
         cases' = Settle(c, how), UNCHANGED role
  PROVE  [Life!Next]_<<role, Stage, Party>>
  <1>1. CASE c \in Case /\ cases[c].status = "grace"
    <2>1. Stage' = [Stage EXCEPT ![c] = how]
      <3>1. \A d \in Case : cases'[d].status =
                IF d = c THEN how ELSE cases[d].status
        BY <1>1, Settled1
      <3> QED BY <1>1, <3>1 DEF Stage
    <2>2. Party' = Party
      BY <1>1, Settled1 DEF Party
    <2>3. Life!CallOff(c)
      BY <1>1, <2>1, <2>2 DEF Life!CallOff, Stage
    <2> QED BY <1>1, <2>3 DEF Life!Next
  <1>2. CASE ~(c \in Case /\ cases[c].status = "grace")
    <2>1. \A d \in Case : cases'[d] = cases[d]
      BY <1>2, Settled1
    <2>2. Stage' = Stage /\ Party' = Party
      BY <2>1 DEF Stage, Party
    <2> QED BY <2>2
  <1> QED BY <1>1, <1>2

LEMMA ActivateImplements ==
  ASSUME IInv, NEW r \in Caller, Activate(r)
  PROVE  [Life!Next]_<<role, Stage, Party>>
  <1>1. req[r].row.owner \in Member /\ req[r].row.heir \in Member
    BY Typed DEF Activate, At, RequestOK
  <1>2. PICK c \in Case :
            /\ \A d \in Case : (d < c) <=> cases[d].status # "none"
            /\ cases' = [cases EXCEPT ![c] =
                   [status |-> "grace", owner |-> req[r].row.owner,
                    heir |-> req[r].row.heir, ends |-> req[r].now + Grace]]
    BY DEF Activate
  <1>3. cases[c].status = "none"
    <2>1. ~(c < c)
      OBVIOUS
    <2> QED BY <1>2, <2>1
  <1>4. \A d \in Case : cases[d].status # "grace"
    BY DEF Activate, InGrace
  <1>5. cases \in [Case -> CaseRow]
    BY DEF IInv, TypeOK
  <1>6. Stage' = [Stage EXCEPT ![c] = "grace"]
    BY <1>2, <1>5 DEF Stage
  <1>7. Party' = [Party EXCEPT ![c] = <<req[r].row.owner, req[r].row.heir>>]
    BY <1>2, <1>5 DEF Party
  <1>8. Life!Open(c)
    BY <1>1, <1>3, <1>4, <1>6, <1>7 DEF Life!Open, Stage, Activate
  <1> QED BY <1>8 DEF Life!Next

LEMMA FinalizeImplements ==
  ASSUME IInv, NEW r \in Caller, Finalize(r)
  PROVE  [Life!Next]_<<role, Stage, Party>>
  <1> DEFINE c == req[r].case
  <1>1. c \in Case
    BY Typed DEF Finalize, At, RequestOK
  <1>2. CASE cases[c].status = "grace"
    <2>1. /\ MayComplete(c, clock)
          /\ role' = [role EXCEPT ![cases[c].owner] = "admin",
                                  ![cases[c].heir] = "owner"]
      BY <1>2, FinalizeIs
    <2>2. Stage' = [Stage EXCEPT ![c] = "completed"]
      <3>1. \A d \in Case : cases'[d].status =
                IF d = c THEN "completed" ELSE cases[d].status
        BY <1>1, <1>2, Settled1 DEF Finalize
      <3> QED BY <1>1, <3>1 DEF Stage
    <2>3. Party' = Party
      BY <1>1, <1>2, Settled1 DEF Party, Finalize
    <2>4. Party[c] = <<cases[c].owner, cases[c].heir>> /\ Stage[c] = "grace"
      BY <1>1, <1>2 DEF Party, Stage
    <2>5. Life!HandOver(c)
      BY <2>1, <2>2, <2>3, <2>4 DEF Life!HandOver, MayComplete
    <2> QED BY <1>1, <2>5 DEF Life!Next
  <1>3. CASE cases[c].status # "grace"
    <2>1. \A d \in Case : cases'[d] = cases[d]
      BY <1>3, Settled1 DEF Finalize
    <2>2. Stage' = Stage /\ Party' = Party /\ role' = role
      BY <1>3, <2>1 DEF Stage, Party, Finalize
    <2> QED BY <2>2
  <1> QED BY <1>2, <1>3

LEMMA StepImplements ==
  ASSUME IInv, [Next]_vars PROVE [Life!Next]_<<role, Stage, Party>>
  <1>1. CASE UNCHANGED <<role, cases>>
    BY <1>1 DEF Stage, Party
  <1>2. CASE Roster
    <2>1. UNCHANGED <<Stage, Party>>
      BY <1>2 DEF Roster, ledger, Stage, Party
    <2>2. CASE role' # role
      <3>1. PICK k \in Clerk : VisitWrites(k)
        BY <1>2, <2>2, VisitIs DEF Roster
      <3>2. role' = [role EXCEPT ![visit[k].member] = visit[k].to]
        BY <3>1 DEF VisitWrites
      <3>3. visit[k] \in Visit /\ role \in [Member -> Role]
        BY DEF IInv, TypeOK, RosterTypeOK
      <3>4. visit[k].member \in Member
        BY <2>2, <3>2, <3>3 DEF Visit
      <3>5. Life!Reassign
        BY <2>1, <3>2, <3>3, <3>4 DEF Life!Reassign, Visit
      <3> QED BY <3>5 DEF Life!Next
    <2> QED BY <2>1, <2>2
  <1>3. ASSUME NEW r \in Caller, Serve(r)
        PROVE  [Life!Next]_<<role, Stage, Party>>
    <2>1. CASE Quiet(r)
      BY <1>1, <2>1, QuietIs
    <2>2. req[r].case \in Case \cup {0}
      BY Typed DEF Request
    <2>3. CASE Configure(r) \/ Disable(r) \/ CheckIn(r) \/ Cancel(r)
      BY <2>2, <2>3, SettleImplements DEF Configure, Disable, CheckIn, Cancel
    <2>4. CASE Activate(r) \/ Finalize(r)
      BY <2>4, ActivateImplements, FinalizeImplements
    <2> QED BY <1>3, <2>1, <2>3, <2>4 DEF Serve, Quiet
  <1>4. CASE DeviceSeen \/ DeviceGone \/ Tick \/ UNCHANGED vars
    BY <1>1, <1>4 DEF DeviceSeen, DeviceGone, Tick, vars, ledger
  <1> QED BY <1>2, <1>3, <1>4 DEF Next

\* One case at a time, settled once, and roles that move with it in one step.
THEOREM Implements == Spec => ImplementsLife
  <1>1. Init => Life!Init
    <2> SUFFICES ASSUME Init PROVE Life!Init
      OBVIOUS
    <2>1. \A c \in Case : cases[c].status = "none"
      BY DEF Init, NoCase
    <2>2. Stage = [c \in Case |-> "none"] /\ Party = [c \in Case |-> <<>>]
      BY <2>1 DEF Stage, Party
    <2>3. role \in [Member -> Role]
      BY DEF Init, RosterInit
    <2> QED BY <2>2, <2>3 DEF Life!Init
  <1>2. IInv /\ [Next]_vars => [Life!Next]_<<role, Stage, Party>>
    BY StepImplements
  <1> QED BY <1>1, <1>2, Invariant, PTL DEF Spec, ImplementsLife, Life!Spec

-----------------------------------------------------------------------------
(* An activation opens no case against what stays on record. *)

\* A request that has yet to read a table remembers no more than the table says;
\* of the devices, once read, no more than it took; and when it is about to write,
\* no more than is old enough.
SinceIs(q, said, t) ==
    q.op = "activate" =>
        /\ q.at \in Before(t) => q.since[t] <= said[q.row.owner][t]
        /\ q.at = "nodes" => q.since["account_devices"] <= q.last
        /\ q.at = "write" => q.since[t] + Inactivity <= clock

SinceOK ==
    /\ \A m \in Member, t \in Table : seen[m][t] <= clock
    /\ \A r \in Caller, t \in Table : SinceIs(req[r], seen, t)

\* The types of what SinceIs compares.
LEMMA SinceTyped ==
  ASSUME IInv, NEW r \in Caller, NEW t \in Table
  PROVE  /\ clock \in Nat /\ clock \in Time /\ req \in [Caller -> Request]
         /\ seen \in [Member -> [Table -> Time]]
         /\ req[r] \in Request /\ req[r].since \in [Table -> Time]
         /\ req[r].since[t] \in Nat /\ req[r].last \in Nat
         /\ \A m \in Member : seen[m][t] \in Nat
         /\ req[r].op = "activate" /\ req[r].at \in Before(t) =>
                req[r].row.owner \in Member
  <1>1. req \in [Caller -> Request] /\ clock \in Time /\ seen \in [Member -> [Table -> Time]]
    BY DEF IInv, TypeOK
  <1>2. req[r].since \in [Table -> Time] /\ req[r].last \in Time
    BY <1>1 DEF Request
  <1>3. Before(t) \subseteq {"case", "roster", "devices", "nodes", "write"}
    BY DEF Before
  <1> QED BY <1>1, <1>2, <1>3, Typed, TimeIsNat DEF RequestOK

\* The clock, the devices and the nodes move what SinceOK compares.
LEMMA SinceKept ==
  ASSUME IInv, SinceOK, [Next]_vars PROVE SinceOK'
  <1>1. /\ clock \in Nat /\ clock \in Time /\ seen \in [Member -> [Table -> Time]]
        /\ req \in [Caller -> Request]
        /\ \A m \in Member, t \in Table : seen[m][t] \in Nat
    BY TimeIsNat DEF IInv, TypeOK
  <1>3. CASE Tick
    <2>1. clock' = clock + 1 /\ seen' = seen
      BY <1>3 DEF Tick
    <2>2. \A r \in Caller :
              \/ req'[r] = Idle
              \/ /\ req'[r].op = req[r].op /\ req'[r].at = req[r].at
                 /\ req'[r].since = req[r].since /\ req'[r].row = req[r].row
                 /\ req'[r].last = req[r].last
      BY <1>1, <1>3 DEF Tick, Request
    <2>3. ASSUME NEW r \in Caller, NEW t \in Table PROVE SinceIs(req[r], seen, t)'
      <3>1. CASE req'[r] = Idle
        BY <3>1 DEF Idle, SinceIs
      <3>2. CASE req'[r] # Idle
        BY <1>1, <2>1, <2>2, <3>2, SinceTyped DEF SinceOK, SinceIs
      <3> QED BY <3>1, <3>2
    <2>4. \A m \in Member, t \in Table : seen[m][t] <= clock + 1
      BY <1>1 DEF SinceOK
    <2> QED BY <2>1, <2>3, <2>4 DEF SinceOK
  <1>4. CASE DeviceSeen
    <2>1. req' = req /\ clock' = clock
      BY <1>4 DEF DeviceSeen
    <2>2. PICK m \in Member, s \in Table : seen' = [seen EXCEPT ![m][s] = clock]
      BY <1>4 DEF DeviceSeen, Watched
    <2>3. \A n \in Member, t \in Table :
              /\ seen'[n][t] \in {seen[n][t], clock}
              /\ seen'[n][t] <= clock /\ seen[n][t] <= seen'[n][t]
      BY <1>1, <2>2 DEF SinceOK
    <2>4. ASSUME NEW r \in Caller, NEW t \in Table PROVE SinceIs(req[r], seen, t)'
      <3>1. CASE req[r].op = "activate" /\ req[r].at \in Before(t)
        <4> DEFINE o == req[r].row.owner
        <4>1. o \in Member /\ req[r].since[t] \in Nat /\ req[r].since[t] <= seen[o][t]
          BY <3>1, SinceTyped DEF SinceOK, SinceIs
        <4>2. /\ seen[o][t] \in Nat /\ seen'[o][t] \in Nat
              /\ seen[o][t] <= seen'[o][t]
          BY <1>1, <2>3, <4>1
        <4>3. req[r].since[t] <= seen'[o][t]
          BY <4>1, <4>2
        <4> QED BY <2>1, <3>1, <4>3 DEF SinceOK, SinceIs, Before
      <3>2. CASE ~(req[r].op = "activate" /\ req[r].at \in Before(t))
        BY <2>1, <3>2 DEF SinceOK, SinceIs
      <3> QED BY <3>1, <3>2
    <2> QED BY <2>1, <2>3, <2>4 DEF SinceOK
  <1>7. CASE DeviceGone
    <2>1. PICK m \in Member, s \in Table, left \in Time : Goes(m, s, left)
      BY <1>7, GoneIs
    <2>2. clock' = clock /\ seen' = [seen EXCEPT ![m][s] = left] /\ left \in Nat
      BY <2>1, TimeIsNat DEF Goes
    <2>3. /\ left < seen[m][s] /\ left <= clock
          /\ \A n \in Member, t \in Table : seen'[n][t] <= clock
      BY <1>1, <2>1, <2>2 DEF Goes, SinceOK
    <2>4. ASSUME NEW r \in Caller, NEW t \in Table PROVE SinceIs(req[r], seen, t)'
      <3> DEFINE hit == /\ req[r].op = "activate" /\ req[r].row.owner = m
                        /\ req[r].at \in Before(s) /\ left < req[r].since[s]
      <3>1. /\ req'[r].op = req[r].op /\ req'[r].at = req[r].at
            /\ req'[r].row = req[r].row /\ req'[r].last = req[r].last
            /\ req'[r].since = IF hit THEN [req[r].since EXCEPT ![s] = left]
                               ELSE req[r].since
        BY <2>1, GoesIs
      <3>2. /\ req'[r].since[t] = IF hit /\ t = s THEN left ELSE req[r].since[t]
            /\ req[r].since[t] \in Nat
        BY <3>1, SinceTyped
      <3>3. SinceIs(req[r], seen, t)
        BY DEF SinceOK
      <3>4. ASSUME req[r].op = "activate", req[r].at \in Before(t)
            PROVE  req'[r].since[t] <= seen'[req[r].row.owner][t]
        <4> DEFINE o == req[r].row.owner
        <4>1. o \in Member /\ seen[o][t] \in Nat /\ req[r].since[t] <= seen[o][t]
          BY <3>3, <3>4, SinceTyped DEF SinceIs
        <4>2. seen'[o][t] = IF o = m /\ t = s THEN left ELSE seen[o][t]
          BY <1>1, <2>2, <4>1
        <4>3. CASE o = m /\ t = s
          BY <2>2, <3>2, <3>4, <4>2, <4>3
        <4>4. CASE ~(o = m /\ t = s)
          BY <3>2, <4>1, <4>2, <4>4
        <4> QED BY <4>3, <4>4
      <3>5. ASSUME req[r].op = "activate", req[r].at = "nodes"
            PROVE  req'[r].since["account_devices"] <= req[r].last
        <4>1. "account_devices" \in Table /\ ~(req[r].at \in Before("account_devices"))
          BY <3>5 DEF Table, Before
        <4>2. req'[r].since["account_devices"] = req[r].since["account_devices"]
          BY <3>1, <4>1, SinceTyped
        <4> QED BY <3>3, <3>5, <4>2 DEF SinceIs
      <3>6. ASSUME req[r].op = "activate", req[r].at = "write"
            PROVE  req'[r].since[t] + Inactivity <= clock
        <4>1. ~hit
          BY <3>6 DEF Before
        <4> QED BY <3>2, <3>3, <3>6, <4>1 DEF SinceIs
      <3> HIDE DEF hit
      <3> QED BY <2>2, <3>1, <3>4, <3>5, <3>6 DEF SinceIs
    <2> QED BY <2>2, <2>3, <2>4 DEF SinceOK
  <1>5. CASE Roster \/ UNCHANGED vars
    BY <1>5 DEF Roster, vars, SinceOK, SinceIs
  <1>6. ASSUME NEW r \in Caller, Serve(r) PROVE SinceOK'
    <2>1. UNCHANGED <<seen, clock>>
      BY <1>6 DEF Serve, Ask, ConfigureReadsRoster, ConfigureReadsNow,
         ConfigureReadsCase, ReadsRow, ReadsCase, ActivateReadsRow,
         ActivateReadsCase, ActivateReadsRoster, ActivateReadsDevices, ActivateReadsNodes,
         ApproveReadsCase, Approve, CancelReadsCase, FinalizeReadsCase,
         FinalizeCounts, Ends, ReadsOnly, Configure, Disable, CheckIn, Activate,
         Cancel, Finalize
    <2>2. \A q \in Caller \ {r} : req'[q] = req[q]
      BY <1>1, <1>6 DEF Serve, Ask, ConfigureReadsRoster, ConfigureReadsNow,
         ConfigureReadsCase, ReadsRow, ReadsCase, ActivateReadsRow,
         ActivateReadsCase, ActivateReadsRoster, ActivateReadsDevices, ActivateReadsNodes,
         ApproveReadsCase, Approve, CancelReadsCase, FinalizeReadsCase,
         FinalizeCounts, Ends, Configure, Disable, CheckIn, Activate,
         Cancel, Finalize, End, GoTo
    <2>3. SUFFICES ASSUME NEW t \in Table PROVE SinceIs(req[r], seen, t)'
      BY <2>1, <2>2 DEF SinceOK, SinceIs
    <2>4. req[r] \in Request
      BY <1>1
    <2>5. CASE ActivateReadsRow(r)
      <3>1. req'[r] = [req[r] EXCEPT !.row = policy, !.at = "case",
                                     !.since = seen[policy.owner]]
        BY <1>1, <2>5 DEF ActivateReadsRow, GoTo
      <3>2. /\ req'[r].row = policy /\ req'[r].at = "case"
            /\ req'[r].since = seen[policy.owner]
        BY <2>4, <3>1 DEF Request
      <3>3. policy.owner \in Member
        BY <2>5 DEF ActivateReadsRow, IInv, PartiesAreMembers
      <3> QED BY <1>1, <2>1, <3>2, <3>3 DEF SinceIs
    <2>6. CASE ActivateReadsCase(r) \/ ActivateReadsRoster(r)
      <3>1. PICK at \in {"roster", "devices"} : req'[r] = [req[r] EXCEPT !.at = at]
        BY <1>1, <2>6 DEF ActivateReadsCase, ActivateReadsRoster, GoTo
      <3>2. /\ req[r].op = "activate" /\ req[r].at \in {"case", "roster"}
        BY <2>6 DEF ActivateReadsCase, ActivateReadsRoster, At
      <3>3. req'[r].since = req[r].since /\ req'[r].row = req[r].row /\ req'[r].at = at
        BY <2>4, <3>1 DEF Request
      <3> QED BY <2>1, <3>2, <3>3 DEF SinceOK, SinceIs, Before
    <2>7. CASE ActivateReadsDevices(r)
      <3> DEFINE said == seen[req[r].row.owner]["account_devices"]
                 heard == Later(req[r].row.active, said)
      <3>1. req'[r] = [req[r] EXCEPT !.last = heard, !.at = "nodes"]
        BY <1>1, <2>7 DEF ActivateReadsDevices, GoTo
      <3> HIDE DEF heard
      <3>2. /\ req'[r].since = req[r].since /\ req'[r].at = "nodes"
            /\ req'[r].row = req[r].row /\ req'[r].last = heard
        BY <2>4, <3>1 DEF Request
      <3>3. req[r].op = "activate" /\ req[r].at = "devices"
        BY <2>7 DEF ActivateReadsDevices, At
      <3>4. "account_devices" \in Table /\ "devices" \in Before("account_devices")
            /\ "devices" \in Before(t)
        BY DEF Table, Before
      <3>5. /\ req[r].row.owner \in Member /\ said \in Nat
            /\ req[r].since["account_devices"] \in Nat
            /\ req[r].since["account_devices"] <= said
        BY <3>3, <3>4, SinceTyped DEF SinceOK, SinceIs
      <3>6. req[r].row.active \in Nat
        BY Typed, TimeIsNat DEF Policy
      <3>7. said <= heard /\ heard \in Nat
        BY <3>5, <3>6 DEF Later, heard
      <3>8. req[r].since["account_devices"] <= heard
        BY <3>5, <3>7
      <3>9. req[r].since[t] <= seen[req[r].row.owner][t]
        BY <3>3, <3>4 DEF SinceOK, SinceIs
      <3> QED BY <2>1, <3>2, <3>8, <3>9 DEF SinceIs
    <2>13. CASE ActivateReadsNodes(r)
      <3> DEFINE said == seen[req[r].row.owner]["nodes"]
                 heard == Later(req[r].last, said)
      <3>1. req'[r] = [req[r] EXCEPT !.now = clock, !.at = "write"]
        BY <1>1, <2>13 DEF ActivateReadsNodes, GoTo
      <3>2. req'[r].since = req[r].since /\ req'[r].at = "write"
        BY <2>4, <3>1 DEF Request
      <3>3. req[r].op = "activate" /\ req[r].at = "nodes"
        BY <2>13 DEF ActivateReadsNodes, At
      <3>4. "nodes" \in Table /\ "nodes" \in Before("nodes")
        BY DEF Table, Before
      <3>5. /\ req[r].row.owner \in Member /\ said \in Nat
            /\ req[r].since["nodes"] <= said
            /\ req[r].since["account_devices"] <= req[r].last
        BY <3>3, <3>4, SinceTyped DEF SinceOK, SinceIs
      <3>6. /\ req[r].last \in Nat /\ req[r].since[t] \in Nat
            /\ t = "nodes" \/ t = "account_devices"
        BY SinceTyped DEF Table
      <3>7. said <= heard /\ req[r].last <= heard /\ heard \in Nat
        BY <3>5, <3>6 DEF Later
      <3>8. req[r].since[t] <= said \/ req[r].since[t] <= req[r].last
        BY <3>5, <3>6
      <3>9. heard + Inactivity <= clock
        BY <2>13 DEF ActivateReadsNodes
      <3> HIDE DEF said, heard
      <3>10. req[r].since[t] + Inactivity <= clock
        BY <1>1, <3>5, <3>6, <3>7, <3>8, <3>9
      <3> QED BY <2>1, <3>2, <3>10 DEF SinceIs, Before
    <2>8. CASE req'[r] = Idle
      BY <2>8 DEF Idle, SinceIs
    <2>9. CASE req'[r].op # "activate"
      BY <2>9 DEF SinceIs
    <2>10. CASE Ask(r)
      <3>1. req'[r].at \in {"roster", "case", "row"}
            /\ (req'[r].op = "activate" => req'[r].at = "row")
        BY <1>1, <2>10 DEF Ask, GoTo, Idle
      <3> QED BY <3>1 DEF SinceIs, Before
    <2>11. CASE ConfigureReadsRoster(r) \/ ConfigureReadsNow(r) \/ ConfigureReadsCase(r)
                \/ ReadsRow(r) \/ ReadsCase(r) \/ ApproveReadsCase(r)
                \/ CancelReadsCase(r) \/ FinalizeReadsCase(r) \/ FinalizeCounts(r)
      <3>1. req'[r].op = req[r].op
        <4>1. CASE ConfigureReadsRoster(r)
          <5>1. PICK heir \in Named : req'[r] = [req[r] EXCEPT !.heir = heir, !.at = "now"]
            BY <1>1, <4>1 DEF ConfigureReadsRoster, GoTo
          <5> QED BY <2>4, <5>1 DEF Request
        <4>2. CASE ConfigureReadsNow(r) \/ ReadsRow(r)
          <5>1. req'[r] = [req[r] EXCEPT !.now = clock, !.at = "case"]
            BY <1>1, <4>2 DEF ConfigureReadsNow, ReadsRow, GoTo
          <5> QED BY <2>4, <5>1 DEF Request
        <4>3. CASE ConfigureReadsCase(r) \/ ReadsCase(r)
          <5>1. req'[r] = [req[r] EXCEPT !.case = ActiveCase, !.at = "write"]
            BY <1>1, <4>3 DEF ConfigureReadsCase, ReadsCase, GoTo
          <5> QED BY <2>4, <5>1 DEF Request
        <4>4. CASE ApproveReadsCase(r) \/ CancelReadsCase(r)
          <5>1. PICK c \in InGrace :
                    req'[r] = [req[r] EXCEPT !.case = c, !.now = clock, !.at = "write"]
            BY <1>1, <4>4 DEF ApproveReadsCase, CancelReadsCase, GoTo
          <5> QED BY <2>4, <5>1 DEF Request
        <4>5. CASE FinalizeReadsCase(r)
          <5>1. PICK c \in InGrace :
                    req'[r] = [req[r] EXCEPT !.case = c, !.now = clock, !.at = "count"]
            BY <1>1, <4>5 DEF FinalizeReadsCase, GoTo
          <5> QED BY <2>4, <5>1 DEF Request
        <4>6. CASE FinalizeCounts(r)
          <5>1. req'[r] = [req[r] EXCEPT !.at = "write"]
            BY <1>1, <4>6 DEF FinalizeCounts, GoTo
          <5> QED BY <2>4, <5>1 DEF Request
        <4> QED BY <2>11, <4>1, <4>2, <4>3, <4>4, <4>5, <4>6
      <3>2. req[r].op # "activate"
        BY <2>11 DEF ConfigureReadsRoster, ConfigureReadsNow,
           ConfigureReadsCase, ReadsRow, ReadsCase, ApproveReadsCase,
           CancelReadsCase, FinalizeReadsCase, FinalizeCounts, At
      <3> QED BY <2>9, <3>1, <3>2
    <2>12. CASE Configure(r) \/ Disable(r) \/ CheckIn(r) \/ Activate(r) \/ Approve(r)
                \/ Cancel(r) \/ Finalize(r) \/ Ends(r)
      BY <1>1, <2>8, <2>12 DEF Configure, Disable, CheckIn, Activate, Approve,
         Cancel, Finalize, Ends, End, GoTo
    <2> QED BY <1>6, <2>5, <2>6, <2>7, <2>10, <2>11, <2>12, <2>13 DEF Serve
  <1> QED BY <1>3, <1>4, <1>5, <1>6, <1>7 DEF Next

\* What an activation finds on record is old enough when it opens a case: what
\* the owner's devices and nodes say, and say until they are read, is not missed.
THEOREM OpensInTime == Spec => OpensOnlyIfInactive
  <1>1. Init => SinceOK
    BY TimeIsNat DEF Init, SinceOK, SinceIs, Idle, Never
  <1>2. IInv /\ SinceOK /\ [Next]_vars => SinceOK'
    BY SinceKept
  <1>3. SinceOK => [\A r \in Caller, t \in Table :
            At(r, "activate", "write") /\ cases' # cases /\ req'[r] = Idle =>
                req[r].since[t] + Inactivity <= clock]_vars
    BY DEF SinceOK, SinceIs, At
  <1> QED BY <1>1, <1>2, <1>3, Invariant, PTL DEF Spec, OpensOnlyIfInactive
=============================================================================
