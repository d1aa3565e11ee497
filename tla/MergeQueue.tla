------------------------------ MODULE MergeQueue ------------------------------
(***************************************************************************)
(* The merge queue of the desktop node (MergeQueue.cpp,                     *)
(* MainWindowMergeQueue.cpp) with what it works on: the pull requests that  *)
(* PullStore keeps on disk, the snapshot of them the window shows, and the  *)
(* open repository.                                                         *)
(*                                                                         *)
(* Everything runs on the GUI thread except the load of a snapshot.  Each   *)
(* git command waits in a loop that handles events, without user input:     *)
(* while a pass is under way pull requests and reviews arrive and loads are *)
(* delivered, but nobody clicks.  A step of a pass is what happens between  *)
(* two places where that matters: one step for each question it asks git,   *)
(* four for mergePull, which reads the gate, merges, records the merge and  *)
(* commits, each with git commands before the next.  While a repository is  *)
(* being opened, timers fire and the results of loads are held back.        *)
(* One event's own handling of git (reloadPulls) is one step; other callers *)
(* that postpone a pass (an AI fix, a conflict editor) only delay its timer.*)
(***************************************************************************)
EXTENDS Naturals, Sequences, FiniteSets, SequencesExt

CONSTANTS
    Repo,      \* repositories of this node, which may write to them
    Pull,      \* pull requests that may be opened
    NoRepo,
    Home,      \* [Pull -> Repo]
    Local,     \* pull requests whose head is a branch of the work tree
    Gated,     \* repositories with requirePeerApproval
    Allowed,   \* what users and peers may do here: names of actions
    Faults     \* BOOLEAN: git commands may fail, merges may conflict

ASSUME MergeQueueAssumption ==
    /\ NoRepo \notin Repo /\ IsFiniteSet(Pull)
    /\ Home \in [Pull -> Repo]
    /\ Local \subseteq Pull /\ Gated \subseteq Repo
    /\ Faults \in BOOLEAN

VARIABLES
    pull,      \* the pull requests on disk
    rows,      \* repository -> saved queue
    enabled,   \* repositories with mergeQueueEnabled
    paused,    \* repositories with mergeQueuePaused
    open,      \* the repository of m_repoDetailIndex
    opening,   \* m_repoDetailLoading
    shown,     \* m_currentPulls
    load,      \* the load in flight
    again,     \* m_pullBackgroundReloadQueued
    deleting,  \* what the worker of m_pullDeleteInProgress deletes
    timer,     \* m_mergeQueueTimer is active
    pass       \* the pass of processMergeQueue that is under way

disk == <<pull, rows, enabled, paused>>
view == <<open, opening, shown, load, again, deleting>>
vars == <<disk, view, timer, pass>>

PullState == [number : 0..Cardinality(Pull), status : {"new", "open", "merged", "gone"},
              approved : BOOLEAN, behind : BOOLEAN]

State == {"queued", "updating", "merging", "blocked", "failed"}

\* A row keeps, for the properties only, which pull request the user meant.
Row == [number : 1..Cardinality(Pull), state : State, meant : Pull]

Shown == [id : Pull, number : 1..Cardinality(Pull), status : {"open", "merged"},
          approved : BOOLEAN]

NoLoad == [at |-> "none", repo |-> NoRepo, fresh |-> FALSE, pulls |-> {}]
NoDelete == [repo |-> NoRepo, number |-> 0]

\* A pass keeps, for the properties only, whether the approval was withdrawn
\* after mergePull had read it.
NoPass == [at |-> "none", repo |-> NoRepo, left |-> <<>>, number |-> 0, pending |-> FALSE,
           late |-> FALSE]

-----------------------------------------------------------------------------
(* The store and the queue's rows. *)

StoredIn(ps, r) == {p \in Pull : Home[p] = r /\ ps[p].status \in {"open", "merged"}}

\* The pull request of directory n, if there is one.
Numbered(r, n) == {p \in StoredIn(pull, r) : pull[p].number = n}

\* Mutant: the largest number itself, from 1.
NextNumberFromOne(r) == Max({pull[p].number : p \in StoredIn(pull, r)} \cup {1})

\* Mutant: the largest number itself, from 0.
NextNumberFromZero(r) == Max({pull[p].number : p \in StoredIn(pull, r)} \cup {0})

\* nextNumber: one more than the largest directory that is there now.
NextNumber(r) == 1 + Max({pull[p].number : p \in StoredIn(pull, r)} \cup {0})

\* loadAll
Snapshot(ps, r) ==
    {[id |-> p, number |-> ps[p].number, status |-> ps[p].status,
      approved |-> ps[p].approved] : p \in StoredIn(ps, r)}

Numbers(q) == {q[i].number : i \in DOMAIN q}

\* fromRows: an update or a merge does not survive being written.  Saved rows
\* are distinct, so that none is skipped.
FromRows(q) ==
    [i \in DOMAIN q |-> IF q[i].state \in {"updating", "merging"}
                        THEN [q[i] EXCEPT !.state = "queued"] ELSE q[i]]

\* The first row of q for number n, which has one.
indexOf(q, n) ==
    CHOOSE i \in DOMAIN q : q[i].number = n /\ \A j \in 1..(i - 1) : q[j].number # n

\* setMergeQueueEntryState
SetState(r, n, s) ==
    rows' = [rows EXCEPT ![r] =
        IF n \in Numbers(@) THEN [FromRows(@) EXCEPT ![indexOf(@, n)].state = s] ELSE @]

\* dropMergeQueueEntry, removePullFromMergeQueue
Drop(r, n) ==
    rows' = [rows EXCEPT ![r] =
        IF n \in Numbers(@) THEN RemoveAt(FromRows(@), indexOf(@, n)) ELSE @]

\* The repositories as loadRepositories finds them, with their queue on.
Init ==
    /\ pull = [p \in Pull |-> [number |-> 0, status |-> "new",
                               approved |-> FALSE, behind |-> FALSE]]
    /\ rows = [r \in Repo |-> <<>>]
    /\ enabled = Repo /\ paused = {}
    /\ open = NoRepo /\ opening = FALSE
    /\ shown = {} /\ load = NoLoad /\ again = FALSE
    /\ deleting = NoDelete
    /\ timer = FALSE /\ pass = NoPass

-----------------------------------------------------------------------------
(* Snapshots of the pull requests. *)

\* Mutant: the load in flight is not superseded.
ReloadOnly ==
    /\ shown' = Snapshot(pull', open)
    /\ timer' = TRUE
    /\ UNCHANGED <<load, again>>

\* reloadPulls, which supersedes the load in flight.
Reload ==
    /\ shown' = Snapshot(pull', open)
    /\ load' = [load EXCEPT !.fresh = FALSE]
    /\ timer' = TRUE
    /\ UNCHANGED again

\* Whoever changed a pull request of repository r reloads it if it is open.
ReloadIfOpen(r) ==
    IF open = r THEN Reload ELSE UNCHANGED <<shown, load, timer, again>>

\* reloadPullsInBackground
ReloadInBackground(r) ==
    IF load.at = "none"
    THEN /\ load' = [at |-> "reading", repo |-> r, fresh |-> TRUE, pulls |-> {}]
         /\ UNCHANGED again
    ELSE load' = [load EXCEPT !.fresh = FALSE] /\ again' = TRUE

\* The worker reads the store.
LoadReads ==
    /\ load.at = "reading"
    /\ load' = [load EXCEPT !.at = "read", !.pulls = Snapshot(pull, load.repo)]
    /\ UNCHANGED <<disk, open, opening, shown, again, deleting, timer, pass>>

\* Its result is delivered; a superseded one is not applied.
LoadDelivered ==
    /\ load.at = "read" /\ ~opening
    /\ IF load.fresh THEN shown' = load.pulls /\ timer' = TRUE
                     ELSE UNCHANGED <<shown, timer>>
    /\ load' = IF again /\ open # NoRepo
               THEN [at |-> "reading", repo |-> open, fresh |-> TRUE, pulls |-> {}]
               ELSE NoLoad
    /\ again' = FALSE
    /\ UNCHANGED <<disk, open, opening, deleting, pass>>

-----------------------------------------------------------------------------
(* Peers: these events are handled in the waits of git commands too. *)

\* applyRemotePull from the inbox or createPull.
Opened(p) ==
    /\ pull[p].status = "new"
    /\ \E b \in BOOLEAN :
          pull' = [pull EXCEPT ![p] = [number |-> NextNumber(Home[p]), status |-> "open",
                                       approved |-> FALSE, behind |-> b]]
    /\ ReloadIfOpen(Home[p])
    /\ UNCHANGED <<rows, enabled, paused, open, opening, deleting, pass>>

\* mergePull works on p and has tested its gate.
GateIsRead(p) ==
    /\ pass.at \in {"landing", "landed"}
    /\ p \in Numbered(pass.repo, pass.number)

\* applyRemoteEvent: a review approves or asks for changes.
Reviewed(p) ==
    /\ "Reviewed" \in Allowed
    /\ pull[p].status = "open"
    /\ pull' = [pull EXCEPT ![p].approved = ~@]
    /\ ReloadIfOpen(Home[p])
    /\ pass' = IF GateIsRead(p) /\ pull[p].approved THEN [pass EXCEPT !.late = TRUE]
               ELSE pass
    /\ UNCHANGED <<rows, enabled, paused, open, opening, deleting>>

\* The base branch gets a commit (an agent's, or one fetched from upstream).
BaseMoves(r) ==
    /\ "BaseMoves" \in Allowed
    /\ \E p \in StoredIn(pull, r) : pull[p].status = "open" /\ ~pull[p].behind
    /\ pull' = [p \in Pull |-> IF Home[p] = r /\ pull[p].status = "open"
                               THEN [pull[p] EXCEPT !.behind = TRUE] ELSE pull[p]]
    /\ UNCHANGED <<rows, enabled, paused, view, timer, pass>>

-----------------------------------------------------------------------------
(* The user, who waits for a pass and for a repository to open. *)

AtRest == pass = NoPass /\ ~opening

\* openRepoDetail, up to its first git command, and the rest of it.
OpenRepo(r) ==
    /\ AtRest
    /\ open # NoRepo => "Switch" \in Allowed
    /\ open' = r /\ opening' = TRUE
    /\ UNCHANGED <<disk, shown, load, again, deleting, timer, pass>>

\* Mutant: the snapshot is loaded when its tab is shown.
RepoOpensLazily ==
    /\ opening /\ pass = NoPass
    /\ opening' = FALSE
    /\ shown' = {}
    /\ UNCHANGED <<disk, open, deleting, load, again, timer, pass>>

RepoOpens ==
    /\ opening /\ pass = NoPass
    /\ opening' = FALSE
    /\ shown' = {}
    /\ ReloadInBackground(open)
    /\ UNCHANGED <<disk, open, deleting, timer, pass>>

\* addPullToMergeQueue for a pull request on the list.
Enqueue(s) ==
    /\ AtRest /\ open # NoRepo
    /\ open \in enabled
    /\ s.status = "open"
    /\ s.number \notin Numbers(rows[open])
    /\ rows' = [rows EXCEPT ![open] =
          Append(FromRows(@), [number |-> s.number, state |-> "queued", meant |-> s.id])]
    /\ timer' = TRUE
    /\ UNCHANGED <<pull, enabled, paused, view, pass>>

Dequeue(n) ==
    /\ "Dequeue" \in Allowed
    /\ AtRest /\ open # NoRepo
    /\ n \in Numbers(rows[open])
    /\ Drop(open, n)
    /\ UNCHANGED <<pull, enabled, paused, view, timer, pass>>

\* moveMergeQueueSelection by one place.
Move(i) ==
    /\ "Move" \in Allowed
    /\ AtRest /\ open # NoRepo
    /\ {i, i + 1} \subseteq DOMAIN rows[open]
    /\ rows' = [rows EXCEPT ![open] =
          [FromRows(@) EXCEPT ![i] = FromRows(rows[open])[i + 1],
                              ![i + 1] = FromRows(rows[open])[i]]]
    /\ UNCHANGED <<pull, enabled, paused, view, timer, pass>>

Clear ==
    /\ "Dequeue" \in Allowed
    /\ AtRest /\ open # NoRepo
    /\ rows[open] # <<>>
    /\ rows' = [rows EXCEPT ![open] = <<>>]
    /\ UNCHANGED <<pull, enabled, paused, view, timer, pass>>

\* Mutant: switching the queue on does not arm the timer.
SetEnabledOnly(on) ==
    /\ "SetEnabled" \in Allowed
    /\ AtRest /\ open # NoRepo
    /\ (open \in enabled) # on
    /\ enabled' = IF on THEN enabled \cup {open} ELSE enabled \ {open}
    /\ UNCHANGED <<pull, rows, paused, view, timer, pass>>

\* setRepoMergeQueueEnabled
SetEnabled(on) ==
    /\ "SetEnabled" \in Allowed
    /\ AtRest /\ open # NoRepo
    /\ (open \in enabled) # on
    /\ enabled' = IF on THEN enabled \cup {open} ELSE enabled \ {open}
    /\ timer' = (timer \/ on)
    /\ UNCHANGED <<pull, rows, paused, view, pass>>

\* setMergeQueuePaused
SetPaused(on) ==
    /\ "SetPaused" \in Allowed
    /\ AtRest /\ open # NoRepo
    /\ (open \in paused) # on
    /\ paused' = IF on THEN paused \cup {open} ELSE paused \ {open}
    /\ timer' = (timer \/ ~on)
    /\ UNCHANGED <<pull, rows, enabled, view, pass>>

\* mergeCurrentPull; afterPullMerged reloads.
MergeByHand(p) ==
    /\ "MergeByHand" \in Allowed
    /\ AtRest
    /\ pull[p].status = "open" /\ Home[p] = open
    /\ open \in Gated => pull[p].approved
    /\ pull' = [q \in Pull |->
          IF q = p THEN [pull[q] EXCEPT !.status = "merged"]
          ELSE IF Home[q] = open /\ pull[q].status = "open"
               THEN [pull[q] EXCEPT !.behind = TRUE] ELSE pull[q]]
    /\ Reload
    /\ UNCHANGED <<rows, enabled, paused, open, opening, deleting, pass>>

\* closeCurrentPull: setStatus("closed") deletes the directory.
Close(p) ==
    /\ "Close" \in Allowed
    /\ AtRest
    /\ pull[p].status = "open" /\ Home[p] = open
    /\ pull' = [pull EXCEPT ![p].status = "gone"]
    /\ Reload
    /\ UNCHANGED <<rows, enabled, paused, open, opening, deleting, pass>>

\* deleteCurrentPull: a worker deletes the directory.
Delete(p) ==
    /\ "Delete" \in Allowed
    /\ AtRest /\ deleting = NoDelete
    /\ pull[p].status \in {"open", "merged"} /\ Home[p] = open
    /\ deleting' = [repo |-> open, number |-> pull[p].number]
    /\ UNCHANGED <<disk, open, opening, shown, load, again, timer, pass>>

Deleted ==
    /\ deleting # NoDelete
    /\ LET found == Numbered(deleting.repo, deleting.number)
       IN /\ pull' = [p \in Pull |-> IF p \in found THEN [pull[p] EXCEPT !.status = "gone"]
                                    ELSE pull[p]]
          /\ IF found = {} \/ open = NoRepo
             THEN UNCHANGED <<shown, load, timer, again>> ELSE Reload
    /\ deleting' = NoDelete
    /\ UNCHANGED <<rows, enabled, paused, open, opening, pass>>

\* The program ends at any point and is started again: the saved rows stay.
Restart ==
    /\ "Restart" \in Allowed /\ open # NoRepo
    /\ open' = NoRepo /\ opening' = FALSE
    /\ shown' = {} /\ load' = NoLoad /\ again' = FALSE
    /\ deleting' = NoDelete /\ timer' = FALSE /\ pass' = NoPass
    /\ UNCHANGED disk

-----------------------------------------------------------------------------
(* A pass: processMergeQueue.  A busy queue, an empty snapshot and a         *)
(* deletion under way only put the timer off.                                *)

\* Mutant: the pass goes over the numbers in ascending order.
StartPassByNumber ==
    /\ timer /\ pass = NoPass
    /\ open \in enabled \ paused
    /\ rows[open] # <<>> /\ shown # {} /\ deleting = NoDelete
    /\ timer' = FALSE
    /\ pass' = [at |-> "pick", repo |-> open, number |-> 0, pending |-> FALSE, late |-> FALSE,
                left |-> SetToSortSeq(Numbers(rows[open]), LAMBDA m, n : m < n)]
    /\ UNCHANGED <<disk, view>>

\* The timer fires and the pass goes over the numbers queued now.
StartPass ==
    /\ timer /\ pass = NoPass
    /\ open \in enabled \ paused
    /\ rows[open] # <<>> /\ shown # {} /\ deleting = NoDelete
    /\ timer' = FALSE
    /\ pass' = [at |-> "pick", repo |-> open, number |-> 0, pending |-> FALSE, late |-> FALSE,
                left |-> [i \in DOMAIN rows[open] |-> rows[open][i].number]]
    /\ UNCHANGED <<disk, view>>

\* The timer fires and there is nothing to do.
TimerEnds ==
    /\ timer /\ pass = NoPass
    /\ \/ open \notin enabled \ paused
       \/ open \in Repo /\ rows[open] = <<>>
    /\ timer' = FALSE
    /\ UNCHANGED <<disk, view, pass>>

GoTo(at) == pass' = [pass EXCEPT !.at = at]

\* `continue' with the entry left waiting in state s.
Wait(s) ==
    /\ SetState(pass.repo, pass.number, s)
    /\ pass' = [pass EXCEPT !.at = "pick", !.pending = TRUE]
    /\ UNCHANGED <<pull, enabled, paused, view, timer>>

\* The pass goes on while its repository is open and its queue runs (the user,
\* who alone changes that, is not heard during a pass).
GoesOn == pass.repo \in enabled \ paused /\ open = pass.repo

\* Mutant: a pass that merged nothing does not look at `pending'.
EndPassForgets ==
    /\ pass.at = "pick"
    /\ pass.left = <<>> \/ ~GoesOn
    /\ pass' = NoPass
    /\ UNCHANGED <<disk, view, timer>>

\* The loop ends without a merge.
EndPass ==
    /\ pass.at = "pick"
    /\ pass.left = <<>> \/ ~GoesOn
    /\ pass' = NoPass
    /\ timer' = (timer \/ pass.pending)
    /\ UNCHANGED <<disk, view>>

\* The next number, and the pull request the snapshot has for it.
NextUp(n)    == pass.at = "pick" /\ pass.left # <<>> /\ n = Head(pass.left) /\ GoesOn
Candidates(n) == {s \in shown : s.number = n /\ s.status = "open"}

\* The number has no open pull request in the snapshot: the entry is dropped.
DropEntry(n) ==
    /\ NextUp(n) /\ Candidates(n) = {}
    /\ Drop(pass.repo, n)
    /\ pass' = [pass EXCEPT !.left = Tail(@)]
    /\ UNCHANGED <<pull, enabled, paused, view, timer>>

\* The snapshot's review gate decides whether git is asked.
Consider(n) ==
    /\ NextUp(n)
    /\ \E s \in Candidates(n) :
          IF pass.repo \in Gated /\ ~s.approved
          THEN /\ SetState(pass.repo, n, "blocked")
               /\ pass' = [pass EXCEPT !.left = Tail(@), !.pending = TRUE]
          ELSE /\ pass' = [pass EXCEPT !.left = Tail(@), !.number = n, !.at = "behind"]
               /\ UNCHANGED rows
    /\ UNCHANGED <<pull, enabled, paused, view, timer>>

Target == Numbered(pass.repo, pass.number)

\* isBranchBehindBase.  It fails for a head that is no local branch; the code
\* takes a failure for `not behind'.
AskBehind ==
    /\ pass.at = "behind"
    /\ \/ /\ \E p \in Target : p \in Local /\ pull[p].behind
          /\ SetState(pass.repo, pass.number, "updating")
          /\ GoTo("update")
       \/ /\ Faults \/ \A p \in Target : p \notin Local \/ ~pull[p].behind
          /\ GoTo("check")
          /\ UNCHANGED rows
    /\ UNCHANGED <<pull, enabled, paused, view, timer>>

\* updateBranchFromBase, which may fail before or after its merge.
Update ==
    /\ pass.at = "update"
    /\ \/ /\ \A p \in Target : pull[p].status = "open"
          /\ Target # {}
          /\ pull' = [p \in Pull |-> IF p \in Target THEN [pull[p] EXCEPT !.behind = FALSE]
                                     ELSE pull[p]]
          /\ GoTo("check")
          /\ UNCHANGED <<rows, enabled, paused, view, timer>>
       \/ Faults /\ Wait("failed")

\* checkMergeable: it merges cleanly, it conflicts, or it cannot be tested.
Check ==
    /\ pass.at = "check"
    /\ \/ /\ Target # {}
          /\ SetState(pass.repo, pass.number, "merging")
          /\ GoTo("merge")
          /\ UNCHANGED <<pull, enabled, paused, view, timer>>
       \/ Faults /\ Wait("blocked")
       \/ (Faults \/ Target = {}) /\ Wait("failed")

\* Mutant: mergePull trusts the gate that the pass has tested.
RefusesUngated(p) == pull[p].status # "open"

\* What mergePull reads from the disk again.
Refuses(p) ==
    \/ pull[p].status # "open"
    \/ pass.repo \in Gated /\ ~pull[p].approved

\* mergePull tests them once, before its first git command.
MergeReads ==
    /\ pass.at = "merge"
    /\ \/ /\ \E p \in Target : ~Refuses(p)
          /\ pass' = [pass EXCEPT !.at = "landing", !.late = FALSE]
          /\ UNCHANGED <<disk, view, timer>>
       \/ (\A p \in Target : Refuses(p)) /\ Wait("failed")

\* git merge, which moves the base of the other pull requests.
MergeLands ==
    /\ pass.at = "landing"
    /\ \/ /\ pull' = [q \in Pull |->
                IF Home[q] = pass.repo /\ pull[q].status = "open" /\ q \notin Target
                THEN [pull[q] EXCEPT !.behind = TRUE] ELSE pull[q]]
          /\ GoTo("landed")
          /\ UNCHANGED <<rows, enabled, paused, view, timer>>
       \/ Faults /\ Wait("failed")

\* The status is written.
MergeRecords ==
    /\ pass.at = "landed"
    /\ \/ /\ pull' = [q \in Pull |-> IF q \in Target THEN [pull[q] EXCEPT !.status = "merged"]
                                     ELSE pull[q]]
          /\ GoTo("recorded")
          /\ UNCHANGED <<rows, enabled, paused, view, timer>>
       \/ Faults /\ Wait("failed")

\* It is committed and the patch is purged; when that fails the caller keeps the
\* entry of a pull request that is merged.
MergeReturns ==
    /\ pass.at = "recorded"
    /\ \/ /\ Drop(pass.repo, pass.number)
          /\ GoTo("after")
          /\ UNCHANGED <<pull, enabled, paused, view, timer>>
       \/ Faults /\ Wait("failed")

\* afterPullMerged, and the next pass is scheduled.
FollowUp ==
    /\ pass.at = "after"
    /\ pass' = NoPass
    /\ UNCHANGED <<disk, open, opening, deleting>>
    /\ Reload

Peers ==
    \/ \E p \in Pull : Opened(p) \/ Reviewed(p)
    \/ \E r \in Repo : BaseMoves(r)

User ==
    \/ \E r \in Repo : OpenRepo(r)
    \/ \E s \in shown : Enqueue(s)
    \/ \E n \in 1..Cardinality(Pull) : Dequeue(n) \/ Move(n)
    \/ Clear
    \/ \E on \in BOOLEAN : SetEnabled(on) \/ SetPaused(on)
    \/ \E p \in Pull : MergeByHand(p) \/ Close(p) \/ Delete(p)

PassStep ==
    \/ EndPass
    \/ \E n \in 1..Cardinality(Pull) : DropEntry(n) \/ Consider(n)
    \/ AskBehind \/ Update \/ Check
    \/ MergeReads \/ MergeLands \/ MergeRecords \/ MergeReturns \/ FollowUp

Loads == LoadReads \/ LoadDelivered

Next ==
    \/ Peers \/ User \/ Restart
    \/ Deleted \/ RepoOpens \/ Loads
    \/ StartPass \/ TimerEnds \/ PassStep

Spec == Init /\ [][Next]_vars

\* The event loop runs: timers fire, workers and git commands end.
FairSpec ==
    /\ Spec
    /\ WF_vars(StartPass \/ TimerEnds) /\ WF_vars(PassStep)
    /\ WF_vars(LoadReads) /\ WF_vars(LoadDelivered)
    /\ WF_vars(RepoOpens) /\ WF_vars(Deleted)

-----------------------------------------------------------------------------
(* Properties. *)

\* Every variable has its type; a pull request on disk has a number from 1.
TypeOK ==
    /\ pull \in [Pull -> PullState]
    /\ \A p \in Pull : pull[p].status # "new" => pull[p].number > 0
    /\ DOMAIN rows = Repo
    /\ \A r \in Repo : \A i \in DOMAIN rows[r] : rows[r][i] \in Row
    /\ enabled \subseteq Repo /\ paused \subseteq Repo
    /\ open \in Repo \cup {NoRepo}
    /\ opening \in BOOLEAN /\ again \in BOOLEAN /\ timer \in BOOLEAN
    /\ shown \subseteq Shown
    /\ load.at \in {"none", "reading", "read"} /\ load.pulls \subseteq Shown
    /\ pass.at \in {"none", "pick", "behind", "update", "check",
                   "merge", "landing", "landed", "recorded", "after"}

\* Two pull requests of a repository never share a directory, and no number has
\* two rows: pass, panel and store find both by their number.
NumbersAreDistinct ==
    \A r \in Repo :
        /\ \A p, q \in StoredIn(pull, r) : pull[p].number = pull[q].number => p = q
        /\ \A i, j \in DOMAIN rows[r] : rows[r][i].number = rows[r][j].number => i = j

\* The queue of the open repository never waits for nothing: whatever the order
\* of passes, loads, switches and clicks, something that will look at it again is
\* under way.
NoLostWakeup ==
    open \in enabled \ paused /\ rows[open] # <<>> =>
        \/ timer \/ pass # NoPass \/ opening
        \/ load.at # "none" /\ (load.fresh \/ again)

\* The queue records no merge that the peers did not approve, even though a pass
\* chooses by a snapshot that reviews outdate while git runs: it is approved, or
\* the approval was withdrawn only after mergePull had read it.
GateHolds ==
    [][\A p \in Pull :
          /\ pass # NoPass
          /\ pull[p].status = "open" /\ pull'[p].status = "merged"
          /\ Home[p] \in Gated
          => pull[p].approved \/ pass.late]_vars

\* The queue lands no code that the peers do not approve when it lands ("It keeps
\* every other merge rule", MainWindowRepos.cpp:3026).
GateHoldsToTheEnd ==
    [][\A p \in Pull :
          /\ pass.at = "landing" /\ pass'.at = "landed"
          /\ GateIsRead(p) /\ Home[p] \in Gated
          => pull[p].approved]_vars

\* Pull requests land in the order of the queue: when one is merged, all that
\* are before it wait for somebody ("ForkMesh works through the queue in order",
\* MainWindowRepos.cpp:3017).
MergesInOrder ==
    [][\A r \in Repo : \A i \in DOMAIN rows[r] :
          pass.at = "landing" /\ pass'.at = "landed"
          /\ pass.repo = r /\ rows[r][i].number = pass.number
          => \A j \in 1..(i - 1) : FromRows(rows[r])[j].state \in {"blocked", "failed"}]_vars

\* A pass takes an entry out of the queue only for a pull request that is not
\* open: "the entry is gone: it merged, or the user removed it"
\* (MainWindowMergeQueue.cpp:272).
EntryLeavesForReason ==
    [][\A r \in Repo : \A n \in Numbers(rows[r]) \ Numbers(rows'[r]) :
          pass # NoPass => \A p \in Numbered(r, n) : pull'[p].status # "open"]_vars

\* The queue merges the pull requests that were put into it ("Add this pull
\* request to the merge queue", MainWindowPulls.cpp:3982).
MergesWhatWasQueued ==
    [][\A p \in Pull : \A i \in DOMAIN rows[Home[p]] :
          /\ pass # NoPass /\ rows[Home[p]][i].number = pull[p].number
          /\ pull[p].status = "open" /\ pull'[p].status = "merged"
          => rows[Home[p]][i].meant = p]_vars

\* An entry that may merge does, or the user, a peer or a restart takes away the
\* reason: "The queue advances while this repository is open"
\* (MainWindowRepos.cpp:3029).
Mergeable(p) ==
    /\ open = Home[p] /\ ~opening /\ open \in enabled \ paused
    /\ pull[p].status = "open" /\ (open \in Gated => pull[p].approved)
    /\ pull[p].number \in Numbers(rows[open])

QueueAdvances == \A p \in Pull : Mergeable(p) ~> ~Mergeable(p)
=============================================================================
