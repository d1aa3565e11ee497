# ForkMesh: formal models

ForkMesh lets developers publish Git repositories through a stable URL while the
repository bytes stay on machines they operate.  This directory holds TLA+ models
of the parts of it whose order of events is hard to get right and hard to test,
the instances TLC checks, and the proofs TLAPS checks.

Paths below are relative to `src/`; C++ files without a directory are in
`desktop/src`, Python files in `app/src`.

1. [The system](#1-the-system)
2. [Modules](#2-modules)
3. [Runs](#3-runs)
4. [Bounds and fairness](#4-bounds-and-fairness)
5. [What the checks found](#5-what-the-checks-found)
6. [Proofs](#6-proofs)
7. [Not modelled](#7-not-modelled)
8. [Plan](#8-plan)

## 1. The system

**Desktop node** (`desktop/`, Qt, C++).  One process per user, held by a lock file.
Almost everything runs on one GUI thread; workers read and delete files and hand
their results back as events.  The GUI thread runs one handler at a time, *but
handlers nest*: a signal calls its slot before `emit` returns, waiting for a child
process delivers that process's own signals, and reading git output pumps the
event loop without user input (`MainWindowInternal.h:9952`), so timers, processes
and worker results are handled in the middle of another handler.  Much of the code
carries comments about crashes that came from this; it is the source of most of the
hazards below.

**Worker** (`app/`, Python on Cloudflare, with a small JavaScript edge in front).
Requests run concurrently and interleave at every `await`; state is rows in D1,
changed by single statements, atomic batches and triggers, and a few Durable Objects.

**Mirror and host** nodes serve Git bytes; the desktop node seals and materialises
its encrypted mirrors.

| Component | State | Operations | Hard behaviour | Correct when |
|---|---|---|---|---|
| Actions scheduler (`MainWindowActions.cpp`, `ActionStore.cpp`) | run records on disk, approvals, queue of run ids, runner pool, pins of mirrors | scan of a push, manual run, rerun, approve, reject, skip, stop, clear, auto-approve, drain of the queue, restart | handlers nest in handlers; lists read before an event is processed; crash anywhere; refusals by the environment | a run is executed once by one runner, never forgotten; a newer run supersedes the older; `needs:` is respected; a result is final; the mirror stays pinned |
| Action runner (`ActionRunner.cpp`) | phase, step, child process, two timers, sandbox directories | start, child ends, step and job deadline, stop, complete | a child ends inside the wait of its own killer; deadline against normal end; child that cannot start | each run settles once, with success only after all its steps; nothing is left behind for the next run |
| Merge queue (`MergeQueue.cpp`, `MainWindowMergeQueue.cpp`) | saved rows per repository, one timer, the pass under way | enqueue, dequeue, move, clear, pause, switch on or off, pass | a pass works from a list that events outdate while git runs; the timer must be armed by whoever comes last | entries merge in order, only what is approved, each entry leaves for a reason, the queue never sleeps for good |
| Pull store and list (`PullStore.cpp`, `MainWindowPulls.cpp`, `MainWindowRepoDetail.cpp`) | numbered directories, statuses, reviews; the list in memory | arrive, review, merge, close, delete, reload in the background or directly, open a repository | loads of an older state delivered late; numbers freed by deletion | a number names one pull request; an older list never replaces a newer one |
| Push intake (`MainWindowActions.cpp` 470-620) | spool files | poll, scan | crash between removing a file and saving the run | no push is lost |
| Relay event socket (`NodeEventSocket.cpp`, its owner in `MainWindowRepos.cpp`) | socket, reconnect, connect and ping timer, attempt count, what the relay said it accepts, bytes read and not yet decoded | start, stop, reconnect, upgrade, read frames, lost link | the authorizer may ask the user in a nested event loop, and a handler called by the read loop may too; signals of dropped sockets; three timers that may end one attempt | one attempt at a time, something always tries again until stopped, the owner sees a link that is off, down or up |
| Network backoff (`NetworkBackoff.h`) | cooldown per host | request, reply | replies out of order | an overloaded host gets no request within its cooldown |
| Upstream sync (`UpstreamCheckoutSync.cpp`) | branches of a checkout | refresh, converge | other writers between git commands | no local commit is lost |
| Organization succession (`organization_succession*.py`, migration 0064) | policy, cases, approvals, event history, two roles | configure, disable, check in, activate, approve, cancel, finalize, warn | requests interleave at awaits; batches whose first update may match nothing, whose triggers may refuse them | one case at a time; ownership moves only after inactivity, grace and approvals by current members; the history tells what happened |
| Organizations (`entry.py`) | members and roles, invitations | add, change, remove, invite, revoke, accept, decline | a role read in one statement and used in a later one; owners counted before the write; a letter answered twice | administrative roles come only from owners or a completed case |
| Mirror selection (`mirrors.py`) | none | choose candidates | - | pure functions |
| Repository imports (`repository_imports.py`) | import records, invitations, consents | create, move along a status graph, invite | concurrent edits, provider failures | statuses follow the graph, an invitation needs consent |
| Agents' status reports (`MainWindowAgents.cpp` 11900-12090; node object of `entry.py`; `world_office_tasks.py`) | marks of what was sent, what is pending, reports in flight, one timer; the agent state on each task | mark, flush by socket or by HTTPS, answer, refuse, time out, requeue | an answer names no report; handlers overlap; entries are written one by one; the link ends at any time | what the desktop believes published was written; nothing waits for ever |
| Office tasks otherwise (`world_office_tasks.py`) | tasks, check-ins, QA | create, start, stop, complete, undo | concurrent edits | one active task per person |
| Rooms, host sockets, scheduled runner (`entry.py`) | Durable Objects | join, relay, host, alarm | hibernation, reconnects | messages reach the room's members |
| Stores (`IssueStore`, `ProjectStore`, `DiscussionStore`, `CoveStore`) | files in the metadata branch | edit, apply a peer's event | events of peers out of order | peers converge |
| Agents (`AgentRunner`, `CodexAppServerSession`, `ClaudeStreamSession`) | sessions, pending calls, worktrees | start a turn, answer, resume, stop | replies of an earlier turn | a reply reaches its call |
| Mirror runtimes (`PublicMirrorRuntime`, `PrivateMirrorRuntime`, `PrivateMirrorStore`) | sealed and materialised mirrors | seal, serve, revoke | re-seal while in use | a pinned mirror is not deleted |
| Everything else (pages, federation, world, edge control, signer, lock) | see `PROJECT.json` | | | |

**How they interact.**  A push leaves a file in the spool; the poll timer turns it
into a scan of the workflow files at the commit; the scan creates runs, stops or
cancels those they supersede and queues the approved ones; a drain of the queue
claims idle runners, pins the mirror they read from and starts them; a runner's
`statusChanged`, `finished` and `releaseMetadataLanded` signals come back into the
scheduler, which drains again.  A status change also redraws the checks of the open
pull request, which runs git and pumps events.  The merge queue is a timer on the
same thread: it runs git over the open repository's list of pull requests; every
change of a pull request reloads that list and arms the timer.  The scheduler and
the runner meet in `RunLife`; the scheduler and the merge queue share only the GUI
thread.

The socket carries events from the relay and, when the relay offers it on that
connection, the reports of the agents' states to it; otherwise those go by HTTPS.  A lost
link takes back every report in flight.  To its users the socket is the `NodeLink` that
`AgentStatus` extends and `NodeEventSocket` implements.

Succession, the members' handler and invitations are requests of one worker over one
roster: `Succession` extends `OrgRoster`, and `Organization` composes it with
`OrgInvites`.

## 2. Modules

| Module | Models |
|---|---|
| `ActionScheduler` | the Actions scheduler with its call stack |
| `ActionSchedulerProofs` | its inductive invariant: types, ownership, outcomes, clears |
| `ActionQueueProofs` | more about it: the queue, one live run, pins, `needs:`, the life of each runner |
| `MCActionScheduler` | its instances |
| `RunLife` | abstract: what the scheduler expects of one runner |
| `ActionRunner` | one runner: phases, child, timers; implements `RunLife` |
| `ActionRunnerProofs` | its inductive invariant, five properties, the refinement |
| `MCActionRunner` | its instance |
| `MergeQueue` | the merge queue, the pull store, the list and its loads |
| `MergeQueueProofs` | its inductive invariant and six theorems |
| `MCMergeQueue` | its instances |
| `NodeLink` | abstract: a link that is off, down or up, and what it offers |
| `NodeEventSocket` | the socket, its timers, prompts and nested handlers; implements `NodeLink` |
| `NodeEventSocketProofs` | its inductive invariant, two properties, the refinement |
| `AgentStatus` | the agents' reports over a `NodeLink` or HTTPS, and the relay's side of them |
| `AgentStatusProofs` | why a report in flight is watched, and why what the desktop believes was written |
| `OrgRoster` | the members of an organization and the handler that changes them |
| `SuccessionLife` | abstract: what succession may do to cases and roles |
| `Succession` | succession over the roster; implements `SuccessionLife` |
| `SuccessionProofs` | its inductive invariant, four properties, the refinement |
| `OrgInvites` | invitations by mail and their answers |
| `Organization` | roster, succession and invitations composed |
| `OrganizationProofs` | what the composition keeps, and who may hand out a role |
| `MCSuccession`, `MCOrganization` | their instances |

`PROJECT.json` maps each definition to the lines it stands for.

### ActionScheduler

*State.*  `runs` is both `meta.json` on disk and `m_actionRuns` (the code writes both
together); `approved` and `auto` are settings; `queue`, `runner`, `pins` are
`m_actionQueue`, the pool and `m_actionMirrorPins`; `doomed` is the list an open
"clear runs" question was asked about.  `stack` is the call stack of the GUI thread:
a record per suspended handler with the locals it still uses.  Only the innermost
handler takes a step; a handler that waits for a child (`wait`) or pumps events
(`pump`) lets events in on top of itself.  That makes nesting explicit: a runner that
ends inside `StopRunner`'s wait pushes its own `finish`, whose `drain` may start a
run, before the supersede loop and the scan below go on.

*Actions.*  `ScanArrives`, `ScanStep`, `ScanEnds`: `queueWorkflowsForCommit` and
`applyWorkflowScan`, one file at a time.  `SupersedeStep`, `SupersedeEnds`:
`cancelSupersededRuns`.  `DrainStep`, `DrainEnds`, `Poll`: `processActionQueue`.
`Launch`: `ActionRunner::start` after its signal.  `RunnerExits`, `WaitTimesOut`,
`EmitFinished`, `EmitLanded`: a child ends and `complete()` emits its three signals.
`RunManually`, `Rerun`, `Approve`, `Reject`, `Stop`, `Skip`, `SetAutoApprove`,
`AskClear`, `AnswerClear`: the user.  `Restart`, `ReloadStep`, `ReloadEnds`: the
process dies and `initActions` reads what it left.

*Abstractions.*  A workflow stands for owner, repository and path; a commit for
everything an approval is bound to (content, tree and execution digest).  `Faults`
names what the environment may refuse: binding an approval, verifying the commit,
finding the repository, getting the dedicated runner, starting the child.  Writing a
record is one step.

### ActionRunner and RunLife

*State* is the class's own: `busy`, `stopping`, `run`, `phase`, `step`, both timers and
their flags, whether the sandbox exists, and the child (`none`, `running`,
`terminating` while `terminateCurrentProcess` waits, `killed`, or `failed` to start).
`Complete` is the whole of `complete()` up to its signals, which belong to the
scheduler.  `ImplementsRunLife` says that this implements the claim-launch-tell-exit
life of a run; `ActionScheduler` has the same four steps (`Start`, `Launch`,
`StopRunner`, `RunnerExits`), and `RunnersKeepLife` proves that it takes them only when
`RunLife` allows: the contract binds both sides.

### MergeQueue

*State.*  `pull` is the store on disk; `rows`, `enabled`, `paused` the saved queue;
`open`, `opening`, `shown` the open repository and its list; `load`, `again` the
background load and the request for one more; `timer`; and `pass`, the program
counter and locals of `processMergeQueue`.  A pass takes one step for each question it
puts to git and four for `mergePull` (`MergeReads` looks at the status and the approval,
`MergeLands` changes the branch, `MergeRecords` writes the status, `MergeReturns` commits
it); between them peers' events, loads and deletions are handled but no user is heard.
Two parts are history: `meant` in a row is the pull request that was queued, which the code
keeps only as a number, and `late` in the pass says that a review took the approval back
after `mergePull` had read it.

*Actions.*  `Opened`, `Reviewed`, `BaseMoves`: peers and agents.  `OpenRepo` and
`RepoOpens`: the two halves of `openRepoDetail`, with git between them.  `Enqueue`,
`Dequeue`, `Move`, `Clear`, `SetEnabled`, `SetPaused`, `MergeByHand`, `Close`,
`Delete`, `Deleted`: the user.  `LoadReads`, `LoadDelivered`: the background load.
`StartPass` through `FollowUp`: one pass.  `Restart` keeps only what is saved.

*Abstractions.*  What is merged: a pull request is behind its base or not, merges
cleanly or not.  A direct reload and a command of the user are one step each, although
their git commands pump as well (see the hazards).  A number is at most `|Pull|`.
A command of the queue finds its row by `indexOf`, as the code does, and leaves the rows
alone when there is none.

### NodeLink and NodeEventSocket

*State.*  `node` is the object's members: `stopped`, the socket and how far it is, `ready`,
`active`, `accepts`, the timers that are active, the number of doublings of the delay,
whether the peer has been silent too long, and the frames read and not yet taken.
`stack` holds the calls that let other events in: the authorizer asking the user (`ask`),
the read loop (`loop`) and a handler the loop called (`told`); `own` says whether a read
loop still belongs to the present socket.  `undefined` records that a call which came back
used an object its owner had deleted, after which nothing is said.

*Actions.*  `Start`, `Stop`: the owner.  `ReconnectRefused`, `ReconnectAllowed`,
`ReconnectAsks`, `AskEnds`: `openConnection` and its prompt.  `ConnectTimeout`, `PingTick`,
`Connected`, `Disconnected`, `Refused`, `Upgraded`, `Received`: timers and signals.
`TooBig`, `CloseFrame`, `Greeted`, `Skipped`, `Event`, `LoopEnds`, `HandlerEnds`: the read
loop.  `scheduleReconnect`, `handleLinkLost` and `failCurrentConnection` are functions on the
members, as they are calls in the code.

*Abstractions.*  Masking, lengths and the text of the handshake are data; a frame is one of
six kinds; the length of a delay is the number of its doublings.

### AgentStatus

*State.*  Of the desktop: `sent` (what it takes for published), `pending`, `flushing`,
`inFlight` and `waiting` (the timer).  Of the relay: a record per report with the entries
still to be written and those denied, and `board`, the state on each task.  `answers` is what
travels down the present connection.  `landed` and `disorder` are history, for the
properties.

*Actions.*  `Changes`, `Reload`, `Flush` mark and send; `AnswerComes`, `PostAnswered`,
`PostFails`, `AckTimeout`, `LinkEnds` take marks back; `Write` and `Answers` are the relay's
handlers, one entry at a time, in any order among reports; `LinkComes` is the link's.

*Abstractions.*  States of a run are model values; why the relay denies an entry or refuses
a report is not told apart.

### OrgRoster, SuccessionLife, Succession, OrgInvites, Organization

*State.*  `role` is `org_members`; `policy`, `cases`, `approvals` and `history` are the tables of
migration 0064; `letter` is `org_invitations`.  Every request (`visit`, `req`, `sending`,
`answer`) is a record of where it is and what it has read.

*Actions.*  One per statement that reads and one per statement or batch that writes, in the
order of the handler, with other requests in between.  A batch is one step with the effects
of its triggers: `Approve` judges again what the trigger judges, `Activate` is refused by the
unique index, and `Finalize` shows what the trigger does *not* see: an UPDATE that finds no row
fires none, and the rest of the batch goes through.  A request may end anywhere (refused,
failed, isolate lost).  `Tick` moves the clock.  `DeviceSeen` and `DeviceGone` are a row of
`account_devices` or of `nodes` that reports, or that is revoked, disabled or removed, which
lowers the latest report of its table; an activation reads the two tables in two steps
(`ActivateReadsDevices`, `ActivateReadsNodes`).  `since` in a request is history: the least that
each table has said of the owner since the request read the policy.

*Abstractions.*  Time counts in units of the grace period, so that the clock moves at most
once while a request runs.  A letter is answered by whoever holds it; the cap on members is
left out.

## 3. Runs

| Run | Checks | States | Shows |
|---|---|---|---|
| `actions_queue` | `TypeOK RunnerOwnsRunning QueuedOnce OneLivePerWorkflow SettledStaysSettled ClearSparesLiveRuns` | 3.0 M | with a pull request open, so that every status change pumps events, the records, queue and pool stay consistent through nesting, clears and restarts |
| `actions_faults` | `QueuedOnce PinHeldWhileRunning` | 4.5 M | the queue is whole also when the process dies inside any handler and the environment refuses every step at will; without a pumping status change pins are held |
| `actions_progress` | `QueueAdvances` | 0.6 M | a queued run always leaves the queue, whatever the environment refuses, unless a run waits for the user |
| `runner_deadlines` | `TypeOK ChildHasDeadline IdleIsQuiet NoStepAfterDeadline SuccessIsComplete ImplementsRunLife StartedRunsSettle` | 3.6 K | children end, fail to start, are stopped or meet a deadline in every order, also inside the wait |
| `merge_queue` | `TypeOK NumbersAreDistinct NoLostWakeup GateHolds MergesInOrder EntryLeavesForReason` | 2.4 M | one gated repository, everything a user and peers can do, also between the steps of one merge; git fails at any step, restarts |
| `merge_queue_switch` | `QueueAdvances` | 0.6 M | two repositories opened in turn, with passes inside the opening; when git works, every entry that may merge does |
| `node_link` | `TypeOK NeverStranded OneAttempt ImplementsLink LinkRecovers` | 2.6 K | every order of timers, signals, frames, prompts and nested handlers |
| `agent_status` | `InFlightIsWatched BelievedInOrder NothingWaitsForever` | 119 K | two runs' states by socket and HTTPS while the link comes and goes and the relay denies, refuses, fails midway or never answers |
| `succession` | `TypeOK OneGrace OutcomeIsRecorded ImplementsLife RolesAreEarned OpensOnlyIfInactive` | 3.6 M | two requests of any kind, or one and a roster change, statement by statement, over two cases, while devices report and are removed |
| `organization` | `AdminsAreEarned` | 2.2 M | roster changes, an invitation and a succession to its completion over one roster |
| `succession_history` | `HistoryIsTrue` | violated | finding 7 |
| `org_last_owner` | `LastOwnerStays` | violated | finding 8 |

The properties, in words:

* `RunnerOwnsRunning`, `QueuedOnce`: "running" on disk means exactly one busy runner,
  "queued" exactly one place in the queue, whatever nests in what; the exceptions are
  a run whose creator has not returned yet, and start-up before its reload.
* `OneLivePerWorkflow`: of two unsettled runs of a workflow, one is already being
  cancelled.
* `SettledStaysSettled`, `ClearSparesLiveRuns`: handlers that act on ids read earlier
  change no result and delete no live run.
* `PinHeldWhileRunning`: the mirror a run executes from stays pinned, over every crash and
  refusal, while no pull request is open (finding 2 is what happens with one).
* `QueueAdvances` (scheduler): a queued run leaves the queue although the pool is busy, other
  runs are waited for, and binding, verifying, finding the repository, the dedicated runner
  or the start are refused at will.
* `ChildHasDeadline`, `IdleIsQuiet`: a child always has both timers ahead of it, a
  free runner none.
* `NoStepAfterDeadline`, `SuccessIsComplete`: no exit code revives a run that was told
  to end, and none skips a step.
* `StartedRunsSettle`: timers alone end every run whose children start.  This is the
  assumption the scheduler's fairness makes about its runners.
* `NoLostWakeup`: while the open repository's queue has entries, a timer, a pass, an
  opening or a load that will be applied is under way.
* `GateHolds`: the queue merges nothing that is unapproved when `mergePull` reads the gate,
  though it chooses by an outdated list: what it merges is approved, or a review took the
  approval back only after that reading.  That case is real (finding 11).
* `MergesInOrder`, `EntryLeavesForReason`: entries before the merged one wait for
  somebody; a pass drops an entry only for a pull request that is not open.
* `NumbersAreDistinct`: of the pull requests that are there, no two have a number, and the
  rows of a queue name each number once.
* `NeverStranded`: a started link has a reconnect timer, a question to the user, or a
  connection with the timer that will end it, whatever dropped it and whoever noticed
  first; a stopped one has nothing left.
* `OneAttempt`: while a reconnect is due or the user is asked, no connection is up or being
  made.
* `ImplementsLink`: what the owner can see only does what `NodeLink` allows; above all, an
  offer made on one connection is never believed on the next.
* `LinkRecovers`: a started link comes up if the network and the user keep letting it.
* `InFlightIsWatched`, `NothingWaitsForever`: a report in flight has a running timer and the
  link it left on; it is answered or given up although the relay never answers,
  unless the desktop sends reports without end, each of which starts the timer anew.
* `BelievedInOrder`: what the desktop takes for published, with nothing under way, was
  written on the board since, over denied entries, handlers that fail midway, lost POST
  replies and lost links.  Once a report has timed out or an answer overtook another it says
  nothing (finding 10 shows what happens when one does).
* `OneGrace`: two activations that both saw no case open one between them.
* `OutcomeIsRecorded`: no case is settled without the event that says so.  The converse does
  not hold (finding 7).
* `RolesAreEarned`: an owner is made only by an owner's request or by a case that, *at that
  moment*, is over its grace, has its two parties in their roles and enough approvals of
  present members; the handler's own count may be out of date by then.
* `OpensOnlyIfInactive`: a case is opened only if, of either table, the least it said of the
  owner from the moment the request read the policy until the request read that table is old
  enough.  A report before both readings keeps the case from being opened unless its row is
  removed before; a check-in, a configuration or a disabling that commits after the readings
  does not, and the property says nothing of it.
* `ImplementsLife`: completing a case and handing over its role are one step, a case is
  settled once, and nothing else of succession touches a role.
* `AdminsAreEarned`: the same for both administrative roles with invitations in play, which
  must not raise or lower whoever is a member by then.

Every property of a passing run has a mutant of the code's model that breaks it
(`PROJECT.json`, "mutants"): the operators marked "Mutant" in the modules, which
nothing else uses.

## 4. Bounds and fairness

*Scheduler.*  Two workflows of which one needs the other, two commits of which only the
second has both files, two runners (the code has two to four), at most three runs
(`MaxId`, the only bound on a counter).  Three runs are enough for a superseded run,
its successor and a dependent one to be live at once on two runners, and two runners
for one to end while the other is being stopped.  Finding 1 needs three files and
four runs, finding 3 two repositories (their own configurations have
them).  No passing run checks the order of `needs:`: with two files the one needed sorts
first and is scheduled before anything drains the queue, so nothing could go wrong, and an
instance with three files is beyond 29 M states; the theorem `NeedsOnFirstPush` is about all
of them.  `actions_queue` restarts only between handlers and `actions_faults` inside them; `actions_progress` has all refusals and does
not restart, since a node that restarts for ever runs nothing.

*Runner.*  Three runs in turn, of no, one and two steps: enough for a first, a middle and
a last step and for what one run leaves to the next.

*Merge queue.*  Two pull requests, of one repository or of two; the first one's head is a
local branch, the second's is not (only local ones can be compared with their base).
`Allowed` says which commands an instance has; `merge_queue` has all but those of a
second repository and of `BaseMoves`, which a merge of the other pull request stands
in for, `merge_queue_switch` the rest.

*Socket.*  One doubling of the delay (`MaxShift`, 9 in the code; it only has to be reached and
capped), two frames in one read, so that one is left when a handler returns to a loop whose
socket is gone, and three nested calls: a read loop's handler, the prompt of a second
connection, and what happens inside it.

*Agents' reports.*  Two sessions, two states, two reports under way (an answer needs an earlier
report to be mistaken for), one entry to a frame, so that a batch of two goes by HTTPS, and
two changes or reloads (`MaxNews`).

*Succession.*  An owner, a successor and one approver with a threshold of 1, who may leave; two
cases, so that a settled one has a successor; two requests at a time, of either kind
(`MaxBusy`); an inactivity of 1, a grace of 0 and a clock up to 1, which is enough for both
limits to be met and missed.  One of the two tables of activity moves (`Reporting`), the devices in
`succession` and the nodes in `organization`; with both at once `succession` has 8.7 M states,
which pass too.  Requests are symmetric.  `organization` has four accounts, the
threshold 2 and a grace of 1 instead, one case and one letter that offers the owner's role,
and the operations that lead to a completion; again two requests at a time (`MaxCrowd`).  Two
are enough for each to act on what the other changes.  The proofs about succession bound
neither the accounts nor the requests.

*Fairness.*  The GUI thread finishes the handler it is in (weak fairness of `Handler`,
`PassStep`): no handler waits for the user.  A running timer fires, a worker ends and its
result is delivered (weak fairness): Qt's event loop delivers what is due.  `Poll` and
`RunnerExits` are strong in the scheduler because other events keep disabling them:
the poll timer is periodic, and a runner's process ends or is killed by its deadline,
which `StartedRunsSettle` shows of the runner from its timers alone.  Nothing is assumed
of users, peers, or of children ending by themselves.  The socket's timers fire and its calls
return (weak); a network, a user and a relay that again and again would let a connection
through do so at some time (strong fairness of `ReconnectAllowed`, `Connected`, `Upgraded`):
without that no link comes up.  For the agents' reports the timer alone is fair; the relay may
never answer.  The requests of the worker have no liveness: any of them may be lost.

The runs of the scheduler and the runner check for deadlock; the others do not, because there
the program may come to rest: all pull requests have been handled and nobody clicks, or the
bounded number of reports or cases is used up.

## 5. What the checks found

Findings 7 and 8 are runs.  The others are reproduced by
`tlc -config <Config>.cfg <Module>`, with the configuration and module named at each.

1. **A dependent run starts before its dependency is scheduled**
   (`MainWindowActions.cpp:1001`).  Within the scan of a push, superseding a running run
   waits for its process; its `finished` drains the queue, and a run appended earlier in
   the same scan starts, although the workflow it needs comes later in the list ("not
   scheduled here; never a barrier").  `.forkmesh/deploy.yml:4` promises otherwise.
   `ActionNeedsOrder`, `MCActionScheduler`.
2. **The pin of a run that executes is released** (`ActionRunner.cpp:983`).  `complete()`
   is free again before it emits; a run started on it by an event pumped in
   `statusChanged` replaces `m_run`, and `finished(m_run.id)` speaks of the new run.
   `ActionPin`, `MCActionScheduler`.
3. **Another repository is published** (`ActionRunner.cpp:986`), the same between `finished`
   and `releaseMetadataLanded`.  `ActionLanded`, `MCActionScheduler`.
4. **A child that fails to start is never noticed** (`ActionRunner.cpp:410`).  No `finished`
   follows, both deadlines return early, the run stays running until a user stops it, and
   the runner is lost to the queue.  `RunnerNoStart`, `MCActionRunner`.
5. **Entries of the merge queue are dropped** (`MainWindowMergeQueue.cpp:539`): the timer fires
   while another repository is being opened, when its index is set and the old list is still
   there.  `MergeQueueWrongList`, `MCMergeQueue`.
6. **The queue merges a pull request that nobody queued** (`PullStore.cpp:1383`): closing
   deletes the directory, the next arrival gets its number and the row that was left.
   `MergeQueueReuse`, `MCMergeQueue`.
7. **The history tells of a completion that did not happen**
   (`organization_succession_api.py:602`).  `finalize` loses the race with a cancellation, a
   check-in or a new configuration: its UPDATE finds no row in grace, no trigger fires, and the
   batch still writes the event "completed" and disables the policy.  The comment at line 591
   says that completion and history commit together.  Run `succession_history`.
8. **An organization is left without an owner** (`entry.py:25025`).  Owners are counted in one
   statement and the role is written in a later one; two owners who step back at once are each
   counted by the other's request.  `entry.py:24888` says "the last owner can never leave".  Run
   `org_last_owner`.
9. **An invitation is used twice** (`entry.py:25480`).  The member is inserted before the letter
   is marked: of two answers both pass the check, and a removed account may come back by the
   letter it had used.  `OrgSingleUse`, `MCOrganization`.
10. **A refusal takes back the wrong report** (`MainWindowAgents.cpp:12057`).  The relay refuses at
    once while an earlier report is still being written; the desktop gives the refusal to the
    earlier one, and the answer to that one then confirms the refused one, which is not sent
    again until its run changes.  `entry.py:47653` says that the refusal "puts the states back in
    its queue".  `AgentStatusRefused`, `AgentStatus`.
11. **An approval that is withdrawn does not stop the merge** (`PullStore.cpp:1735`).  `mergePull`
    reads the gate once; its git commands then let events in before the branch is changed
    (line 1773), and a review that requests changes is stored in between.  The code lands all the
    same, while `MainWindowRepos.cpp:3026` says that a pull request that "still needs the peer
    approval required above, waits in the queue instead of merging".  `MergeQueueGate` (property
    `GateHoldsToTheEnd`), `MCMergeQueue`.

Finding 4 is the reason why the scheduler's progress holds only where children start.
Findings 2, 3 and 5 are left out of the passing runs by their instances (no pull request
open with `PinHeldWhileRunning`, one repository with `EntryLeavesForReason`), not by a
change of the model.

## 6. Proofs

`tlapm` checks the eight proof modules, for every value of the constants that satisfies the
ASSUMEs: any number of workflows, commits and repositories, pools of two to four runners,
any `MaxId`, all modes and faults; any finite set of pull requests; any depth of nested calls
of the socket; any number of sessions and of reports under way; any number of accounts,
cases, letters and requests at once.  A theorem that needs more than the ASSUMEs has its
hypothesis in the last column; TLC refutes the property without it.

| Theorem | States for every instance | Provided that |
|---|---|---|
| `TypeCorrect` | `TypeOK` of the scheduler | |
| `RunningIsOwned` | `RunnerOwnsRunning` | |
| `OutcomeIsFinal` | `SettledStaysSettled` | |
| `ClearIsSafe` | `ClearSparesLiveRuns` | |
| `QueueHoldsQueuedOnce` | `QueuedOnce` | |
| `OneLiveRun` | `OneLivePerWorkflow` | the process does not die inside a handler (`CrashAnywhere = FALSE`) |
| `PinIsHeld` | `PinHeldWhileRunning` | no pull request is open (`PullPageOpen = FALSE`; finding 2) |
| `NeedsOnFirstPush` | `NeedsBeforeStart` | each file sorts after those it needs (`NeedsSortFirst`), and every push brings a commit without runs (`FirstPush`; finding 1) |
| `RunnersKeepLife` | every step does with each runner what `RunLife` allows, or is a restart | |
| `RunnerTypeCorrect` | the runner's `TypeOK`, the step index included | |
| `DeadlineAhead` | `ChildHasDeadline` | |
| `IdleLeavesNothing` | `IdleIsQuiet` | |
| `DeadlineIsFinal` | `NoStepAfterDeadline` | |
| `SuccessAfterAllSteps` | `SuccessIsComplete` | |
| `RunnerImplementsRunLife` | every step of the runner is one of `RunLife` or a stutter | |
| `TypesHold` (merge queue) | its `TypeOK` | |
| `NumbersName` | `NumbersAreDistinct` | |
| `QueueIsWoken` | `NoLostWakeup` | |
| `GateIsKept` | `GateHolds` | |
| `InOrderOfQueue` | `MergesInOrder` | |
| `LeavesForReason` | `EntryLeavesForReason` | the user keeps to one repository (`"Switch" \notin Allowed`; finding 5) |
| `TypesHold` (socket) | its `TypeOK` | |
| `LinkIsWatched` | `NeverStranded` | |
| `OneConnection` | `OneAttempt` | |
| `SocketIsALink` | every step of the socket is one of `NodeLink` or a stutter | |
| `StatusTyped` | `TypeOK` of the reports | |
| `SentIsWatched` | `InFlightIsWatched` | |
| `BeliefIsEarned` | `BelievedInOrder` | |
| `TypeCorrect` (succession) | its `TypeOK` | |
| `AtMostOneGrace` | `OneGrace` | |
| `OutcomesRecorded` | `OutcomeIsRecorded` | |
| `RolesEarned` | `RolesAreEarned` | |
| `OpensInTime` | `OpensOnlyIfInactive` | |
| `Implements` | every step of succession and of the roster is one of `SuccessionLife` or a stutter | |
| `OrgSafe` | types, `OneGrace` and `OutcomeIsRecorded` of the composition | |
| `AdminsEarned` | `AdminsAreEarned` | |
| `OrgImplements` | the composition too implements `SuccessionLife` | |
| `OrgOpensInTime` | what `OpensInTime` states, of the composition | |

*Scheduler.*  `IInv` is `TypeOK`, `RunnerOwnsRunning`, and what that rests on.
`RunnerOwnsRunning` is not inductive alone: `Launch` acts on a runner some suspended handler
claimed long ago, so `FrameOK` says that every suspended `launch` still has its busy runner
without a process, and `LaunchedOnce` that no two have the same.  The start-up loop is the
one exception to ownership, so `StartUpOnTop` keeps it innermost and over idle runners.
A clear acts on ids listed before other events: `DoomedAreSettled` says that they never
become live again; that needs in turn that `autoApprove` does not run while the question
is open.  The proof has one lemma per handler; those about the stack (`PushShape`,
`TailShape`, `CallNext`, `PopNext`) are shared.  `OutcomeIsFinal` and `ClearIsSafe` are
action properties, from the same invariant by `NextIsRecordStep`: every step changes
records only in one of four ways.

*The queue.*  What is inductive (`QInv`) is a statement about sets: the queued runs are the
ids of the queue together with those that a suspended creator or the start-up loop still
*holds*, and the two are disjoint.  It needs that the creation of a run never interrupts
the creation of another one (`Alone`): otherwise the inner one could cancel the run that
the outer one is about to enqueue.  `LiveInv` is built the same way from who is to cancel what: a
`cancelSupersededRuns` that goes on, a runner that was told to stop, or the start-up loop.
A process that dies inside `cancelSupersededRuns` forgets the first of these, and leaves two
live runs until the workflow's next run cancels both: hence the hypothesis.

*Pins.*  `PinInv`: a busy runner's run is pinned, and a suspended `finish` is the innermost
handler and speaks of a runner that is idle still.  Both last because without an open pull
request a status change pumps no events; that is what finding 2 exploits.

*Order of a push's files.*  `NeedsBeforeStart` asks of a run that starts that all it needs at its
commit has succeeded, what the scan under way has yet to schedule included.  `Layered` says that
at most one scan is under way and nothing but handlers it called lies above it.  What a scan has
yet to schedule sorts after every run its commit has (`PushInv`), as long as nobody pushed or ran
that commit before, and so is needed by none of them when each file sorts after those it needs, as
in the repository's own `.forkmesh`.  For a commit that has runs already nothing is proved: a
run that waits from an earlier push may start before the scan has scheduled anew what it needs.

*Life of a runner.*  `RunnersKeepLife` is the other half of the refinement that `ActionRunner`
proves.  `LaunchInv` adds that a runner is told to stop only while it has a process, and that
one that was claimed is being launched by a suspended handler; so `ActionRunner::stop` is never
called between the two, where `RunLife` has no step for it.  A step of the handlers does one of
`RunLife`'s steps to a runner, or nothing while its record goes on saying "running".

*Runner.*  Its `IInv` relates the child to the timers and flags: a live child belongs to a busy
runner in a phase, an unflagged one is `running` with both timers, one that was told to end
is terminating or killed.  From that each action property is a case split over `Next`, and
the refinement maps `Complete` to `Exit` or a failed `Launch`, `Stop` to `Tell` or `Exit`,
all else to stuttering.

*Merge queue.*  `NoLostWakeup` alone says only that *something* is under way; what makes it
inductive is what each of those has left to do.  `PassOK` says that a pass works on the open
repository and that every row it has not looked at is still in its list, in its hand, or will
be looked at because the pass has already noted that something waits; `ViewOK` keeps the types
of the list and its load; `RowsOK` keeps the numbers of a queue's rows distinct.  Distinct
numbers rest on `PullOK`: a new number is one above the largest on disk, and no number exceeds
how many pull requests were ever opened, which is what bounds the type.  `GateHolds`
rests on `MergeOK`: from the reading of the gate to the record no deletion is under way and the
pull request stays on disk under its number, open, and approved unless a review took the
approval back since.

`MergesInOrder` rests on `OrderOK`: the rows a pass has left behind are all blocked or failed, and
the numbers it has yet to look at are exactly those of the rows after them, in their order.
It needs no hypothesis, since no user is heard during a pass.
`EntryLeavesForReason` rests on `ShownOK`: the list a pass works from has every open pull request of
the open repository, and a load that will be applied has them too, because an event that adds
one makes the load start again.

*Socket.*  `NeverStranded` must survive calls that return much later.  `AskOnTop` says that a
prompt is always the innermost call (while it is open nothing opens another), and `Sound` that
while one is open no timer runs and no socket exists, so that `AskEnds` finds the members as
`openConnection` left them.  `Sound` also says that a connection that is not up yet has no
offers and an empty buffer, which is what the refinement needs for `offers`.

*Agents' reports.*  For `InFlightIsWatched` the invariant adds that offers are made only while the
link is up.  `BelievedInOrder` itself is not inductive: two reports could vouch for each other, each
being the other's "under way".  `BInv` says who vouches for what: as long as nothing arrived out of
order, the answers on their way are those to the oldest reports that wait, in their order
(`InOrder`), and every mark is pending, was written since, or is *carried* by a report whose
answer the desktop will still hear and which will either be written or take the mark back
(`Carried`).  Most of the proof is that a step on one report leaves what the others carry.

*Succession.*  `IInv` is `TypeOK`, `OneGrace`, `OutcomeIsRecorded`, `RequestsOK` (what a request
carries: a time that has come, members, and a case where its operation needs one) and
`PartiesAreMembers` (a policy in force and a case that was opened name two accounts).
`OpensInTime` has an invariant of its own: of a table that an activation has yet to read, the
least said since the policy was read is no later than what the table says now; of one it has read,
no later than what it noted; and once it has passed its check the time it waited for has come.  The other action property and the refinement are a case split over the
statements of every request; all but the writing ones stutter.

*Organization.*  `OrgInv` is that invariant, the types of letters and answers, and `HandsOut`: a
change of a role, an invitation being sent and a letter that was sent, if they hand out an
administrative role, carry the judgement of an owner made when they began.  That is what
`AdminsAreEarned` needs, because the roster may have changed completely by the time they write.
The rest carries over, since an invitation touches no table of succession.

*Only model-checked.*  All liveness (`QueueAdvances` twice, `StartedRunsSettle`, `LinkRecovers`,
`NothingWaitsForever`), which the prover does not reach.  Every invariant and action property of
a passing run is proved, under the hypotheses above.  The findings are counterexamples and need
no proof.

## 7. Not modelled

* Torn files: writing a record, a setting or a row is one step.  `ActionStore::saveRun`
  truncates in place, so a crash may leave a record that cannot be read.
* The push intake, and what `finished` does besides: logs, artifacts, summaries, widgets.
* The content of merges, conflict editing and the AI fix.  A comparison with the base that
  fails is taken for up to date (`MainWindowMergeQueue.cpp:572`); the model has the failure,
  but no property speaks of content.
* A merge-queue pass nested in a user's own close or merge, and direct reloads nested in one
  another.
* A mirror-only node that opens its first repository by itself
  (`MainWindowRepos.cpp:7242`), which has no right to merge.
* Of the socket, what happens after its owner deletes it while a prompt or a handler of its own
  is open: the model records the use (`undefined`) and ends there.
* The backoff of the network: a host's cooldown is one number with no property beyond its
  assignment; to a report a suppressed request is one that fails.
* Of the agents, their sessions, turns and worktrees; of the office, tasks, check-ins and QA.  A slow
  POST overtaken by a report on the socket leaves the older state on the board until the run
  changes again: the code orders nothing here, and no property is stated.
* Of organizations, creating, renaming and deleting one, devices and repositories; of succession,
  warnings (a mark per day) and the audit.
* The components listed as not modelled in `PROJECT.json`, each with its reason.

## 8. Plan

Done in this order: scheduler and runner; merge queue; succession with the roster and
invitations; the socket and the reports over it; their proofs.  Left:

1. Positive counterparts of the findings as theorems: a merge is of the pull request that was
   queued while nothing is closed or deleted (finding 6), an owner stays and the history is true
   while requests do not overlap (findings 7 and 8).
2. `PushIntake` in front of the scheduler's scan, with crashes between its steps.
3. `RepositoryImports` over its status graph, and the life cycle of the office's tasks.
4. `NetworkBackoff`, `UpstreamSync` against another writer of the checkout.
5. Nested user commands in `MergeQueue`.
6. The selection functions of `mirrors.py` against a reference definition.

The number of runs is kept small: the counterexamples of findings 1 to 6 and 9 to 11
have a configuration and no run.
