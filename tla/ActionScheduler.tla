-------------------------- MODULE ActionScheduler --------------------------
(***************************************************************************)
(* The Actions scheduler of a desktop node: the run records on disk        *)
(* (ActionStore), the queue of run ids, the pool of ActionRunners and the  *)
(* handlers of MainWindowActions.cpp that move a run between them.         *)
(*                                                                         *)
(* The GUI thread runs one handler at a time, yet handlers nest: a signal  *)
(* calls the next handler before the first has returned, stopping a        *)
(* process waits for it inside the handler (ActionRunner.cpp:428), and a   *)
(* status change refreshes the open pull request's checks, whose git reads *)
(* pump the event loop (MainWindowInternal.h:9952).  The call stack is     *)
(* therefore state: `stack' holds the suspended handlers, innermost first, *)
(* and only the innermost one takes a step.                                *)
(*                                                                         *)
(* ActionRunner's phases, timers and process are in module ActionRunner;   *)
(* here a runner is idle, claimed by a run, or executing it.  A Workflow   *)
(* stands for (owner, name, path) and a Commit for the repository state    *)
(* an approval is bound to (content, tree and execution digest).           *)
(***************************************************************************)
EXTENDS Integers, Sequences, FiniteSets

CONSTANTS
    Repo,           \* repositories of this node
    Workflow,       \* workflow files: (owner, name, path)
    RepoOf,         \* [Workflow -> Repo]
    Commit,         \* pushed commits
    None,           \* no commit
    PathRank,       \* [Workflow -> Nat]: the order `git ls-tree' lists them in
    Needs,          \* [Workflow -> SUBSET Workflow]: the `needs:' of each file
    At,             \* [Commit -> SUBSET Workflow]: the runnable files at it
    Tagged,         \* commits pushed as a tag: their runs are release runs
    NumRunners,     \* size of the runner pool
    MaxId,          \* bound: no run gets a greater id
    PullPageOpen,   \* BOOLEAN: a pull request is open, so status changes pump
    CrashAnywhere,  \* BOOLEAN: the process may die inside a handler too
    CanRestart,     \* BOOLEAN: the process may exit and start again
    Faults          \* what the environment may refuse, see FaultKind

FaultKind == {"bind", "verify", "repository", "dedicated", "start"}

ASSUME PoolAssumption == NumRunners \in 2..4
ASSUME WorkflowAssumption ==
    /\ RepoOf \in [Workflow -> Repo]
    /\ PathRank \in [Workflow -> Nat]
    /\ \A v, w \in Workflow : PathRank[v] = PathRank[w] => v = w
    /\ Needs \in [Workflow -> SUBSET Workflow]
ASSUME CommitAssumption ==
    /\ None \notin Commit
    /\ At \in [Commit -> SUBSET Workflow]
    /\ Tagged \subseteq Commit
ASSUME ModeAssumption ==
    /\ MaxId \in Nat
    /\ {PullPageOpen, CrashAnywhere, CanRestart} \subseteq BOOLEAN
    /\ Faults \subseteq FaultKind

VARIABLES
    runs,      \* run id -> record: meta.json on disk and m_actionRuns
    approved,  \* QSettings actions/approved: the last approved state per path
    auto,      \* the repositories with actionsAutoApprove set
    queue,     \* m_actionQueue
    runner,    \* m_actionRunners
    pins,      \* run ids holding a mirror materialization: m_actionMirrorPins
    doomed,    \* ids listed by an open "Clear runs" dialog, {} when none is
    stack      \* suspended handlers of the GUI thread, innermost first

disk == <<runs, approved, auto>>
vars == <<runs, approved, auto, queue, runner, pins, doomed, stack>>

-----------------------------------------------------------------------------
(* Run records (ActionStore.h, ActionStore.cpp). *)

Pending  == {"awaiting-approval", "queued", "running"}
Finished == {"success", "failed", "rejected", "cancelled", "skipped"}

Run == [workflow : Workflow, commit : Commit, status : Pending \cup Finished]

Runner == 1..NumRunners

\* The largest id in S, 0 when S is empty.
Largest(S) == IF S = {} THEN 0 ELSE CHOOSE m \in S : \A k \in S : k <= m

\* Mutant: the greatest id is used again.
NextIdReused == Largest(DOMAIN runs)

NextId == Largest(DOMAIN runs) + 1

Put(id, r) == [k \in DOMAIN runs \cup {id} |-> IF k = id THEN r ELSE runs[k]]

\* saveRun of a run that changed its status only.
SetStatus(id, s) == [runs EXCEPT ![id].status = s]

HasStatus(id, S) == id \in DOMAIN runs /\ runs[id].status \in S

(* ActionNeeds::resolve: the newest other run of a needed workflow at the  *)
(* same commit decides; a workflow that never ran there is no barrier.     *)
Candidates(id, w) ==
    {k \in DOMAIN runs \ {id} :
        runs[k].workflow = w /\ runs[k].commit = runs[id].commit}

Gates(id) ==
    {runs[Largest(Candidates(id, w))].status :
        w \in {v \in Needs[runs[id].workflow] : Candidates(id, v) # {}}}

NeedsState(id) ==
    IF id \notin DOMAIN runs \/ Gates(id) \subseteq {"success"} THEN "Ready"
    ELSE IF Gates(id) \subseteq Pending \cup {"success"} THEN "Waiting"
    ELSE "Blocked"

-----------------------------------------------------------------------------
(* The call stack. *)

FrameKind == {"drain",      \* processActionQueue
              "scan",       \* applyWorkflowScan
              "supersede",  \* cancelSupersededRuns and the enqueue after it
              "auto",       \* autoApproveAwaitingRuns
              "reload",     \* the loop over loaded runs in initActions
              "wait",       \* terminateCurrentProcess: waitForFinished
              "pump",       \* refreshOpenPullChecks: a pumped event loop
              "launch",     \* ActionRunner::start after its statusChanged
              "finish",     \* ActionRunner::complete: emit finished
              "landed"}     \* ActionRunner::complete: emit releaseMetadataLanded

Frame == [kind : FrameKind, run : Nat, ids : SUBSET Nat,
          workflows : SUBSET Workflow, commit : Commit \cup {None},
          runner : Nat, flag : BOOLEAN]

F(kind) == [kind |-> kind, run |-> 0, ids |-> {}, workflows |-> {},
            commit |-> None, runner |-> 0, flag |-> FALSE]

Drain         == F("drain")
Wait(r)       == [F("wait") EXCEPT !.runner = r]
Scan(c, ws)   == [F("scan") EXCEPT !.commit = c, !.workflows = ws]
Over(id, S, ok) ==
    [F("supersede") EXCEPT !.run = id, !.ids = S, !.flag = ok]
Each(kind, S) == [F(kind) EXCEPT !.ids = S]
Of(kind, r, id) == [F(kind) EXCEPT !.runner = r, !.run = id]

\* Handler f is called, with the handlers s suspended under it.
Push(f, s) == <<f>> \o s

Top == Head(stack)
InFrame(kind) == stack # <<>> /\ Top.kind = kind

\* `emit statusChanged' ends in refreshOpenPullChecks, which pumps the event
\* loop when a pull request is open.
Pumped(s) == IF PullPageOpen THEN Push(F("pump"), s) ELSE s

\* A clean turn of the event loop.  The modal question of clearActionRuns keeps
\* the user out but not timers, processes or queued results.
EventTurn == stack = <<>>
UserTurn  == stack = <<>> /\ doomed = {}

-----------------------------------------------------------------------------
(* Initial state: a node's first start. *)

NoRun == [busy |-> FALSE, run |-> 0, alive |-> FALSE, stopping |-> FALSE]

Init ==
    /\ runs = [k \in {} |-> NoRun]
    /\ approved = [w \in Workflow |-> None]
    /\ auto \in SUBSET Repo
    /\ queue = <<>>
    /\ runner = [r \in Runner |-> NoRun]
    /\ pins = {}
    /\ doomed = {}
    /\ stack = <<>>

-----------------------------------------------------------------------------
(* Creating a run: resolveActionApproval, createRun, prepend, and the call *)
(* of cancelSupersededRuns.  `rest' is what the caller goes on with.       *)

\* Mutant: runs awaiting approval are not superseded.
ActiveIgnoresAwaiting(w) ==
    {k \in DOMAIN runs : /\ runs[k].workflow = w
                         /\ runs[k].status \in {"queued", "running"}}

Active(w) == {k \in DOMAIN runs :
                runs[k].workflow = w /\ runs[k].status \in Pending}

CreateRun(w, c, rest) ==
    LET ok == RepoOf[w] \in auto \/ approved[w] = c IN
    /\ NextId <= MaxId       \* bound
    /\ approved' = IF ok THEN [approved EXCEPT ![w] = c] ELSE approved
    /\ runs' = Put(NextId, [workflow |-> w, commit |-> c,
                            status |-> IF ok THEN "queued"
                                       ELSE "awaiting-approval"])
    /\ stack' = Push(Over(NextId, Active(w), ok), rest)
    /\ UNCHANGED <<auto, queue, runner, pins, doomed>>

\* An off-thread workflow scan delivers its result (deliverOffThreadResult
\* re-posts it until no pump is on the stack).
ScanArrives(c) ==
    /\ EventTurn
    /\ Largest(DOMAIN runs) + Cardinality(At[c]) <= MaxId       \* bound
    /\ stack' = <<Scan(c, At[c])>>
    /\ UNCHANGED <<disk, queue, runner, pins, doomed>>

FirstPath(ws) == CHOOSE w \in ws : \A v \in ws : PathRank[w] <= PathRank[v]

ScanStep ==
    /\ InFrame("scan")
    /\ Top.workflows # {}
    /\ LET w == FirstPath(Top.workflows)
           rest == [Top EXCEPT !.workflows = @ \ {w}]
       IN \/ CreateRun(w, Top.commit,
                       Push([rest EXCEPT !.flag = TRUE], Tail(stack)))
          \/ /\ "bind" \in Faults
             /\ stack' = Push(rest, Tail(stack))
             /\ UNCHANGED <<disk, queue, runner, pins, doomed>>

ScanEnds ==
    /\ InFrame("scan")
    /\ Top.workflows = {}
    /\ stack' = IF Top.flag THEN Push(Drain, Tail(stack)) ELSE Tail(stack)
    /\ UNCHANGED <<disk, queue, runner, pins, doomed>>

\* runSelectedWorkflowManually and rerunSelectedRun.
RunManually(w, c) ==
    /\ UserTurn
    /\ w \in At[c]
    /\ c \notin Tagged     \* its ref is always a branch
    /\ CreateRun(w, c, <<Drain>>)

Rerun(id) ==
    /\ UserTurn
    /\ id \in DOMAIN runs
    /\ CreateRun(runs[id].workflow, runs[id].commit, <<Drain>>)

-----------------------------------------------------------------------------
(* cancelSupersededRuns: a snapshot of ids, newest first, each found again *)
(* before it is acted on; then the caller enqueues the new run.            *)

RunnerFor(id) == {r \in Runner : runner[r].busy /\ runner[r].run = id}

DropAt(q, i) == SubSeq(q, 1, i - 1) \o SubSeq(q, i + 1, Len(q))

\* removeAll(id): the queue holds an id once at most, see QueuedOnce.
Without(q, id) ==
    IF \E i \in DOMAIN q : q[i] = id
    THEN DropAt(q, CHOOSE i \in DOMAIN q : q[i] = id) ELSE q

\* ActionRunner::stop on runner r: the process is signalled and waited for.
\* With no process left to signal (between launches none of these handlers
\* runs) the wait ends at once, so one frame covers both.
StopRunner(r, rest) ==
    /\ runner' = [runner EXCEPT ![r].stopping = TRUE]
    /\ stack' = Push(Wait(r), rest)

\* Mutant: a superseded run is recorded as cancelled without stopping it.
SupersedeWithoutStop ==
    /\ InFrame("supersede")
    /\ Top.ids # {}
    /\ LET id == Largest(Top.ids) IN
       /\ queue' = Without(queue, id)
       /\ runs' = IF HasStatus(id, Pending) THEN SetStatus(id, "cancelled")
                                            ELSE runs
       /\ stack' = Push([Top EXCEPT !.ids = @ \ {id}], Tail(stack))
    /\ UNCHANGED <<approved, auto, runner, pins, doomed>>

SupersedeStep ==
    /\ InFrame("supersede")
    /\ Top.ids # {}
    /\ LET id == Largest(Top.ids)
           rest == Push([Top EXCEPT !.ids = @ \ {id}], Tail(stack))
       IN \/ /\ HasStatus(id, {"running"})
             /\ \E r \in RunnerFor(id) : StopRunner(r, rest)
             /\ UNCHANGED <<runs, queue>>
          \/ /\ HasStatus(id, {"queued", "awaiting-approval"})
             /\ queue' = Without(queue, id)
             /\ runs' = SetStatus(id, "cancelled")
             /\ stack' = rest
             /\ UNCHANGED runner
          \/ /\ ~HasStatus(id, {"queued", "awaiting-approval"})
             /\ HasStatus(id, {"running"}) => RunnerFor(id) = {}
             /\ stack' = rest
             /\ UNCHANGED <<runs, queue, runner>>
    /\ UNCHANGED <<approved, auto, pins, doomed>>

SupersedeEnds ==
    /\ InFrame("supersede")
    /\ Top.ids = {}
    /\ queue' = IF Top.flag THEN Append(queue, Top.run) ELSE queue
    /\ stack' = Tail(stack)
    /\ UNCHANGED <<disk, runner, pins, doomed>>

-----------------------------------------------------------------------------
(* The runners.  m_run outlives the run, and the three signals of complete *)
(* read it again: `run' of the frame is the run that completed, and        *)
(* runner[r].run the one the signal names.                                 *)

\* ActionRunner::complete after m_store->saveRun: idle again, then its signals.
Completed(r, status, hasLanded, rest) ==
    LET id == runner[r].run IN
    /\ runs' = SetStatus(id, status)
    /\ runner' = [runner EXCEPT ![r] = [NoRun EXCEPT !.run = id]]
    /\ stack' = Pumped(Push(Of("finish", r, id),
                     IF hasLanded THEN Push(Of("landed", r, id), rest) ELSE rest))

\* The run's last process ends: between two handlers, inside a pump, or inside
\* the wait of whoever stopped it.  A release run that succeeds may have landed
\* metadata.
RunnerExits(r) ==
    /\ runner[r].alive
    /\ EventTurn \/ InFrame("pump") \/ (InFrame("wait") /\ Top.runner = r)
    /\ LET rest == IF InFrame("wait") THEN Tail(stack) ELSE stack
           release == runs[runner[r].run].commit \in Tagged
       IN IF runner[r].stopping
          THEN Completed(r, "cancelled", FALSE, rest)
          ELSE \/ Completed(r, "failed", FALSE, rest)
               \/ Completed(r, "success", FALSE, rest)
               \/ release /\ Completed(r, "success", TRUE, rest)
    /\ UNCHANGED <<approved, auto, queue, pins, doomed>>

\* waitForFinished(1500) gives up; the process is killed and exits later.
WaitTimesOut ==
    /\ InFrame("wait")
    /\ stack' = Tail(stack)
    /\ UNCHANGED <<disk, queue, runner, pins, doomed>>

PumpEnds ==
    /\ InFrame("pump")
    /\ stack' = Tail(stack)
    /\ UNCHANGED <<disk, queue, runner, pins, doomed>>

\* Mutant: every pin is dropped when any run finishes.
EmitFinishedDropsAll ==
    /\ InFrame("finish")
    /\ pins' = {}
    /\ stack' = Pumped(Push(Drain, Tail(stack)))
    /\ UNCHANGED <<disk, queue, runner, doomed>>

\* emit finished(m_run.id): onRunFinished drops the pin of the run it is told
\* about, refreshes the checks of an open pull request and drains the queue.
EmitFinished ==
    /\ InFrame("finish")
    /\ pins' = pins \ {runner[Top.runner].run}
    /\ stack' = Pumped(Push(Drain, Tail(stack)))
    /\ UNCHANGED <<disk, queue, runner, doomed>>

\* emit releaseMetadataLanded(m_run.id): onReleaseMetadataLanded publishes the
\* repository of the run it is told about.
EmitLanded ==
    /\ InFrame("landed")
    /\ stack' = Tail(stack)
    /\ UNCHANGED <<disk, queue, runner, pins, doomed>>

\* ActionRunner::start after its statusChanged: the checkout is launched, or
\* the mirror or the sandbox is missing and the run completes at once.
Launch ==
    /\ InFrame("launch")
    /\ LET r == Top.runner IN
       \/ /\ runner' = [runner EXCEPT ![r].alive = TRUE]
          /\ stack' = Tail(stack)
          /\ UNCHANGED runs
       \/ /\ "start" \in Faults
          /\ Completed(r, "failed", FALSE, Tail(stack))
    /\ UNCHANGED <<approved, auto, queue, pins, doomed>>

-----------------------------------------------------------------------------
(* processActionQueue: one iteration of its loop per step. *)

Idle == {r \in Runner : ~runner[r].busy}

\* Mutant: only the head of the queue is looked at.
IsNextHeadOnly(i) == i = 1 /\ NeedsState(queue[i]) # "Waiting"

\* The first queued id that does not wait on another workflow.
IsNext(i) ==
    /\ NeedsState(queue[i]) # "Waiting"
    /\ \A j \in 1..(i - 1) : NeedsState(queue[j]) = "Waiting"

DrainEnds ==
    /\ InFrame("drain")
    /\ Idle = {} \/ ~\E i \in DOMAIN queue : IsNext(i)
    /\ stack' = Tail(stack)
    /\ UNCHANGED <<disk, queue, runner, pins, doomed>>

\* The taken run is refused: it is settled here and never reaches a runner.
Refuse(id) ==
    /\ \/ /\ ~HasStatus(id, {"queued"})
          /\ UNCHANGED runs
       \/ /\ HasStatus(id, {"queued"})
          /\ \/ NeedsState(id) = "Blocked" /\ runs' = SetStatus(id, "skipped")
             \/ /\ NeedsState(id) = "Ready"
                /\ \/ "repository" \in Faults /\ runs' = SetStatus(id, "failed")
                   \/ /\ \/ approved[runs[id].workflow] # runs[id].commit
                         \/ "verify" \in Faults
                      /\ runs' = SetStatus(id, "awaiting-approval")
                   \/ /\ approved[runs[id].workflow] = runs[id].commit
                      /\ "dedicated" \in Faults
                      /\ runs' = SetStatus(id, "skipped")
    /\ UNCHANGED <<runner, pins, stack>>

\* The first idle runner of the pool starts the run: ActionRunner::start up to
\* and including its statusChanged.
Start(id) ==
    /\ HasStatus(id, {"queued"})
    /\ NeedsState(id) = "Ready"
    /\ approved[runs[id].workflow] = runs[id].commit
    /\ \E r \in Idle :
          /\ \A q \in Idle : r <= q
          /\ runner' = [runner EXCEPT ![r] =
                            [NoRun EXCEPT !.busy = TRUE, !.run = id]]
          /\ stack' = Pumped(Push(Of("launch", r, id), stack))
    /\ runs' = SetStatus(id, "running")
    /\ pins' = pins \cup {id}

DrainStep ==
    /\ InFrame("drain")
    /\ Idle # {}
    /\ \E i \in DOMAIN queue :
          /\ IsNext(i)
          /\ queue' = DropAt(queue, i)
          /\ Refuse(queue[i]) \/ Start(queue[i])
    /\ UNCHANGED <<approved, auto, doomed>>

\* The 4 s poll, or the directory watcher, sweeps the spool: scanActionSpool
\* ends in processActionQueue.
Poll ==
    /\ EventTurn
    /\ stack' = <<Drain>>
    /\ UNCHANGED <<disk, queue, runner, pins, doomed>>

-----------------------------------------------------------------------------
(* The user's commands on a run, and on the list of runs. *)

\* Mutant: the status found when the button was drawn is not read again.
ApproveStale(id) ==
    /\ UserTurn
    /\ approved' = [approved EXCEPT ![runs[id].workflow] = runs[id].commit]
    /\ runs' = SetStatus(id, "queued")
    /\ queue' = Append(queue, id)
    /\ stack' = <<Drain>>
    /\ UNCHANGED <<auto, runner, pins, doomed>>

Approve(id) ==
    /\ UserTurn
    /\ HasStatus(id, {"awaiting-approval"})
    /\ approved' = [approved EXCEPT ![runs[id].workflow] = runs[id].commit]
    /\ runs' = SetStatus(id, "queued")
    /\ queue' = Append(queue, id)
    /\ stack' = <<Drain>>
    /\ UNCHANGED <<auto, runner, pins, doomed>>

Reject(id) ==
    /\ UserTurn
    /\ HasStatus(id, {"awaiting-approval"})
    /\ runs' = SetStatus(id, "rejected")
    /\ UNCHANGED <<approved, auto, queue, runner, pins, doomed, stack>>

Stop(id) ==
    /\ UserTurn
    /\ \/ /\ HasStatus(id, {"running"})
          /\ \E r \in RunnerFor(id) : StopRunner(r, <<>>)
          /\ UNCHANGED <<runs, queue>>
       \/ /\ HasStatus(id, {"queued"})
          /\ queue' = Without(queue, id)
          /\ runs' = SetStatus(id, "cancelled")
          /\ UNCHANGED <<runner, stack>>
    /\ UNCHANGED <<approved, auto, pins, doomed>>

\* Mutant: a skipped run stays in the queue.
SkipKeepsQueue(id) ==
    /\ UserTurn
    /\ HasStatus(id, {"queued", "awaiting-approval"})
    /\ runs' = SetStatus(id, "skipped")
    /\ UNCHANGED <<approved, auto, queue, runner, pins, doomed, stack>>

Skip(id) ==
    /\ UserTurn
    /\ HasStatus(id, {"queued", "awaiting-approval"})
    /\ queue' = Without(queue, id)
    /\ runs' = SetStatus(id, "skipped")
    /\ UNCHANGED <<approved, auto, runner, pins, doomed, stack>>

\* setRepoActionsAutoApprove: turning it on resumes the repository's runs.
SetAutoApprove(p) ==
    /\ UserTurn
    /\ IF p \in auto
       THEN auto' = auto \ {p} /\ UNCHANGED stack
       ELSE /\ auto' = auto \cup {p}
            /\ stack' = <<Each("auto", {k \in DOMAIN runs :
                    /\ RepoOf[runs[k].workflow] = p
                    /\ runs[k].status = "awaiting-approval"})>>
    /\ UNCHANGED <<runs, approved, queue, runner, pins, doomed>>

AutoStep ==
    /\ InFrame("auto")
    /\ Top.ids # {}
    /\ LET id == Largest(Top.ids)
           rest == [Top EXCEPT !.ids = @ \ {id}]
       IN \/ /\ approved' = [approved EXCEPT ![runs[id].workflow] =
                                                 runs[id].commit]
             /\ runs' = SetStatus(id, "queued")
             /\ queue' = IF \E i \in DOMAIN queue : queue[i] = id
                         THEN queue ELSE Append(queue, id)
             /\ stack' = Push([rest EXCEPT !.flag = TRUE], Tail(stack))
          \/ /\ "verify" \in Faults
             /\ stack' = Push(rest, Tail(stack))
             /\ UNCHANGED <<approved, runs, queue>>
    /\ UNCHANGED <<auto, runner, pins, doomed>>

AutoEnds ==
    /\ InFrame("auto")
    /\ Top.ids = {}
    /\ stack' = IF Top.flag THEN Push(Drain, Tail(stack)) ELSE Tail(stack)
    /\ UNCHANGED <<disk, queue, runner, pins, doomed>>

\* Mutant: only running runs are spared.
ClearableSparesRunningOnly(ws) ==
    {k \in DOMAIN runs : runs[k].workflow \in ws /\ runs[k].status # "running"}

Clearable(ws) ==
    {k \in DOMAIN runs : /\ runs[k].workflow \in ws
                         /\ runs[k].status \notin {"queued", "running"}}

\* clearActionRuns lists the runs of the open repository, or of its selected
\* workflow, and asks; the list is not made again when the answer arrives.
AskClear(ws) ==
    /\ UserTurn
    /\ Clearable(ws) # {}
    /\ doomed' = Clearable(ws)
    /\ UNCHANGED <<disk, queue, runner, pins, stack>>

AnswerClear(yes) ==
    /\ EventTurn
    /\ doomed # {}
    /\ doomed' = {}
    /\ runs' = IF yes THEN [k \in DOMAIN runs \ doomed |-> runs[k]] ELSE runs
    /\ UNCHANGED <<approved, auto, queue, runner, pins, stack>>

-----------------------------------------------------------------------------
(* The process exits, or dies, and starts again: what is in memory is      *)
(* lost, initActions reloads the runs, newest first, and resumes those     *)
(* awaiting an automatic approval (all repositories in one loop here).     *)

Restart ==
    /\ CanRestart
    /\ CrashAnywhere \/ EventTurn
    /\ runner' = [r \in Runner |-> NoRun]
    /\ queue' = <<>>
    /\ pins' = {}
    /\ doomed' = {}
    /\ stack' = <<Each("reload", DOMAIN runs),
                  Each("auto", {k \in DOMAIN runs :
                      /\ RepoOf[runs[k].workflow] \in auto
                      /\ runs[k].status = "awaiting-approval"}),
                  Drain>>
    /\ UNCHANGED disk

ReloadStep ==
    /\ InFrame("reload")
    /\ Top.ids # {}
    /\ LET id == Largest(Top.ids) IN
       /\ runs' = IF runs[id].status = "running" THEN SetStatus(id, "failed")
                                                 ELSE runs
       /\ queue' = IF runs[id].status = "queued" THEN Append(queue, id)
                                                 ELSE queue
       /\ stack' = Push([Top EXCEPT !.ids = @ \ {id}], Tail(stack))
    /\ UNCHANGED <<approved, auto, runner, pins, doomed>>

ReloadEnds ==
    /\ InFrame("reload")
    /\ Top.ids = {}
    /\ stack' = Tail(stack)
    /\ UNCHANGED <<disk, queue, runner, pins, doomed>>

-----------------------------------------------------------------------------
(* The next-state relation. *)

\* The innermost handler goes on.
Handler ==
    \/ ScanStep \/ ScanEnds \/ SupersedeStep \/ SupersedeEnds
    \/ AutoStep \/ AutoEnds \/ ReloadStep \/ ReloadEnds
    \/ DrainStep \/ DrainEnds \/ Launch \/ EmitFinished \/ EmitLanded
    \/ WaitTimesOut \/ PumpEnds

Command ==
    \/ \E id \in DOMAIN runs :
          Rerun(id) \/ Approve(id) \/ Reject(id) \/ Stop(id) \/ Skip(id)
    \/ \E c \in Commit : \E w \in At[c] : RunManually(w, c)
    \/ \E p \in Repo : SetAutoApprove(p) \/ AskClear({w \in Workflow : RepoOf[w] = p})
    \/ \E w \in Workflow : AskClear({w})

Next ==
    \/ Handler
    \/ Command
    \/ \E yes \in BOOLEAN : AnswerClear(yes)
    \/ \E c \in Commit : ScanArrives(c)
    \/ \E r \in Runner : RunnerExits(r)
    \/ Poll
    \/ Restart

\* The GUI thread always finishes the handler it is in.  The poll timer keeps
\* firing, every process ends (ActionRunner's step timer kills it if it must,
\* see module ActionRunner), and Qt delivers both at some turn of the loop.
Fairness ==
    /\ WF_vars(Handler)
    /\ SF_vars(Poll)
    /\ \A r \in Runner : SF_vars(RunnerExits(r))

Spec == Init /\ [][Next]_vars
FairSpec == Spec /\ Fairness

-----------------------------------------------------------------------------
(* Properties. *)

\* Every variable holds what its declaration in the source can hold.
TypeOK ==
    /\ DOMAIN runs \subseteq 1..MaxId
    /\ runs \in [DOMAIN runs -> Run]
    /\ approved \in [Workflow -> Commit \cup {None}]
    /\ auto \subseteq Repo
    /\ queue \in Seq(Nat)
    /\ runner \in [Runner -> [busy : BOOLEAN, run : Nat, alive : BOOLEAN,
                              stopping : BOOLEAN]]
    /\ pins \subseteq Nat
    /\ doomed \subseteq DOMAIN runs
    /\ stack \in Seq(Frame)

\* A run is recorded as running exactly while one runner of the pool is busy
\* with it: no run is left behind as running by a stop, a supersession, a nested
\* drain or a cleared list, and none is executed twice.  Only the start-up loop
\* of initActions still finds records of the process that died.
RunnerOwnsRunning ==
    /\ \A r \in Runner : runner[r].busy => HasStatus(runner[r].run, {"running"})
    /\ \A q, r \in Runner : runner[q].busy /\ runner[r].busy /\ q # r
                                => runner[q].run # runner[r].run
    /\ \A id \in DOMAIN runs :
          runs[id].status = "running" => \/ RunnerFor(id) # {}
                                         \/ InFrame("reload") /\ id \in Top.ids

\* A queued run is in m_actionQueue exactly once, and nothing else is: it is
\* neither forgotten nor started twice.  The exceptions are a run whose creator
\* has not returned from cancelSupersededRuns, and start-up before its reload.
BeingQueued(id) == \E i \in DOMAIN stack :
    \/ stack[i].kind = "supersede" /\ stack[i].run = id
    \/ stack[i].kind = "reload" /\ id \in stack[i].ids

QueuedOnce ==
    /\ \A i \in DOMAIN queue : HasStatus(queue[i], {"queued"})
    /\ \A i, j \in DOMAIN queue : queue[i] = queue[j] => i = j
    /\ \A id \in DOMAIN runs : runs[id].status = "queued" =>
          \/ \E i \in DOMAIN queue : queue[i] = id
          \/ BeingQueued(id)

\* Of two unsettled runs of one workflow, one is being cancelled: its runner was
\* told to stop, or a cancelSupersededRuns on the call stack has yet to reach it.
BeingCancelled(id) ==
    \/ \E r \in RunnerFor(id) : runner[r].stopping
    \/ \E i \in DOMAIN stack :
          stack[i].kind = "supersede" /\ id \in stack[i].ids
    \/ InFrame("reload")

OneLivePerWorkflow ==
    \A j, k \in DOMAIN runs :
        /\ j # k
        /\ runs[j].workflow = runs[k].workflow
        /\ {runs[j].status, runs[k].status} \subseteq Pending
        => BeingCancelled(j) \/ BeingCancelled(k)

\* An executing run keeps its materialized mirror pinned: a re-seal cannot
\* delete the checkout source from under it (MainWindowActions.cpp:1308).
PinHeldWhileRunning ==
    \A r \in Runner : runner[r].alive => runner[r].run \in pins

\* The repository published after a release run landed its metadata is the one
\* the release belongs to.
LandedPublishesItsRepository ==
    InFrame("landed") => RepoOf[runs[runner[Top.runner].run].workflow] =
                         RepoOf[runs[Top.run].workflow]

\* A run starts only after every workflow it needs at its commit succeeded,
\* those the scan under way has yet to schedule included (.forkmesh/deploy.yml).
Starts(id) == HasStatus(id, {"queued"}) /\ HasStatus(id, {"running"})'

Unscheduled(c) == UNION {stack[i].workflows : i \in
    {j \in DOMAIN stack : stack[j].kind = "scan" /\ stack[j].commit = c}}

NeedsBeforeStart == [][
    \A id \in DOMAIN runs : Starts(id) =>
        /\ Gates(id) \subseteq {"success"}
        /\ Needs[runs[id].workflow] \cap Unscheduled(runs[id].commit) = {}]_vars

\* A settled run keeps its outcome for as long as its record exists, whatever
\* handler acts on a list of ids it read before an event was processed.
SettledStaysSettled == [][
    \A id \in DOMAIN runs \cap DOMAIN runs' :
        runs[id].status \in Finished => runs'[id] = runs[id]]_vars

\* Clearing the list deletes no queued or running run, although runs are
\* created, superseded and finished while the question is open.
ClearSparesLiveRuns == [][
    \A id \in DOMAIN runs \ DOMAIN runs' :
        runs[id].status \notin {"queued", "running"}]_vars

\* A queued run does not stay in the queue for ever, unless some run is waiting
\* for the user's approval: a saturated pool and `needs:' only delay it.
QueueAdvances ==
    \A id \in 1..MaxId :
        HasStatus(id, {"queued"}) ~>
            \/ ~HasStatus(id, {"queued"})
            \/ \E k \in DOMAIN runs : runs[k].status = "awaiting-approval"
-----------------------------------------------------------------------------
(* The inductive invariant of module ActionSchedulerProofs: what the       *)
(* suspended handlers, the runners and the open question may rely on.      *)

\* Only a busy runner has a process.
AliveIsBusy == \A r \in Runner : runner[r].alive => runner[r].busy

\* What a suspended handler still relies on when it resumes.
FrameOK(f) ==
    /\ f.ids \subseteq DOMAIN runs
    /\ f.kind = "scan" => f.commit \in Commit
    /\ f.kind = "launch" =>
          f.runner \in Runner /\ runner[f.runner].busy /\ ~runner[f.runner].alive
    /\ f.kind = "reload" => \A r \in Runner : ~runner[r].busy
    /\ f.kind = "auto" =>
          /\ doomed = {}
          /\ \A id \in f.ids : runs[id].status = "awaiting-approval"

FramesOK(s) == \A i \in DOMAIN s : FrameOK(s[i])

\* A runner is being launched by one handler at most.
LaunchedOnce(s) ==
    \A i, j \in DOMAIN s :
        /\ s[i].kind = "launch" /\ s[j].kind = "launch"
        /\ s[i].runner = s[j].runner
        => i = j

\* Nothing is ever called by the start-up loop, and nothing but it interrupts
\* autoApproveAwaitingRuns.
StartUpOnTop(s) ==
    \A i \in DOMAIN s :
        /\ s[i].kind = "reload" => i = 1
        /\ s[i].kind = "auto" => \A j \in 1..(i - 1) : s[j].kind = "reload"

\* A run listed by the open question never becomes queued or running again.
DoomedAreSettled ==
    \A id \in doomed : runs[id].status \notin {"queued", "running"}

IInv ==
    /\ TypeOK
    /\ RunnerOwnsRunning
    /\ AliveIsBusy
    /\ FramesOK(stack)
    /\ LaunchedOnce(stack)
    /\ StartUpOnTop(stack)
    /\ DoomedAreSettled
=============================================================================
