---------------------------- MODULE ActionRunner ----------------------------
(***************************************************************************)
(* One ActionRunner (ActionRunner.cpp): a run is checked out, cloned into  *)
(* a disposable workspace, verified, and its steps are executed, each by a *)
(* child process under a step timer, all of them under a job timer.        *)
(*                                                                         *)
(* All handlers run on the GUI thread.  terminateCurrentProcess signals    *)
(* the child and blocks for 1.5 s; the child may end within that wait, in  *)
(* which case its `finished' handler runs nested, or is killed and ends    *)
(* later.  While it waits nothing else is handled: process "terminating".  *)
(* What a step prints and the sandbox's arguments are left out.            *)
(***************************************************************************)
EXTENDS Naturals

CONSTANTS
    RunId,        \* runs handed to this runner
    NoRunId,      \* the runner has had no run yet
    NumSteps,     \* [RunId -> Nat]: steps of the run's workflow
    StartFails    \* BOOLEAN: a child process may fail to start

ASSUME RunnerAssumption ==
    /\ NoRunId \notin RunId
    /\ NumSteps \in [RunId -> Nat]
    /\ StartFails \in BOOLEAN

VARIABLES
    record,       \* run -> status in the store
    busy,         \* m_busy
    stopping,     \* m_stopping
    run,          \* m_run
    phase,        \* m_phase
    step,         \* m_stepIndex
    process,      \* state of m_process
    timedOut,     \* m_processTimedOut
    jobTimedOut,  \* m_jobTimedOut
    stepTimer,    \* m_stepTimer is active
    jobTimer,     \* m_jobTimer is active
    sandbox       \* m_sandboxRoot is not empty: the directories exist

control == <<busy, stopping, run, phase, step>>
timers  == <<timedOut, jobTimedOut, stepTimer, jobTimer>>
vars    == <<record, control, process, timers, sandbox>>

Phase   == {"Idle", "Checkout", "WorkspaceClone", "WorkspaceCheckout", "Step"}

\* "failed": it did not start, which QProcess reports as NotRunning; no
\* `finished' signal follows.
Process == {"none", "running", "terminating", "killed", "failed"}
Live    == {"running", "terminating", "killed"}

Status  == {"queued", "running", "success", "failed", "cancelled"}

Init ==
    /\ record = [i \in RunId |-> "queued"]
    /\ busy = FALSE /\ stopping = FALSE
    /\ run = NoRunId
    /\ phase = "Idle" /\ step = 0
    /\ process = "none"
    /\ timedOut = FALSE /\ jobTimedOut = FALSE
    /\ stepTimer = FALSE /\ jobTimer = FALSE
    /\ sandbox = FALSE

-----------------------------------------------------------------------------
(* Starting and ending a run. *)

\* Mutant: a busy runner takes another run.
StartBusy(i) ==
    /\ record[i] = "queued"
    /\ record' = [record EXCEPT ![i] = "running"]
    /\ busy' = TRUE /\ stopping' = FALSE
    /\ run' = i /\ step' = 0
    /\ timedOut' = FALSE /\ jobTimedOut' = FALSE
    /\ UNCHANGED <<phase, process, stepTimer, jobTimer, sandbox>>

\* start, up to its statusChanged.
Start(i) ==
    /\ ~busy
    /\ record[i] = "queued"
    /\ record' = [record EXCEPT ![i] = "running"]
    /\ busy' = TRUE /\ stopping' = FALSE
    /\ run' = i /\ step' = 0
    /\ timedOut' = FALSE /\ jobTimedOut' = FALSE
    /\ UNCHANGED <<phase, process, stepTimer, jobTimer, sandbox>>

\* Mutant: the child of a trusted Git phase gets no deadline.
LaunchUntimed(p) ==
    /\ phase' = p
    /\ timedOut' = FALSE
    /\ process' \in {"running"} \cup (IF StartFails THEN {"failed"} ELSE {})
    /\ stepTimer' = (p = "Step")

\* launch: a new child under the step timer.
LaunchChild(p) ==
    /\ phase' = p
    /\ timedOut' = FALSE
    /\ process' \in {"running"} \cup (IF StartFails THEN {"failed"} ELSE {})
    /\ stepTimer' = TRUE

\* Mutant: the job timer is not stopped.
CompleteKeepsJobTimer(ok) ==
    /\ record' = [record EXCEPT ![run] =
                     IF stopping' THEN "cancelled"
                     ELSE IF ok THEN "success" ELSE "failed"]
    /\ phase' = "Idle" /\ busy' = FALSE
    /\ stepTimer' = FALSE
    /\ sandbox' = FALSE
    /\ UNCHANGED <<run, timedOut, jobTimer, jobTimedOut>>

\* complete: the sandbox is removed, the record settled, the runner idle.
Complete(ok) ==
    /\ record' = [record EXCEPT ![run] =
                     IF stopping' THEN "cancelled"
                     ELSE IF ok THEN "success" ELSE "failed"]
    /\ phase' = "Idle" /\ busy' = FALSE
    /\ stepTimer' = FALSE /\ jobTimer' = FALSE
    /\ sandbox' = FALSE
    /\ UNCHANGED <<run, timedOut, jobTimedOut>>

\* The rest of start.  A missing mirror or sandbox ends the run at once.
Launch ==
    /\ busy /\ phase = "Idle"
    /\ UNCHANGED <<stopping, step>>
    /\ \/ /\ LaunchChild("Checkout")
          /\ jobTimer' = TRUE /\ sandbox' = TRUE
          /\ UNCHANGED <<record, busy, run, jobTimedOut>>
       \/ Complete(FALSE) /\ UNCHANGED process

-----------------------------------------------------------------------------
(* A child ends: onProcessFinished. *)

GoOn(p) ==
    /\ LaunchChild(p)
    /\ UNCHANGED <<record, busy, run, jobTimedOut, jobTimer, sandbox>>

Fail == Complete(FALSE) /\ process' = "none"

\* Mutant: the index is compared with <=.
RunNextStepPastEnd ==
    IF step' <= NumSteps[run]
    THEN GoOn("Step")
    ELSE /\ \E landed \in BOOLEAN : Complete(landed)
         /\ process' = "none"

\* Mutant: the last step is left out.
RunNextStepEarly ==
    IF step' + 1 < NumSteps[run]
    THEN GoOn("Step")
    ELSE /\ \E landed \in BOOLEAN : Complete(landed)
         /\ process' = "none"

\* runNextStep.  Landing the artifacts of the last step may still fail.
RunNextStep ==
    IF step' < NumSteps[run]
    THEN GoOn("Step")
    ELSE /\ \E landed \in BOOLEAN : Complete(landed)
         /\ process' = "none"

\* The child exited with code 0 and nothing stopped it.  The workspace must
\* match the approved digest before the first step and keep its quota after
\* each one.
Advance ==
    \/ /\ phase = "Checkout" /\ step' = step
       /\ GoOn("WorkspaceClone")
    \/ /\ phase = "WorkspaceClone" /\ step' = step
       /\ GoOn("WorkspaceCheckout")
    \/ /\ phase = "WorkspaceCheckout" /\ step' = step
       /\ RunNextStep \/ Fail
    \/ /\ phase = "Step"
       /\ \/ step' = step + 1 /\ RunNextStep
          \/ step' = step /\ Fail

\* Mutant: an exit code of 0 is taken at face value after a deadline.
ProcessEndsLate(zero) ==
    /\ process \in Live
    /\ UNCHANGED stopping
    /\ \/ zero /\ ~stopping /\ Advance
       \/ (~zero \/ stopping) /\ Fail /\ UNCHANGED step

\* `zero': the child's exit code was 0.
ProcessEnds(zero) ==
    /\ process \in Live
    /\ UNCHANGED stopping
    /\ \/ zero /\ ~stopping /\ ~timedOut /\ Advance
       \/ (~zero \/ stopping \/ timedOut) /\ Fail /\ UNCHANGED step

-----------------------------------------------------------------------------
(* Stops and deadlines. *)

\* terminateCurrentProcess begins its wait.  A killed child is killed again.
Terminate(late) ==
    /\ process' = IF process = "running" THEN "terminating" ELSE process
    /\ timedOut' = (timedOut \/ (late /\ process \in Live))

\* Nothing but the child's end is handled within the wait.
Waiting == process = "terminating"

\* stop.  A runner without a live child (it failed to start) settles the run.
Stop ==
    /\ busy /\ phase # "Idle" /\ ~Waiting
    /\ stopping' = TRUE
    /\ UNCHANGED step
    /\ \/ /\ process \in Live
          /\ Terminate(FALSE)
          /\ UNCHANGED <<record, busy, run, phase, jobTimedOut,
                         stepTimer, jobTimer, sandbox>>
       \/ /\ process \notin Live
          /\ Complete(FALSE)
          /\ UNCHANGED process

StepTimerFires ==
    /\ stepTimer /\ ~Waiting
    /\ stepTimer' = FALSE
    /\ Terminate(TRUE)
    /\ UNCHANGED <<record, control, jobTimedOut, jobTimer, sandbox>>

JobTimerFires ==
    /\ jobTimer /\ ~Waiting
    /\ jobTimer' = FALSE
    /\ jobTimedOut' = TRUE
    /\ Terminate(TRUE)
    /\ UNCHANGED <<record, control, stepTimer, sandbox>>

\* Mutant: the wait ends without SIGKILL.
WaitGivesUp ==
    /\ Waiting
    /\ process' = "running"
    /\ UNCHANGED <<record, control, timers, sandbox>>

\* The wait of 1.5 s ends: SIGKILL.
WaitEnds ==
    /\ Waiting
    /\ process' = "killed"
    /\ UNCHANGED <<record, control, timers, sandbox>>

KilledExits == process = "killed" /\ \E zero \in BOOLEAN : ProcessEnds(zero)

Next ==
    \/ \E i \in RunId : Start(i)
    \/ Launch
    \/ \E zero \in BOOLEAN : ProcessEnds(zero)
    \/ Stop
    \/ StepTimerFires \/ JobTimerFires \/ WaitEnds

Spec == Init /\ [][Next]_vars

\* A running timer fires, a wait ends, a killed child goes away and start
\* returns.  Nothing says that a child ends by itself.
Fairness ==
    /\ WF_vars(Launch)
    /\ WF_vars(StepTimerFires) /\ WF_vars(JobTimerFires)
    /\ WF_vars(WaitEnds)
    /\ WF_vars(KilledExits)

FairSpec == Spec /\ Fairness

-----------------------------------------------------------------------------
(* Properties. *)

\* Every variable has its type, and the step index stays within the workflow's
\* list, which runNextStep and onProcessFinished access with QList::at.
TypeOK ==
    /\ record \in [RunId -> Status]
    /\ busy \in BOOLEAN /\ stopping \in BOOLEAN
    /\ run \in RunId \cup {NoRunId}
    /\ phase \in Phase /\ step \in Nat
    /\ process \in Process
    /\ timedOut \in BOOLEAN /\ jobTimedOut \in BOOLEAN
    /\ stepTimer \in BOOLEAN /\ jobTimer \in BOOLEAN
    /\ sandbox \in BOOLEAN
    /\ busy => run \in RunId /\ step <= NumSteps[run]
    /\ phase = "Step" => step < NumSteps[run]

\* A child that nobody has told to end has a step and a job deadline ahead of
\* it; one that was told to is about to be killed (launch, onProcessFinished,
\* stop and both timers together keep this).
ChildHasDeadline ==
    process = "running" =>
        /\ busy /\ phase # "Idle" /\ sandbox
        /\ stepTimer /\ jobTimer
        /\ ~stopping /\ ~timedOut /\ ~jobTimedOut

\* A runner that reports itself idle, so that the scheduler may hand it the
\* next run, has left nothing of the last one: no timer that would cut the
\* next run short, no sandbox and no child.
IdleIsQuiet ==
    ~busy => ~stepTimer /\ ~jobTimer /\ ~sandbox /\ process \notin Live

\* Once a run was told to stop or met a deadline, no later event, not even a
\* child that still exits with code 0, starts a step or ends in success.
NoStepAfterDeadline ==
    [][busy /\ (stopping \/ timedOut \/ jobTimedOut) =>
          /\ step' = step
          /\ phase' \in {phase, "Idle"}
          /\ record'[run] # "success"]_vars

\* A run succeeds only from its last phase, when each step was executed.
SuccessIsComplete ==
    [][\A i \in RunId :
          record[i] # "success" /\ record'[i] = "success" =>
              /\ i = run /\ record[i] = "running"
              /\ step' >= NumSteps[i]
              /\ phase \in {"WorkspaceCheckout", "Step"}]_vars

\* The runner as the scheduler sees it.
LifeState ==
    IF ~busy THEN "idle" ELSE IF phase = "Idle" THEN "claimed" ELSE "alive"

Life == INSTANCE RunLife WITH current <- run, state <- LifeState,
                              told <- stopping

\* A runner takes one run at a time and settles it once, as cancelled exactly
\* when it was told to stop.
ImplementsRunLife == Life!Spec

\* Every run settles, whatever its children do: "stale workflow processes are
\* killed at the configured deadline" (test_action_security.cpp:513).
EveryRunSettles == Life!EveryRunSettles

\* The timers alone see to it that a run settles, whatever its children do once
\* they have started.
StartedRunsSettle == busy ~> ~busy \/ process = "failed"
=============================================================================
