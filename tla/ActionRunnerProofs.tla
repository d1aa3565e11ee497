------------------------ MODULE ActionRunnerProofs ------------------------
(***************************************************************************)
(* What module ActionRunner keeps for every set of runs, every workflow    *)
(* and whether or not a child may fail to start.                           *)
(***************************************************************************)
EXTENDS ActionRunner, TLAPS

-----------------------------------------------------------------------------
(* The inductive invariant: what is true of each state of the runner as    *)
(* the scheduler sees it.                                                  *)

\* Idle: nothing of the last run is left.
IdleInv == ~busy => phase = "Idle" /\ IdleIsQuiet

\* Claimed: start has saved the record but launched nothing.
ClaimedInv ==
    busy /\ phase = "Idle" =>
        /\ process \notin Live
        /\ ~sandbox /\ ~stepTimer /\ ~jobTimer
        /\ ~stopping /\ ~timedOut /\ ~jobTimedOut

\* Alive: there is a child, or one that failed to start.
AliveInv == busy /\ phase # "Idle" => process # "none" /\ sandbox

\* A child is being ended exactly when the runner remembers why.
EndingInv ==
    process \in Live =>
        (process \in {"terminating", "killed"} <=> stopping \/ timedOut)

\* The record that says running is that of the runner's run.
RecordInv ==
    /\ busy => record[run] = "running"
    /\ \A i \in RunId : record[i] = "running" => busy /\ i = run

IInv ==
    /\ TypeOK /\ ChildHasDeadline /\ IdleIsQuiet
    /\ IdleInv /\ ClaimedInv /\ AliveInv /\ EndingInv /\ RecordInv

\* The definitions that every step of the proofs expands.
USE DEF Phase, Process, Live, Status, Waiting

\* The initial state has no run, no child and no timer.
LEMMA InitIInv == Init => IInv
  <1> SUFFICES ASSUME Init PROVE IInv
    OBVIOUS
  <1>1. TypeOK
    BY DEF Init, TypeOK
  <1>2. /\ ChildHasDeadline /\ IdleIsQuiet
        /\ IdleInv /\ ClaimedInv /\ AliveInv /\ EndingInv /\ RecordInv
    BY DEF Init, ChildHasDeadline, IdleIsQuiet, IdleInv, ClaimedInv, AliveInv,
           EndingInv, RecordInv
  <1> QED BY <1>1, <1>2 DEF IInv

\* Complete leaves the runner idle and the record settled.
LEMMA CompleteKeeps ==
  ASSUME IInv, NEW ok \in BOOLEAN, busy, Complete(ok),
         stopping' \in BOOLEAN, process' \in Process \ Live, step' \in Nat
  PROVE  IInv'
  <1>1. TypeOK'
    BY DEF IInv, TypeOK, Complete
  <1>2. /\ ChildHasDeadline' /\ IdleIsQuiet'
        /\ IdleInv' /\ ClaimedInv' /\ AliveInv' /\ EndingInv'
    BY DEF Complete, ChildHasDeadline, IdleIsQuiet, IdleInv, ClaimedInv,
           AliveInv, EndingInv
  <1>3. RecordInv'
    BY DEF Complete, RecordInv, IInv, TypeOK
  <1> QED BY <1>1, <1>2, <1>3 DEF IInv

\* The next child of a run that nobody told to end.
LEMMA GoOnKeeps ==
  ASSUME IInv, NEW p \in Phase \ {"Idle"}, GoOn(p),
         busy, phase # "Idle", process = "running",
         UNCHANGED stopping, step' \in Nat, step' <= NumSteps[run],
         p = "Step" => step' < NumSteps[run]
  PROVE  IInv'
  <1>1. ~stopping /\ ~timedOut /\ ~jobTimedOut /\ jobTimer /\ sandbox
    BY DEF IInv, ChildHasDeadline
  <1>2. process' \in {"running", "failed"}
    BY DEF GoOn, LaunchChild
  <1>3. TypeOK'
    BY <1>2 DEF IInv, TypeOK, GoOn, LaunchChild
  <1>4. /\ ChildHasDeadline' /\ IdleIsQuiet'
        /\ IdleInv' /\ ClaimedInv' /\ AliveInv' /\ EndingInv'
    BY <1>1, <1>2 DEF GoOn, LaunchChild, ChildHasDeadline, IdleIsQuiet,
                      IdleInv, ClaimedInv, AliveInv, EndingInv
  <1>5. RecordInv'
    BY DEF GoOn, LaunchChild, RecordInv, IInv
  <1> QED BY <1>3, <1>4, <1>5 DEF IInv

\* A child that ends finds a runner that is executing a run.
LEMMA LiveIsAlive == IInv /\ process \in Live => busy /\ phase # "Idle"
  BY DEF IInv, IdleIsQuiet, ClaimedInv

LEMMA RunNextStepKeeps ==
  ASSUME IInv, RunNextStep, busy, phase # "Idle", process = "running",
         UNCHANGED stopping, step' \in Nat, step' <= NumSteps[run]
  PROVE  IInv'
  <1>1. CASE step' < NumSteps[run] /\ GoOn("Step")
    BY <1>1, GoOnKeeps
  <1>2. CASE \E landed \in BOOLEAN : Complete(landed) /\ process' = "none"
    <2>1. PICK landed \in BOOLEAN : Complete(landed) /\ process' = "none"
      BY <1>2
    <2>2. stopping' \in BOOLEAN
      BY DEF IInv, TypeOK
    <2> QED BY <2>1, <2>2, CompleteKeeps
  <1> QED BY <1>1, <1>2 DEF RunNextStep

LEMMA FailKeeps ==
  ASSUME IInv, Fail, busy, stopping' \in BOOLEAN, step' \in Nat
  PROVE  IInv'
  BY CompleteKeeps DEF Fail

LEMMA ProcessEndsKeeps ==
  ASSUME IInv, NEW zero \in BOOLEAN, ProcessEnds(zero)
  PROVE  IInv'
  <1>1. /\ busy /\ phase # "Idle" /\ run \in RunId
        /\ step \in Nat /\ step <= NumSteps[run] /\ NumSteps[run] \in Nat
        /\ stopping' \in BOOLEAN
    BY LiveIsAlive, RunnerAssumption DEF ProcessEnds, IInv, TypeOK
  <1>2. CASE Fail /\ UNCHANGED step
    BY <1>1, <1>2, FailKeeps
  <1>3. CASE ~stopping /\ ~timedOut /\ Advance
    <2>1. process = "running" /\ UNCHANGED stopping
      BY <1>3 DEF IInv, EndingInv, ProcessEnds
    <2>2. CASE GoOn("WorkspaceClone") /\ step' = step
      BY <1>1, <2>1, <2>2, GoOnKeeps
    <2>3. CASE GoOn("WorkspaceCheckout") /\ step' = step
      BY <1>1, <2>1, <2>3, GoOnKeeps
    <2>4. CASE RunNextStep /\ step' = step
      BY <1>1, <2>1, <2>4, RunNextStepKeeps
    <2>5. CASE phase = "Step" /\ step' = step + 1 /\ RunNextStep
      <3>1. step' \in Nat /\ step' <= NumSteps[run]
        BY <1>1, <2>5 DEF IInv, TypeOK
      <3> QED BY <1>1, <2>1, <2>5, <3>1, RunNextStepKeeps
    <2>6. CASE Fail /\ step' = step
      BY <1>1, <2>6, FailKeeps
    <2> QED BY <1>3, <2>2, <2>3, <2>4, <2>5, <2>6 DEF Advance
  <1> QED BY <1>2, <1>3 DEF ProcessEnds

\* Ending the child of a run, for a stop or a deadline, leaves the record.
LEMMA TerminateKeeps ==
  ASSUME IInv, NEW late \in BOOLEAN, Terminate(late),
         UNCHANGED <<record, busy, run, phase, step, sandbox>>,
         jobTimedOut' \in BOOLEAN,
         stepTimer' \in BOOLEAN, jobTimer' \in BOOLEAN,
         stepTimer' => stepTimer, jobTimer' => jobTimer,
         \/ late /\ stopping' = stopping
         \/ process \in Live /\ stopping' = TRUE,
         busy /\ phase # "Idle"
  PROVE  IInv'
  <1>1. TypeOK'
    BY DEF IInv, TypeOK, Terminate
  <1>2. /\ ChildHasDeadline' /\ IdleIsQuiet'
        /\ IdleInv' /\ ClaimedInv' /\ AliveInv'
    BY DEF IInv, TypeOK, Terminate, ChildHasDeadline, IdleIsQuiet, IdleInv,
           ClaimedInv, AliveInv
  <1>3. EndingInv'
    BY DEF IInv, TypeOK, Terminate, EndingInv
  <1>4. RecordInv'
    BY DEF IInv, RecordInv
  <1> QED BY <1>1, <1>2, <1>3, <1>4 DEF IInv

LEMMA NextIInv == IInv /\ [Next]_vars => IInv'
  <1> SUFFICES ASSUME IInv, [Next]_vars PROVE IInv'
    OBVIOUS
  <1>1. ASSUME NEW i \in RunId, Start(i) PROVE IInv'
    <2>0. NumSteps[i] \in Nat /\ phase = "Idle"
      BY <1>1, RunnerAssumption DEF IInv, IdleInv, Start
    <2>1. TypeOK'
      <3>1. /\ record' \in [RunId -> Status]
            /\ busy' = TRUE /\ stopping' = FALSE
            /\ run' = i /\ step' = 0 /\ phase' = "Idle"
            /\ timedOut' = FALSE /\ jobTimedOut' = FALSE
            /\ UNCHANGED <<process, stepTimer, jobTimer, sandbox>>
        BY <1>1, <2>0 DEF IInv, TypeOK, Start
      <3>2. step' \in Nat /\ step' <= NumSteps[run']
        BY <2>0, <3>1
      <3> QED BY <1>1, <3>1, <3>2 DEF IInv, TypeOK
    <2>2. /\ ChildHasDeadline' /\ IdleIsQuiet'
          /\ IdleInv' /\ ClaimedInv' /\ AliveInv' /\ EndingInv'
      BY <1>1 DEF Start, IInv, ChildHasDeadline, IdleIsQuiet, IdleInv,
                  ClaimedInv, AliveInv, EndingInv
    <2>3. RecordInv'
      BY <1>1 DEF Start, IInv, TypeOK, RecordInv
    <2> QED BY <2>1, <2>2, <2>3 DEF IInv
  <1>2. CASE Launch
    <2>1. busy /\ phase = "Idle" /\ step \in Nat /\ step' = step
      BY <1>2 DEF Launch, IInv, TypeOK
    <2>2. process \notin Live /\ ~stopping /\ ~jobTimedOut
      BY <2>1 DEF IInv, ClaimedInv
    <2>3. CASE ~(Complete(FALSE) /\ UNCHANGED process)
      <3>1. /\ process' \in {"running", "failed"} /\ phase' = "Checkout"
            /\ timedOut' = FALSE
            /\ stepTimer' = TRUE /\ jobTimer' = TRUE /\ sandbox' = TRUE
            /\ UNCHANGED <<record, busy, run, step, stopping, jobTimedOut>>
        BY <1>2, <2>3 DEF Launch, LaunchChild
      <3>2. TypeOK'
        BY <2>1, <3>1 DEF IInv, TypeOK
      <3>3. /\ ChildHasDeadline' /\ IdleIsQuiet'
            /\ IdleInv' /\ ClaimedInv' /\ AliveInv' /\ EndingInv'
        BY <2>1, <2>2, <3>1 DEF ChildHasDeadline, IdleIsQuiet, IdleInv,
                                ClaimedInv, AliveInv, EndingInv
      <3>4. RecordInv'
        BY <3>1 DEF IInv, RecordInv
      <3> QED BY <3>2, <3>3, <3>4 DEF IInv
    <2>4. CASE Complete(FALSE) /\ UNCHANGED process
      BY <1>2, <2>1, <2>2, <2>4, CompleteKeeps DEF Launch, IInv, TypeOK
    <2> QED BY <1>2, <2>3, <2>4 DEF Launch
  <1>3. ASSUME NEW zero \in BOOLEAN, ProcessEnds(zero) PROVE IInv'
    BY <1>3, ProcessEndsKeeps
  <1>4. CASE Stop
    <2>1. CASE process \in Live
      <3>1. /\ Terminate(FALSE) /\ stopping' = TRUE /\ busy /\ phase # "Idle"
            /\ UNCHANGED <<record, busy, run, phase, step, jobTimedOut,
                           stepTimer, jobTimer, sandbox>>
        BY <1>4, <2>1 DEF Stop
      <3>2. jobTimedOut' \in BOOLEAN /\ stepTimer' \in BOOLEAN
            /\ jobTimer' \in BOOLEAN
        BY <3>1 DEF IInv, TypeOK
      <3> QED BY <2>1, <3>1, <3>2, TerminateKeeps
    <2>2. CASE process \notin Live
      BY <1>4, <2>2, CompleteKeeps DEF Stop, IInv, TypeOK
    <2> QED BY <2>1, <2>2
  <1>5. CASE StepTimerFires
    <2>1. busy /\ phase # "Idle"
      BY <1>5 DEF StepTimerFires, IInv, IdleIsQuiet, ClaimedInv
    <2> QED BY <1>5, <2>1, TerminateKeeps
            DEF StepTimerFires, control, IInv, TypeOK
  <1>6. CASE JobTimerFires
    <2>1. busy /\ phase # "Idle"
      BY <1>6 DEF JobTimerFires, IInv, IdleIsQuiet, ClaimedInv
    <2> QED BY <1>6, <2>1, TerminateKeeps
            DEF JobTimerFires, control, IInv, TypeOK
  <1>7. CASE WaitEnds
    BY <1>7 DEF WaitEnds, control, timers, IInv, TypeOK, ChildHasDeadline,
                IdleIsQuiet, IdleInv, ClaimedInv, AliveInv, EndingInv,
                RecordInv
  <1>8. CASE UNCHANGED vars
    BY <1>8 DEF vars, control, timers, IInv, TypeOK, ChildHasDeadline,
                IdleIsQuiet, IdleInv, ClaimedInv, AliveInv, EndingInv,
                RecordInv
  <1> QED BY <1>1, <1>2, <1>3, <1>4, <1>5, <1>6, <1>7, <1>8 DEF Next

\* The runner keeps its inductive invariant.
THEOREM RunnerInvariant == Spec => []IInv
  BY InitIInv, NextIInv, PTL DEF Spec

\* Each variable keeps its type and the step index its range.
THEOREM RunnerTypeCorrect == Spec => []TypeOK
  <1>1. IInv => TypeOK BY DEF IInv
  <1> QED BY <1>1, RunnerInvariant, PTL

\* No child runs without a step and a job deadline ahead of it.
THEOREM DeadlineAhead == Spec => []ChildHasDeadline
  <1>1. IInv => ChildHasDeadline BY DEF IInv
  <1> QED BY <1>1, RunnerInvariant, PTL

\* An idle runner has no timer, no sandbox and no child.
THEOREM IdleLeavesNothing == Spec => []IdleIsQuiet
  <1>1. IInv => IdleIsQuiet BY DEF IInv
  <1> QED BY <1>1, RunnerInvariant, PTL

-----------------------------------------------------------------------------
(* What a step may never do. *)

\* Only Advance goes on, and no child is "running" once it was told to end.
LEMMA AdvanceIsUntold ==
  ASSUME IInv, NEW zero \in BOOLEAN, ProcessEnds(zero),
         ~(Fail /\ UNCHANGED step)
  PROVE  /\ Advance /\ process = "running" /\ UNCHANGED stopping
         /\ ~stopping /\ ~timedOut /\ ~jobTimedOut
  BY DEF IInv, EndingInv, ChildHasDeadline, ProcessEnds

\* A failing run ends as failed or cancelled.
LEMMA FailIsNoSuccess ==
  ASSUME IInv, Complete(FALSE), busy
  PROVE  /\ record' = [record EXCEPT ![run] = IF stopping' THEN "cancelled"
                                              ELSE "failed"]
         /\ phase' = "Idle"
         /\ record'[run] # "success"
         /\ \A i \in RunId : i # run => record'[i] = record[i]
  BY DEF IInv, TypeOK, Complete

\* After a stop or a deadline nothing more of the run is executed.
THEOREM DeadlineIsFinal == Spec => NoStepAfterDeadline
  <1> DEFINE P == busy /\ (stopping \/ timedOut \/ jobTimedOut) =>
                     /\ step' = step
                     /\ phase' \in {phase, "Idle"}
                     /\ record'[run] # "success"
  <1>1. IInv /\ [Next]_vars => [P]_vars
    <2> SUFFICES ASSUME IInv, Next, busy,
                        stopping \/ timedOut \/ jobTimedOut
                 PROVE  P
      OBVIOUS
    <2>0. record[run] = "running" /\ run \in RunId
      BY DEF IInv, RecordInv, TypeOK
    <2>1. ASSUME NEW i \in RunId, Start(i) PROVE P
      BY <2>1 DEF Start
    <2>2. CASE Launch
      BY <2>2 DEF Launch, IInv, ClaimedInv
    <2>3. ASSUME NEW zero \in BOOLEAN, ProcessEnds(zero) PROVE P
      BY <2>3, AdvanceIsUntold, FailIsNoSuccess DEF Fail
    <2>4. CASE Stop
      BY <2>0, <2>4, FailIsNoSuccess DEF Stop
    <2>5. CASE StepTimerFires \/ JobTimerFires \/ WaitEnds
      BY <2>0, <2>5 DEF StepTimerFires, JobTimerFires, WaitEnds, control
    <2> QED BY <2>1, <2>2, <2>3, <2>4, <2>5 DEF Next
  <1> QED BY <1>1, RunnerInvariant, PTL DEF Spec, NoStepAfterDeadline

\* A run succeeds only from its last phase, with every step executed.
THEOREM SuccessAfterAllSteps == Spec => SuccessIsComplete
  <1> DEFINE P(i) == record[i] # "success" /\ record'[i] = "success" =>
                       /\ i = run /\ record[i] = "running"
                       /\ step' >= NumSteps[i]
                       /\ phase \in {"WorkspaceCheckout", "Step"}
  <1>1. IInv /\ [Next]_vars => [\A i \in RunId : P(i)]_vars
    <2> SUFFICES ASSUME IInv, Next, NEW i \in RunId,
                        record[i] # "success", record'[i] = "success"
                 PROVE  P(i)
      OBVIOUS
    <2>1. ASSUME NEW j \in RunId, Start(j) PROVE P(i)
      BY <2>1 DEF Start, IInv, TypeOK
    <2>2. CASE Launch
      BY <2>2, FailIsNoSuccess DEF Launch
    <2>3. ASSUME NEW zero \in BOOLEAN, ProcessEnds(zero) PROVE P(i)
      <3>1. busy /\ run \in RunId /\ record[run] = "running"
            /\ step \in Nat /\ NumSteps[run] \in Nat
        BY <2>3, LiveIsAlive, RunnerAssumption
        DEF ProcessEnds, IInv, TypeOK, RecordInv
      <3>2. ~Fail
        BY <3>1, FailIsNoSuccess DEF Fail
      <3>3. Advance
        BY <2>3, <3>2, AdvanceIsUntold
      <3>4. ~GoOn("WorkspaceClone") /\ ~GoOn("WorkspaceCheckout")
            /\ ~GoOn("Step")
        BY DEF GoOn
      <3>5. RunNextStep /\ phase \in {"WorkspaceCheckout", "Step"}
            /\ step' \in Nat
        BY <3>1, <3>2, <3>3, <3>4 DEF Advance
      <3>6. ~(step' < NumSteps[run]) /\ \E ok \in BOOLEAN : Complete(ok)
        BY <3>4, <3>5 DEF RunNextStep
      <3>7. i = run
        BY <3>6 DEF Complete, IInv, TypeOK
      <3> QED BY <3>1, <3>5, <3>6, <3>7
    <2>4. CASE Stop
      BY <2>4, FailIsNoSuccess DEF Stop
    <2>5. CASE StepTimerFires \/ JobTimerFires \/ WaitEnds
      BY <2>5 DEF StepTimerFires, JobTimerFires, WaitEnds, control
    <2> QED BY <2>1, <2>2, <2>3, <2>4, <2>5 DEF Next
  <1> QED BY <1>1, RunnerInvariant, PTL DEF Spec, SuccessIsComplete

-----------------------------------------------------------------------------
(* Refinement: the runner keeps the contract of module RunLife. *)

USE DEF Life!Settled

\* A run that ends is an Exit of the contract.
LEMMA CompleteIsExit ==
  ASSUME IInv, NEW ok \in BOOLEAN, busy, phase # "Idle", Complete(ok),
         stopping' \in {stopping, TRUE}
  PROVE  Life!Exit
  <1> DEFINE s == IF stopping' THEN "cancelled"
                  ELSE IF ok THEN "success" ELSE "failed"
  <1>1. LifeState = "alive" /\ LifeState' = "idle"
    BY DEF LifeState, Complete
  <1>2. s \in Life!Settled /\ stopping' \in BOOLEAN /\ (s = "cancelled" <=> stopping')
    BY DEF IInv, TypeOK
  <1>3. record' = [record EXCEPT ![run] = s] /\ UNCHANGED run
    BY DEF Complete
  <1>4. Life!Settle(s)
    BY <1>1, <1>3 DEF Life!Settle
  <1> QED BY <1>1, <1>2, <1>4 DEF Life!Exit

\* The next child of a run is nothing that the scheduler sees.
LEMMA GoOnIsStutter ==
  ASSUME NEW p \in Phase \ {"Idle"}, GoOn(p), busy, phase # "Idle",
         UNCHANGED stopping
  PROVE  UNCHANGED Life!lifeVars
  BY DEF GoOn, LaunchChild, LifeState, Life!lifeVars

\* Every behaviour of the runner is one of its contract.
THEOREM RunnerImplementsRunLife == Spec => ImplementsRunLife
  <1>1. Init => Life!Init
    BY DEF Init, Life!Init, LifeState
  <1>2. IInv /\ [Next]_vars => [Life!Next]_(Life!lifeVars)
    <2> SUFFICES ASSUME IInv, [Next]_vars
                 PROVE  Life!Next \/ UNCHANGED Life!lifeVars
      OBVIOUS
    <2>1. ASSUME NEW i \in RunId, Start(i) PROVE Life!Next
      <3>1. Life!Claim(i)
        BY <2>1 DEF Start, IInv, IdleInv, LifeState, Life!Claim
      <3> QED BY <3>1 DEF Life!Next
    <2>2. CASE Launch
      <3>1. LifeState = "claimed" /\ stopping = FALSE /\ stopping' = FALSE
        BY <2>2 DEF Launch, LifeState, IInv, TypeOK, ClaimedInv
      <3>2. CASE Complete(FALSE)
        <4>1. Life!Settle("failed")
          BY <3>1, <3>2 DEF Complete, LifeState, Life!Settle
        <4> QED BY <3>1, <4>1 DEF Life!Launch, Life!Next
      <3>3. CASE ~Complete(FALSE)
        <4>1. LifeState' = "alive" /\ UNCHANGED <<record, run>>
          BY <2>2, <3>3 DEF Launch, LaunchChild, LifeState
        <4> QED BY <3>1, <4>1 DEF Life!Launch, Life!Next
      <3> QED BY <3>2, <3>3
    <2>3. ASSUME NEW zero \in BOOLEAN, ProcessEnds(zero)
          PROVE  Life!Next \/ UNCHANGED Life!lifeVars
      <3>1. busy /\ phase # "Idle" /\ UNCHANGED stopping
        BY <2>3, LiveIsAlive DEF ProcessEnds
      <3>2. CASE \E ok \in BOOLEAN : Complete(ok)
        BY <3>1, <3>2, CompleteIsExit DEF Life!Next
      <3>3. CASE ~\E ok \in BOOLEAN : Complete(ok)
        <4>1. ~Fail /\ Advance
          BY <2>3, <3>3, AdvanceIsUntold DEF Fail
        <4>2. \E p \in Phase \ {"Idle"} : GoOn(p)
          BY <3>3, <4>1 DEF Advance, RunNextStep
        <4> QED BY <3>1, <4>2, GoOnIsStutter
      <3> QED BY <3>2, <3>3
    <2>4. CASE Stop
      <3>1. CASE process \in Live
        <4>1. Life!Tell
          BY <2>4, <3>1 DEF Stop, LifeState, Life!Tell
        <4> QED BY <4>1 DEF Life!Next
      <3>2. CASE process \notin Live
        BY <2>4, <3>2, CompleteIsExit DEF Stop, Life!Next
      <3> QED BY <3>1, <3>2
    <2>5. CASE StepTimerFires \/ JobTimerFires \/ WaitEnds
      <3>1. UNCHANGED <<record, run, busy, phase, stopping>>
        BY <2>5 DEF StepTimerFires, JobTimerFires, WaitEnds, control
      <3> QED BY <3>1 DEF LifeState, Life!lifeVars
    <2>6. CASE UNCHANGED vars
      <3>1. UNCHANGED <<record, run, busy, phase, stopping>>
        BY <2>6 DEF vars, control
      <3> QED BY <3>1 DEF LifeState, Life!lifeVars
    <2> QED BY <2>1, <2>2, <2>3, <2>4, <2>5, <2>6 DEF Next
  <1> QED BY <1>1, <1>2, RunnerInvariant, PTL
          DEF Spec, ImplementsRunLife, Life!Spec
=============================================================================
