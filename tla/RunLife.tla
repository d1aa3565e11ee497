------------------------------ MODULE RunLife ------------------------------
(***************************************************************************)
(* What the scheduler of module ActionScheduler expects of a runner.  A    *)
(* runner is idle, claimed by a run whose record says running, or alive:   *)
(* it executes the run.  It settles the run once, as cancelled exactly     *)
(* when it was told to stop, and it always settles it.  The scheduler has  *)
(* the same steps: Start, Launch, StopRunner and RunnerExits.              *)
(***************************************************************************)
CONSTANTS
    RunId,      \* runs that the scheduler hands to this runner
    NoRunId     \* the runner has had no run yet

VARIABLES
    record,     \* run -> its status in the store
    current,    \* the run the runner was last given
    state,      \* "idle", "claimed" or "alive"
    told        \* the runner was told to stop its run

lifeVars == <<record, current, state, told>>

Settled == {"success", "failed", "cancelled"}

Init ==
    /\ record = [i \in RunId |-> "queued"]
    /\ current = NoRunId
    /\ state = "idle"
    /\ told = FALSE

Claim(i) ==
    /\ state = "idle"
    /\ record[i] = "queued"
    /\ record' = [record EXCEPT ![i] = "running"]
    /\ current' = i
    /\ state' = "claimed"
    /\ told' = FALSE

Settle(s) ==
    /\ record' = [record EXCEPT ![current] = s]
    /\ state' = "idle"
    /\ UNCHANGED current

Launch ==
    /\ state = "claimed"
    /\ \/ state' = "alive" /\ UNCHANGED <<record, current>>
       \/ Settle("failed")
    /\ UNCHANGED told

Tell ==
    /\ state = "alive"
    /\ told' = TRUE
    /\ UNCHANGED <<record, current, state>>

\* A runner may be told to stop and exit in one step.  What it was told means
\* nothing once it is idle.
Exit ==
    /\ state = "alive"
    /\ told' \in BOOLEAN
    /\ \E t \in {told, TRUE}, s \in Settled : (s = "cancelled" <=> t) /\ Settle(s)

Next ==
    \/ \E i \in RunId : Claim(i)
    \/ Launch \/ Tell \/ Exit

Spec == Init /\ [][Next]_lifeVars

\* No run executes for ever.
EveryRunSettles ==
    \A i \in RunId : (record[i] = "running") ~> (record[i] \in Settled)
=============================================================================
