-------------------------- MODULE MCActionRunner --------------------------
(***************************************************************************)
(* A runner that is handed up to three runs, of one, two and no steps.     *)
(***************************************************************************)
EXTENDS ActionRunner, TLC

CONSTANTS r1, r2, r3

Runs  == {r1, r2, r3}
Steps == (r1 :> 1) @@ (r2 :> 2) @@ (r3 :> 0)

\* The runner has settled the runs it was given.
Done == ~busy /\ \A i \in RunId : record[i] # "queued"

\* The program idles when there is nothing left to run.
MCNext == Next \/ (Done /\ UNCHANGED vars)
MCSpec == Init /\ [][MCNext]_vars /\ Fairness
=============================================================================
