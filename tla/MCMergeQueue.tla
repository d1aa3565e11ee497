---------------------------- MODULE MCMergeQueue ----------------------------
(***************************************************************************)
(* Instances: one repository with two pull requests, or two repositories   *)
(* with one or two; the first pull request's head is a local branch.       *)
(***************************************************************************)
EXTENDS MergeQueue, TLC

CONSTANTS a, b, p1, p2

OneHome == (p1 :> a) @@ (p2 :> a)
TwoHome == (p1 :> a) @@ (p2 :> b)

\* What users and peers do with one repository.
OneRepo  == {"Dequeue", "Move", "SetPaused", "Reviewed",
             "MergeByHand", "Close", "Delete", "Restart"}
\* Two repositories are opened in turn.
Switching == {"Switch", "SetEnabled", "Reviewed", "BaseMoves"}
Reviewing == {"Reviewed"}
Closing  == {"Close"}
Switch   == {"Switch"}
=============================================================================
