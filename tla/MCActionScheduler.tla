------------------------- MODULE MCActionScheduler -------------------------
(***************************************************************************)
(* Small instances of ActionScheduler: one repository, two commits, and    *)
(* the workflow files ci and deploy (which needs ci), or those and lint.   *)
(***************************************************************************)
EXTENDS ActionScheduler, TLC

CONSTANTS ci, deploy, lint, c1, c2, p1, p2

OneRepo    == {p1}
OneCommit  == {c2}
TwoCommits == {c1, c2}

\* Two files: `deploy' needs `ci', which alone exists at the first commit.
TwoFiles == {ci, deploy}
TwoAt    == (c1 :> {ci}) @@ (c2 :> TwoFiles)
OneAt    == (c2 :> TwoFiles)

\* Three files: `lint' is independent and alone at the first commit.
ThreeFiles == {ci, deploy, lint}
ThreeAt    == (c1 :> {lint}) @@ (c2 :> ThreeFiles)

InRepo(ws)  == [w \in ws |-> p1]
DeployNeedsCi(ws) == [w \in ws |-> IF w = deploy THEN {ci} ELSE {}]

TwoIn      == InRepo(TwoFiles)
TwoNeeds   == DeployNeedsCi(TwoFiles)
ThreeIn    == InRepo(ThreeFiles)
ThreeNeeds == DeployNeedsCi(ThreeFiles)

\* Two repositories: `ci' runs in p1 at the tag c1, the others in p2 at c2.
TwoRepos   == {p1, p2}
ReleaseIn  == [w \in ThreeFiles |-> IF w = ci THEN p1 ELSE p2]
ReleaseAt  == (c1 :> {ci}) @@ (c2 :> {deploy, lint})
NoNeeds    == [w \in ThreeFiles |-> {}]

\* The files in the order of .forkmesh/ci.yml and .forkmesh/deploy.yml.
TwoRank    == (ci :> 1) @@ (deploy :> 2)
\* The dependent file sorts before the file it needs.
NeedsLast  == (deploy :> 1) @@ (lint :> 2) @@ (ci :> 3)
=============================================================================
