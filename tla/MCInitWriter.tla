----------------------------- MODULE MCInitWriter -----------------------------
(***************************************************************************)
(* A plan of two files, one of them a directory deeper, and a file and its *)
(* directory whose names differ from those of the first only in case.      *)
(***************************************************************************)
EXTENDS InitWriter, TLC

CONSTANTS workflow, policy, twin, github, githubTwin, workflows, i1, i2, i3, i4

MCPaths == {workflow, policy, twin}
MCDirs == {github, githubTwin, workflows}
MCParents == policy :> <<github>> @@ twin :> <<githubTwin>> @@ workflow :> <<github, workflows>>
MCKey == policy :> "policy" @@ twin :> "policy" @@ workflow :> "workflow"
            @@ github :> "github" @@ githubTwin :> "github" @@ workflows :> "workflows"
MCPlan == <<policy, workflow>>

Symmetry == Permutations(Procs) \cup Permutations(Inodes)
=============================================================================
