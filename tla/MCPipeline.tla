----------------------------- MODULE MCPipeline -----------------------------
(* Instances of Pipeline: a Run, two diffs besides the unchanged tree, a fix *)
(* loop of two attempts, one follow-up.                                      *)
EXTENDS Pipeline, TLC

MCDiffs == {1, 2}

\* Diff 2 is diff 1 and a cache directory the project did not have.
MCFingerprint == <<1, 1>> @@ (0 :> 0)
=============================================================================
