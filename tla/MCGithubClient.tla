--------------------------- MODULE MCGithubClient ---------------------------
(***************************************************************************)
(* Instances of GithubClient for TLC: two runs with a patch each, or one.  *)
(***************************************************************************)
EXTENDS GithubClient, TLC

CONSTANTS r1, r2, original, patch1, patch2, human

MCRuns    == {r1, r2}
MCOneRun  == {r1}
MCTexts   == {original, patch1, patch2, human}
MCPatchOf == r1 :> patch1 @@ r2 :> patch2
MCPatchOfOne == r1 :> patch1
=============================================================================
