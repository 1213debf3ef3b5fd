--------------------------- MODULE MCPullRequest ----------------------------
(* Two commits of one pull request, two retries and one repair.  People    *)
(* push, re-run, relabel and comment on the first, the jobs of the second  *)
(* die; both are reviewed as often as one likes and either may be merged.  *)
EXTENDS PullRequest
=============================================================================
