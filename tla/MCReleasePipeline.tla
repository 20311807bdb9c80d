-------------------------- MODULE MCReleasePipeline --------------------------
(* ReleasePipeline with two packages, one of which depends on the other. *)
EXTENDS ReleasePipeline

MCNeeds == [p \in Packages |-> IF p = "plugin" THEN {"core"} ELSE {}]

\* The second attempt at the first commit, what is left of a release at the second, and runs
\* that must not publish.
MCDispatches ==
  [commit : {1}, set : {{"core", "plugin"}}, attempt : {1, 2}, mode : {"publish"}]
  \cup [commit : {2}, set : {{"plugin"}}, attempt : {1}, mode : {"publish"}]
  \cup [commit : {1}, set : {{"core", "plugin"}}, attempt : {1}, mode : {"dry-run", "unconfirmed"}]
=============================================================================
