---------------------------- MODULE ReleasePipeline ----------------------------
(***************************************************************************)
(* The manual release of the crates (.github/workflows/release-plz.yml and *)
(* .github/scripts/release-*.sh).  A run is dispatched with the commit,    *)
(* the packages and the CI attempt somebody has approved.  Two jobs check  *)
(* them, one after the other; the second one then publishes with           *)
(* release-plz and reconciles what was published.  Meanwhile main moves,   *)
(* candidates are built again, and others publish and tag.                 *)
(*                                                                         *)
(* Commits are numbered as they come to main.  A package stands for its    *)
(* name and the version the policy file allows; versions never leave the   *)
(* registry.                                                               *)
(***************************************************************************)
EXTENDS Naturals

CONSTANTS
  Packages,       \* the allowlist of release-policy.json
  Needs,          \* the packages each package depends on
  NoPackage,
  RequiredJobs,   \* required_jobs of release-policy.json
  MaxCommit,      \* the number of commits
  MaxAttempt,     \* the number of attempts of a candidate run
  Dispatches      \* what runs are dispatched with

ASSUME ReleaseAssumption ==
  /\ Needs \in [Packages -> SUBSET Packages] /\ NoPackage \notin Packages
  /\ MaxCommit \in Nat \ {0} /\ MaxAttempt \in Nat \ {0}

Commits == 1..MaxCommit
Inputs ==
  [commit : Commits, set : SUBSET Packages, attempt : 1..MaxAttempt,
   mode : {"dry-run", "unconfirmed", "publish"}]

ASSUME DispatchAssumption == Dispatches \subseteq Inputs

Nobody  == [commit |-> 0, by |-> "nobody"]    \* the registry has no such version

VARIABLES
  main,           \* the commit main is at
  ci,             \* the latest attempt of the candidate run of each commit
  registry,       \* where each published package comes from
  tag, released,  \* the commit each package is tagged at, and the GitHub Releases
  input,          \* what the run was dispatched with
  job, at,        \* its job and step
  checkout,       \* the commit the job has checked out
  checked,        \* the packages the gate has looked up
  current,        \* the package release-plz is at
  report,         \* the packages release-plz reports, and its outcome
  proved          \* (history) the commits some attempt has proved

world   == <<main, ci, registry, tag, released, proved>>
run     == <<input, job, at, checkout, checked, current, report>>
vars    == <<world, run>>

NoReport == [packages |-> {}, outcome |-> "none", valid |-> FALSE]

Init ==
  /\ main = 1 /\ checkout = 0
  /\ ci = [c \in Commits |-> [attempt |-> 0, state |-> "none", jobs |-> {}]]
  /\ registry = [p \in Packages |-> Nobody] /\ tag = [p \in Packages |-> 0] /\ released = {}
  /\ input = [commit |-> 1, set |-> {}, attempt |-> 1, mode |-> "dry-run"]
  /\ job = "qualification" /\ at = "idle" /\ checked = {} /\ current = NoPackage
  /\ report = NoReport /\ proved = {}

Pending == {p \in Packages : registry[p] = Nobody}

-----------------------------------------------------------------------------
(* What others do.                                                         *)

PushMain ==
  /\ main < MaxCommit /\ main' = main + 1
  /\ UNCHANGED <<ci, registry, tag, released, proved, run>>

\* A candidate branch is pushed, or its run is started again.
StartCi(c) ==
  /\ ci[c].state # "running" /\ ci[c].attempt < MaxAttempt
  /\ ci' = [ci EXCEPT ![c] = [attempt |-> @.attempt + 1, state |-> "running", jobs |-> {}]]
  /\ UNCHANGED <<main, registry, tag, released, proved, run>>

\* A run may also succeed with jobs that were skipped, or fail for another reason.
EndCi(c) ==
  /\ ci[c].state = "running"
  /\ \E state \in {"success", "failure"}, jobs \in {{}, RequiredJobs} :
       /\ ci' = [ci EXCEPT ![c].state = state, ![c].jobs = jobs]
       /\ proved' = IF state = "success" /\ jobs = RequiredJobs THEN proved \cup {c} ELSE proved
  /\ UNCHANGED <<main, registry, tag, released, run>>

OthersPublish(p) ==
  /\ registry[p] = Nobody
  /\ registry' = [registry EXCEPT ![p] = [commit |-> main, by |-> "others"]]
  /\ UNCHANGED <<main, ci, tag, released, proved, run>>

\* A tag, with a GitHub Release or without.
OthersTag(p) ==
  /\ tag[p] = 0 /\ tag' = [tag EXCEPT ![p] = main]
  /\ released' \in {released, released \cup {p}}
  /\ UNCHANGED <<main, ci, registry, proved, run>>

Others ==
  \/ PushMain
  \/ \E c \in Commits : StartCi(c) \/ EndCi(c)
  \/ \E p \in Packages : OthersPublish(p) \/ OthersTag(p)

-----------------------------------------------------------------------------
(* The gate, which both jobs go through.                                   *)

GoTo(step) == at' = step

\* The concurrency group lets one run go on at a time.
Dispatch(i) ==
  /\ at \in {"idle", "passed", "failed"} /\ GoTo("checkout")
  /\ input' = i /\ job' = "qualification"
  /\ checked' = {} /\ current' = NoPackage /\ report' = NoReport
  /\ UNCHANGED <<world, checkout>>

\* The failed job of a run is started again, with the same inputs.
Rerun ==
  /\ at = "failed" /\ GoTo("checkout")
  /\ checked' = {} /\ current' = NoPackage /\ report' = NoReport
  /\ UNCHANGED <<world, input, job, checkout>>

Checkout ==
  /\ at = "checkout" /\ GoTo("source")
  /\ checkout' = main
  /\ UNCHANGED <<world, input, job, checked, current, report>>

Check(step, ok, next) ==
  /\ at = step /\ GoTo(IF ok THEN next ELSE "failed")
  /\ UNCHANGED <<world, input, job, checkout, checked, current, report>>

VerifySource ==
  Check("source", /\ input.mode # "unconfirmed"
                  /\ input.mode = "publish" => input.set # {}
                  /\ main = input.commit /\ checkout = input.commit, "set")

\* Mutant: approved packages are pending, but others may be as well.
LooksUpSubset(p) == p \in input.set => registry[p] = Nobody

\* The registry has to show exactly the approved packages as pending.
LooksUp(p) == p \in input.set <=> registry[p] = Nobody

ReadRegistry(p) ==
  /\ at = "set" /\ p \notin checked
  /\ checked' = checked \cup {p}
  /\ GoTo(IF ~ LooksUp(p) THEN "failed" ELSE IF checked' = Packages THEN "proof" ELSE "set")
  /\ UNCHANGED <<world, input, job, checkout, current, report>>

\* Mutant: the conclusion of the run is trusted.
VerifyConclusion ==
  Check("proof", LET last == ci[input.commit]
                 IN  last.state = "success" /\ last.attempt = input.attempt, "archives")

\* The candidate run proves this commit and attempt: it has succeeded, with every
\* required job.
VerifyProof ==
  Check("proof", LET last == ci[input.commit]
                 IN  /\ last.state = "success" /\ last.attempt = input.attempt
                     /\ last.jobs = RequiredJobs, "archives")

\* The archives are built from the checkout, and name the commit they come from.
VerifyArchives ==
  Check("archives", checkout = input.commit, IF job = "publish" THEN "release" ELSE "plan")

\* The dry run of release-plz reports nothing, or what is pending by now.
Plan ==
  /\ at = "plan"
  /\ \E actual \in {{}, Pending} :
       IF actual \notin {{}, input.set} THEN GoTo("failed") /\ UNCHANGED <<job, checked>>
       ELSE IF input.mode = "publish"
            THEN GoTo("checkout") /\ job' = "publish" /\ checked' = {}
            ELSE GoTo("passed") /\ UNCHANGED <<job, checked>>
  /\ UNCHANGED <<world, input, checkout, current, report>>

-----------------------------------------------------------------------------
(* release-plz publishes what it finds pending, package by package.        *)

PublishCrate(p) ==
  /\ at = "release" /\ report.outcome = "none" /\ current = NoPackage
  /\ p \in Pending /\ Needs[p] \cap Pending = {}
  /\ registry' = [registry EXCEPT ![p] = [commit |-> checkout, by |-> "pipeline"]]
  /\ current' = p
  /\ UNCHANGED <<main, ci, tag, released, proved, input, job, at, checkout, checked, report>>

TagCrate ==
  /\ at = "release" /\ report.outcome = "none" /\ current # NoPackage /\ tag[current] = 0
  /\ tag' = [tag EXCEPT ![current] = checkout]
  /\ UNCHANGED <<main, ci, registry, released, proved, run>>

MakeRelease ==
  /\ at = "release" /\ report.outcome = "none" /\ current # NoPackage /\ tag[current] # 0
  /\ released' = released \cup {current} /\ current' = NoPackage
  /\ report' = [report EXCEPT !.packages = @ \cup {current}]
  /\ UNCHANGED <<main, ci, registry, tag, proved, input, job, at, checkout, checked>>

\* It stops when nothing is pending, or with an error anywhere, which may cost its output.
EndRelease ==
  /\ at = "release" /\ GoTo("reconcile")
  /\ \/ /\ current = NoPackage /\ Pending = {}
        /\ report' = [report EXCEPT !.outcome = "success", !.valid = TRUE]
     \/ \E valid \in BOOLEAN :
          report' = [report EXCEPT !.outcome = "failure", !.valid = valid,
                                   !.packages = IF valid THEN @ ELSE {}]
  /\ UNCHANGED <<world, input, job, checkout, checked, current>>

\* Mutant: what is there counts, whoever has put it there.
ReconcileObserved ==
  /\ report.valid /\ report.outcome = "success"
  /\ \A p \in input.set :
       registry[p] # Nobody /\ tag[p] = input.commit /\ p \in released

\* What the postcondition requires of the report and of what it reads back.
Reconciled ==
  /\ report.valid /\ report.outcome = "success" /\ report.packages = input.set
  /\ \A p \in input.set :
       registry[p] # Nobody /\ tag[p] = input.commit /\ p \in released

Reconcile == Check("reconcile", Reconciled, "passed")

Release ==
  \/ \E p \in Packages : PublishCrate(p)
  \/ TagCrate \/ MakeRelease \/ EndRelease \/ Reconcile

\* GitHub, the network or a registry fails, or the run is cancelled.
Break == at \notin {"idle", "passed", "failed"} /\ Check(at, FALSE, "failed")

Next ==
  \/ Others
  \/ \E i \in Dispatches : Dispatch(i)
  \/ Rerun \/ Checkout \/ VerifySource \/ VerifyProof \/ VerifyArchives \/ Plan
  \/ \E p \in Packages : ReadRegistry(p)
  \/ Release
  \/ Break

Spec == Init /\ [][Next]_vars

-----------------------------------------------------------------------------
\* What the pipeline publishes is approved, package and commit, in a confirmed run, and
\* that commit was proved by an attempt with every required job.  Nothing that happens
\* between the checks and the publication changes that: not a push to main, not a
\* publication by others, not a job that is started again after half of its work.
PublishesAsApproved ==
  [][\A p \in Packages :
       registry[p] = Nobody /\ registry'[p].by = "pipeline" =>
         /\ input.mode = "publish" /\ p \in input.set
         /\ registry'[p].commit = input.commit /\ input.commit \in proved]_vars

\* A green run has released what was approved: every package comes from this pipeline
\* and the approved commit, is tagged there, and has its GitHub Release, whatever
\* runs before it have left half done.
GreenMeansReleased ==
  at = "passed" /\ input.mode = "publish" =>
    \A p \in input.set :
      /\ registry[p] = [commit |-> input.commit, by |-> "pipeline"]
      /\ tag[p] = input.commit /\ p \in released
=============================================================================
