------------------------ MODULE ReleasePipelineProofs ------------------------
(***************************************************************************)
(* Proofs about ReleasePipeline, for any packages, commits, attempts and   *)
(* inputs: what a run has checked stays true until it has published, and   *)
(* what it reports it has published itself.                                *)
(***************************************************************************)
EXTENDS ReleasePipeline, TLAPS

\* The steps of the gate, in both jobs.
GateSteps == {"checkout", "source", "set", "proof", "archives", "plan"}

Types ==
  /\ main \in Commits /\ checkout \in Commits \cup {0}
  /\ ci \in [Commits -> [attempt : Nat, state : {"none", "running", "success", "failure"},
                         jobs : {{}, RequiredJobs}]]
  /\ registry \in [Packages -> [commit : Commits \cup {0}, by : {"nobody", "others", "pipeline"}]]
  /\ tag \in [Packages -> Commits \cup {0}] /\ released \in SUBSET Packages
  /\ input \in Inputs
  /\ job \in {"qualification", "publish"}
  /\ at \in GateSteps \cup {"idle", "release", "reconcile", "passed", "failed"}
  /\ checked \in SUBSET Packages /\ current \in Packages \cup {NoPackage}
  /\ report \in [packages : SUBSET Packages, outcome : {"none", "success", "failure"}, valid : BOOLEAN]
  /\ proved \in SUBSET Commits

\* A candidate run that has succeeded with every required job has proved its commit.
ProofStands ==
  \A c \in Commits : ci[c].state = "success" /\ ci[c].jobs = RequiredJobs => c \in proved

\* What the gate has established by the step the job is at.  Nobody can undo it: versions
\* never leave the registry, and a proof is not taken back by a later attempt.
GateStands ==
  /\ job = "publish" => input.mode = "publish"
  /\ at \in {"release", "reconcile"} => job = "publish"
  /\ at \in {"set", "proof", "archives", "plan", "release", "reconcile"} => checkout = input.commit
  /\ at \in GateSteps \cup {"release"} =>
       \A p \in checked : registry[p] = Nobody => p \in input.set
  /\ at \in {"proof", "archives", "plan", "release"} => checked = Packages
  /\ at \in {"archives", "plan", "release"} => input.commit \in proved

Ours == [commit |-> input.commit, by |-> "pipeline"]

\* What release-plz reports, or is about to, it has published in this very job.
ReportStands ==
  /\ at \in GateSteps => report.packages = {} /\ current = NoPackage
  /\ at \in {"release", "reconcile"} =>
       /\ \A p \in report.packages : registry[p] = Ours
       /\ current # NoPackage => registry[current] = Ours

IInv == Types /\ ProofStands /\ GateStands /\ ReportStands /\ GreenMeansReleased

LEMMA InitIInv == Init => IInv
<1> SUFFICES ASSUME Init PROVE IInv
  OBVIOUS
<1>1. Types
  BY ReleaseAssumption DEF Init, Types, Commits, Inputs, Nobody, NoReport, GateSteps
<1>2. ProofStands /\ GateStands /\ ReportStands /\ GreenMeansReleased
  BY DEF Init, ProofStands, GateStands, ReportStands, GreenMeansReleased, GateSteps
<1>3. QED
  BY <1>1, <1>2 DEF IInv

-----------------------------------------------------------------------------
(* The world only grows.                                                   *)

\* What is published, tagged, released or proved stays so.
WorldGrows ==
  /\ \A p \in Packages : registry[p] # Nobody => registry'[p] = registry[p]
  /\ \A p \in Packages : tag[p] # 0 => tag'[p] = tag[p]
  /\ released \subseteq released' /\ proved \subseteq proved'

\* While others work, nothing that a run relies on is lost.
LEMMA GrowthKeepsIInv ==
  ASSUME IInv, WorldGrows, UNCHANGED run, Types', ProofStands'
  PROVE  IInv'
<1>1. /\ input' = input /\ job' = job /\ at' = at /\ checkout' = checkout /\ checked' = checked
      /\ current' = current /\ report' = report
  BY DEF run
<1>2. \A p \in Packages : registry[p] = Ours => registry'[p] = Ours
  BY DEF WorldGrows, Ours, Nobody
<1>3. GateStands'
  BY <1>1 DEF IInv, Types, GateStands, WorldGrows, GateSteps
<1>4. ReportStands'
  <2>1. Ours' = Ours
    BY <1>1 DEF Ours
  <2>2. report.packages \in SUBSET Packages /\ current \in Packages \cup {NoPackage}
    BY DEF IInv, Types
  <2>3. QED
    BY <1>1, <1>2, <2>1, <2>2 DEF IInv, ReportStands
<1>5. GreenMeansReleased'
  <2>1. SUFFICES ASSUME at = "passed", input.mode = "publish", NEW p \in input.set
                 PROVE  registry'[p] = Ours /\ tag'[p] = input.commit /\ p \in released'
    BY <1>1 DEF GreenMeansReleased, Ours
  <2>2. registry[p] = Ours /\ tag[p] = input.commit /\ p \in released /\ p \in Packages
    BY <2>1 DEF IInv, GreenMeansReleased, Types, Inputs, Ours
  <2>3. input.commit # 0
    BY DEF IInv, Types, Inputs, Commits
  <2>4. QED
    BY <1>2, <2>2, <2>3 DEF WorldGrows
<1>6. QED
  BY <1>3, <1>4, <1>5 DEF IInv

LEMMA OthersKeepIInv ==
  ASSUME IInv, Others
  PROVE  IInv'
<1>1. UNCHANGED run
  BY DEF Others, PushMain, StartCi, EndCi, OthersPublish, OthersTag
<1>2. UNCHANGED <<input, job, at, checkout, checked, current, report>>
  BY <1>1 DEF run
<1>3. CASE PushMain
  <2>1. main' \in Commits /\ UNCHANGED <<ci, registry, tag, released, proved>>
    BY <1>3, ReleaseAssumption DEF PushMain, IInv, Types, Commits
  <2>2. Types' /\ ProofStands' /\ WorldGrows
    BY <1>2, <2>1 DEF IInv, Types, ProofStands, WorldGrows
  <2>3. QED
    BY <1>1, <2>2, GrowthKeepsIInv
<1>4. ASSUME NEW c \in Commits, StartCi(c) PROVE IInv'
  <2>1. /\ UNCHANGED <<main, registry, tag, released, proved>>
        /\ ci' = [ci EXCEPT ![c] = [attempt |-> ci[c].attempt + 1, state |-> "running", jobs |-> {}]]
    BY <1>4 DEF StartCi
  <2>2. [attempt |-> ci[c].attempt + 1, state |-> "running", jobs |-> {}]
          \in [attempt : Nat, state : {"none", "running", "success", "failure"}, jobs : {{}, RequiredJobs}]
    BY DEF IInv, Types
  <2>3. Types'
    BY <1>2, <2>1, <2>2 DEF IInv, Types
  <2>4. ProofStands' /\ WorldGrows
    BY <2>1 DEF IInv, Types, ProofStands, WorldGrows
  <2>5. QED
    BY <1>1, <2>3, <2>4, GrowthKeepsIInv
<1>5. ASSUME NEW c \in Commits, EndCi(c) PROVE IInv'
  <2>1. PICK state \in {"success", "failure"}, jobs \in {{}, RequiredJobs} :
          /\ ci' = [ci EXCEPT ![c].state = state, ![c].jobs = jobs]
          /\ proved' = IF state = "success" /\ jobs = RequiredJobs THEN proved \cup {c} ELSE proved
    BY <1>5 DEF EndCi
  <2>2. UNCHANGED <<main, registry, tag, released>>
    BY <1>5 DEF EndCi
  <2>3. /\ ci' \in [Commits -> [attempt : Nat, state : {"none", "running", "success", "failure"},
                                jobs : {{}, RequiredJobs}]]
        /\ ci'[c].state = state /\ ci'[c].jobs = jobs
        /\ \A d \in Commits : d # c => ci'[d] = ci[d]
    BY <2>1 DEF IInv, Types
  <2>4. proved' \in SUBSET Commits /\ proved \subseteq proved'
    BY <2>1 DEF IInv, Types
  <2>5. Types'
    BY <1>2, <2>2, <2>3, <2>4 DEF IInv, Types
  <2>6. ProofStands'
    BY <2>1, <2>3, <2>4 DEF IInv, ProofStands
  <2>7. WorldGrows
    BY <2>2, <2>4 DEF WorldGrows
  <2>8. QED
    BY <1>1, <2>5, <2>6, <2>7, GrowthKeepsIInv
<1>6. ASSUME NEW p \in Packages, OthersPublish(p) PROVE IInv'
  <2>1. /\ UNCHANGED <<main, ci, tag, released, proved>> /\ registry[p] = Nobody
        /\ registry' = [registry EXCEPT ![p] = [commit |-> main, by |-> "others"]]
    BY <1>6 DEF OthersPublish
  <2>2. Types' /\ ProofStands' /\ WorldGrows
    BY <1>2, <2>1 DEF IInv, Types, ProofStands, WorldGrows
  <2>3. QED
    BY <1>1, <2>2, GrowthKeepsIInv
<1>7. ASSUME NEW p \in Packages, OthersTag(p) PROVE IInv'
  <2>1. /\ UNCHANGED <<main, ci, registry, proved>> /\ tag[p] = 0
        /\ tag' = [tag EXCEPT ![p] = main] /\ released' \in {released, released \cup {p}}
    BY <1>7 DEF OthersTag
  <2>2. Types' /\ ProofStands' /\ WorldGrows
    BY <1>2, <2>1 DEF IInv, Types, ProofStands, WorldGrows
  <2>3. QED
    BY <1>1, <2>2, GrowthKeepsIInv
<1>8. QED
  BY <1>3, <1>4, <1>5, <1>6, <1>7 DEF Others

-----------------------------------------------------------------------------
(* The gate.                                                               *)

\* A run begins, or its failed job begins again, with nothing checked and nothing reported.
LEMMA BeginningsKeepIInv ==
  ASSUME IInv, Rerun \/ \E i \in Dispatches : Dispatch(i)
  PROVE  IInv'
<1>1. /\ at' = "checkout" /\ checked' = {} /\ current' = NoPackage /\ report' = NoReport
      /\ UNCHANGED <<world, checkout>>
      /\ \/ input' = input /\ job' = job
         \/ input' \in Dispatches /\ job' = "qualification"
  BY DEF Rerun, Dispatch, GoTo
<1>2. Types'
  BY <1>1, DispatchAssumption DEF IInv, Types, world, NoReport, GateSteps
<1>3. ProofStands'
  BY <1>1 DEF IInv, ProofStands, world
<1>4. GateStands'
  BY <1>1 DEF IInv, GateStands
<1>5. ReportStands' /\ GreenMeansReleased'
  BY <1>1 DEF ReportStands, GreenMeansReleased, NoReport
<1>6. QED
  BY <1>2, <1>3, <1>4, <1>5 DEF IInv

\* A failure leaves nothing to stand.
LEMMA FailureKeepsIInv ==
  ASSUME IInv, at' = "failed", UNCHANGED <<world, input, job, checkout, current, report>>,
         checked' \in SUBSET Packages
  PROVE  IInv'
<1>1. Types' /\ ProofStands'
  BY DEF IInv, Types, ProofStands, world
<1>2. GateStands' /\ ReportStands' /\ GreenMeansReleased'
  BY DEF IInv, GateStands, ReportStands, GreenMeansReleased, GateSteps
<1>3. QED
  BY <1>1, <1>2 DEF IInv

\* A step of the gate that is passed.
LEMMA GateKeepsIInv ==
  ASSUME IInv, UNCHANGED <<world, input, current, report>>, at \in GateSteps,
         at' \in GateSteps \cup {"release"}, checkout' \in Commits, checked' \in SUBSET Packages,
         job' \in {"qualification", "publish"}, GateStands'
  PROVE  IInv'
<1>1. Types' /\ ProofStands'
  BY DEF IInv, Types, ProofStands, world
<1>2. report.packages = {} /\ current = NoPackage
  BY DEF IInv, ReportStands
<1>3. ReportStands' /\ GreenMeansReleased'
  BY <1>2 DEF ReportStands, GreenMeansReleased, GateSteps
<1>4. QED
  BY <1>1, <1>3 DEF IInv

LEMMA GateStepsKeepIInv ==
  ASSUME IInv, \/ Checkout \/ VerifySource \/ VerifyProof \/ VerifyArchives \/ Plan
               \/ \E p \in Packages : ReadRegistry(p)
  PROVE  IInv'
<1>0. /\ checked \in SUBSET Packages /\ input.commit \in Commits /\ main \in Commits
      /\ job \in {"qualification", "publish"}
  BY DEF IInv, Types, Inputs
<1>1. CASE Checkout
  <2>1. /\ at = "checkout" /\ at' = "source" /\ checkout' = main
        /\ UNCHANGED <<world, input, job, checked, current, report>>
    BY <1>1 DEF Checkout, GoTo
  <2>2. GateStands'
    BY <2>1 DEF IInv, GateStands, world, GateSteps
  <2>3. QED
    BY <1>0, <2>1, <2>2, GateKeepsIInv DEF GateSteps
<1>2. CASE VerifySource
  <2>1. /\ at = "source" /\ UNCHANGED <<world, input, job, checkout, checked, current, report>>
        /\ at' = "failed" \/ (at' = "set" /\ checkout = input.commit)
    BY <1>2 DEF VerifySource, Check, GoTo
  <2>2. CASE at' = "failed"
    BY <1>0, <2>1, <2>2, FailureKeepsIInv
  <2>3. CASE at' = "set" /\ checkout = input.commit
    <3>1. GateStands'
      BY <2>1, <2>3 DEF IInv, GateStands, world, GateSteps
    <3>2. QED
      BY <1>0, <2>1, <2>3, <3>1, GateKeepsIInv DEF GateSteps
  <2>4. QED
    BY <2>1, <2>2, <2>3
<1>3. ASSUME NEW p \in Packages, ReadRegistry(p) PROVE IInv'
  <2>1. /\ at = "set" /\ checked' = checked \cup {p}
        /\ UNCHANGED <<world, input, job, checkout, current, report>>
        /\ \/ at' = "failed"
           \/ at' = "set" /\ LooksUp(p)
           \/ at' = "proof" /\ checked' = Packages /\ LooksUp(p)
    BY <1>3 DEF ReadRegistry, GoTo
  <2>2. checked' \in SUBSET Packages
    BY <1>0, <2>1
  <2>3. CASE at' = "failed"
    BY <2>1, <2>2, <2>3, FailureKeepsIInv
  <2>4. CASE at' \in {"set", "proof"}
    <3>1. registry[p] = Nobody => p \in input.set
      BY <2>1, <2>4 DEF LooksUp
    <3>2. checkout = input.commit /\ \A q \in checked : registry[q] = Nobody => q \in input.set
      BY <2>1 DEF IInv, GateStands, GateSteps
    <3>3. GateStands'
      BY <2>1, <2>4, <3>1, <3>2 DEF IInv, GateStands, world
    <3>4. checkout' \in Commits
      BY <1>0, <2>1, <3>2
    <3>5. QED
      BY <1>0, <2>1, <2>2, <2>4, <3>3, <3>4, GateKeepsIInv DEF GateSteps
  <2>5. QED
    BY <2>1, <2>3, <2>4
<1>4. CASE VerifyProof
  <2>1. /\ at = "proof" /\ UNCHANGED <<world, input, job, checkout, checked, current, report>>
        /\ \/ at' = "failed"
           \/ at' = "archives" /\ ci[input.commit].state = "success"
              /\ ci[input.commit].jobs = RequiredJobs
    BY <1>4 DEF VerifyProof, Check, GoTo
  <2>2. CASE at' = "failed"
    BY <1>0, <2>1, <2>2, FailureKeepsIInv
  <2>3. CASE at' = "archives"
    <3>1. input.commit \in proved
      BY <1>0, <2>1, <2>3 DEF IInv, ProofStands
    <3>2. GateStands'
      BY <2>1, <2>3, <3>1 DEF IInv, GateStands, world, GateSteps
    <3>3. checkout' \in Commits
      BY <1>0, <2>1 DEF IInv, GateStands
    <3>4. QED
      BY <1>0, <2>1, <2>3, <3>2, <3>3, GateKeepsIInv DEF GateSteps
  <2>4. QED
    BY <2>1, <2>2, <2>3
<1>5. CASE VerifyArchives
  <2>1. /\ at = "archives" /\ UNCHANGED <<world, input, job, checkout, checked, current, report>>
        /\ \/ at' = "failed"
           \/ at' = "release" /\ job = "publish"
           \/ at' = "plan"
    BY <1>5 DEF VerifyArchives, Check, GoTo
  <2>2. CASE at' = "failed"
    BY <1>0, <2>1, <2>2, FailureKeepsIInv
  <2>3. CASE at' # "failed"
    <3>1. GateStands'
      BY <2>1, <2>3 DEF IInv, GateStands, world, GateSteps
    <3>2. checkout' \in Commits
      BY <1>0, <2>1 DEF IInv, GateStands
    <3>3. QED
      BY <1>0, <2>1, <2>3, <3>1, <3>2, GateKeepsIInv DEF GateSteps
  <2>4. QED
    BY <2>2, <2>3
<1>6. CASE Plan
  <2>1. /\ at = "plan" /\ UNCHANGED <<world, input, checkout, current, report>>
        /\ \/ at' = "failed" /\ UNCHANGED <<job, checked>>
           \/ input.mode = "publish" /\ at' = "checkout" /\ job' = "publish" /\ checked' = {}
           \/ input.mode # "publish" /\ at' = "passed" /\ UNCHANGED <<job, checked>>
    BY <1>6 DEF Plan, GoTo
  <2>2. CASE at' = "failed" /\ UNCHANGED <<job, checked>>
    BY <1>0, <2>1, <2>2, FailureKeepsIInv
  <2>3. CASE input.mode = "publish" /\ at' = "checkout" /\ job' = "publish" /\ checked' = {}
    <3>1. GateStands'
      BY <2>1, <2>3 DEF GateStands
    <3>2. checkout' \in Commits
      BY <1>0, <2>1 DEF IInv, GateStands
    <3>3. QED
      BY <2>1, <2>3, <3>1, <3>2, GateKeepsIInv DEF GateSteps
  <2>4. CASE input.mode # "publish" /\ at' = "passed" /\ UNCHANGED <<job, checked>>
    <3>1. Types' /\ ProofStands'
      BY <2>1, <2>4 DEF IInv, Types, ProofStands, world
    <3>2. GateStands' /\ ReportStands' /\ GreenMeansReleased'
      BY <2>1, <2>4 DEF IInv, GateStands, ReportStands, GreenMeansReleased, GateSteps
    <3>3. QED
      BY <3>1, <3>2 DEF IInv
  <2>5. QED
    BY <2>1, <2>2, <2>3, <2>4
<1>7. QED
  BY <1>1, <1>2, <1>3, <1>4, <1>5, <1>6

-----------------------------------------------------------------------------
(* The publication.                                                        *)

\* What is established when release-plz runs.
LEMMA Releasing ==
  ASSUME IInv, at = "release"
  PROVE  /\ job = "publish" /\ input.mode = "publish"
         /\ checkout = input.commit /\ input.commit \in Commits /\ input.commit \in proved
         /\ Pending \subseteq input.set
<1>1. /\ job = "publish" /\ input.mode = "publish" /\ checkout = input.commit /\ checked = Packages
      /\ input.commit \in proved /\ \A p \in checked : registry[p] = Nobody => p \in input.set
  BY DEF IInv, GateStands
<1>2. QED
  BY <1>1 DEF IInv, Types, Inputs, Pending

\* A step of the publication: it may only add to what there is.
LEMMA ReleaseKeepsIInv ==
  ASSUME IInv, at = "release", at' \in {"release", "reconcile"},
         UNCHANGED <<main, ci, proved, input, job, checkout, checked>>,
         Types', WorldGrows, ReportStands'
  PROVE  IInv'
<1>1. ProofStands'
  BY DEF IInv, ProofStands
<1>2. GateStands'
  BY DEF IInv, Types, GateStands, WorldGrows, GateSteps
<1>3. GreenMeansReleased'
  BY DEF GreenMeansReleased
<1>4. QED
  BY <1>1, <1>2, <1>3 DEF IInv

LEMMA ReleaseStepsKeepIInv ==
  ASSUME IInv, Release
  PROVE  IInv'
<1>1. ASSUME NEW p \in Packages, PublishCrate(p) PROVE IInv'
  <2>1. /\ at = "release" /\ registry[p] = Nobody /\ current' = p
        /\ registry' = [registry EXCEPT ![p] = [commit |-> checkout, by |-> "pipeline"]]
        /\ UNCHANGED <<main, ci, tag, released, proved, input, job, at, checkout, checked, report>>
    BY <1>1 DEF PublishCrate, Pending
  <2>2. checkout = input.commit /\ input.commit \in Commits
    BY <2>1, Releasing
  <2>3. registry' = [registry EXCEPT ![p] = Ours] /\ Ours' = Ours
    BY <2>1, <2>2 DEF Ours
  <2>4. Types'
    BY <2>1, <2>2 DEF IInv, Types
  <2>5. WorldGrows
    BY <2>1 DEF IInv, Types, WorldGrows
  <2>6. ReportStands'
    <3>1. \A q \in report.packages : registry[q] = Ours
      BY <2>1 DEF IInv, ReportStands
    <3>2. \A q \in report.packages : registry'[q] = Ours
      BY <2>3, <3>1 DEF IInv, Types
    <3>3. registry'[p] = Ours
      BY <2>3 DEF IInv, Types
    <3>4. QED
      BY <2>1, <2>3, <3>2, <3>3 DEF ReportStands, GateSteps
  <2>7. QED
    BY <2>1, <2>4, <2>5, <2>6, ReleaseKeepsIInv
<1>2. CASE TagCrate
  <2>1. /\ at = "release" /\ current # NoPackage /\ tag[current] = 0
        /\ tag' = [tag EXCEPT ![current] = checkout]
        /\ UNCHANGED <<main, ci, registry, released, proved, run>>
    BY <1>2 DEF TagCrate
  <2>2. UNCHANGED <<input, job, at, checkout, checked, current, report>>
    BY <2>1 DEF run
  <2>3. Types' /\ WorldGrows
    BY <2>1, <2>2 DEF IInv, Types, WorldGrows
  <2>4. ReportStands'
    BY <2>1, <2>2 DEF IInv, ReportStands, Ours, GateSteps
  <2>5. QED
    BY <2>1, <2>2, <2>3, <2>4, ReleaseKeepsIInv
<1>3. CASE MakeRelease
  <2>1. /\ at = "release" /\ current # NoPackage /\ current \in Packages
        /\ released' = released \cup {current} /\ current' = NoPackage
        /\ report' = [report EXCEPT !.packages = report.packages \cup {current}]
        /\ UNCHANGED <<main, ci, registry, tag, proved, input, job, at, checkout, checked>>
    BY <1>3 DEF MakeRelease, IInv, Types
  <2>2. report'.packages = report.packages \cup {current}
    BY <2>1 DEF IInv, Types
  <2>3. Types' /\ WorldGrows
    BY <2>1 DEF IInv, Types, WorldGrows
  <2>4. ReportStands'
    BY <2>1, <2>2 DEF IInv, ReportStands, Ours, GateSteps
  <2>5. QED
    BY <2>1, <2>3, <2>4, ReleaseKeepsIInv
<1>4. CASE EndRelease
  <2>1. /\ at = "release" /\ at' = "reconcile" /\ UNCHANGED <<world, input, job, checkout, checked, current>>
        /\ \E o \in {"success", "failure"}, v \in BOOLEAN, ps \in {report.packages, {}} :
             report' = [report EXCEPT !.outcome = o, !.valid = v, !.packages = ps]
    <3>2. CASE report' = [report EXCEPT !.outcome = "success", !.valid = TRUE]
      <4>1. report' = [report EXCEPT !.outcome = "success", !.valid = TRUE, !.packages = report.packages]
        BY <3>2 DEF IInv, Types
      <4>2. QED
        BY <1>4, <4>1 DEF EndRelease, GoTo
    <3>3. CASE \E valid \in BOOLEAN :
                 report' = [report EXCEPT !.outcome = "failure", !.valid = valid,
                                          !.packages = IF valid THEN @ ELSE {}]
      <4>1. PICK valid \in BOOLEAN :
              report' = [report EXCEPT !.outcome = "failure", !.valid = valid,
                                       !.packages = IF valid THEN @ ELSE {}]
        BY <3>3
      <4>2. QED
        BY <1>4, <4>1 DEF EndRelease, GoTo
    <3>4. QED
      BY <1>4, <3>2, <3>3 DEF EndRelease
  <2>2. report' \in [packages : SUBSET Packages, outcome : {"none", "success", "failure"}, valid : BOOLEAN]
        /\ report'.packages \subseteq report.packages
    <3>1. report \in [packages : SUBSET Packages, outcome : {"none", "success", "failure"}, valid : BOOLEAN]
      BY DEF IInv, Types
    <3>2. PICK o \in {"success", "failure"}, v \in BOOLEAN, ps \in {report.packages, {}} :
            report' = [report EXCEPT !.outcome = o, !.valid = v, !.packages = ps]
      BY <2>1
    <3>3. report' = [packages |-> ps, outcome |-> o, valid |-> v]
      BY <3>1, <3>2
    <3>4. ps \subseteq report.packages /\ report.packages \in SUBSET Packages
      BY <3>1
    <3>5. QED
      BY <3>3, <3>4
  <2>3. Types' /\ WorldGrows
    BY <2>1, <2>2 DEF IInv, Types, WorldGrows, world
  <2>4. ReportStands'
    BY <2>1, <2>2 DEF IInv, ReportStands, Ours, GateSteps, world
  <2>5. UNCHANGED <<main, ci, proved>>
    BY <2>1 DEF world
  <2>6. QED
    BY <2>1, <2>3, <2>4, <2>5, ReleaseKeepsIInv
<1>5. CASE Reconcile
  <2>1. /\ at = "reconcile" /\ UNCHANGED <<world, input, job, checkout, checked, current, report>>
        /\ at' = "failed" \/ (at' = "passed" /\ Reconciled)
    BY <1>5 DEF Reconcile, Check, GoTo
  <2>2. CASE at' = "failed"
    BY <2>1, <2>2, FailureKeepsIInv DEF IInv, Types
  <2>3. CASE at' = "passed" /\ Reconciled
    <3>1. Types' /\ ProofStands'
      BY <2>1, <2>3 DEF IInv, Types, ProofStands, world
    <3>2. GateStands' /\ ReportStands'
      BY <2>1, <2>3 DEF IInv, GateStands, ReportStands, GateSteps
    <3>3. GreenMeansReleased'
      BY <2>1, <2>3 DEF IInv, ReportStands, Reconciled, Ours, GreenMeansReleased, world
    <3>4. QED
      BY <3>1, <3>2, <3>3 DEF IInv
  <2>4. QED
    BY <2>1, <2>2, <2>3
<1>6. QED
  BY <1>1, <1>2, <1>3, <1>4, <1>5 DEF Release

-----------------------------------------------------------------------------
(* The invariant of every run, and what follows from it.                   *)

LEMMA NextIInv == IInv /\ [Next]_vars => IInv'
<1> SUFFICES ASSUME IInv, [Next]_vars PROVE IInv'
  OBVIOUS
<1>1. CASE Break
  BY <1>1, FailureKeepsIInv DEF Break, Check, GoTo, IInv, Types
<1>2. CASE UNCHANGED vars
  BY <1>2 DEF IInv, Types, ProofStands, GateStands, ReportStands, Ours, GreenMeansReleased,
              vars, world, run
<1>3. QED
  BY <1>1, <1>2, OthersKeepIInv, BeginningsKeepIInv, GateStepsKeepIInv, ReleaseStepsKeepIInv DEF Next

LEMMA SpecIInv == Spec => []IInv
BY InitIInv, NextIInv, PTL DEF Spec

\* A green run has released exactly what was approved, from the approved commit, whatever
\* others published, tagged or pushed meanwhile and whatever runs before it left half done
\* (.github/scripts/release-postconditions.sh).
THEOREM ReleaseGreenMeansReleased == Spec => []GreenMeansReleased
<1>1. IInv => GreenMeansReleased
  BY DEF IInv
<1>2. QED
  BY <1>1, SpecIInv, PTL

\* Only a run publishes in its own name.
LEMMA OnlyReleasePublishes ==
  ASSUME Next, NEW p \in Packages, IInv, registry[p] = Nobody, registry'[p].by = "pipeline"
  PROVE  at = "release" /\ p \in Pending /\ registry'[p].commit = checkout
<1>1. registry' # registry
  BY DEF Nobody
<1>2. CASE Others
  <2>1. PICK q \in Packages : registry' = [registry EXCEPT ![q] = [commit |-> main, by |-> "others"]]
    BY <1>1, <1>2 DEF Others, PushMain, StartCi, EndCi, OthersPublish, OthersTag
  <2>2. registry'[p] \in {registry[p], [commit |-> main, by |-> "others"]}
    BY <2>1 DEF IInv, Types
  <2>3. QED
    BY <2>2 DEF Nobody
<1>3. CASE Release
  <2>1. PICK q \in Packages : PublishCrate(q)
    BY <1>1, <1>3 DEF Release, TagCrate, MakeRelease, EndRelease, Reconcile, Check, world
  <2>2. registry' = [registry EXCEPT ![q] = [commit |-> checkout, by |-> "pipeline"]] /\ at = "release"
    BY <2>1 DEF PublishCrate
  <2>3. q = p
    BY <2>2 DEF IInv, Types, Nobody
  <2>4. QED
    BY <2>2, <2>3 DEF IInv, Types, Pending
<1>4. QED
  BY <1>1, <1>2, <1>3 DEF Next, Dispatch, Rerun, Checkout, VerifySource, VerifyProof, VerifyArchives,
                          Plan, ReadRegistry, Break, Check, world

\* What the pipeline publishes is approved, package and commit, in a confirmed run, and its
\* commit was proved with every required job (release-plz.yml: the publish job repeats the
\* checks of the qualification, release-plz publishes whatever it finds pending).
THEOREM ReleasePublishesAsApproved == Spec => PublishesAsApproved
<1> DEFINE Approved(p) ==
             registry[p] = Nobody /\ registry'[p].by = "pipeline" =>
               /\ input.mode = "publish" /\ p \in input.set
               /\ registry'[p].commit = input.commit /\ input.commit \in proved
<1>1. IInv /\ [Next]_vars => [\A p \in Packages : Approved(p)]_vars
  <2> SUFFICES ASSUME IInv, Next, NEW p \in Packages,
                      registry[p] = Nobody, registry'[p].by = "pipeline"
               PROVE  /\ input.mode = "publish" /\ p \in input.set
                      /\ registry'[p].commit = input.commit /\ input.commit \in proved
    OBVIOUS
  <2>1. at = "release" /\ p \in Pending /\ registry'[p].commit = checkout
    BY OnlyReleasePublishes
  <2>2. QED
    BY <2>1, Releasing
<1>2. QED
  BY <1>1, SpecIInv, PTL DEF Spec, PublishesAsApproved
=============================================================================
