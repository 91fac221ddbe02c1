------------------------------ MODULE FormalRun ------------------------------
(***************************************************************************)
(* One formal job (src/ephy_worker/formal_runtime.py): preflight on a      *)
(* fresh worktree, a planner, implementation attempts each judged by the   *)
(* frozen checks, the freeze of patch and bundle, the audit, and the       *)
(* verification of the proposal before it is integrated.  The job runs on  *)
(* a model server of its own, on one that is running already               *)
(* (existing_llama_runtime.py) or on Strata (strata_runtime.py), where the *)
(* review is left to somebody outside.                                     *)
(*                                                                         *)
(* A step ends where the runner looks at files, processes or the router    *)
(* again.  Between two steps somebody else can change what it looked at    *)
(* (Touch), its process can die (Crash), and any look can end the run      *)
(* instead (Refused): a gate that does not hold, the deadline, a           *)
(* cancellation, a resource limit, a command that fails.                   *)
(*                                                                         *)
(* A content stands for the whole worktree, told apart only by how the     *)
(* checks judge it.  The hashes of files are the contents themselves.      *)
(***************************************************************************)
EXTENDS Naturals, FiniteSets

CONSTANTS
    Contents, Base,     \* contents of the worktree, and the one at baseRevision
    Passing,            \* all checks pass
    Repairable,         \* only "target" or "fixed" fail, with exit code 1
    InScope,            \* differ from Base in allowed_files only
    Contracts,          \* those a job may be submitted with
    Touchable,          \* what somebody else may change
    MaxTouched,         \* bound: how many of them, each once
    MaxStarts,          \* bound: processes that run this job
    None

Models == {"lead", "worker", "served"}
\* The files of a bundle, and the content the audit input binds it to.
Bundles == [content : Contents, bound : Contents]

ASSUME FormalRunAssumption ==
    /\ Base \in Contents /\ Passing \subseteq Contents /\ InScope \subseteq Contents
    /\ Repairable \subseteq Contents \ Passing
    /\ Contracts \subseteq [plannerOnly : BOOLEAN, repairs : Nat,
                            backend : {"owned", "strata", "llama"}]
    /\ Touchable \subseteq {"pins", "verifier", "candidate", "index", "patch", "bundle"}
    /\ MaxTouched \in Nat /\ MaxStarts \in Nat
    /\ None \notin Contents \cup Bundles \cup Models

VARIABLES
    contract,
    job,            \* status and outcome in job.json
    pc,             \* where the runner stands, "off" without a process
    server, router, \* the model router, and what each model is there
    at,             \* in a stage: "enter", "unload", "load" or "run"
    loaded, stable, \* loaded_model, and the looks in a row that found none loaded
    candidate,      \* the worktree, None before it is added
    index,          \* the isolated index of the diff check
    before,         \* snapshot taken before a stage or a check
    verdict,        \* what the check commands said: passed, or the failure
    attempt, tried, \* attempts made and their snapshots
    patch, bundle,  \* what is frozen on disk
    audit,          \* the auditor's result
    ran,            \* history: managed stages begun per role, over all processes
    touched,        \* history: what somebody else has changed
    verified,       \* what a verification of the proposal returned
    verifying,      \* the content whose bundle a verification has just inspected
    starts,
    retained        \* retained-candidate-snapshot.json exists

process == <<pc, at, loaded, stable, before, verdict, attempt, tried>>
service == <<server, router>>
tree == <<candidate, index>>
judging == <<before, verdict, attempt, tried>>
frozen == <<patch, bundle, audit>>
gate == <<verified, verifying>>
vars == <<contract, job, process, service, tree, frozen, ran, touched, gate, starts, retained>>

-----------------------------------------------------------------------------
Roles == {"planner", "implementer", "auditor"}
Closed == {"review_ready", "external_review_pending", "verification_failed",
           "planner_stopped", "failed"}
Statuses == Closed \cup {"queued", "preparing", "running", "verifying", "audit_pending"}
Outcomes == {None, "planned_only", "no_hypothesis", "candidate_failed", "not_implemented",
             "external_review_pending", "accepted_proposal", "audit_rejected",
             "infrastructure_failed"}

\* An external service is observed and never driven; every role pins its one model.
Owned == contract.backend = "owned"
RoleModel(role) ==
    IF ~Owned THEN "served" ELSE IF role = "implementer" THEN "worker" ELSE "lead"

\* validate_contract, as far as it limits what the stages may do.
ValidContract ==
    /\ contract.repairs \in 0 .. 2
    /\ contract.plannerOnly => contract.repairs = 0
\* The profile StrataRunner asks for.
ValidBackend == contract.backend = "strata" => contract.repairs = 0

\* intact: contract, identities, controls, runtime and checker are as they were pinned.
Intact == "pins" \notin touched
\* verifier_identity: the interpreter, dependencies and programs of the checks are too.
SameVerifier == "verifier" \notin touched

Running == pc # "off"
Step(s) == pc' = s /\ at' = "enter"
Goto(s) == Step(s) /\ UNCHANGED <<loaded, stable, before, verdict, attempt, tried>>
State(status) == job' = [job EXCEPT !.status = status]
Concluded(status, outcome) == job' = [status |-> status, outcome |-> outcome]

Init ==
    /\ contract \in Contracts
    /\ job = [status |-> "queued", outcome |-> None]
    /\ pc = "off" /\ at = "enter" /\ loaded = None /\ stable = 0
    /\ before = None /\ verdict = None /\ attempt = 0 /\ tried = {}
    /\ server \in {"none", "foreign"} /\ router = [m \in Models |-> "unloaded"]
    /\ candidate = None /\ index = None
    /\ patch = None /\ bundle = None /\ audit = None
    /\ ran = [r \in Roles |-> 0]
    /\ touched = {} /\ verified = None /\ verifying = None
    /\ starts = 0 /\ retained = FALSE

-----------------------------------------------------------------------------
\* The process.

\* exclusive_lock: one runner at a time; a crash releases it.
LockFree == pc = "off"

\* main and the head of run: the job may be at any status, also one it ended with.
Start ==
    /\ LockFree /\ starts < MaxStarts
    /\ starts' = starts + 1
    /\ State("preparing")
    /\ pc' = "preflight" /\ at' = "enter" /\ loaded' = None /\ stable' = 0
    /\ before' = None /\ verdict' = None /\ attempt' = 0 /\ tried' = {}
    /\ UNCHANGED <<contract, service, tree, frozen, ran, touched, gate, retained>>

\* A gate of the current step does not hold, a limit is reached, or a command fails.
Refused ==
    /\ pc \notin {"off", "close"}
    /\ Goto("close")
    /\ Concluded("failed", "infrastructure_failed")
    /\ UNCHANGED <<contract, service, tree, frozen, ran, touched, gate, starts, retained>>

StopServer == server' = IF server = "owned" THEN "none" ELSE server
StopRouter == router' = IF server = "owned" THEN [m \in Models |-> "unloaded"] ELSE router

\* finally: the candidate is kept as evidence, once, and an owned server is stopped.
Close ==
    /\ pc = "close"
    /\ Goto("off")
    /\ StopServer /\ StopRouter
    /\ \/ candidate = None /\ UNCHANGED <<job, retained>>
       \/ candidate # None /\ ~retained /\ retained' = TRUE /\ UNCHANGED job
       \/ candidate # None /\ State("failed") /\ UNCHANGED retained
    /\ UNCHANGED <<contract, tree, frozen, ran, touched, gate, starts>>

\* The process is killed: the server it started goes on without it.
Crash ==
    /\ Running
    /\ Goto("off")
    /\ server' = IF server = "owned" THEN "foreign" ELSE server
    /\ UNCHANGED <<contract, job, router, tree, frozen, ran, touched, gate, starts, retained>>

\* preflight up to the worktree.
\* The candidate path must not exist: a job that got this far is never begun again.
CandidateReusable == TRUE
CandidateFree == candidate = None
Preflight ==
    /\ pc = "preflight"
    /\ ValidContract /\ ValidBackend /\ Intact /\ CandidateFree
    /\ candidate' = Base
    /\ Goto("baseline")
    /\ UNCHANGED <<contract, job, service, index, frozen, ran, touched, gate, starts, retained>>

\* Its second half: the checks fail on the base as the contract says they do.
Baseline ==
    /\ pc = "baseline"
    /\ SameVerifier /\ Intact /\ candidate = Base
    /\ State("running")
    /\ Step("planner") /\ before' = candidate
    /\ UNCHANGED <<contract, loaded, stable, verdict, attempt, tried, service, tree, frozen, ran,
                   touched, gate, starts, retained>>

-----------------------------------------------------------------------------
\* load_model: one model in memory at a time.

Model == RoleModel(pc)
Allowed(role) == contract.plannerOnly => role = "planner"

\* start_server, when no other model server or agent runs.
StartServer ==
    /\ pc \in Roles /\ Allowed(pc) /\ Owned /\ server = "none"
    /\ server' = "owned"
    /\ UNCHANGED <<contract, job, process, router, tree, frozen, ran, touched, gate, starts, retained>>

\* stage and the head of load_model: a service that is not owned only has to be the pinned one.
Unload ==
    /\ pc \in Roles /\ at = "enter" /\ Allowed(pc) /\ Intact
    /\ Owned => server = "owned"
    /\ IF loaded = Model \/ ~Owned
       THEN at' = "run" /\ loaded' = Model /\ UNCHANGED router
       ELSE /\ at' = "unload" /\ UNCHANGED loaded
            /\ router' = IF loaded = None THEN router ELSE [router EXCEPT ![loaded] = "unloading"]
    /\ UNCHANGED <<contract, job, pc, stable, judging, server, tree, frozen, ran, touched, gate, starts,
                   retained>>

LooksHasty == 0
Looks == 3
\* A look at the router every two seconds, until three in a row find nothing loaded.
Await ==
    /\ at = "unload" /\ stable < Looks
    /\ stable' = IF \A m \in Models : router[m] = "unloaded" THEN stable + 1 ELSE 0
    /\ UNCHANGED <<contract, job, pc, at, loaded, judging, service, tree, frozen, ran, touched, gate,
                   starts, retained>>

Load ==
    /\ at = "unload" /\ stable >= Looks
    /\ at' = "load" /\ stable' = 0 /\ loaded' = None
    /\ router' = [router EXCEPT ![Model] = "loading"]
    /\ UNCHANGED <<contract, job, pc, judging, server, tree, frozen, ran, touched, gate, starts, retained>>

Loaded ==
    /\ at = "load"
    /\ router[Model] = "loaded" /\ \A m \in Models \ {Model} : router[m] = "unloaded"
    /\ at' = "run" /\ loaded' = Model
    /\ UNCHANGED <<contract, job, pc, stable, judging, service, tree, frozen, ran, touched, gate, starts,
                   retained>>

\* The router does what it was asked to in its own time.
RouterMoves(m) ==
    /\ \/ router[m] = "unloading" /\ router' = [router EXCEPT ![m] = "unloaded"]
       \/ router[m] = "loading" /\ router' = [router EXCEPT ![m] = "loaded"]
    /\ UNCHANGED <<contract, job, process, server, tree, frozen, ran, touched, gate, starts, retained>>

-----------------------------------------------------------------------------
\* The stages.  command looks at the pins before and after the process.

\* stage: the managed agent runs, and its trace shows what a stage must show.
Begun(role) ==
    /\ pc = role /\ at = "run" /\ Intact
    /\ ran' = [ran EXCEPT ![role] = @ + 1]

PlannerRuns ==
    /\ Begun("planner")
    /\ Goto("planned")
    /\ UNCHANGED <<contract, job, service, tree, frozen, touched, gate, starts, retained>>

\* The plan is read: it ends the run, or an implementation begins.  Nothing was edited.
Planned ==
    /\ pc = "planned" /\ candidate = before /\ Intact
    /\ \/ /\ contract.plannerOnly
          /\ \E outcome \in {"no_hypothesis", "planned_only"} : Concluded("planner_stopped", outcome)
          /\ Goto("close")
       \/ /\ ~contract.plannerOnly
          /\ Concluded("verification_failed", "no_hypothesis")
          /\ Goto("close")
       \/ /\ ~contract.plannerOnly
          /\ State("running")
          /\ Goto("implementer")
    /\ UNCHANGED <<contract, service, tree, frozen, ran, touched, gate, starts, retained>>

\* The implementer leaves any content behind.
ImplementerRuns ==
    /\ Begun("implementer")
    /\ candidate' \in Contents
    /\ State("verifying")
    /\ attempt' = attempt + 1 /\ Step("check")
    /\ UNCHANGED <<contract, loaded, stable, before, verdict, tried, service, index, frozen, touched,
                   gate, starts, retained>>

\* run_checks takes the identity of the verifier and a snapshot.
BeginChecks ==
    /\ pc = "check" /\ SameVerifier
    /\ Step("commands") /\ before' = candidate
    /\ UNCHANGED <<contract, job, loaded, stable, verdict, attempt, tried, service, tree, frozen, ran,
                   touched, gate, starts, retained>>

\* What the commands say of a content.
Judgement(c) ==
    CASE c \in Passing -> "passed"
      [] c \in Repairable -> "repairable"
      [] OTHER -> "environment"

RunCommands ==
    /\ pc = "commands" /\ Intact
    /\ verdict' = Judgement(candidate) /\ Step("diff")
    /\ UNCHANGED <<contract, job, loaded, stable, before, attempt, tried, service, tree, frozen, ran,
                   touched, gate, starts, retained>>

\* run_diff_check: the whole candidate goes to an index of its own.
RunDiffCheck ==
    /\ pc = "diff" /\ Intact
    /\ index' = candidate
    /\ Goto("compare")
    /\ UNCHANGED <<contract, job, service, candidate, frozen, ran, touched, gate, starts, retained>>

\* The candidate is still what the checks began with, is in scope, and so is the verifier.
Unmoved == candidate = before
AnyFiles(c) == TRUE
InAllowedFiles(c) == c \in InScope
EndChecks ==
    /\ pc = "compare"
    /\ Unmoved /\ SameVerifier /\ InAllowedFiles(candidate)
    /\ Goto("judge")
    /\ UNCHANGED <<contract, job, service, tree, frozen, ran, touched, gate, starts, retained>>

AttemptsLeft == attempt <= contract.repairs
\* A content that was tried before ends the run (Refused), as does a failure no repair can mend.
Judge ==
    /\ pc = "judge" /\ before \notin tried
    /\ tried' = tried \cup {before}
    /\ \/ /\ verdict = "passed" /\ before # Base
          /\ Step("freeze") /\ UNCHANGED job
       \/ /\ verdict = "passed" /\ before = Base
          /\ Step("close") /\ Concluded("verification_failed", "not_implemented")
       \/ /\ verdict = "repairable" /\ AttemptsLeft
          /\ Step("implementer") /\ State("running")
       \/ /\ verdict = "repairable" /\ ~AttemptsLeft
          /\ Step("close") /\ Concluded("verification_failed", "candidate_failed")
    /\ UNCHANGED <<contract, loaded, stable, before, verdict, attempt, service, tree, frozen, ran, touched,
                   gate, starts, retained>>

-----------------------------------------------------------------------------
\* Freeze and audit.

\* freeze_patch: the patch is what the checked index says, and the candidate agrees with it.
FreezePatch ==
    /\ pc = "freeze" /\ Intact
    /\ candidate = before /\ index = before
    /\ patch' = index
    /\ Goto("bundle")
    /\ UNCHANGED <<contract, job, service, tree, bundle, audit, ran, touched, gate, starts, retained>>

\* freeze_bundle: the manifest binds every file of the bundle, and the audit input the manifest.
FreezeBundle ==
    /\ pc = "bundle" /\ bundle = None
    /\ bundle' = [content |-> before, bound |-> before]
    /\ IF contract.backend = "strata" THEN Goto("external") /\ UNCHANGED job
       ELSE Goto("auditor") /\ State("audit_pending")
    /\ UNCHANGED <<contract, service, tree, patch, audit, ran, touched, gate, starts, retained>>

\* inspect_bundle: every file still has the hash it is bound by.
BundleWhole == bundle # None /\ bundle.content = bundle.bound
\* candidate.patch against candidate_patch_sha256 of the audit input.
PatchBound == patch = bundle.bound

\* freeze_external_proposal: no audit; the review is left to people outside.
FreezeExternal ==
    /\ pc = "external"
    /\ Concluded("external_review_pending", "external_review_pending")
    /\ Goto("verify external")
    /\ UNCHANGED <<contract, service, tree, frozen, ran, touched, gate, starts, retained>>

\* verify_external_proposal: workflow, snapshot, results and patch still agree.
ExternalProposal ==
    /\ job.status = "external_review_pending" /\ job.outcome = "external_review_pending"
    /\ Intact /\ SameVerifier /\ BundleWhole /\ candidate = bundle.bound /\ PatchBound

VerifyExternal ==
    /\ pc = "verify external" /\ ExternalProposal
    /\ Goto("close")
    /\ UNCHANGED <<contract, job, service, tree, frozen, ran, touched, gate, starts, retained>>

\* The auditor reads the bundle; complete when what it cites was really delivered to it.
AuditorRuns ==
    /\ Begun("auditor")
    /\ \E accepts, complete \in BOOLEAN :
        audit' = [of |-> bundle.content, accepts |-> accepts, complete |-> complete]
    /\ Goto("audited")
    /\ UNCHANGED <<contract, job, service, tree, patch, bundle, touched, gate, starts, retained>>

AuditUnread == audit # None /\ bundle # None /\ audit.of = bundle.bound
\* validate_audit_result with observed_audit_artifacts: bound to this bundle, no claim unread.
AuditValid == audit # None /\ bundle # None /\ audit.of = bundle.bound /\ audit.complete

ConfirmAudit ==
    /\ pc = "audited"
    /\ AuditValid /\ BundleWhole /\ candidate = before
    /\ IF audit.accepts THEN Concluded("review_ready", "accepted_proposal")
                        ELSE Concluded("verification_failed", "audit_rejected")
    /\ Goto("close")
    /\ UNCHANGED <<contract, service, tree, frozen, ran, touched, gate, starts, retained>>

-----------------------------------------------------------------------------
\* verify_proposal_for_integration, run by the release and by people; it takes no lock.

\* Up to the bundle and the verifier ...
Accepted ==
    /\ contract.backend # "strata"
    /\ job.status = "review_ready" /\ job.outcome = "accepted_proposal"
VerifyBundle ==
    /\ verifying = None
    /\ ValidContract /\ Intact /\ Accepted
    /\ AuditValid /\ audit.accepts /\ BundleWhole /\ SameVerifier
    /\ verifying' = bundle.bound
    /\ UNCHANGED <<contract, job, process, service, tree, frozen, ran, touched, verified, starts, retained>>

\* ... then the worktree, then the patch, whose path is the answer.
VerifyPatch ==
    /\ verifying # None
    /\ verifying' = None
    /\ verified' = IF candidate = verifying /\ PatchBound THEN patch ELSE verified
    /\ UNCHANGED <<contract, job, process, service, tree, frozen, ran, touched, starts, retained>>

-----------------------------------------------------------------------------
\* Somebody else changes a file the run or the verification looks at.
Touch(thing) ==
    /\ thing \in Touchable \ touched /\ Cardinality(touched) < MaxTouched
    /\ touched' = touched \cup {thing}
    /\ \/ thing \in {"pins", "verifier"} /\ UNCHANGED <<tree, frozen>>
       \/ /\ thing = "candidate" /\ candidate # None
          /\ candidate' \in Contents \ {candidate} /\ UNCHANGED <<index, frozen>>
       \/ /\ thing = "index" /\ index # None
          /\ index' \in Contents \ {index} /\ UNCHANGED <<candidate, frozen>>
       \/ /\ thing = "patch" /\ patch # None
          /\ patch' \in Contents \ {patch} /\ UNCHANGED <<tree, bundle, audit>>
       \/ /\ thing = "bundle" /\ bundle # None
          /\ \E c \in Contents \ {bundle.content} : bundle' = [bundle EXCEPT !.content = c]
          /\ UNCHANGED <<tree, patch, audit>>
    /\ UNCHANGED <<contract, job, process, service, ran, gate, starts, retained>>

\* A server that is nobody's is stopped by hand.
ForeignStopped ==
    /\ server = "foreign" /\ server' = "none" /\ router' = [m \in Models |-> "unloaded"]
    /\ UNCHANGED <<contract, job, process, tree, frozen, ran, touched, gate, starts, retained>>

Runner ==
    \/ Preflight \/ Baseline \/ StartServer \/ Unload
    \/ Await \/ Load \/ Loaded
    \/ PlannerRuns \/ Planned \/ ImplementerRuns
    \/ BeginChecks \/ RunCommands \/ RunDiffCheck \/ EndChecks \/ Judge
    \/ FreezePatch \/ FreezeBundle \/ FreezeExternal \/ VerifyExternal
    \/ AuditorRuns \/ ConfirmAudit
    \/ Refused \/ Close

Next ==
    \/ Runner \/ Start \/ Crash
    \/ \E m \in Models : RouterMoves(m)
    \/ VerifyBundle \/ VerifyPatch
    \/ \E thing \in Touchable : Touch(thing)
    \/ ForeignStopped

Spec == Init /\ [][Next]_vars

-----------------------------------------------------------------------------
\* Type invariant.
TypeOK ==
    /\ contract \in Contracts
    /\ job \in [status : Statuses, outcome : Outcomes]
    /\ server \in {"none", "owned", "foreign"}
    /\ router \in [Models -> {"unloaded", "loading", "loaded", "unloading"}]
    /\ loaded \in Models \cup {None} /\ stable \in 0 .. 3
    /\ {candidate, index, before, patch, verified, verifying} \subseteq Contents \cup {None}
    /\ verdict \in {None, "passed", "repairable", "environment"}
    /\ attempt \in Nat /\ tried \subseteq Contents
    /\ bundle \in Bundles \cup {None}
    /\ audit \in [of : Contents, accepts : BOOLEAN, complete : BOOLEAN] \cup {None}
    /\ ran \in [Roles -> Nat]
    /\ touched \subseteq Touchable /\ starts \in Nat /\ retained \in BOOLEAN

\* What verify_proposal_for_integration hands out passed the checks, is in scope, is what an
\* auditor accepted, and differs from the base, although files of the run are changed during
\* and after it (Touch: into something else; the old content is never put back).
IntegratesWhatWasAudited ==
    verified # None =>
        /\ verified \in (Passing \cap InScope) \ {Base}
        /\ audit.accepts /\ audit.complete /\ audit.of = verified

\* An external proposal is pending only on a content that passed, unless somebody
\* touched patch, bundle or worktree after it was frozen; then a verification tells.
ExternalIsVerified ==
    ExternalProposal => patch \in (Passing \cap InScope) \ {Base}

\* However often the job is started, killed and started again, no stage begins a second time
\* (the guide: resume never replays completed stages), repairs stay within the contract,
\* and behind a planner-only boundary nothing begins.
StagesRunOnce ==
    /\ ran["planner"] <= 1 /\ ran["auditor"] <= 1
    /\ ran["implementer"] <= contract.repairs + 1
    /\ contract.plannerOnly => ran["implementer"] = 0
    /\ contract.backend = "strata" => ran["auditor"] = 0

\* The router never holds two models, although it unloads in its own time.
OneModelAtATime == Cardinality({m \in Models : router[m] # "unloaded"}) <= 1

=============================================================================
