----------------------------- MODULE OwnerRepair -----------------------------
(***************************************************************************)
(* The controller of the owner's repairs: the loop over the queue          *)
(* (src/ephy_worker/owner_repair.py), the stages of a job                  *)
(* (owner_repair_pipeline.py) and its release (owner_repair_release.py):   *)
(* integration commit, pull request, review, evidence, authorization,      *)
(* merge, deployment and report.                                           *)
(*                                                                         *)
(* One process under an OS lock handles the oldest open job.  It can die   *)
(* between any two steps; a step ends with a commit of the database, a     *)
(* record on disk, or an effect on GitHub or production.  All three        *)
(* survive.  GitHub, the operator and the release adapter act on their own.*)
(*                                                                         *)
(* Contents are reduced to what the gates compare: evidence is one answer  *)
(* of CI and reviewers, a commit or a branch is the job's own or another.  *)
(* Every read of files, git or GitHub may fail instead (Fails).  How the   *)
(* models find and make the change is outside of this module.              *)
(***************************************************************************)
EXTENDS Naturals, FiniteSets

CONSTANTS
    Jobs,           \* repairs, numbered in the order they are queued
    Evidences,      \* answers of CI, comments and threads about a head
    Ready,          \* those current_head_ready accepts
    Relay,          \* TRUE when review is asked for through the review adapter
    MaxCrashes,     \* bound: ends of the controller process
    MaxGrants,      \* bound: versions of the standing grant
    None

ASSUME RepairAssumption ==
    /\ Jobs \subseteq Nat
    /\ Ready \subseteq Evidences
    /\ Relay \in BOOLEAN
    /\ MaxCrashes \in Nat /\ MaxGrants \in Nat \ {0}
    /\ None \notin Evidences /\ None \notin Nat /\ None \notin {"completed", "failed", "controller"}
    /\ None \notin [grant : Nat, evidence : Evidences]

VARIABLES
    stage,          \* of each job, "absent" before it is queued
    data,           \* what the data column of a job has recorded
    file,           \* the records in its execution directory
    report,         \* the outcome its outbox tells, None before
    step,           \* where the controller stands, "down" between processes
    job,            \* the job of the current tick
    result,         \* what the adapter returned to it
    pinned,         \* the grant version the process was configured with
    scope,          \* the jobs of the guild and channels it was configured with
    grant,          \* the version on disk
    remote,         \* branch and pull request of each job on GitHub
    adapters,       \* jobs with a release adapter running
    live,           \* jobs whose merge production was given
    begun,          \* history: discoveries and formal runs begun per job
    crashes

database == <<stage, data, report>>
process == <<step, job, result, pinned, scope>>
outside == <<grant, remote, adapters, live>>
vars == <<database, file, process, outside, begun, crashes>>

-----------------------------------------------------------------------------
Terminal == {"completed", "failed"}
Releasing == {"release_pending", "review_pending", "merge_pending", "deployment_pending"}
Stages == {"absent", "queued", "discovering", "submitted", "running"} \cup Releasing \cup Terminal

Away == {"down", "idle"}
Steps == Away \cup {"discover", "formal", "context", "integrate", "commit", "record head", "propose",
    "record pr", "publish", "look", "ask", "review", "record evidence", "authorize",
    "record authorization", "recheck", "merge", "verify", "callback", "adapter", "result"}

Records == [grant : Nat, evidence : Evidences]
DataRow == [head : BOOLEAN, pr : BOOLEAN, requested : BOOLEAN,
            evidence : Evidences \cup {None}, authorization : Records \cup {None}]
Directory == [context : Nat \cup {None}, integration : {"none", "base", "committed"},
              evidence : Evidences \cup {None}, authorization : Records \cup {None},
              merge : Records \cup {None}, result : {None, "healthy", "unhealthy"}]
PullRequest == [state : {"none", "open", "merged", "closed"}, head : {"own", "other"},
                by : {None, "controller", "hand"}, evidence : Evidences \cup {None}]

Open(j) == stage[j] \notin Terminal \cup {"absent"}
\* RepairStore.next: the oldest job that is not terminal, whatever it waits for.
Oldest(j) == Open(j) /\ \A i \in Jobs : Open(i) => j <= i

At(j, s) == step = s /\ job = j
Goto(s) == step' = s /\ UNCHANGED <<job, result, pinned, scope>>
\* The tick is over, and what it knew is gone.
EndTick(s) == step' = s /\ job' = None /\ result' = None /\ UNCHANGED <<pinned, scope>>

\* transition: the stage and new fields of the data column in one commit.
Transition(j, s) == stage' = [stage EXCEPT ![j] = s] /\ UNCHANGED <<data, report>>
Noted(j, s, field, value) ==
    /\ stage' = [stage EXCEPT ![j] = s]
    /\ data' = [data EXCEPT ![j][field] = value]
    /\ UNCHANGED report

FinishReportFirst(j, outcome) ==
    /\ report' = [report EXCEPT ![j] = IF @ = None THEN outcome ELSE @]
    /\ UNCHANGED <<stage, data>>
    /\ EndTick("idle")
\* finish: stage and outbox in one commit; the tick ends.
Finish(j, outcome) ==
    /\ stage' = [stage EXCEPT ![j] = outcome]
    /\ report' = [report EXCEPT ![j] = IF @ = None THEN outcome ELSE @]
    /\ UNCHANGED data
    /\ EndTick("idle")

BindsAnew(j, field, value) == TRUE
\* _bind: a record is written once, and must be the same whenever it is needed again.
Binds(j, field, value) == file[j][field] \in {None, value}
Bound(j, field, value) == file' = [file EXCEPT ![j][field] = value]

Init ==
    /\ stage = [j \in Jobs |-> "absent"]
    /\ data = [j \in Jobs |-> [head |-> FALSE, pr |-> FALSE, requested |-> FALSE,
                               evidence |-> None, authorization |-> None]]
    /\ file = [j \in Jobs |-> [context |-> None, integration |-> "none", evidence |-> None,
                               authorization |-> None, merge |-> None, result |-> None]]
    /\ report = [j \in Jobs |-> None]
    /\ step = "down" /\ job = None /\ result = None
    /\ grant = 1 /\ pinned = 1 /\ scope = Jobs
    /\ remote = [j \in Jobs |-> [state |-> "none", head |-> "own", by |-> None, evidence |-> None]]
    /\ adapters = {} /\ live = {}
    /\ begun = [j \in Jobs |-> [discovery |-> 0, formal |-> 0]]
    /\ crashes = 0

-----------------------------------------------------------------------------
\* The process and its queue.

\* The bridge queues a job (DiscordBridge models when).
Enqueue(j) ==
    /\ stage[j] = "absent" /\ \A i \in Jobs : i < j => stage[i] # "absent"
    /\ Transition(j, "queued")
    /\ UNCHANGED <<file, process, outside, begun, crashes>>

Start ==
    /\ step = "down"
    /\ step' = "idle" /\ pinned' = grant /\ scope' \in SUBSET Jobs
    /\ UNCHANGED <<job, result, database, file, outside, begun, crashes>>

Crash ==
    /\ step # "down" /\ crashes < MaxCrashes
    /\ crashes' = crashes + 1
    /\ EndTick("down")
    /\ UNCHANGED <<database, file, outside, begun>>

\* Any exception of a tick but the two Pending ones ends the job.
Fails(j) ==
    /\ step \notin Away \cup {"adapter"} /\ job = j
    /\ Finish(j, "failed")
    /\ UNCHANGED <<file, outside, begun, crashes>>

\* ReviewPending and DeploymentPending: the job stays the oldest and is polled again.
Waits(j, s) == Transition(j, s) /\ EndTick("idle")

Turn(j) == step = "idle" /\ Oldest(j)
Takes(j, s) ==
    /\ Turn(j) /\ j \in scope
    /\ step' = s /\ job' = j
    /\ UNCHANGED <<result, pinned, scope>>

\* The configuration no longer covers the job.  It ends without a report.
Reject(j) ==
    /\ Turn(j) /\ j \notin scope
    /\ Transition(j, "failed")
    /\ UNCHANGED <<file, process, outside, begun, crashes>>

InterruptedFormal(j) == stage[j] = "running"
\* A model stage the last process died in is not run again.
Interrupted(j) == stage[j] \in {"discovering", "running"}
Retain(j) ==
    /\ Turn(j) /\ j \in scope /\ Interrupted(j)
    /\ Finish(j, "failed")
    /\ UNCHANGED <<file, outside, begun, crashes>>

BeginDiscovery(j) ==
    /\ stage[j] = "queued" /\ Takes(j, "discover")
    /\ Transition(j, "discovering")
    /\ begun' = [begun EXCEPT ![j].discovery = @ + 1]
    /\ UNCHANGED <<file, outside, crashes>>

\* The tick goes on with the job; nothing but a crash can come between.
Discovered(j) ==
    /\ At(j, "discover")
    /\ Transition(j, "submitted") /\ EndTick("idle")
    /\ UNCHANGED <<file, outside, begun, crashes>>

BeginFormal(j) ==
    /\ stage[j] = "submitted" /\ Takes(j, "formal")
    /\ Transition(j, "running")
    /\ begun' = [begun EXCEPT ![j].formal = @ + 1]
    /\ UNCHANGED <<file, outside, crashes>>

\* The formal run ended with an accepted proposal, which was verified.
Proposed(j) ==
    /\ At(j, "formal")
    /\ Transition(j, "release_pending") /\ EndTick("idle")
    /\ UNCHANGED <<file, outside, begun, crashes>>

-----------------------------------------------------------------------------
\* Release.  Every tick of a job in these stages goes through advance from its start.

\* The grant is the one the process was configured with, and the job began with.
OwnerContext(j) == pinned = grant /\ Binds(j, "context", grant)

BeginRelease(j) ==
    /\ stage[j] \in Releasing /\ Takes(j, "context")
    /\ UNCHANGED <<database, file, outside, begun, crashes>>

BindContext(j) ==
    /\ At(j, "context") /\ OwnerContext(j)
    /\ Bound(j, "context", grant)
    /\ Goto(IF data[j].head THEN "propose" ELSE "integrate")
    /\ UNCHANGED <<database, outside, begun, crashes>>

\* A worktree left without its commit is retained, so that only Fails is possible.
AddWorktree(j) ==
    /\ At(j, "integrate") /\ file[j].integration = "none"
    /\ Bound(j, "integration", "base")
    /\ Goto("commit")
    /\ UNCHANGED <<database, outside, begun, crashes>>

Commit(j) ==
    /\ At(j, "commit")
    /\ Bound(j, "integration", "committed")
    /\ Goto("record head")
    /\ UNCHANGED <<database, outside, begun, crashes>>

RecordHead(j) ==
    /\ At(j, "record head") \/ At(j, "integrate")
    /\ file[j].integration = "committed"
    /\ Noted(j, "release_pending", "head", TRUE)
    /\ Goto("propose")
    /\ UNCHANGED <<file, outside, begun, crashes>>

\* Push, then the pull request of the branch, which exists already after a crash.
Propose(j) ==
    /\ At(j, "propose") /\ ~data[j].pr
    /\ remote[j].head = "own"
    /\ remote' = [remote EXCEPT ![j].state = IF @ = "none" THEN "open" ELSE @]
    /\ Goto("record pr")
    /\ UNCHANGED <<database, file, grant, adapters, live, begun, crashes>>

RecordPr(j) ==
    /\ At(j, "record pr")
    /\ Noted(j, "review_pending", "pr", TRUE)
    /\ Goto("publish")
    /\ UNCHANGED <<file, outside, begun, crashes>>

\* The comments carry markers and are posted once; the stage goes back to review.
Publish(j) ==
    /\ At(j, "publish") \/ (At(j, "propose") /\ data[j].pr)
    /\ Transition(j, "review_pending") /\ Goto("look")
    /\ UNCHANGED <<file, outside, begun, crashes>>

Own(j) == remote[j].head = "own"
Look(j) ==
    /\ At(j, "look") /\ Own(j)
    /\ \/ remote[j].state = "merged" /\ Goto("verify")
       \/ remote[j].state = "open" /\ Goto(IF data[j].requested THEN "review" ELSE "ask")
    /\ UNCHANGED <<database, file, outside, begun, crashes>>

Ask(j) ==
    /\ At(j, "ask")
    /\ Noted(j, "review_pending", "requested", TRUE)
    /\ Goto("review")
    /\ UNCHANGED <<file, outside, begun, crashes>>

RelayUnconfirmed(j) ==
    /\ Relay /\ At(j, "ask")
    /\ Waits(j, "review_pending")
    /\ UNCHANGED <<file, outside, begun, crashes>>

NotReady(j) ==
    /\ At(j, "review") /\ remote[j].evidence \notin Ready
    /\ Waits(j, "review_pending")
    /\ UNCHANGED <<file, outside, begun, crashes>>

FreezeEvidence(j) ==
    /\ At(j, "review") /\ remote[j].evidence \in Ready
    /\ Binds(j, "evidence", remote[j].evidence)
    /\ Bound(j, "evidence", remote[j].evidence)
    /\ Goto("record evidence")
    /\ UNCHANGED <<database, outside, begun, crashes>>

RecordEvidence(j) ==
    /\ At(j, "record evidence")
    /\ Noted(j, "merge_pending", "evidence", file[j].evidence)
    /\ Goto("authorize")
    /\ UNCHANGED <<file, outside, begun, crashes>>

\* What both forms of _authorization check before they compare the record.
Authorizable(j) ==
    /\ OwnerContext(j)
    /\ data[j].head /\ data[j].pr
    /\ data[j].evidence \in Ready /\ file[j].evidence = data[j].evidence
Authorization(j) == [grant |-> file[j].context, evidence |-> data[j].evidence]
AuthorizedByFile(j) == Authorizable(j) /\ file[j].authorization = Authorization(j)
Authorized(j) ==
    /\ Authorizable(j)
    /\ file[j].authorization = Authorization(j)
    /\ data[j].authorization = Authorization(j)

Authorize(j) ==
    /\ At(j, "authorize") /\ Authorizable(j)
    /\ Binds(j, "authorization", Authorization(j))
    /\ data[j].authorization \in {None, Authorization(j)}
    /\ Bound(j, "authorization", Authorization(j))
    /\ Goto("record authorization")
    /\ UNCHANGED <<database, outside, begun, crashes>>

RecordAuthorization(j) ==
    /\ At(j, "record authorization")
    /\ Noted(j, stage[j], "authorization", file[j].authorization)
    /\ Goto("recheck")
    /\ UNCHANGED <<file, outside, begun, crashes>>

Recheck(j) ==
    /\ At(j, "recheck") /\ Own(j) /\ Authorized(j)
    /\ Goto("merge")
    /\ UNCHANGED <<database, file, outside, begun, crashes>>

\* The request names the head, so GitHub refuses it for another.  An answer that gets
\* lost is Fails at the next step.
Merge(j) ==
    /\ At(j, "merge") /\ remote[j].state = "open" /\ Own(j)
    /\ remote' = [remote EXCEPT ![j].state = "merged", ![j].by = "controller"]
    /\ Goto("verify")
    /\ UNCHANGED <<database, file, grant, adapters, live, begun, crashes>>

Merged(j) == remote[j].state = "merged" /\ Own(j)
Verify(j) ==
    /\ At(j, "verify") /\ Merged(j) /\ Authorized(j)
    /\ Binds(j, "merge", data[j].authorization)
    /\ Bound(j, "merge", data[j].authorization)
    /\ Transition(j, "deployment_pending") /\ Goto("callback")
    /\ UNCHANGED <<outside, begun, crashes>>

CallAdapter(j) ==
    /\ At(j, "callback") /\ Merged(j) /\ Authorized(j)
    /\ adapters' = adapters \cup {j}
    /\ Goto("adapter")
    /\ UNCHANGED <<database, file, grant, remote, live, begun, crashes>>

\* It answers "healthy" only for the commit it found running.
AdapterReturns(j, r) ==
    /\ At(j, "adapter") /\ j \in adapters
    /\ r = "healthy" => j \in live
    /\ adapters' = adapters \ {j}
    /\ step' = "result" /\ result' = r
    /\ UNCHANGED <<job, pinned, scope, database, file, grant, remote, live, begun, crashes>>

AdapterFails(j) ==
    /\ At(j, "adapter")
    /\ adapters' = adapters \ {j}
    /\ Finish(j, "failed")
    /\ UNCHANGED <<file, grant, remote, live, begun, crashes>>

\* Only the shell is killed at the timeout; what it started may go on.
AdapterTimesOut(j) ==
    /\ At(j, "adapter")
    /\ adapters' \in {adapters, adapters \ {j}}
    /\ Waits(j, "deployment_pending")
    /\ UNCHANGED <<file, grant, remote, live, begun, crashes>>

\* After the result was bound the job is completed or, by Fails, failed.
BindResult(j) ==
    /\ At(j, "result") /\ file[j].result = None
    /\ Bound(j, "result", result)
    /\ UNCHANGED <<database, process, outside, begun, crashes>>

Complete(j) ==
    /\ At(j, "result") /\ file[j].result = result
    /\ result = "healthy" /\ Authorized(j)
    /\ Finish(j, "completed")
    /\ UNCHANGED <<file, outside, begun, crashes>>

-----------------------------------------------------------------------------
\* Outside of the controller.

ChangeGrant ==
    /\ grant < MaxGrants
    /\ grant' = grant + 1
    /\ UNCHANGED <<database, file, process, remote, adapters, live, begun, crashes>>

\* Bound: what happens to the pull request of a job that has ended is left out.
Offered(j) == remote[j].state = "open" /\ Open(j)

\* CI runs again, reviewers comment, threads are resolved or opened.
Reviewed(j, e) ==
    /\ Offered(j) /\ remote[j].evidence # e
    /\ remote' = [remote EXCEPT ![j].evidence = e]
    /\ UNCHANGED <<database, file, process, grant, adapters, live, begun, crashes>>

PushedOver(j) ==
    /\ Offered(j) /\ Own(j)
    /\ remote' = [remote EXCEPT ![j].head = "other"]
    /\ UNCHANGED <<database, file, process, grant, adapters, live, begun, crashes>>

EndedByHand(j, s) ==
    /\ Offered(j)
    /\ remote' = [remote EXCEPT ![j].state = s, ![j].by = "hand"]
    /\ UNCHANGED <<database, file, process, grant, adapters, live, begun, crashes>>

AdapterDeploys(j) ==
    /\ j \in adapters \ live
    /\ live' = live \cup {j}
    /\ UNCHANGED <<database, file, process, grant, remote, adapters, begun, crashes>>

\* An adapter that outlived the process which called it.
OrphanEnds(j) ==
    /\ j \in adapters /\ ~At(j, "adapter")
    /\ adapters' = adapters \ {j}
    /\ UNCHANGED <<database, file, process, grant, remote, live, begun, crashes>>

Ticks(j) ==
    \/ Reject(j) \/ Retain(j) \/ BeginDiscovery(j) \/ Discovered(j) \/ BeginFormal(j) \/ Proposed(j)
    \/ BeginRelease(j) \/ BindContext(j) \/ AddWorktree(j) \/ Commit(j) \/ RecordHead(j)
    \/ Propose(j) \/ RecordPr(j) \/ Publish(j) \/ Look(j) \/ Ask(j) \/ RelayUnconfirmed(j)
    \/ NotReady(j) \/ FreezeEvidence(j) \/ RecordEvidence(j) \/ Authorize(j)
    \/ RecordAuthorization(j) \/ Recheck(j) \/ Merge(j) \/ Verify(j) \/ CallAdapter(j)
    \/ \E r \in {"healthy", "unhealthy"} : AdapterReturns(j, r)
    \/ AdapterFails(j) \/ AdapterTimesOut(j) \/ BindResult(j) \/ Complete(j) \/ Fails(j)

Outside(j) ==
    \/ Enqueue(j) \/ PushedOver(j) \/ AdapterDeploys(j) \/ OrphanEnds(j)
    \/ \E e \in Evidences : Reviewed(j, e)
    \/ \E s \in {"merged", "closed"} : EndedByHand(j, s)

Next == Start \/ Crash \/ ChangeGrant \/ \E j \in Jobs : Ticks(j) \/ Outside(j)

Spec == Init /\ [][Next]_vars

\* The loop goes on and is started again; the relay confirms and the adapter answers
\* in the end, if they are asked again and again.
Fairness ==
    /\ WF_vars(Start \/ \E j \in Jobs : Ticks(j))
    /\ SF_vars(\E j \in Jobs : Ask(j))
    /\ SF_vars(\E j \in Jobs, r \in {"healthy", "unhealthy"} : AdapterReturns(j, r))

FairSpec == Spec /\ Fairness

-----------------------------------------------------------------------------
\* Properties.

\* What the variables hold; a job someone works on is open, and everything recorded
\* of it came from the step before.
TypeOK ==
    /\ stage \in [Jobs -> Stages]
    /\ data \in [Jobs -> DataRow] /\ file \in [Jobs -> Directory] /\ remote \in [Jobs -> PullRequest]
    /\ report \in [Jobs -> Terminal \cup {None}]
    /\ step \in Steps /\ job \in Jobs \cup {None} /\ result \in {None, "healthy", "unhealthy"}
    /\ step \in Away <=> job = None
    /\ scope \subseteq Jobs /\ pinned \in Nat /\ grant \in Nat /\ crashes \in Nat
    /\ adapters \subseteq Jobs /\ live \subseteq Jobs
    /\ begun \in [Jobs -> [discovery : Nat, formal : Nat]]

\* What the controller merges, and what production is given, is the head that was
\* reviewed, under an authorization the database has already recorded.
ReleasedAsAuthorized == \A j \in Jobs :
    remote[j].by = "controller" \/ j \in adapters \cup live =>
        /\ Merged(j)
        /\ data[j].authorization # None
        /\ data[j].authorization.evidence \in Ready

\* The records of a release name each other, however often its steps were repeated.
RecordsAgree == \A j \in Jobs :
    data[j].authorization # None =>
        /\ file[j].authorization = data[j].authorization
        /\ file[j].merge \in {None, data[j].authorization}
        /\ data[j].authorization = [grant |-> file[j].context, evidence |-> file[j].evidence]

\* "completed" is told only of a repair that production has, and whatever is told is
\* how the job has ended.
CompletedIsLive == \A j \in Jobs :
    /\ stage[j] = "completed" => report[j] = "completed" /\ j \in live /\ Merged(j)
    /\ report[j] # None => stage[j] = report[j]

\* A crash never makes the models work twice on a job.
ModelsRunOnce == \A j \in Jobs : begun[j].discovery <= 1 /\ begun[j].formal <= begun[j].discovery

\* A job is taken up only after all older ones have ended, so that no two changes are
\* on their way to the main branch at the same time.
OneAfterTheOther == \A i, j \in Jobs :
    i < j /\ stage[j] \notin {"absent", "queued"} => stage[i] \in Terminal

\* Once CI and reviewers stay content with what they are offered, every queued repair ends.
EveryRepairEnds ==
    <>[](\A j \in Jobs : Offered(j) => remote[j].evidence \in Ready)
        => \A j \in Jobs : stage[j] = "queued" ~> stage[j] \in Terminal

Contract == INSTANCE ReleaseContract WITH
    answer <- report,
    authorization <- [j \in Jobs |-> data[j].authorization],
    merged <- {j \in Jobs : remote[j].state = "merged"},
    deployed <- live

\* The controller keeps what the owner is promised.
KeepsPromise == Contract!Spec
=============================================================================
