# TLA+ verification of ephy-worker

This directory holds TLA+ specifications of the parts of `ephy-worker` that are
concurrent, survive crashes or talk over an unreliable network, TLC
configurations that check them on small instances, and TLAPS proofs of what
matters most for every instance. Every definition is translated from the Python
source; `PROJECT.json` maps each definition to its lines.

## 1. The system

`ephy-worker` is a set of cooperating processes around a research pipeline.

| Component | State it keeps | Operations | Talks to |
|---|---|---|---|
| Manager (`manager.py`, `contracts.py`) | SQLite tables jobs, attempts, workers, artifacts; artifact directory | submit, claim, renew, cancel, finalize, retry, delete, add/get artifact, heartbeat, sweep | workers and requesters over HTTP |
| Collection worker (`worker_service.py`, `manager_client.py`) | one job in memory, two background tasks | poll, execute a stage, renew the lease, upload, finalize | Manager over HTTP, stages of `collector.py` |
| Discord transport (`discord_runtime.py`) | SQLite ledger (inbox, requests, answers), activity file | receive, queue, execute, deliver, recover, drain | Discord, local Runtime over HTTP, repair store, release adapter through files |
| Repair store (`owner_repair.py`) | SQLite tables intakes, jobs, outbox | capture, claim, enqueue, finish, claim a delivery | Discord transport, repair controller |
| Repair controller (`owner_repair_pipeline.py`, `owner_repair_release.py`) | stage of each repair job, evidence files | discover, run the formal stage, bind the release authorization, merge, deploy, report | GitHub, local models, release adapter |
| Repair discovery (`owner_repair_discovery.py`, `check_completion.py`) | evidence of one discovery | select a scope, propose a checker and specimens, measure the controls, freeze | local model, copies of the registered source |
| Research pipeline (`research.py`, `budget.py`, `collector.py`, `evidence.py`, `report.py`, `store.py`) | budget, report, event log of one task | plan, gather, select, acquire, examine, review, report | search and fetch, local model, Manager through `remote_collector.py` |
| Formal job and campaign (`formal_*.py`, `strata_runtime.py`, `existing_llama_runtime.py`) | job.json, worktree, patch, bundle; campaign.json | run a job through its stages, verify and integrate its proposal; run and resume a list of jobs | coding agent, checkers, model server |
| Coding executor (`coding_*.py`) | worktree, patch and result of a run | copy, run the agent, validate, clean up, save | git, agent, validation command |
| Karte consumer (`karte_experiment_*.py`) | sidecar of a job: checkpoints, journal, latches, state | record a result, recover a journal | file system |
| Verifier triage (`verifier_triage_*.py`, `verifier_sandbox.py`) | records and receipts of the gateway, evidence of sessions | forward a request, watch a session, judge it, admit a capture, evaluate | client processes, model |
| Agent extensions (`.pi/extensions`, `tools/pi-local`) | background jobs, governance state | submit, poll, finish; guard commands | coding agent host |

Where the behaviour is hard:

* **Manager**: every call is one transaction under one lock, but calls of several
  workers, requesters and the sweeper come in any order, and two operations touch
  the disk before they commit. A job must have one executor and one outcome, leases
  must end, artifacts must not change, and children must not get more than their root.
* **Worker**: the lease task stops the stage from outside; calls and replies get
  lost; the process may be killed or asked to stop between any two calls. It must
  leave no job behind that it could still conclude, and must not work on after the
  Manager gave the job up.
* **Discord transport**: three tasks and a handler per message in one event loop,
  two databases without a common transaction, a second process during a restart,
  and a release adapter that decides on the contents of a file. Nothing may be
  executed or reported twice, the queue keeps its order, and a restart interrupts nothing.
* **Repair controller**: a sequence of irreversible steps with a crash between any two,
  while reviewers, the operator and the release adapter act on their own. What is
  merged and deployed must be what was authorized, the records must agree, and the
  owner must be told the truth.
* **Discovery**: an oracle that a model wrote is measured on trees that a person may
  edit meanwhile. What is frozen must tell good from bad and leave the original tests alone.
* **Research**: one budget for requests that are made here and in jobs of the Manager,
  which tell their usage only when they have ended; sources that are numbered by the
  worker, by each round and by the report; and an end that may come at any await.
* **Formal job**: a patch is checked, frozen, audited and integrated in separate steps,
  with files that anybody may change between them, a router that unloads in its own
  time, and processes that die and are started again.
* **Campaign**: it must never repeat a job and never run on behind a stop, wherever it died.
* **Coding executor**: a cancellation or a timeout at every await, a second one while the
  first is handled, and child processes that leave helpers behind.
* **Karte consumer**: up to six files for one commit, a crash between any two, and a
  state that may be an older one.
* **Triage**: a threaded server whose threads outlive it, a client that repeats or hurries
  its requests, and three clocks that run out independently.

Everything in this code that is hard to test is listed with its line under
`hazards` in `PROJECT.json`, with the properties that cover it or the reason why
none does.

## 2. Modules

| Module | What it is |
|---|---|
| `JobContract` | Abstract specification: what a requester is promised about a job |
| `Manager` | The Manager: jobs, attempts, workers, artifacts, disk, clock |
| `Lineage` | Budgets and deadlines of children and retries |
| `WorkerService` | One worker with its tasks and the network, composed with `Manager` |
| `DiscordBridge` | The Discord transport with its ledger and the repair store |
| `ReleaseContract` | Abstract specification: what the owner is promised about a repair |
| `OwnerRepair` | The repair controller: queue, stages, release, deployment, report |
| `Discovery`, `TestPreservation` | The discovery of a repair, and what it may do to a test module |
| `Research` | A research task with its budget, local or by jobs of the Manager |
| `FormalRun` | One formal job, from its submission to the integration of its proposal |
| `Campaign` | A campaign of formal jobs and its resumption |
| `Coding` | One coding job |
| `ReceiptContract` | Abstract specification: what a caller is promised about a recorded result |
| `Karte` | The sidecar of a job and the recovery of its journal |
| `Triage` | The sessions of a triage run and their gateway |
| `ManagerProofs`, `LineageProofs`, `DiscordBridgeProofs`, `ResearchProofs`, `KarteProofs` | Theorems about the module of that name; `ManagerProofs` also about `WorkerService`, which is built on it |
| `OwnerRepairProofs` | Theorems about `OwnerRepair`, `Discovery` and `TestPreservation` |
| `FormalProofs` | Theorems about `FormalRun` and `Campaign` |
| `ExecutionProofs` | Theorems about `Coding` and `Triage` |
| `MC*` | Instances for TLC: values of the constants, symmetry sets, bounds on steps |

Where one module of proofs extends two components, the second one names its state and its
specification differently (`CampaignInit`, `place`; `DiscoverySpec`, `doing`; `SessionsNext`):
the two then have no name in common.

### Manager

`job`, `attempt`, `worker` and `artifact` are the four tables, `disk` the artifact
directory, `now` the clock. One action per public method: `Register` (upsert_worker),
`Submit`, `Claim`, `RenewLease`, `Cancel`, `Finalize`, `AddArtifact`, `DeleteJob`,
`SweepOnce`; `AddArtifactCrash` and `DeleteJobCrash` stand for the end of the process
between the file operation and the commit. A refused call changes nothing and is a
stuttering step. The lock and the single transaction (`serialized`) justify one
action per method. An attempt id stands for the pair of id and lease token, which are
generated together and never again.

`JobContract` has one phase per job and its final outcome. `Manager!Contract` maps
the rows to it (`Phase`): `cancel_requested` is "stopping", the terminal states are
"done". `KeepsContract` is the refinement: a job is started once, a stopping job
ends as cancelled or not at all, an outcome never changes.

### Lineage

The five counted limits of a budget are checked alike, so one number stands for
them. `job` carries parent, budget, deadline and reported usage; `spent` (what
attempts really used) and `origin` (the root an allowance came from) are history
variables. Leases are not repeated: any running job may be found lost. `LineageOf` is the
recursive query of `_validate_child_allocation`, written as the smallest set that has the
root and with each job its children; `Used` is its sum.

### WorkerService

`proc` is the worker process: where the main loop is, its job and attempt, the
events `cancel` and `lost`, the status of the stage and the tasks that are alive. It
EXTENDS `Manager`, and each call of the client is the Manager's own action together
with what the worker does with the answer. A call may fail before it arrives
(`PollBreaks`, `RenewBreaks`, ...) or after (the Manager's part happens, the worker's
error path follows). `Outside` is what requesters, the clock and the sweeper do.

### DiscordBridge

`order` and `inbox` are the inbox table (the order of its rows, as a relation, and their
columns), `requests` the ids of
recorded executions, `intake`, `jobs` and `outbox` the tables of the repair store;
`process`, `task`, `receiving` and `batch` are the volatile state of each process;
`drain` and `ack` are the marker file and the activity file. A step is what happens
up to the next await or commit, whichever is first, so a crash comes between any two
transactions: `EnqueueJob`, `RecordJob` and `SettleJob` are three steps because the
code commits three times, and "done" is committed before the answer, the notice or the
failure is sent, which are steps of their own (`Delivered`, `NoticeSent`, `FailureSent`).
`runs`, `owed` and `sends` are history: the executions of each message, the messages whose
requester is still owed a word, the sendings of each report. `Shutdown` is the orderly stop (tasks are cancelled where
they await), `Crash` the other. A process id with its creation time is never issued
twice, so two processes are two elements of `Processes`. `SetDrain`, `SeeIdle`,
`KillIdle` and `GiveUp` are the release adapter, which is not in the repository and
is modelled from what the code does with its files.

### OwnerRepair

`stage`, `data` and `report` are the tables jobs and outbox, `file` the records in the
execution directory of a job, `step` and `job` the place of the one controller process
(an OS lock keeps a second one out), `remote`, `adapters` and `live` are GitHub, the
release adapter and production. A step ends where something durable has happened: a
commit of the database, a record bound on disk, an effect outside. `Crash` may come
between any two, so that `FreezeEvidence` and `RecordEvidence`, `Authorize` and
`RecordAuthorization`, `Merge` and `Verify` are separate. Every tick of a job that is
being released goes through `advance` from its start, as in the code; `Publish` moves
the stage back to `review_pending` each time. `Fails` is the handler of `tick` for
every exception but the two that wait; a reply of the merge that is lost is `Merge`
followed by `Fails`. `Binds` is `_bind`: a record that exists must be the same.

Evidence is one value that stands for all that CI, comments and threads say; two ready
values may differ (a comment more), which is what makes repeated steps interesting.
The grant is a version: the process knows the one its configuration pins. Discovery and
formal run are a step each; `Discovery` and `FormalRun` take them apart. `created` is
taken as increasing with the number of a job, that is, the clock of the bridge is not
set back.

`ReleaseContract` has the answer, the authorization, the merged and the deployed
repairs. `OwnerRepair!Contract` maps the tables and the outside to it, and
`KeepsPromise` is the refinement. A person may merge at any time, and the controller
does not undo it; only what is authorized goes on to production.

### Discovery and TestPreservation

`round`, `cursor`, `added`, `full`, `context`, `asked` and `feedback` are the locals of
`select_scope`: which excerpts the model was shown in which round, under the limits of
bytes, and what it asked for. `attempt`, `proposal` and `control` are those of
`prepare_controls` and `measure_controls`: checker and guard are run on the source, on
the specimens and on the wrong answer, in the order of the code, with the exit codes of
`check_completion.py`. What is frozen is judged anew by the properties: `Accepts` runs the
frozen checker on a content, `Discriminates` asks that it accepts the repair and refuses the
wrong answer and the source. `Edit` is a person who changes the source between any two steps.
`TestPreservation` is `preserve_original_tests` as operators on sequences of top-level
statements and comments, for both test profiles; sets of the constants say what each
statement binds, calls and evaluates.

### Research

`pc` and `round` say where the task stands, `todo`, `fresh`, `chosen` and `pending` what
the round still has to do, `budget` is the Budget with its counts and keys, `report`
what the store saves; `job` and `known` are the RemoteCollector's job and its usage
so far. `sent` (the requests really made) and `read` (what the model was shown) are
history. `Gather` and `Fetch` are the local way, `Submit`, `SearchArrives` and
`ExtractArrives` the way by jobs, where the worker spends under the limits of the job
while the task waits, and `JobFails` and `TimeOut` leave it running. So does a submission
whose reply is lost or cut off (`Unheard`): the job was accepted and spends what the task
had left. A source has one passage, a round makes at most one claim.

### FormalRun and Campaign

`job` is job.json, `server`, `router`, `at`, `loaded` and `stable` are the model server
and how the runner sees it, `candidate`, `index`, `before`, `patch`, `bundle` and `audit`
what a step looked at and froze. A content stands for the whole worktree, told apart by
the verdict of the checks. `Refused` is every gate that ends a run; `Touch` is somebody
else who changes one of the things a later gate depends on; `RouterMoves` is the router,
which loads and unloads in its own time. `VerifyBundle` and `VerifyPatch` are the two
verifications behind the run. A contract chooses one of the three backends; the
differences of `strata_runtime.py` and `existing_llama_runtime.py` are in the guards of
the stages and in who owns the server.

`Campaign` reads of a job its status, whether it failed by infrastructure, and whether
its proposal still verifies. `disk` is campaign.json, `mem` the state that the process
holds; a step ends with a write. A process reads the freeze of the verifier once, when its
loop begins, and at the end (`ReadFreeze`). `cut` is history: the specs whose result was saved
by a process that died before it saved what follows from it.

### Coding

`worktree` is the content of the worktree, `child` and `helpers` the processes that may
write to it, `snapshot` and `given` what was saved as the patch and what the validation
got. A helper is in the process group of its child or has left it, and holds the output of
its child open or not: `Killed` stops the group, `ReadAgent` and `Drain` wait until nobody
holds the output. `strayed` is history: some helper has left its group. `Interrupt` is a
timeout or the event at an await, `TaskCancelled` the cancellation of the task, a second
one included, which ends the stopping that the first one began; `Swallowed` is one that the
code takes for its own. `Fails` is every call of git or of the file system that raises, and
`SaveFails` a result that cannot be written.

### Karte and ReceiptContract

Each file of the sidecar is a variable or a set; a digest is the value it is of. The
lock serializes the calls, so one `call` runs at a time, one step per file. `Crash` ends
it between any two, for a full disk or with its process; `JobMoves`, `EvidenceSpoiled`
and `Rollback` are changes beside the calls. `ReceiptContract` has only what the last
call returned (`told`); `KeepsContract` says that a terminal or cancelled observation is
never taken back.

### Triage

`gate` has the records of each session's gateway, `client` what its client asked, heard
and traced, `phase` and `current` the controller. The threads of a gateway are daemons:
they go on when the controller has closed it. `Capture` and `BuildContract` are the
second process that admits what the first one wrote. `Rush` and a second copy on the
wire are the client's disorder, `Edit` a change of frozen files or saved evidence.

## 3. Runs

| Run | Shows |
|---|---|
| `manager_jobs` | Scheduling, leases, outcomes, artifacts and both crashes; the refinement of `JobContract` |
| `lineage_hold` | Allowances of three jobs that are retried, lost, resubmitted, cancelled and deleted |
| `worker_job` | A worker that is stopped, killed and restarted on a network that loses calls and replies; its job ends |
| `bridge_requests` | Three messages and two processes: nothing twice, nothing overtaken, nothing interrupted by a drain, nothing ended in silence unless a sending failed or was cut off; the queue runs empty again and again, unless the ledger is full |
| `repair_release` | Two repairs with two crashes, a changing grant, changing reviews, hands on GitHub and an adapter that outlives its caller; the refinement of `ReleaseContract`; both end |
| `discovery_controls` | What is frozen accepts the repair, refuses wrong answer and source, and keeps the original tests; discovery ends |
| `research_task` | Requests within the limits and reported, citations that were read, a verdict that hides nothing |
| `formal_job` | What is integrated was checked and audited; no stage twice; one model at a time |
| `campaign_resume` | No spec twice; nothing behind a stop, with one exception (section 6) |
| `coding_job` | A success is backed by its patch and validation; every run saves a result or cannot write it, unless its output is held for ever |
| `karte_receipts` | The refinement of `ReceiptContract`; a commit can always be finished, and is when it is repeated |
| `triage_sessions` | One request at the model, accepted sessions served whole, the run ends |

Bounds, and why they are enough:

* `manager_jobs` (457 thousand states): two jobs, attempts, keys and workers: one for
  `web.collect` with one slot, one for both kinds with two, so that the load, the tie and
  the capability decide in turn. `MaxTime` is above `Terms + LeaseTTL`, so that each
  deadline and lease passes in every order. Contents have sizes 1 and 2 under a limit of
  3 bytes and 2 artifacts, so that either limit is met first. `SharedOrStoring` keeps
  scheduling and files apart: files are stored only while there is nothing to choose
  between, because the two share no variable but the rows of jobs.
* `lineage_hold`: three jobs give a root, a child and a grandchild, or two roots.
  `Instants` lists the moments the comparisons of the code tell apart: well inside
  the term, the last moments, past it.
* `worker_job` (605 thousand): one job, one document and the result pack, both modes.
* `bridge_requests` (155 thousand): two processes are a predecessor and its successor; the
  last one is never killed (`Replaceable`), otherwise nothing could follow. Three messages:
  `g` and `h` of guests and `o` of the owner. A queue of 2 and a ledger of 2 executions are
  both filled by them, so that the head of a guest meets a full ledger. The second process no
  longer allows the channel of `h`. `KeepDone = 1` prunes. One drain is enough: `issued`
  counts them, and the proof covers any number; `DrainWithoutThird` lets it meet `g` and `o`
  and keeps `h` away from it.
* `repair_release` (391 thousand): two ready answers of the reviewers differ, so that
  evidence that was frozen before a crash may disagree after it; two grants, so that the
  grant may change between any two steps. Two crashes are enough for a crash in the
  recovery from a crash. The second repair waits while everything happens to the first,
  and then goes straight (`FirstThenStraight`); the proofs cover any number of all.
* `discovery_controls` (1.1 million): three files with too little room for the excerpts of
  all, three rounds, two attempts, a test module with an import, a comment, a fixture and
  a test; the modules a specimen may have are insertions at each place, a fixture shadowed, a
  name rebound, a helper that is called and one that calls itself, a comment or a test
  removed. One edit: somebody who puts the source back between two looks is not seen by
  any comparison of the code and is left out.
* `research_task` (3.3 million): two urls, three queries, and limits so small that each of
  the five is met at some point; a repetition of each kind, one cancellation, one client
  to close. Proved for any values.
* `formal_job` (309 thousand): four contents (the base, one that fails and can be repaired, one
  that passes, one that passes but is out of scope), four contracts for the three backends
  and the planner-only job, two starts. Each thing is touched once, and two of them: a
  change that is taken back before anybody looks is not seen by a hash.
* `campaign_resume` (209 thousand): five specs give a first one, two failures in a row and
  specs behind them; the second is a Strata one, whose infrastructure may fail, and the fourth
  planner-only, so that the fifth must never run. Two crashes: one in the recovery.
* `coding_job` (156 thousand): a content that passes, one that does not, the base; both sources;
  all four kinds of helpers, in any number; two cancellations, because the second meets the
  handling of the first.
* `karte_receipts` (1.9 million): two receipts that contradict each other, one payload with a sound
  and an unsound description, two crashes, one change of job, evidence or state.
* `triage_sessions` (2.1 million): planner, implementer and one consumer, two requests admitted
  and three asked, so that one is too many; one request out of order, one edit.

Deadlock is checked where the system goes on for ever (`manager_jobs`, `lineage_hold`,
`worker_job`) and in `coding_job`, whose end is the step `Done`. The other systems may
really stop: a task, a job, a campaign or a run that has ended, and a bridge with nothing
left but `WatchDrain`, which stutters.

Fairness:

* `FairServiceSpec` assumes that the lease task, the cancellation of a stage, the clock
  and the sweeper go on (asyncio schedules them after each sleep; nothing is assumed of
  the network or of the stage).
* `DiscordBridge` assumes that each process' tasks go on, that processes are restarted and
  drains lifted, and strong fairness of a successful receipt and a successful
  classification: the code retries these every two seconds for ever, and a head of the
  queue that can never be told or classified does block the queue.
* `OwnerRepair` assumes that the loop goes on and is restarted, and strong fairness of a
  confirmed request for review and of an answer of the adapter, which are asked for again
  every 30 and 60 seconds. That reviewers become content is not assumed but is the
  premise of `EveryRepairEnds`: a job whose review never gets ready waits for ever, and
  all the others behind it (the code has no limit here).
* `Discovery` assumes that the controller goes on; a model that never answers is ended by
  the timeout of its request, which is the step `BreaksOff`.
* `Coding` assumes its own synchronous steps, its timers, and that an output which nobody
  holds is read to its end; agent, validation and their helpers need not end.
* `Karte` assumes that a call that runs goes on, and strong fairness of a repetition by
  the caller with a valid payload: the error message tells it to repeat.
* `Triage` assumes the clocks and the controller, and with it the operator who, behind a
  capture, has the contract of the evaluation built and validated, two commands of their own;
  clients, threads and model need not go on.

`Research`, `FormalRun` and `Campaign` are checked for safety only.

## 4. Proofs

TLAPS checks, for every value of the constants:

* `ManagerProofs`: `Typed`, `OneAttempt`, `Outcome`, `Leases`, `KeysUnique`. The
  inductive invariant is `Rows`, the conjunction of the type invariant and four
  properties: that a finished attempt is not touched again needs that no two jobs
  share an attempt, and that a queued job has none; that a lease is bounded needs
  the deadline of the one job it belongs to. On it rest `Implements` (the refinement of
  `JobContract`: each action maps to one abstract step or to stuttering), `CancelStays`,
  `NamesNoObstacle` (`WaitReasonHonest`), and with the stronger invariant `Backing`
  also `ManifestsBacked` and `ServedBytes`: a row of an artifact is written only after
  its file, a name is used once per job, and only the deletion of the job removes either.
* `ManagerProofs`, the worker: `WorkerUsesManager` says that every behaviour of the composed
  system is one of the Manager, so that all of the above holds below a worker. `WorkEnds`
  (`NoWorkAfterTheEnd`) rests on `Grip`: either the job in hand goes on under the lease
  in hand, or the lease is over. `CutIsNoSuccess` rests on `Notes` and `Orders`: a stage is
  cut only after an order to stop, and such an order comes only for a job that does not
  run on. `NotAbandoned` adds `Uploads`: what the worker uploaded for its attempt, and that
  the place of the result pack is free until it is sent. It is proved for behaviours in
  which there is room for the pack (`RoomForPack`), because where there is none the code
  does walk away (section 6); the run's instance has the room.
* `LineageProofs`: `AllowanceKept`. The invariant `Allowances` has four parts. `Books`: a row
  tells what its attempt used as far as it can be known, and it never used more than its
  budget. `Families`: a job belongs to the root that its ancestors lead to, and a root has
  others only once it has ended. `Reached`: unless one of them was deleted, the recursive query
  finds all that draw on the root. `Covered`: what the query charges to a root that has
  ended, and is not lost, stays within its budget. The sum is `SumFunctionOnSet`, a fold; that it
  does not depend on the order, adds up and grows with its terms is proved first
  (`SumTakes`, `SumAdds`, `SumGrows`), by induction over the subsets of a finite set.
  `LineageTyped` rests on `RowsTyped`: a job that is there has a key, so that the key of its
  retry is that key and a number.
* `DiscordBridgeProofs`: `RunsOnce`, from the invariant `Recording` (an execution
  that has begun is in the requests table, which nothing shortens); `RestartIsQuiet`,
  from `DrainInv`: the activity file of a process is true for as long as its token is
  that of the drain, tokens are never issued again, and while there is a drain no idle
  process takes up anything; and `SentOnce`: a report that was never begun to be sent is
  the only one that is pending, because the row is claimed before it is sent. `KeepsOrder`
  (`QueueInOrder`) and `BridgeTyped` rest on the whole invariant `Bridge`, and
  `TellsTheRequester` (`NeverEndsInSilence`) on that with `Worked` and `Told`, which follow what
  a requester is owed from the record of the execution to the task that tells. In `Bridge` `Line` says that a row which a task works on is its own, and that everything
  older is done; `Places` what was written before a task came to its place; `Busy` and
  `Swept` which messages a task or an intake may have.
* `OwnerRepairProofs`: `Typed`, `OnlyAuthorized`, `Agreement`, the refinement
  `KeepsItsPromise`, and
  `TrueReports`, `WorkedOnce` and `Serial`. The invariant `IInv` adds four parts to the
  properties. `Placed` says what holds where the controller stands (a job that is being
  merged has its authorization in the database; after a healthy answer production has the
  job); `Written` says that each record was made of the earlier ones and that the
  database has nothing or what is on disk; `Worked` ties the stage to the model
  stages begun; `Numbered` says that jobs are queued in order. The lemmas `...Moves`
  state once which steps write which variable, so that each part is proved only over
  the steps that can disturb it.
* `OwnerRepairProofs`, discovery: `WhatIsFrozen` (`FrozenDiscriminates`), from `DiscoveryInv`:
  `Measured` and `AsExpected` say that each control that was measured, the wrong answer among
  them, gave what is expected of it on the source as it was, and that this is the source as
  it is, or the next look finds out. Its premise is that `MaxEdits` is at most 1: somebody who puts the source back
  between two looks is not seen. What it needs of the rules about test modules are two
  theorems for all modules: `RulesPreserve`, that an accepted module keeps every original
  test (`OriginalStands`), and `OriginalKept`, that the original is accepted. The loop that
  looks for one original statement after another is a recursive function, `Cursor`;
  the lemmas prove by induction that it exists, rises, and meets each statement it passes
  at exactly one place, `PlaceOf`. Those places keep the order. Additions before one are
  excluded unless the statement evaluates nothing, and additions have names of their own,
  so that the last binding of each name before a place, and at the end, is the original's.
* `ResearchProofs`: `NeverOverBudget`, `NothingUncounted`, `CitedWasRead`, `HonestVerdict`.
  `Counting` is the invariant behind the first two: while the task runs, what was sent is
  what the budget counts, what the RemoteCollector knows is what its jobs have used, and
  a job's limit with it stays within the limit of the task. A job that is accepted fits
  (`AcceptableFits`), whether the task hears of it (`SubmitFits`) or not (`UnheardFits`). `Reading` says that the ids of
  the report are its positions and that each claim cites what was shown in its round;
  `Judging` that the verdict and the failures agree until the task is saved.
* `FormalProofs`: `StagesOnce`, from the order of the stages within one process and the
  worktree that only one process can add; `OneModel`, from the three looks in a row that
  were all made after the last load; `Integrates` and `ExternalVerified`, from an
  invariant that says of each snapshot which content it is of. Integration rests on
  the bound that each thing is touched once. `FormalTyped` rests on `JobTyped`, which adds
  that its bundle is there while the auditor reads it.
* `FormalProofs`, the campaign: `NothingRepeats`. Memory and disk both fit the list of jobs:
  those they count have ended, and the one they call active is the last. `StopsAreKept`
  (`NothingRunsAfterAStop`) adds that each of the two states accounts for how those jobs ended
  (`StatesAccount`, in `Stops`) and that the loop goes on only where no stop is due (`GoesOn`);
  `InfraKept` says that behind a failure by infrastructure it goes on only when a process died
  between that result and its stop.
  `CampaignTyped` rests on `Limits`: a state counts no more failures than it has results.
* `ExecutionProofs`: `OneAtATime` and `ServedIfAccepted` about the triage. The invariant is
  `SessionsInv`: each gateway has at most one request between its admission and its seal, only
  the session that runs has one at the model, and an accepted session was heard to
  its end. A captured session answers in turn, so that a trace in which every request was
  heard leaves no place for another; a session of the evaluation admits any request, and
  there it is a matter of counting. `SuccessBacked` about coding jobs is for `Posix`:
  elsewhere only the leader of the processes is stopped, and its helpers may write while the
  patch is taken. On POSIX those of the group are stopped; a process that left it excuses the
  patch, but neither the validation nor the removal of worktree and copy. `CodingTyped` rests
  on `Placed`: wherever a child may run or a patch be taken, there is a worktree.
* `KarteProofs`: `KeepsReceipts` (the refinement of `ReceiptContract`) and
  `FilesComplete`. The latches are written before the state, and a call loads them all;
  that the state is put back at most once is used. `ResultsTyped` gives the files their types.

The assumptions are those on the constants (`ManagerAssumption`, `NullAssumption`,
`WorkerAssumption`, `UploadAssumption`, `LineageAssumption`, `BridgeAssumption`,
`RepairAssumption`, `DiscoveryAssumption`, `TestAssumption`, `ResearchAssumption`,
`FormalRunAssumption`, `CampaignAssumption`, `CodingAssumption`, `TriageAssumption`,
`KarteAssumption`), which TLC evaluates for each run.

Every safety property that a run checks is stated by a theorem, and so is the type invariant
of every module that states one; the runs spend their time on the other properties. Only model-checked is
liveness (`EveryJobEnds`, `EveryRequestConcluded`, `EveryRepairEnds`, `EveryRunSaves`,
`DiscoveryEnds`, `CommitsEnd`, `EveryRunEnds`), which is out of the prover's reach.

## 5. Not modelled

* Manager: the expiry of observation results after 30 days (the clock's horizon is
  far below), the HTTP layer, failures of SQLite itself.
* Worker: replies of 5xx, a request that arrives after its caller gave up; the
  observe mode is treated like search.
* Discord transport: the protocol of `RuntimeGateway` (plan, approve, chat, cancel),
  reply context and the answers table, texts and their splitting, the caps of 10000
  intakes and jobs, an intake whose channel left the primary scope, failure notices
  that are not counted for the drain, I/O errors of the marker and the activity file.
* Repair controller: the contents of public evidence and of review requests, a review
  comment posted twice after a crash, pull requests after their job has ended,
  `next_poll_at`. Discovery: the fresh strategy after a failure, prompts, private
  evidence, more than one registered repository, `prepare_completion` and the native test
  profile of `check_completion.py`; the checker is deterministic.
* Research: the wording of answers and of the report, the choice of passages, the bytes
  and the seconds of the budget except the end of the task's time, more than one claim
  per round.
* Formal job: what happens inside of the agent, the parsing of its trace, deadlines as
  numbers (a deadline is one of the reasons of `Refused`), the isolated Strata runner.
* Coding: profiles, metrics, the command line, the review of results.
* Karte: the diagnostics that a failed recovery leaves.
* Triage: the sandbox of the verifier, the fixtures, the scores of `evaluate`, the evidence
  of a run that ends after its planner; the checks of a request's wire format are one
  comparison with the last preview.
* The components with status `not_modelled` in `PROJECT.json`, with the reason there: pure
  I/O, string analysis, command lines and the host of the coding agent, none of which keeps
  state that two actors share.

## 6. Where code and documents disagree

Found while modelling. The properties are stated for what the code does keep, and
name the exception:

* A lost root counts as having used nothing, so a child gets its whole budget again
  (manager.py:395; docs/adr/0003-phase2-distributed-collection.md:14). `AllowanceHeld`
  excepts lost roots.
* When documents fill the cache limit, the upload of the result pack is refused and the
  job stays without a result (worker_service.py:421; the module's first lines promise
  one, worker_service.py:8).
* A message is committed as done before its requester is told (discord_runtime.py:928 and
  929, 951 and 953, 1035 and 1036, 1058). The documentation says so of answers, but promises a
  notice for an execution that was interrupted (docs/discord-runtime-bridge.md:47): a sending of
  the notice that fails, a process that ends there, and an orderly stop in the execution (958)
  leave silence. `NeverEndsInSilence` excepts these.
* When the table of executions is full, a guest's message that has a place in the queue is
  refused at its turn before it is recorded, and is asked for again for ever, so that all
  that came later wait behind it (discord_runtime.py:603 and 924), although a place was
  checked for when it came (docs/discord-runtime-bridge.md:45). `EveryRequestConcluded`
  excepts it.
* A campaign that dies between the record of an infrastructure failure and its stop runs
  the next spec when it is resumed (formal_campaign.py:238;
  docs/strata-campaign-guide.md:23). `NothingRunsAfterAStop` excepts it.
* A second cancellation ends `_stop_process` before the child has ended, which lives on
  (coding_executor.py:759; docs/coding-evaluation.md:31), and one that arrives while the
  waiting for the event is taken back is swallowed (coding_executor.py:769): the run goes on
  and may succeed, so that `SuccessIsBacked` says nothing of cancellations.

Observations:

* A lost job can never be retried: it has no result, so that `retry` answers
  `no_remaining_budget` (manager.py:686), while ADR-0003 and README.md say that the
  user retries it explicitly.
* An extract stage that is cut by the deadline under a valid lease is reported as
  succeeded (worker_service.py:230); `CutSearchIsNoSuccess` is about searches.
* The fallback after a refused result finalizes as `cancelled` with a pack that keeps
  its earlier status (worker_service.py:428).
* A transport error while the worker is stopping leaves the job without a result
  (worker_service.py:273).
* When the reply of a merge is lost, the repair is reported as failed though it is on
  the main branch, and is not deployed (owner_repair_release.py:655).
* A repair that the configuration no longer covers ends without a report
  (owner_repair_pipeline.py:175).
* A cancellation while a research task closes its clients leaves the report unsaved
  (research.py:647), though a comment says that clean-up must still save it; the
  entry of a query that is cancelled stays "running".
* The floor of 1 in `_remaining_limits` (remote_collector.py:130) makes the Manager refuse
  every extract job once the searches have used up `max_queries`.
* Results that no longer fit the budget are dropped after they were paid for
  (research.py:554).
* Starting a formal job again that has ended overwrites its status with "failed"; a crash
  leaves its own server running, which the next start takes for a foreign one and
  refuses; a failure to retain the bundle turns `review_ready` into "failed".
* A campaign that dies between the submission and the record of it as active cannot be
  resumed: the submission file is exclusive. A proposal that fails its verification
  during a resume raises before anything is saved.
* A process that agent or validation left behind and that holds their output makes the run
  wait without a limit: the errors of the agent are read to their end (coding_executor.py:653)
  by a task that is waited for behind a timeout or a cancellation as well (757), and the output of
  the validation is read likewise (733). `EveryRunSaves` excepts it. A process that left its
  group survives `killpg` (coding_executor.py:463) and may change the worktree between the patch
  and its validation; `SuccessIsBacked` excepts it. When a run has failed
  already, a copy that could not be removed is not mentioned (coding_executor.py:953).
* The first call of `record_result` for a job fixes pin and metadata: when they are wrong,
  every later call is refused. So is every call after job.json has changed. An older
  state without a latch that is put back is not noticed, though
  docs/karte-experiment-consumer.md says that a rollback is.

## 7. Plan

Done: all modules of section 2, their runs, and the proofs of section 4. What could follow:

1. `RuntimeGateway`: plan, approve, chat and cancel of one conversation, as a detail of
   `DiscordBridge`'s step.
2. The isolated Strata runner and the sandbox of the verifier.
3. Type invariants for `Research`, `Triage` and `Discovery`, which state none: their inductive
   invariants type only the variables their proofs need.
