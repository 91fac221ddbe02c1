------------------------------ MODULE Manager ------------------------------
(***************************************************************************)
(* The Manager of the distributed collection (src/ephy_worker/manager.py): *)
(* a job queue, a worker registry and an artifact store over one SQLite    *)
(* connection.  Every public method holds one lock and commits one         *)
(* transaction (decorator `serialized`), so each is one action.  The       *)
(* database and the artifact directory survive a crash of the process;     *)
(* the two methods that touch the disk before they commit, add_artifact    *)
(* and delete_job, have a second action for a crash in between.            *)
(*                                                                         *)
(* A request the code refuses changes nothing: the guard of an action is   *)
(* the conjunction of the checks the method makes, and a refused call is   *)
(* a stuttering step.                                                      *)
(*                                                                         *)
(* time.time() is the integer `now`.  A lease token is issued together     *)
(* with its attempt id, both fresh, so the attempt id stands for both.     *)
(* The horizon (MaxTime) is far below the 30 days of the observation       *)
(* retention, so _expire_observations finds nothing to do here.            *)
(***************************************************************************)
EXTENDS Integers, FiniteSets, FiniteSetsExt

CONSTANTS
    Jobs,           \* job ids: uuid4, never issued twice
    Attempts,       \* attempt ids with their lease tokens: uuid4, never issued twice
    Workers,        \* ids of worker_credentials_env, numbered in name order
    Keys,           \* submit keys
    Inputs,         \* hashes of job inputs
    Kinds,          \* job kinds in use: a subset of the two kinds of the contract
    Registrations,  \* [caps, concurrency] the workers register with
    Terms,          \* deadline_seconds of the jobs submitted
    Statuses,       \* statuses the workers report
    Tags,           \* what distinguishes two envelopes of one status
    ArtifactIds, Names, Contents,   \* uploaded artifacts
    Size,           \* bytes of each content
    Manifests,      \* manifests sent with a result: sets of refs
    LeaseTTL,       \* settings.lease_ttl_seconds
    OfflineAfter,   \* settings.worker_offline_seconds
    CacheBytes,     \* budget.cache_bytes
    MaxArtifacts,   \* settings.max_artifacts_per_job
    MaxTime,        \* bound of the clock
    AutoTarget,     \* target "auto"
    None

ASSUME ManagerAssumption ==
    /\ Workers \subseteq Nat
    /\ AutoTarget \notin Workers
    /\ None \notin Attempts
    /\ None \notin Jobs
    /\ LeaseTTL \in Nat \ {0}
    /\ OfflineAfter \in Nat
    /\ Terms \subseteq Nat \ {0}
    /\ MaxTime \in Nat
    /\ Statuses \subseteq {"succeeded", "partial", "failed", "cancelled"}
    /\ Kinds \subseteq {"web.collect", "discord.observe"}
    /\ \A r \in Registrations : r.concurrency \in Nat \ {0}

VARIABLES now, job, attempt, worker, artifact, disk

vars == <<now, job, attempt, worker, artifact, disk>>

-----------------------------------------------------------------------------
Targets == Workers \cup {AutoTarget}
Terminal == {"completed", "partial", "failed", "cancelled", "lost"}
Occupying == {"running", "cancel_requested"}
\* "unused" and "deleted" are the ids without a row.
JobStates == {"unused", "deleted", "queued"} \cup Occupying \cup Terminal
\* stop_reason as far as the Manager sets it; a worker's own reason is None here.
Reasons == {None, "cancelled_by_requester", "lease_expired", "deadline_expired"}

Refs == [id : ArtifactIds, name : Names, content : Contents]
\* `fits` is the verdict of the mode check and of _validate_observation_result.
Envelopes == [attempt : Attempts, status : Statuses, fits : BOOLEAN,
              tag : Tags, manifest : Manifests]

\* None stands for SQL NULL, which no value of a column equals.
ASSUME NullAssumption ==
    None \notin Envelopes /\ None \notin Registrations /\ None \notin JobStates

JobRow ==
    [state : JobStates, key : Keys \cup {None}, input : Inputs \cup {None},
     kind : Kinds \cup {None}, target : Targets \cup {None},
     created : Nat, deadline : Nat, worker : Workers \cup {None},
     attempt : Attempts \cup {None}, reason : Reasons,
     result : Envelopes \cup {None}]
AttemptRow ==
    [status : {"unused", "live", "deleted"}, job : Jobs \cup {None},
     worker : Workers \cup {None}, created : Nat, expires : Nat,
     finalized : BOOLEAN]
WorkerRow ==
    [state : {"unregistered", "online", "offline"},
     reg : Registrations \cup {None}, heartbeat : Nat]

NoJob(state) ==
    [state |-> state, key |-> None, input |-> None, kind |-> None,
     target |-> None, created |-> 0, deadline |-> 0, worker |-> None,
     attempt |-> None, reason |-> None, result |-> None]
NoAttempt(status) ==
    [status |-> status, job |-> None, worker |-> None, created |-> 0,
     expires |-> 0, finalized |-> FALSE]

Init ==
    /\ now = 0
    /\ job = [j \in Jobs |-> NoJob("unused")]
    /\ attempt = [a \in Attempts |-> NoAttempt("unused")]
    /\ worker = [w \in Workers |->
                    [state |-> "unregistered", reg |-> None, heartbeat |-> 0]]
    /\ artifact = {}
    /\ disk = [a \in Attempts |-> [n \in Names |-> None]]

-----------------------------------------------------------------------------
\* Rows and who may be given work.

Present(j) == job[j].state \notin {"unused", "deleted"}
Live(a) == attempt[a].status = "live"
Expired(a) == attempt[a].expires < now

Required(j) == {job[j].kind}
Fresh(w) == worker[w].state = "online" /\ worker[w].heartbeat >= now - OfflineAfter
Active(w) == Cardinality({j \in Jobs : job[j].worker = w /\ job[j].state \in Occupying})
HasSlot(w) == Active(w) < worker[w].reg.concurrency

\* MAX(attempts.created_at), 0 for a worker that never had one.
Assigned(w) == Max({0} \cup {attempt[a].created : a \in {b \in Attempts : attempt[b].worker = w}})

Eligible(j) == {w \in Workers : Fresh(w) /\ HasSlot(w) /\ Required(j) \subseteq worker[w].reg.caps}

\* The sort key (active / concurrency, assigned, worker_id).
Precedes(v, w) ==
    LET lv == Active(v) * worker[w].reg.concurrency
        lw == Active(w) * worker[v].reg.concurrency
    IN  \/ lv < lw
        \/ lv = lw /\ Assigned(v) < Assigned(w)
        \/ lv = lw /\ Assigned(v) = Assigned(w) /\ v < w

Offered(w, j) ==
    \/ job[j].target = w
    \/ /\ job[j].target = AutoTarget
       /\ w \in Eligible(j)
       /\ \A v \in Eligible(j) \ {w} : Precedes(w, v)

Waiting(j) == job[j].state = "queued" /\ job[j].deadline > now

MayTakeUnable(w, j) == Waiting(j) /\ Offered(w, j)
MayTake(w, j) ==
    Waiting(j) /\ Required(j) \subseteq worker[w].reg.caps /\ Offered(w, j)

\* Oldest first; job ids of one instant are in no particular order.
Claimable(w) ==
    {j \in Jobs : /\ MayTake(w, j)
                  /\ \A k \in Jobs : MayTake(w, k) => job[j].created <= job[k].created}

WaitReason(j) ==
    LET t == job[j].target IN
    IF t = AutoTarget THEN IF Eligible(j) = {} THEN "no_eligible_worker" ELSE None
    ELSE IF worker[t].state = "unregistered" THEN "target_worker_unregistered"
    ELSE IF ~Fresh(t) THEN "target_worker_offline"
    ELSE IF ~(Required(j) \subseteq worker[t].reg.caps) THEN "target_worker_capability_mismatch"
    ELSE None

-----------------------------------------------------------------------------
\* The registry and the queue.

Register(w, r) ==
    /\ worker' = [worker EXCEPT ![w] = [state |-> "online", reg |-> r, heartbeat |-> now]]
    /\ UNCHANGED <<now, job, attempt, artifact, disk>>

\* A key already in the table returns its job or refuses another input.
KeyTaken(k) == \E j \in Jobs : Present(j) /\ job[j].key = k

QueuedJob(k, i, kind, target, term) ==
    [state |-> "queued", key |-> k, input |-> i, kind |-> kind, target |-> target,
     created |-> now, deadline |-> now + term, worker |-> None, attempt |-> None,
     reason |-> None, result |-> None]

\* The last conjunct bounds the clock: every lease of the job ends before MaxTime.
Submit(j, k, i, kind, target, term) ==
    /\ job[j].state = "unused"
    /\ ~KeyTaken(k)
    /\ now + term + LeaseTTL <= MaxTime
    /\ job' = [job EXCEPT ![j] = QueuedJob(k, i, kind, target, term)]
    /\ UNCHANGED <<now, attempt, worker, artifact, disk>>

Claim(w, j, a) ==
    /\ Fresh(w)
    /\ HasSlot(w)
    /\ j \in Claimable(w)
    /\ attempt[a].status = "unused"
    /\ attempt' = [attempt EXCEPT ![a] =
                     [status |-> "live", job |-> j, worker |-> w, created |-> now,
                      expires |-> now + LeaseTTL, finalized |-> FALSE]]
    /\ job' = [job EXCEPT ![j].state = "running", ![j].worker = w, ![j].attempt = a]
    /\ UNCHANGED <<now, worker, artifact, disk>>

\* A lease is renewed up to the deadline of the job and not beyond it.
RenewedUntil(j) == IF now + LeaseTTL <= job[j].deadline THEN now + LeaseTTL ELSE job[j].deadline

HoldsLease(w, j, a) ==
    Live(a) /\ attempt[a].job = j /\ attempt[a].worker = w /\ job[j].attempt = a

RenewLease(w, j, a) ==
    /\ Present(j)
    /\ HoldsLease(w, j, a)
    /\ ~attempt[a].finalized
    /\ job[j].state \notin Terminal
    /\ ~Expired(a)
    /\ job[j].deadline >= now
    /\ attempt' = [attempt EXCEPT ![a].expires = RenewedUntil(j)]
    /\ UNCHANGED <<now, job, worker, artifact, disk>>

Cancel(j) ==
    /\ \/ /\ job[j].state = "queued"
          /\ job' = [job EXCEPT ![j].state = "cancelled",
                                ![j].reason = "cancelled_by_requester"]
       \/ /\ job[j].state = "running"
          /\ job' = [job EXCEPT ![j].state = "cancel_requested"]
    /\ UNCHANGED <<now, attempt, worker, artifact, disk>>

-----------------------------------------------------------------------------
\* Results.

Stored(j, a, r) ==
    [job |-> j, attempt |-> a, id |-> r.id, name |-> r.name, content |-> r.content] \in artifact

ConcludedAnyway(state, status) ==
    IF state \in Occupying THEN IF status = "succeeded" THEN "completed" ELSE status ELSE None
\* The state a running job or a cancelled one is concluded with; None is refused.
Concluded(state, status) ==
    IF state = "running" /\ status # "cancelled"
    THEN IF status = "succeeded" THEN "completed" ELSE status
    ELSE IF state = "cancel_requested" /\ status = "cancelled" THEN "cancelled" ELSE None

ManifestKnown(j, a, e) ==
    \A r \in e.manifest : \E x \in artifact : x.job = j /\ x.name = r.name
ManifestStored(j, a, e) == \A r \in e.manifest : Stored(j, a, r)

MayFinalize(w, j, a, e) ==
    /\ Present(j)
    /\ HoldsLease(w, j, a)
    /\ ~attempt[a].finalized
    /\ ~Expired(a)
    /\ e.attempt = a
    /\ e.fits
    /\ Concluded(job[j].state, e.status) # None
    /\ ManifestStored(j, a, e)

Finalize(w, j, a, e) ==
    /\ MayFinalize(w, j, a, e)
    /\ job' = [job EXCEPT ![j].state = Concluded(job[j].state, e.status),
                          ![j].reason = IF e.status = "cancelled"
                                        THEN "cancelled_by_requester" ELSE None,
                          ![j].result = e]
    /\ attempt' = [attempt EXCEPT ![a].finalized = TRUE]
    /\ UNCHANGED <<now, worker, artifact, disk>>

-----------------------------------------------------------------------------
\* Artifacts.

ArtifactsOf(j) == {x \in artifact : x.job = j}
BytesOf(j) == MapThenSumSet(LAMBDA x : Size[x.content], ArtifactsOf(j))

NameUnchecked(j, r) == TRUE
NameFree(j, r) == \A x \in ArtifactsOf(j) : x.name # r.name

WithinLimits(j, r) ==
    /\ BytesOf(j) + Size[r.content] <= CacheBytes
    /\ Cardinality(ArtifactsOf(j)) < MaxArtifacts

\* A ref already stored under its id is returned as it is, or refused.
MayStore(w, j, a, r) ==
    /\ Present(j)
    /\ HoldsLease(w, j, a)
    /\ ~attempt[a].finalized
    /\ job[j].state \in Occupying
    /\ ~Expired(a)
    /\ \A x \in artifact : x.id # r.id
    /\ WithinLimits(j, r)
    /\ NameFree(j, r)

AddArtifact(w, j, a, r) ==
    /\ MayStore(w, j, a, r)
    /\ disk' = [disk EXCEPT ![a][r.name] = r.content]
    /\ artifact' = artifact \cup
         {[job |-> j, attempt |-> a, id |-> r.id, name |-> r.name, content |-> r.content]}
    /\ UNCHANGED <<now, job, attempt, worker>>

\* The process dies after os.replace and before the row is committed.
AddArtifactCrash(w, j, a, r) ==
    /\ MayStore(w, j, a, r)
    /\ disk' = [disk EXCEPT ![a][r.name] = r.content]
    /\ UNCHANGED <<now, job, attempt, worker, artifact>>

Without(d, doomed) ==
    [a \in Attempts |-> [n \in Names |-> IF <<a, n>> \in doomed THEN None ELSE d[a][n]]]
FilesOf(j) == {b \in Attempts : attempt[b].job = j} \X Names
Files == {f \in Attempts \X Names : disk[f[1]][f[2]] # None}

\* unlink and rmtree ignore errors: the files of `kept` stay on the disk.
DeleteJob(j, kept) ==
    /\ Present(j)
    /\ job[j].state \in Terminal
    /\ artifact' = artifact \ ArtifactsOf(j)
    /\ attempt' = [a \in Attempts |->
                     IF attempt[a].job = j THEN NoAttempt("deleted") ELSE attempt[a]]
    /\ job' = [job EXCEPT ![j] = NoJob("deleted")]
    /\ disk' = Without(disk, FilesOf(j) \ kept)
    /\ UNCHANGED <<now, worker>>

\* The process dies between the unlinks and the commit.
DeleteJobCrash(j, gone) ==
    /\ Present(j)
    /\ job[j].state \in Terminal
    /\ disk' = Without(disk, {<<x.attempt, x.name>> : x \in ArtifactsOf(j)} \cap gone)
    /\ UNCHANGED <<now, job, attempt, worker, artifact>>

-----------------------------------------------------------------------------
\* The sweeper, and time.

LeaseOver(j) ==
    job[j].state = "running" /\ job[j].attempt # None /\ attempt[job[j].attempt].expires <= now
LeaseOrStopRanOut(j) ==
    job[j].state \in Occupying /\ job[j].attempt # None /\ Expired(job[j].attempt)
LeaseRanOut(j) ==
    /\ job[j].state = "running"
    /\ \E a \in Attempts : Live(a) /\ attempt[a].job = j /\ job[j].attempt = a /\ Expired(a)
NeverClaimedByAny(j) ==
    job[j].state = "queued" /\ job[j].target = AutoTarget /\ job[j].deadline < now
NeverClaimed(j) == job[j].state = "queued" /\ job[j].deadline < now

SweepOnce ==
    /\ job' = [j \in Jobs |->
                 IF LeaseRanOut(j)
                 THEN [job[j] EXCEPT !.state = "lost", !.reason = "lease_expired"]
                 ELSE IF NeverClaimed(j)
                 THEN [job[j] EXCEPT !.state = "lost", !.reason = "deadline_expired"]
                 ELSE job[j]]
    /\ worker' = [w \in Workers |->
                    IF worker[w].state = "online" /\ worker[w].heartbeat < now - OfflineAfter
                    THEN [worker[w] EXCEPT !.state = "offline"] ELSE worker[w]]
    /\ UNCHANGED <<now, attempt, artifact, disk>>

Tick ==
    /\ now < MaxTime
    /\ now' = now + 1
    /\ UNCHANGED <<job, attempt, worker, artifact, disk>>

-----------------------------------------------------------------------------
Next ==
    \/ \E w \in Workers, r \in Registrations : Register(w, r)
    \/ \E j \in Jobs, k \in Keys, i \in Inputs, kind \in Kinds,
          t \in Targets, d \in Terms : Submit(j, k, i, kind, t, d)
    \/ \E w \in Workers, j \in Jobs, a \in Attempts : Claim(w, j, a)
    \/ \E w \in Workers, j \in Jobs, a \in Attempts : RenewLease(w, j, a)
    \/ \E j \in Jobs : Cancel(j)
    \/ \E w \in Workers, j \in Jobs, a \in Attempts, e \in Envelopes : Finalize(w, j, a, e)
    \/ \E w \in Workers, j \in Jobs, a \in Attempts, r \in Refs : AddArtifact(w, j, a, r)
    \/ \E w \in Workers, j \in Jobs, a \in Attempts, r \in Refs : AddArtifactCrash(w, j, a, r)
    \/ \E j \in Jobs, kept \in SUBSET Files : DeleteJob(j, kept)
    \/ \E j \in Jobs, gone \in SUBSET Files : DeleteJobCrash(j, gone)
    \/ SweepOnce
    \/ Tick

Spec == Init /\ [][Next]_vars

-----------------------------------------------------------------------------
\* Every variable has its type.
TypeOK ==
    /\ now \in Nat
    /\ job \in [Jobs -> JobRow]
    /\ attempt \in [Attempts -> AttemptRow]
    /\ worker \in [Workers -> WorkerRow]
    /\ artifact \subseteq [job : Jobs, attempt : Attempts, id : ArtifactIds,
                           name : Names, content : Contents]
    /\ disk \in [Attempts -> [Names -> Contents \cup {None}]]

\* One job, one attempt (module docstring of manager.py): the attempt rows and
\* the attempt columns of the job rows name each other, and agree on the worker.
AttemptHasJob(a) ==
    Live(a) => /\ attempt[a].job \in Jobs
               /\ Present(attempt[a].job)
               /\ job[attempt[a].job].attempt = a
               /\ job[attempt[a].job].worker = attempt[a].worker
JobHasAttempt(j) ==
    job[j].attempt # None => /\ Present(j)
                             /\ Live(job[j].attempt)
                             /\ attempt[job[j].attempt].job = j
OneAttemptPerJob ==
    (\A a \in Attempts : AttemptHasJob(a)) /\ (\A j \in Jobs : JobHasAttempt(j))

\* The state of a job tells what became of its attempt: a result is there
\* exactly when the attempt was finalized, under the state that its status
\* stands for, and a job is "lost" to its lease only when that lease is over,
\* so that no late result can contradict it (finalize against sweep_once).
Answered(j) ==
    /\ job[j].attempt # None
    /\ attempt[job[j].attempt].finalized
    /\ job[j].result # None
    /\ job[j].result.attempt = job[j].attempt
OutcomeMatches(j) ==
    /\ job[j].state \in {"unused", "deleted", "queued"} =>
         job[j].attempt = None /\ job[j].result = None
    /\ job[j].state \in Occupying =>
         /\ job[j].attempt # None
         /\ ~attempt[job[j].attempt].finalized
         /\ job[j].result = None
    /\ job[j].state \in {"completed", "partial", "failed"} =>
         Answered(j) /\ Concluded("running", job[j].result.status) = job[j].state
    /\ job[j].state = "cancelled" =>
         \/ job[j].attempt = None /\ job[j].result = None
         \/ Answered(j) /\ job[j].result.status = "cancelled"
    /\ job[j].state = "lost" =>
         /\ job[j].result = None
         /\ job[j].attempt # None =>
              ~attempt[job[j].attempt].finalized /\ Expired(job[j].attempt)
OutcomeMatchesAttempt == \A j \in Jobs : OutcomeMatches(j)

\* However often it is renewed, a lease ends by the deadline of the job or one
\* lease time after the claim, so a silent worker cannot hold a job for ever
\* (claim and renew_lease together).
LeaseEnds(a) ==
    Live(a) =>
        /\ attempt[a].created < job[attempt[a].job].deadline
        /\ \/ attempt[a].expires <= job[attempt[a].job].deadline
           \/ attempt[a].expires <= attempt[a].created + LeaseTTL
LeaseBounded == \A a \in Attempts : LeaseEnds(a)

\* A submit key names at most one job of the table (submit).
KeyNamesOneJob ==
    \A j, k \in Jobs : Present(j) /\ Present(k) /\ job[j].key = job[k].key => j = k

\* What a requester is told agrees with what a worker is given: a job that some
\* worker would be handed now is not reported as waiting (_wait_reason, claim).
WaitReasonHonest ==
    \A w \in Workers, j \in Jobs :
        Fresh(w) /\ HasSlot(w) /\ MayTake(w, j) => WaitReason(j) = None

\* What a result's manifest lists was stored by the attempt of the result and is
\* still there (finalize, add_artifact, delete_job).
ManifestBacked ==
    \A j \in Jobs : job[j].result # None =>
        \A r \in job[j].result.manifest : Stored(j, job[j].attempt, r)

\* A stored artifact is served with the bytes it was stored with or not at all,
\* also after a crash between a file and its row, and a deleted job leaves no
\* artifact row (add_artifact, delete_job, get_artifact).
ServedBytesAreStored ==
    \A x \in artifact :
        /\ Present(x.job)
        /\ job[x.job].attempt = x.attempt
        /\ disk[x.attempt][x.name] \in {None, x.content}

\* An unconfirmed cancellation outlives its lease and stays what it is: "A
\* communications failure is not stop confirmation" (sweep_once, finalize).
UnconfirmedCancelStays ==
    [][\A j \in Jobs :
          job[j].state = "cancel_requested" /\ Expired(job[j].attempt)
          => job'[j] = job[j] /\ attempt'[job[j].attempt] = attempt[job[j].attempt]]_vars

\* Nothing waits or runs for ever: a queued job leaves the queue, and an
\* executed one ends, unless its cancellation was asked for and its lease ended
\* unconfirmed (claim, renew_lease, finalize, sweep_once).
EveryJobEnds ==
    \A j \in Jobs :
        /\ job[j].state = "queued" ~> job[j].state # "queued"
        /\ job[j].state \in Occupying ~>
              \/ job[j].state \notin Occupying
              \/ job[j].state = "cancel_requested" /\ Expired(job[j].attempt)

-----------------------------------------------------------------------------
\* The queue implements the contract of a job.

Phase(state) ==
    IF state \in Terminal THEN "done"
    ELSE IF state = "cancel_requested" THEN "stopping" ELSE state

Contract == INSTANCE JobContract WITH
    phase <- [j \in Jobs |-> Phase(job[j].state)],
    outcome <- [j \in Jobs |-> IF job[j].state \in Terminal THEN job[j].state ELSE None],
    executor <- [j \in Jobs |-> job[j].attempt],
    answer <- [j \in Jobs |-> job[j].result]

\* Every behaviour of the Manager is one the contract allows: one executor, one
\* outcome that never changes, "cancelled" as the only answer to a cancellation
\* of a running job, and no result without an execution.
KeepsContract == Contract!Spec
=============================================================================
