---------------------------- MODULE WorkerService ----------------------------
(***************************************************************************)
(* One collection worker (src/ephy_worker/worker_service.py) against the   *)
(* Manager: the main loop that claims, executes and finalizes one job at a *)
(* time, the lease task that runs beside it and stops it, the heartbeat    *)
(* task, and a network (manager_client.py) on which a call may not arrive  *)
(* or its reply may get lost.                                              *)
(*                                                                         *)
(* A call and its handling are one step: the worker does nothing with a    *)
(* reply that the state it was computed from could make wrong later, and a *)
(* lost reply leaves the Manager's side of the step.  The Manager answers  *)
(* with its own codes; an answer of 5xx is not modelled.  A call that does *)
(* not get its answer raises an error of the HTTP client, which            *)
(* worker_service.py nowhere catches: it only catches ManagerAPIError.     *)
(***************************************************************************)
EXTENDS Manager

CONSTANTS
    W,          \* the worker
    ModeOf,     \* the mode of each job input: "search" or "extract"
    Documents   \* names of the documents an extract stage uploads

ASSUME WorkerAssumption ==
    /\ W \in Workers
    /\ ModeOf \in [Inputs -> {"search", "extract"}]
    /\ Documents \cup {"result-pack"} \subseteq Names
    /\ "result-pack" \notin Documents
    /\ {"whole", "cut"} \subseteq Tags

StageStatuses == {"succeeded", "partial", "failed"}
Reported == StageStatuses \cup {"cancelled"}

\* Every upload has an id of its own.
Document(a, d) == [id |-> <<a, d>>, name |-> d, content |-> "body"]
Pack(a, status) == [id |-> <<a, "result-pack">>, name |-> "result-pack", content |-> status]

DocumentsOf(a) == {Document(a, d) : d \in Documents}

\* The sets of the Manager have what this worker sends.
ASSUME UploadAssumption ==
    /\ Reported \subseteq Statuses
    /\ {"body"} \cup Reported \subseteq Contents
    /\ Attempts \X Names \subseteq ArtifactIds
    /\ \A a \in Attempts, s \in Reported, D \in SUBSET Documents :
          {Document(a, d) : d \in D} \cup {Pack(a, s)} \in Manifests

VARIABLE proc

everything == <<now, job, attempt, worker, artifact, disk, proc>>

\* What the process is doing:
\*   exited                no process runs
\*   idle                  between two polls
\*   stage                 the search or extract stage runs
\*   result                the stage is over, its result not yet uploaded
\*   finalize, fallback    the pack is uploaded; the second is after a conflict
\*   leave, raising        at the end of _execute_job, without or with an error
\*                         of the HTTP client on its way out of run()
Places == {"exited", "idle", "stage", "result", "finalize", "fallback", "leave", "raising"}

\* The process between two jobs.
Idle(beating, stopping) ==
    [at |-> "idle", beating |-> beating, stopping |-> stopping, job |-> None,
     mode |-> None, attempt |-> None, renewal |-> "off", cancel |-> FALSE, lost |-> FALSE,
     cut |-> FALSE, status |-> None, docs |-> {}, pack |-> None]

\* run() ends; `of` is the job an error of the client took it out of.
Exited(of) == [Idle(FALSE, proc.stopping) EXCEPT !.at = "exited", !.job = of]

ServiceInit == Init /\ proc = [Idle(FALSE, FALSE) EXCEPT !.at = "exited"]

Mode(j) == ModeOf[job[j].input]

-----------------------------------------------------------------------------
\* The process, its polls and its heartbeat.

StartProcess ==
    /\ proc.at = "exited"
    /\ \E r \in Registrations : Register(W, r)
    /\ proc' = Idle(TRUE, FALSE)

\* The signal is only noticed between two jobs.
RequestStop ==
    /\ proc.at # "exited" /\ ~proc.stopping
    /\ proc' = [proc EXCEPT !.stopping = TRUE]
    /\ UNCHANGED vars

Stop ==
    /\ proc.at = "idle" /\ proc.stopping
    /\ proc' = Exited(None)
    /\ UNCHANGED vars

Kill ==
    /\ proc.at # "exited"
    /\ proc' = [Idle(FALSE, FALSE) EXCEPT !.at = "exited"]
    /\ UNCHANGED vars

Heartbeat ==
    /\ proc.at # "exited" /\ proc.beating
    /\ \E r \in Registrations : Register(W, r)
    /\ UNCHANGED proc

\* An error of the client ends the heartbeat task, and nothing looks at it.
HeartbeatBreaks ==
    /\ proc.at # "exited" /\ proc.beating
    /\ proc' = [proc EXCEPT !.beating = FALSE]
    /\ UNCHANGED vars \/ \E r \in Registrations : Register(W, r)

Poll(j, a) ==
    /\ proc.at = "idle" /\ ~proc.stopping
    /\ Claim(W, j, a)
    /\ proc' = [proc EXCEPT !.at = "stage", !.job = j, !.mode = Mode(j),
                              !.attempt = a, !.renewal = "on"]

PollBreaks ==
    /\ proc.at = "idle" /\ ~proc.stopping
    /\ proc' = Exited(None)
    /\ UNCHANGED vars \/ \E j \in Jobs, a \in Attempts : Claim(W, j, a)

-----------------------------------------------------------------------------
\* The lease task.

\* The answers of renew_lease that tell the worker to stop without a result.
RenewalLost(j, a) ==
    \/ ~Present(j)
    \/ /\ ~attempt[a].finalized
       /\ job[j].state \in Terminal \/ Expired(a) \/ job[j].deadline < now

Renew ==
    /\ proc.renewal = "on"
    /\ \/ /\ RenewLease(W, proc.job, proc.attempt)
          /\ proc' = IF job[proc.job].state = "cancel_requested"
                     THEN [proc EXCEPT !.cancel = TRUE, !.renewal = "ended"] ELSE proc
       \/ /\ RenewalLost(proc.job, proc.attempt)
          /\ proc' = [proc EXCEPT !.lost = TRUE, !.renewal = "ended"]
          /\ UNCHANGED vars

RenewBreaks ==
    /\ proc.renewal = "on"
    /\ proc' = [proc EXCEPT !.renewal = "broken"]
    /\ UNCHANGED vars \/ RenewLease(W, proc.job, proc.attempt)

-----------------------------------------------------------------------------
\* One job.

\* A document is listed in the result only if its upload was answered.
StoreDocument(d, answered) ==
    /\ proc.at = "stage"
    /\ proc.mode = "extract"
    /\ AddArtifact(W, proc.job, proc.attempt, Document(proc.attempt, d))
    /\ proc' = IF answered THEN [proc EXCEPT !.docs = @ \cup {Document(proc.attempt, d)}]
               ELSE proc

\* The stage works through its input ...
EndStage(status) ==
    /\ proc.at = "stage"
    /\ proc' = [proc EXCEPT !.at = "result", !.status = status]
    /\ UNCHANGED vars

\* ... or is cancelled on an event, and what it has so far is its result.
CutStage(status) ==
    /\ proc.at = "stage" /\ (proc.cancel \/ proc.lost)
    /\ proc' = [proc EXCEPT !.at = "result", !.status = status, !.cut = TRUE]
    /\ UNCHANGED vars

\* An observation treats the two events as a search does.
StatusOrCancelled == IF proc.cancel \/ proc.lost THEN "cancelled" ELSE proc.status
StatusUnlessCancelled == IF proc.cancel THEN "cancelled" ELSE proc.status
FinalStatus ==
    IF proc.cancel THEN "cancelled"
    ELSE IF proc.mode = "search" /\ proc.lost THEN "failed"
    ELSE proc.status

UploadPack ==
    LET pack == Pack(proc.attempt, FinalStatus) IN
    /\ proc.at = "result"
    /\ \/ /\ AddArtifact(W, proc.job, proc.attempt, pack)
          /\ \/ proc' = [proc EXCEPT !.at = "finalize", !.status = FinalStatus, !.pack = pack]
             \/ proc' = [proc EXCEPT !.at = "raising"]
       \/ /\ ~MayStore(W, proc.job, proc.attempt, pack)
          /\ proc' = [proc EXCEPT !.at = "leave"]
          /\ UNCHANGED vars
       \/ proc' = [proc EXCEPT !.at = "raising"] /\ UNCHANGED vars

Envelope(status) ==
    [attempt |-> proc.attempt, status |-> status, fits |-> TRUE,
     tag |-> IF proc.cut THEN "cut" ELSE "whole", manifest |-> proc.docs \cup {proc.pack}]

\* finalize answers result_conflicts_with_cancel.
Conflicts(j, a, status) ==
    /\ HoldsLease(W, j, a)
    /\ ~attempt[a].finalized
    /\ ~Expired(a)
    /\ job[j].state \in Occupying
    /\ Concluded(job[j].state, status) = None

SendResult(status) ==
    /\ Finalize(W, proc.job, proc.attempt, Envelope(status))
    /\ \/ proc' = [proc EXCEPT !.at = "leave"]
       \/ proc' = [proc EXCEPT !.at = "raising"]

ResultRefused(status) ==
    /\ ~MayFinalize(W, proc.job, proc.attempt, Envelope(status))
    /\ UNCHANGED vars

\* The status was settled before the pack was made.
SentStatus == proc.status
FinalizeJob ==
    /\ proc.at = "finalize"
    /\ \/ SendResult(SentStatus)
       \/ /\ ResultRefused(SentStatus)
          /\ proc' = [proc EXCEPT !.at = IF Conflicts(proc.job, proc.attempt, SentStatus)
                                         THEN "fallback" ELSE "leave"]
       \/ proc' = [proc EXCEPT !.at = "raising"] /\ UNCHANGED vars

FallbackStatus == "cancelled"
FinalizeCancelled ==
    /\ proc.at = "fallback"
    /\ \/ SendResult(FallbackStatus)
       \/ ResultRefused(FallbackStatus) /\ proc' = [proc EXCEPT !.at = "leave"]
       \/ proc' = [proc EXCEPT !.at = "raising"] /\ UNCHANGED vars

\* Awaiting the lease task raises the error that ended it.
LeaveJob ==
    /\ proc.at \in {"leave", "raising"}
    /\ proc' = IF proc.at = "raising" \/ proc.renewal = "broken"
               THEN Exited(proc.job) ELSE Idle(proc.beating, proc.stopping)
    /\ UNCHANGED vars

-----------------------------------------------------------------------------
\* What goes on around the worker.

Outside ==
    \/ \E j \in Jobs, k \in Keys, i \in Inputs, kind \in Kinds, d \in Terms :
          Submit(j, k, i, kind, W, d)
    \/ \E j \in Jobs : Cancel(j)
    \/ \E j \in Jobs : DeleteJob(j, {})
    \/ SweepOnce
    \/ Tick

ServiceNext ==
    \/ StartProcess \/ RequestStop \/ Stop \/ Kill
    \/ Heartbeat \/ HeartbeatBreaks
    \/ \E j \in Jobs, a \in Attempts : Poll(j, a)
    \/ PollBreaks
    \/ Renew \/ RenewBreaks
    \/ \E d \in Documents, answered \in BOOLEAN : StoreDocument(d, answered)
    \/ \E s \in StageStatuses : EndStage(s) \/ CutStage(s)
    \/ UploadPack \/ FinalizeJob \/ FinalizeCancelled \/ LeaveJob
    \/ Outside /\ UNCHANGED proc

ServiceSpec == ServiceInit /\ [][ServiceNext]_everything

\* asyncio runs the lease task again after each sleep, and a cancelled stage task;
\* the sweeper of the Manager runs once a second.
FairServiceSpec ==
    /\ ServiceSpec
    /\ WF_everything(Renew)
    /\ WF_everything(\E s \in StageStatuses : CutStage(s))
    /\ WF_everything(Tick /\ UNCHANGED proc)
    /\ WF_everything(SweepOnce /\ UNCHANGED proc)

-----------------------------------------------------------------------------
\* The process is in one of its places, with what belongs there.
Process ==
    [at : Places, beating : BOOLEAN, stopping : BOOLEAN, job : Jobs \cup {None},
     mode : {"search", "extract", None}, attempt : Attempts \cup {None},
     renewal : {"off", "on", "ended", "broken"}, cancel : BOOLEAN, lost : BOOLEAN,
     cut : BOOLEAN, status : Reported \cup {None}, docs : SUBSET Refs,
     pack : Refs \cup {None}]
ServiceTypeOK ==
    /\ proc \in Process
    /\ proc.at \notin {"exited", "idle"} =>
         /\ proc.job \in Jobs /\ proc.attempt \in Attempts /\ proc.mode \in {"search", "extract"}
         /\ proc.docs \subseteq DocumentsOf(proc.attempt)
    /\ proc.at \in {"exited", "idle"} =>
         proc.renewal = "off" /\ proc.docs = {} /\ ~proc.cancel /\ ~proc.lost /\ ~proc.cut
    /\ proc.at = "result" => proc.status \in StageStatuses
    /\ proc.at \in {"finalize", "fallback"} =>
         proc.status \in Reported /\ proc.pack = Pack(proc.attempt, proc.status)

\* A worker does not walk away from a job it still holds: when it is through
\* with one and its calls were answered, the job is concluded or its lease is
\* over, whoever asked for a cancellation when (_finalize and its fallback).
NoJobAbandoned ==
    proc.at = "leave" => \/ job[proc.job].state \notin Occupying
                         \/ Expired(proc.attempt)

\* What NoJobAbandoned rests on: the artifacts of a job leave room for its result
\* pack.  No setting of the worker sees to that: a pack the Manager has no room for
\* is refused, and _finalize returns.
RoomForPack ==
    proc.at = "result" =>
        \A s \in Reported : WithinLimits(proc.job, Pack(proc.attempt, s))

\* The worker works under a valid lease only on a job that goes on: nobody is
\* told the outcome of a job whose executor may still go to the network
\* (_lease_loop, sweep_once, finalize).
NoWorkAfterTheEnd ==
    proc.at = "stage" /\ ~Expired(proc.attempt)
    => job[proc.job].state \in Occupying /\ job[proc.job].attempt = proc.attempt

\* A search that was cut short is never reported as a success (_execute_job).
CutSearchIsNoSuccess ==
    \A j \in Jobs :
        job[j].result # None /\ Mode(j) = "search" /\ job[j].result.tag = "cut"
        => job[j].result.status \in {"failed", "cancelled"}

=============================================================================
