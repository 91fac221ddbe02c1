------------------------------- MODULE Campaign -------------------------------
(***************************************************************************)
(* A campaign of formal jobs (src/ephy_worker/formal_campaign.py): a list  *)
(* of specs, run one after the other until all ended or something stops    *)
(* it, and resumed after its process died.  FormalRun is one such job;     *)
(* here a job is what the campaign reads of its job.json, and whether its  *)
(* proposal still verifies.                                                *)
(*                                                                         *)
(* A step ends with a write to disk.  The process can die between any two. *)
(***************************************************************************)
EXTENDS Naturals, FiniteSets, Sequences

CONSTANTS
    N,              \* specs of the plan, at most 20
    PlannerOnly,    \* those whose contract ends with the plan
    Strata,         \* those with the backend external_strata
    MaxFailures,    \* max_consecutive_failures
    MaxCrashes,     \* bound: processes that die
    Nil

ASSUME CampaignAssumption ==
    /\ N \in 1 .. 20 /\ MaxFailures \in 1 .. 3
    /\ PlannerOnly \subseteq 1 .. N /\ Strata \subseteq 1 .. N
    /\ MaxCrashes \in Nat /\ Nil \notin Nat

VARIABLES
    root,           \* the directory of the campaign exists
    disk,           \* campaign.json, Nil before the first save
    mem,            \* the state the process holds
    place,
    submission,     \* verifier-submission-<i>.json that exist
    jobs,           \* job files in the order they were submitted
    stop,           \* the STOP file exists
    unspoiled,      \* verifier-freeze.json is as it was written
    runs,           \* history: how often a job of each spec was run
    cut,            \* history: specs whose result was saved, but not what follows from it
    crashes

campaignVars == <<root, disk, mem, place, submission, jobs, stop, unspoiled, runs, cut, crashes>>

-----------------------------------------------------------------------------
Specs == 1 .. N
Proposals == {"review_ready", "external_review_pending"}
Settled == Proposals \cup {"verification_failed", "failed", "planner_stopped"}
Ended == {"completed", "stopped", "failed"}

States == [status : {"running"} \cup Ended, next : 0 .. N, failures : 0 .. N,
           results : Seq(Nat), active : Nat \cup {Nil}]
Jobs == [spec : Specs, status : Settled \cup {"queued", "running"}, infra : BOOLEAN, sound : BOOLEAN]

\* proposal_valid: TRUE or FALSE by the status; a proposal that does not verify is an exception.
Valid(j) == jobs[j].status \in Proposals
Verifies(j) == Valid(j) => jobs[j].sound

GoTo(s) == place' = s
\* save
Saved == disk' = mem
Stopped == [mem EXCEPT !.status = "stopped"]
FailedState == [mem EXCEPT !.status = "failed"]

CampaignInit ==
    /\ root = FALSE /\ disk = Nil /\ mem = Nil /\ place = "off"
    /\ submission = {} /\ jobs = <<>> /\ stop = FALSE /\ unspoiled = TRUE
    /\ runs = [i \in Specs |-> 0] /\ cut = {} /\ crashes = 0

-----------------------------------------------------------------------------
\* A new campaign: the verifier is frozen for every spec before the directory is made.
Fresh ==
    /\ place = "off" /\ ~root
    /\ root' = TRUE
    /\ mem' = [status |-> "running", next |-> 0, failures |-> 0, results |-> <<>>, active |-> Nil]
    /\ GoTo("enter")
    /\ UNCHANGED <<disk, submission, jobs, stop, unspoiled, runs, cut, crashes>>

\* Results of a job, in memory: counted by whether its proposal verifies.
Counted(j) ==
    [mem EXCEPT !.results = Append(@, j), !.next = @ + 1, !.active = Nil,
                !.failures = IF Valid(j) THEN 0 ELSE @ + 1]
\* The plan ends at a planner-only spec, and at a job that stopped there.
PlannerStops(j) == jobs[j].spec \in PlannerOnly \/ jobs[j].status = "planner_stopped"
InfraStops(j) == jobs[j].spec \in Strata /\ jobs[j].infra

\* retained_verifier_freeze
FreezeKept == unspoiled

\* --resume; a campaign that ended is left as it is.
Resume ==
    /\ place = "off" /\ disk # Nil /\ FreezeKept
    /\ disk.status = "running"
    /\ mem' = disk
    /\ GoTo(IF disk.active = Nil THEN "enter" ELSE "interrupted")
    /\ UNCHANGED <<root, disk, submission, jobs, stop, unspoiled, runs, cut, crashes>>

\* The interrupted job is closed, not replayed ...
CloseJob ==
    /\ place = "interrupted"
    /\ jobs' = IF jobs[mem.active].status \in Settled THEN jobs
               ELSE [jobs EXCEPT ![mem.active].status = "failed",
                                 ![mem.active].infra = @ \/ jobs[mem.active].spec \in Strata]
    /\ GoTo("count")
    /\ UNCHANGED <<root, disk, mem, submission, stop, unspoiled, runs, cut, crashes>>
\* ... and counted.  An exception of its verification ends the process here, nothing is saved.
CountJob ==
    /\ place = "count"
    /\ IF Verifies(mem.active)
       THEN /\ GoTo("enter")
            /\ mem' = IF PlannerStops(mem.active) \/ InfraStops(mem.active)
                      THEN [Counted(mem.active) EXCEPT !.status = "stopped"] ELSE Counted(mem.active)
       ELSE GoTo("off") /\ mem' = Nil
    /\ UNCHANGED <<root, disk, submission, jobs, stop, unspoiled, runs, cut, crashes>>

\* The first save of a process, and the stops that follow from what was resumed.
Enter ==
    /\ place = "enter"
    /\ Saved
    /\ IF mem.status = "stopped" THEN GoTo("off") /\ mem' = Nil
       ELSE IF mem.failures >= MaxFailures THEN GoTo("final") /\ mem' = Stopped
       ELSE GoTo("thaw") /\ UNCHANGED mem
    /\ UNCHANGED <<root, submission, jobs, stop, unspoiled, runs, cut, crashes>>

\* The frozen verifier is read once in each process, before the loop.
ReadFreeze ==
    /\ place = "thaw"
    /\ IF FreezeKept THEN GoTo("loop") /\ UNCHANGED mem ELSE GoTo("final") /\ mem' = FailedState
    /\ UNCHANGED <<root, disk, submission, jobs, stop, unspoiled, runs, cut, crashes>>

\* The loop ends: every spec is through, a stop is due, or an exception ended it.  The times are
\* not modelled, so that the deadline and the remaining budget may stop it at any turn.
AtLimit == mem.failures >= MaxFailures
\* The first result, if there is one, is a proposal that still verifies.
FirstIgnored == TRUE
FirstValid == \A k \in {1} \cap DOMAIN mem.results : Valid(mem.results[k]) /\ Verifies(mem.results[k])
EndLoop ==
    /\ place = "loop"
    /\ mem' \in IF mem.next = N THEN {[mem EXCEPT !.status = "completed"]} ELSE {Stopped, FailedState}
    /\ GoTo("final")
    /\ UNCHANGED <<root, disk, submission, jobs, stop, unspoiled, runs, cut, crashes>>

\* No stop is due: the observed verifier is compared with the one that was read and the comparison
\* is written before anything else.  The file is new, or the campaign fails.
SubmitAgain == TRUE
NotSubmitted == mem.next + 1 \notin submission
Observe ==
    /\ place = "loop" /\ mem.next < N
    /\ FirstValid
    /\ ~stop /\ ~AtLimit
    /\ IF NotSubmitted
       THEN /\ submission' = submission \cup {mem.next + 1}
            /\ \/ GoTo("submit") /\ UNCHANGED mem
               \/ GoTo("final") /\ mem' = FailedState
       ELSE GoTo("final") /\ mem' = FailedState /\ UNCHANGED submission
    /\ UNCHANGED <<root, disk, jobs, stop, unspoiled, runs, cut, crashes>>

\* submit: a new job directory
Submit ==
    /\ place = "submit"
    /\ jobs' = Append(jobs, [spec |-> mem.next + 1, status |-> "queued", infra |-> FALSE, sound |-> TRUE])
    /\ mem' = [mem EXCEPT !.active = Len(jobs) + 1]
    /\ GoTo("activate")
    /\ UNCHANGED <<root, disk, submission, stop, unspoiled, runs, cut, crashes>>

\* The job is in campaign.json before it runs.
Activate ==
    /\ place = "activate" /\ Saved /\ GoTo("run")
    /\ UNCHANGED <<root, mem, submission, jobs, stop, unspoiled, runs, cut, crashes>>

RunJob ==
    /\ place = "run"
    /\ jobs' = [jobs EXCEPT ![mem.active].status = "running"]
    /\ runs' = [runs EXCEPT ![mem.next + 1] = @ + 1]
    /\ GoTo("running")
    /\ UNCHANGED <<root, disk, mem, submission, stop, unspoiled, cut, crashes>>

\* The runner closes the job (FormalRun), or leaves no account of its end: it died with the job as
\* it was, or the candidate could not be retained, which leaves the outcome that was reached.
Conclusions(i) ==
    IF i \in PlannerOnly THEN {"planner_stopped", "failed"}
    ELSE {IF i \in Strata THEN "external_review_pending" ELSE "review_ready",
          "verification_failed", "failed"}
JobEnds ==
    /\ place = "running"
    /\ \/ /\ \E s \in Conclusions(mem.next + 1), sound \in BOOLEAN :
                jobs' = [jobs EXCEPT ![mem.active].status = s, ![mem.active].infra = (s = "failed"),
                                     ![mem.active].sound = sound]
          /\ GoTo("record") /\ UNCHANGED mem
       \/ /\ \/ UNCHANGED jobs
             \/ \E infra \in BOOLEAN :
                   jobs' = [jobs EXCEPT ![mem.active].status = "failed", ![mem.active].infra = infra]
          /\ GoTo("final") /\ mem' = FailedState
    /\ UNCHANGED <<root, disk, submission, stop, unspoiled, runs, cut, crashes>>

\* The result is counted and saved.  A proposal that does not verify fails the campaign, with the
\* result appended and the job still active.
Record ==
    /\ place = "record"
    /\ IF Verifies(mem.active)
       THEN /\ disk' = IF PlannerStops(mem.active)
                       THEN [Counted(mem.active) EXCEPT !.status = "stopped"] ELSE Counted(mem.active)
            /\ mem' = disk'
            /\ GoTo("decide")
       ELSE /\ mem' = [FailedState EXCEPT !.results = Append(@, mem.active)]
            /\ GoTo("final") /\ UNCHANGED disk
    /\ UNCHANGED <<root, submission, jobs, stop, unspoiled, runs, cut, crashes>>

\* The stops that follow from this result, decided after it was saved.
LastJob == mem.results[Len(mem.results)]
Due ==
    \/ mem.status = "stopped"
    \/ InfraStops(LastJob)
    \/ mem.next = 1 /\ ~Valid(LastJob)
    \/ AtLimit
Decide ==
    /\ place = "decide"
    /\ IF Due THEN GoTo("final") /\ mem' = Stopped ELSE GoTo("loop") /\ UNCHANGED mem
    /\ UNCHANGED <<root, disk, submission, jobs, stop, unspoiled, runs, cut, crashes>>

\* finally
Final ==
    /\ place = "final" /\ Saved /\ GoTo("off") /\ mem' = Nil
    /\ UNCHANGED <<root, submission, jobs, stop, unspoiled, runs, cut, crashes>>

Dies ==
    /\ place # "off" /\ crashes < MaxCrashes
    /\ crashes' = crashes + 1
    /\ cut' = IF place \in {"decide", "final"} /\ disk.active = Nil THEN cut \cup {disk.next} ELSE cut
    /\ GoTo("off") /\ mem' = Nil
    /\ UNCHANGED <<root, disk, submission, jobs, stop, unspoiled, runs>>

\* Somebody asks for a stop, spoils what a finished job froze, or the freeze of the verifier.
StopAsked == ~stop /\ stop' = TRUE /\ UNCHANGED <<root, disk, mem, place, submission, jobs, unspoiled, runs, cut, crashes>>
Spoil(j) ==
    /\ jobs[j].sound /\ jobs[j].status \in Settled
    /\ jobs' = [jobs EXCEPT ![j].sound = FALSE]
    /\ UNCHANGED <<root, disk, mem, place, submission, stop, unspoiled, runs, cut, crashes>>
Recapture ==
    /\ unspoiled /\ disk # Nil /\ unspoiled' = FALSE
    /\ UNCHANGED <<root, disk, mem, place, submission, jobs, stop, runs, cut, crashes>>

CampaignNext ==
    \/ Fresh \/ Resume \/ CloseJob \/ CountJob \/ Enter \/ ReadFreeze
    \/ EndLoop \/ Observe \/ Submit \/ Activate \/ RunJob \/ JobEnds \/ Record \/ Decide \/ Final
    \/ Dies \/ StopAsked \/ Recapture \/ \E j \in DOMAIN jobs : Spoil(j)

CampaignSpec == CampaignInit /\ [][CampaignNext]_campaignVars

-----------------------------------------------------------------------------
\* Type invariant.  A state counts no more failures than specs.
CampaignTypeOK ==
    /\ root \in BOOLEAN /\ stop \in BOOLEAN /\ unspoiled \in BOOLEAN /\ crashes \in Nat
    /\ disk \in States \cup {Nil} /\ mem \in States \cup {Nil} /\ cut \subseteq 0 .. N
    /\ \A state \in {disk, mem} \ {Nil} : state.failures <= state.next
    /\ submission \subseteq Specs /\ jobs \in Seq(Jobs) /\ runs \in [Specs -> Nat]

\* However the process dies and is resumed, no spec is submitted or run a second time, and none
\* before the one ahead of it has ended (the module's first line: "never repeats an interrupted
\* Job").
SpecRunsOnce ==
    /\ \A i \in Specs : runs[i] <= 1
    /\ \A j, k \in DOMAIN jobs : jobs[j].spec = jobs[k].spec => j = k
    /\ \A j, k \in DOMAIN jobs : j < k => jobs[j].spec < jobs[k].spec /\ jobs[j].status \in Settled

\* A job is run only while nothing before it says stop: the first job ended with a proposal, fewer
\* than the permitted number of the last ones failed, none before it was planner-only, no Strata job
\* failed by its infrastructure, and the campaign had not ended.  Judged by the jobs themselves, over
\* all processes.  One stop can be lost: that of a failure by infrastructure, if the process dies
\* after it saved the result and before it saved the stop.
NothingRunsAfterAStop ==
    [][\A i \in Specs : runs'[i] > runs[i] =>
        LET earlier == {k \in DOMAIN jobs : jobs[k].spec < i}
            ok == {k \in earlier : jobs[k].status \in Proposals}
        IN /\ disk.status = "running"
           /\ {jobs[k].spec : k \in earlier} = 1 .. i - 1
           /\ i > 1 => \E k \in ok : jobs[k].spec = 1
           /\ \A k \in earlier : jobs[k].spec \notin PlannerOnly
           /\ \A k \in earlier : InfraStops(k) => jobs[k].spec \in cut
           /\ i > MaxFailures => \E k \in ok : jobs[k].spec >= i - MaxFailures]_campaignVars

=============================================================================
