---------------------------- MODULE JobContract ----------------------------
(***************************************************************************)
(* What the Manager promises a requester about a job, whatever the queue,  *)
(* the clock, the workers and the disk do (ADR-0003, contract 0.4):        *)
(*   - a job is executed by at most one attempt, of one worker;            *)
(*   - it gets at most one outcome, which never changes afterwards;        *)
(*   - once its cancellation was asked for while it ran, the only outcome  *)
(*     left is "cancelled";                                                *)
(*   - a result is shown only by a job that was executed and concluded.    *)
(* Jobs are independent of each other: one step may move several of them   *)
(* (the sweeper concludes every overdue job in one transaction).           *)
(***************************************************************************)
CONSTANTS Jobs, None

VARIABLES
    phase,      \* how far each job has come
    outcome,    \* the terminal state of a concluded job, None before
    executor,   \* the attempt that executes (or executed) the job, None before
    answer      \* the result envelope of the job, None when it has none

vars == <<phase, outcome, executor, answer>>

Outcomes == {"completed", "partial", "failed", "cancelled", "lost"}
Phases == {"unused", "queued", "running", "stopping", "done", "deleted"}

Init ==
    /\ phase = [j \in Jobs |-> "unused"]
    /\ outcome = [j \in Jobs |-> None]
    /\ executor = [j \in Jobs |-> None]
    /\ answer = [j \in Jobs |-> None]

Keep(j) ==
    /\ phase'[j] = phase[j]
    /\ outcome'[j] = outcome[j]
    /\ executor'[j] = executor[j]
    /\ answer'[j] = answer[j]

Submit(j) ==
    /\ phase[j] = "unused" /\ phase'[j] = "queued"
    /\ outcome'[j] = None /\ executor'[j] = None /\ answer'[j] = None

Start(j) ==
    /\ phase[j] = "queued" /\ phase'[j] = "running"
    /\ executor[j] = None /\ executor'[j] # None
    /\ outcome'[j] = outcome[j] /\ answer'[j] = answer[j]

AskCancel(j) ==
    /\ phase[j] = "running" /\ phase'[j] = "stopping"
    /\ outcome'[j] = outcome[j]
    /\ executor'[j] = executor[j]
    /\ answer'[j] = answer[j]

\* An executed job concludes with the executor's result, or is lost without one.
Conclude(j) ==
    /\ phase[j] \in {"running", "stopping"} /\ phase'[j] = "done"
    /\ executor'[j] = executor[j]
    /\ \/ /\ phase[j] = "running"
          /\ outcome'[j] \in {"completed", "partial", "failed"}
          /\ answer'[j] # None
       \/ /\ phase[j] = "running"
          /\ outcome'[j] = "lost"
          /\ answer'[j] = None
       \/ /\ phase[j] = "stopping"
          /\ outcome'[j] = "cancelled"
          /\ answer'[j] # None

\* A job nobody executed is cancelled on request or lost at its deadline.
Withdraw(j) ==
    /\ phase[j] = "queued" /\ phase'[j] = "done"
    /\ outcome'[j] \in {"cancelled", "lost"}
    /\ executor'[j] = executor[j] /\ answer'[j] = answer[j]

Delete(j) ==
    /\ phase[j] = "done" /\ phase'[j] = "deleted"
    /\ outcome'[j] = None /\ executor'[j] = None /\ answer'[j] = None

Step(j) ==
    \/ Keep(j) \/ Submit(j) \/ Start(j) \/ AskCancel(j)
    \/ Conclude(j) \/ Withdraw(j) \/ Delete(j)

Next ==
    /\ DOMAIN phase' = Jobs /\ DOMAIN outcome' = Jobs
    /\ DOMAIN executor' = Jobs /\ DOMAIN answer' = Jobs
    /\ \A j \in Jobs : Step(j)

Spec == Init /\ [][Next]_vars
=============================================================================
