------------------------------ MODULE Lineage ------------------------------
(***************************************************************************)
(* How the Manager hands on the allowance of a job: a job may have         *)
(* children, submitted by the requester with parent_job_id or made by      *)
(* retry, and all of them draw on the requests and the time of the root    *)
(* (manager.py: retry, submit, _validate_child_allocation, _root_job,      *)
(* delete_job).                                                            *)
(*                                                                         *)
(* The five counted limits (queries, searches, sources, fetches, model     *)
(* requests) are checked alike, so one number stands for them.  Leases are *)
(* the business of module Manager: here the lease of any running job may   *)
(* be found over.  `spent` and `origin` are history: what the attempts     *)
(* really used, known to the Manager only from a result, and the root a    *)
(* job was allotted from.                                                  *)
(***************************************************************************)
EXTENDS Integers, Sequences, FiniteSets, FiniteSetsExt, Functions

CONSTANTS
    Jobs,           \* job ids
    Keys,           \* submit keys the requester chooses
    Budgets,        \* requests of the submitted budgets
    Uses,           \* requests an attempt may come to use
    Terms,          \* deadline_seconds of the submitted jobs
    Instants,       \* the instants the clock shows
    MinRemaining,   \* RETRY_MIN_REMAINING_SECONDS
    Margin,         \* RETRY_TIME_MARGIN_SECONDS
    MinChild,       \* RETRY_MIN_CHILD_SECONDS
    MaxTerm,        \* the largest deadline_seconds of the contract
    None

ASSUME LineageAssumption ==
    /\ None \notin Jobs /\ None \notin Nat
    /\ Budgets \subseteq Nat \ {0}
    /\ Uses \subseteq Nat
    /\ MaxTerm \in Nat /\ Terms \subseteq 1..MaxTerm
    /\ Instants \subseteq Nat
    /\ MinRemaining \in Nat /\ Margin \in Nat /\ MinChild \in Nat
    /\ MinChild + Margin <= MinRemaining

VARIABLES now, job, spent, origin

vars == <<now, job, spent, origin>>

Terminal == {"completed", "partial", "failed", "cancelled", "lost"}
States == {"unused", "deleted", "queued", "running", "cancel_requested"} \cup Terminal

NoJob(state) ==
    [state |-> state, key |-> None, parent |-> None, budget |-> 0,
     deadline |-> 0, usage |-> None]

Init ==
    /\ now = 0
    /\ job = [j \in Jobs |-> NoJob("unused")]
    /\ spent = [j \in Jobs |-> 0]
    /\ origin = [j \in Jobs |-> None]

-----------------------------------------------------------------------------
Present(j) == job[j].state \notin {"unused", "deleted"}
Roots == {j \in Jobs : Present(j) /\ job[j].parent = None}
Children(p) == {c \in Jobs : Present(c) /\ job[c].parent = p}

\* The recursive query: what it collects from r on.  It follows rows that are there; a
\* deleted row cuts it.
LineageOf(r) ==
    {j \in Jobs : /\ Present(j)
                  /\ \A S \in SUBSET Jobs : r \in S /\ (\A p \in S : Children(p) \subseteq S) => j \in S}
\* Empty when an ancestor is gone: the code raises unknown_parent_job.
RootOf(j) == {r \in Roots : j \in LineageOf(r)}

\* A row without a result counts with its whole budget, except the root's and
\* those cancelled in the queue.
ReservedUnlessLost(r, j) ==
    IF job[j].usage # None THEN job[j].usage
    ELSE IF j = r \/ job[j].state \in {"cancelled", "lost"} THEN 0 ELSE job[j].budget
Reserved(r, j) ==
    IF job[j].usage # None THEN job[j].usage
    ELSE IF j = r \/ job[j].state = "cancelled" THEN 0 ELSE job[j].budget

Used(r) == SumFunctionOnSet([j \in Jobs |-> Reserved(r, j)], LineageOf(r))

ParentConcluded(p) == job[p].state \in Terminal

InTime(r, term) == now + term <= job[r].deadline

ChildAllowed(p, budget, term) ==
    /\ ParentConcluded(p)
    /\ \E r \in RootOf(p) : InTime(r, term) /\ budget <= job[r].budget - Used(r)

KeyTaken(key) == \E j \in Jobs : Present(j) /\ job[j].key = key

Create(j, key, parent, budget, term) ==
    /\ job[j].state = "unused"
    /\ job' = [job EXCEPT ![j] =
                 [state |-> "queued", key |-> key, parent |-> parent,
                  budget |-> budget, deadline |-> now + term, usage |-> None]]
    /\ origin' = [origin EXCEPT ![j] =
                    IF parent = None THEN j ELSE CHOOSE r \in RootOf(parent) : TRUE]
    /\ UNCHANGED <<now, spent>>

-----------------------------------------------------------------------------
Submit(j, k, budget, term) ==
    /\ ~KeyTaken(<<k>>)
    /\ Create(j, <<k>>, None, budget, term)

SubmitChild(j, p, k, budget, term) ==
    /\ ~KeyTaken(<<k>>)
    /\ Present(p)
    /\ ChildAllowed(p, budget, term)
    /\ Create(j, <<k>>, p, budget, term)

\* The key of the next retry: the key of the job and the number of the child.
RetryKey(p) == Append(job[p].key, Cardinality(Children(p)) + 1)

Remaining(p) == IF job[p].deadline > now THEN job[p].deadline - now ELSE 0

\* Known usage, and one request held back.
RetryBudget(p) == job[p].budget - (IF job[p].usage = None THEN 0 ELSE job[p].usage) - 1

EnoughLeft(p) == RetryBudget(p) >= 1

SmallerOf(a, b) == IF a <= b THEN a ELSE b
LargerOf(a, b) == IF a <= b THEN b ELSE a

RetryTerm(p) == LargerOf(MinChild, SmallerOf(Remaining(p) - Margin, MaxTerm))

\* What retry answers, in the order of its checks.
RetryOutcome(p, key) ==
    IF job[p].state \notin {"failed", "partial", "lost"} THEN "not_retryable"
    ELSE IF Remaining(p) < MinRemaining THEN "no_remaining_time"
    ELSE IF job[p].state = "lost" /\ job[p].usage = None THEN "no_remaining_budget"
    ELSE IF ~EnoughLeft(p) THEN "no_remaining_budget"
    ELSE IF KeyTaken(key) THEN "existing"
    ELSE IF ~ChildAllowed(p, RetryBudget(p), RetryTerm(p)) THEN "refused"
    ELSE "created"

Retry(j, p, key) ==
    /\ Present(p)
    /\ RetryOutcome(p, key) = "created"
    /\ Create(j, key, p, RetryBudget(p), RetryTerm(p))

-----------------------------------------------------------------------------
\* The life of a job as far as allowances depend on it.

\* `use` is what the attempt is going to use; BudgetedCollector holds it
\* within the budget of the job.
Claim(j, use) ==
    /\ job[j].state = "queued"
    /\ job[j].deadline > now
    /\ use <= job[j].budget
    /\ job' = [job EXCEPT ![j].state = "running"]
    /\ spent' = [spent EXCEPT ![j] = use]
    /\ UNCHANGED <<now, origin>>

Finalize(j, state) ==
    /\ \/ job[j].state = "running" /\ state \in {"completed", "partial", "failed"}
       \/ job[j].state = "cancel_requested" /\ state = "cancelled"
    /\ job' = [job EXCEPT ![j].state = state, ![j].usage = spent[j]]
    /\ UNCHANGED <<now, spent, origin>>

Cancel(j) ==
    /\ job[j].state \in {"queued", "running"}
    /\ job' = [job EXCEPT ![j].state =
                 IF job[j].state = "queued" THEN "cancelled" ELSE "cancel_requested"]
    /\ UNCHANGED <<now, spent, origin>>

\* `silent`: the running jobs whose lease is found over.
SweepOnce(silent) ==
    /\ \A j \in silent : job[j].state = "running"
    /\ job' = [j \in Jobs |->
                 IF j \in silent \/ (job[j].state = "queued" /\ job[j].deadline < now)
                 THEN [job[j] EXCEPT !.state = "lost"] ELSE job[j]]
    /\ UNCHANGED <<now, spent, origin>>

DeleteJob(j) ==
    /\ job[j].state \in Terminal
    /\ job' = [job EXCEPT ![j] = NoJob("deleted")]
    /\ UNCHANGED <<now, spent, origin>>

Tick ==
    /\ \E t \in Instants : t > now /\ now' = t
    /\ UNCHANGED <<job, spent, origin>>

-----------------------------------------------------------------------------
Next ==
    \/ \E j \in Jobs, k \in Keys, b \in Budgets, d \in Terms : Submit(j, k, b, d)
    \/ \E j, p \in Jobs, k \in Keys, b \in Budgets, d \in Terms : SubmitChild(j, p, k, b, d)
    \/ \E j, p \in Jobs : Retry(j, p, RetryKey(p))
    \/ \E j, p \in Jobs, k \in Keys : Retry(j, p, <<k>>)
    \/ \E j \in Jobs, u \in Uses : Claim(j, u)
    \/ \E j \in Jobs, s \in Terminal : Finalize(j, s)
    \/ \E j \in Jobs : Cancel(j)
    \/ \E silent \in SUBSET Jobs : SweepOnce(silent)
    \/ \E j \in Jobs : DeleteJob(j)
    \/ Tick

Spec == Init /\ [][Next]_vars

-----------------------------------------------------------------------------
\* Every variable has its type: the key of a retry is that of its job and a number, and no job
\* is granted more than somebody may submit.
Granted == {0} \cup {n \in Nat : \E b \in Budgets : n <= b}
RowKeys == Seq(Keys \cup Nat)
TypeOK ==
    /\ now \in Nat
    /\ job \in [Jobs -> [state : States, key : RowKeys \cup {None}, parent : Jobs \cup {None},
                         budget : Granted, deadline : Nat, usage : Granted \cup {None}]]
    /\ spent \in [Jobs -> Granted]
    /\ origin \in [Jobs -> Jobs \cup {None}]

Allotted(r) == {j \in Jobs : origin[j] = r}
Spent(r) == SumFunctionOnSet(spent, Allotted(r))

\* While no row of a lineage was deleted and its root was not lost, all that the
\* attempts of the root and its descendants really used stays within the budget
\* of the root, lost attempts of children included (_validate_child_allocation).
AllowanceHeld ==
    \A r \in Roots :
        job[r].state # "lost" /\ (\A j \in Allotted(r) : Present(j))
        => Spent(r) <= job[r].budget

=============================================================================
