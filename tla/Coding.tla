-------------------------------- MODULE Coding --------------------------------
(***************************************************************************)
(* One coding job (src/ephy_worker/coding_executor.py): a detached         *)
(* worktree, optionally of a copy of the working tree, an agent that edits *)
(* it, the snapshot of its patch, the validation command, the removal of   *)
(* everything temporary and the saved result.                              *)
(*                                                                         *)
(* Only agent and validation are awaited: there the job can be cancelled   *)
(* by its event or its task, and can run out of time (Interrupt).  All     *)
(* else is synchronous, and each call of git or the file system can fail.  *)
(* A child process has helpers of its own that write to the worktree as    *)
(* long as they live, and may outlive it: with its process group, or       *)
(* having left it, and with its output open, or not.                       *)
(***************************************************************************)
EXTENDS Naturals

\* Of the codes that refuse a job before the agent is started one stands for all.
Failures == {"cancelled", "execution_timeout", "validation_failure", "pi_rpc_failure",
             "sandbox_unavailable", "worktree_creation_failure", "repository_unavailable",
             "internal_worker_failure"}
Helpers == [inGroup : BOOLEAN, holds : BOOLEAN]

CONSTANTS
    Contents, Base,     \* of the worktree, and the one it begins with
    Good,               \* contents the validation command accepts
    Sources,            \* subset of {"revision", "working-tree"}
    Posix,              \* processes are stopped by group, elsewhere one by one
    MaxCancels,         \* bound: cancellations of the task
    None, Gone          \* no worktree yet; it could not be made, or was removed

Results == [status : {"succeeded", "cancelled", "failed"}, patch : Contents \cup {None}]

ASSUME CodingAssumption ==
    /\ Base \in Contents /\ Good \subseteq Contents
    /\ Sources \subseteq {"revision", "working-tree"}
    /\ Posix \in BOOLEAN /\ MaxCancels \in Nat
    /\ None # Gone /\ None \notin Contents /\ Gone \notin Contents /\ None \notin Failures
    /\ None \notin BOOLEAN /\ None \notin Results

VARIABLES
    source, pc,
    copy,           \* the copy of the working tree is there
    worktree,       \* its content, None or Gone
    child, helpers, \* the child process lives, and so do processes it started
    strayed,        \* history: one of those left its process group
    event,          \* cancel_event is set
    snapshot,       \* what worktree.snapshot returned
    given,          \* history: the content the validation began with
    passed,         \* validation.passed, None before
    failure,        \* code of the CodingFailure
    cleaned,        \* what cleanup returned
    result,         \* what the store saved
    cancels

setup == <<source, copy>>
processes == <<child, helpers, strayed>>
outcome == <<snapshot, given, passed, failure, cleaned, result>>
vars == <<setup, pc, worktree, processes, event, outcome, cancels>>

-----------------------------------------------------------------------------
Init ==
    /\ source \in Sources /\ copy = FALSE /\ pc = "prepare" /\ worktree = None
    /\ child = FALSE /\ helpers = {} /\ strayed = FALSE /\ event \in BOOLEAN
    /\ snapshot = None /\ given = None /\ passed = None /\ failure = None
    /\ cleaned = FALSE /\ result = None /\ cancels = 0

Fails(code) == failure' = code /\ pc' = "finally"

\* _validate_profile, the sandbox, and _source: a working tree must be at its current HEAD.
Prepare ==
    /\ pc = "prepare"
    /\ \/ pc' = (IF source = "working-tree" THEN "copy" ELSE "worktree") /\ UNCHANGED failure
       \/ \E code \in {"repository_unavailable", "sandbox_unavailable", "internal_worker_failure"} : Fails(code)
    /\ UNCHANGED <<setup, worktree, processes, event, snapshot, given, passed, cleaned, result, cancels>>

\* WorkingTreeSnapshot.create; when a file cannot be read it removes what it copied, or fails to.
CopyWorkingTree ==
    /\ pc = "copy"
    /\ \/ copy' = TRUE /\ pc' = "worktree" /\ UNCHANGED failure
       \/ copy' \in BOOLEAN /\ Fails("repository_unavailable")
    /\ UNCHANGED <<source, worktree, processes, event, snapshot, given, passed, cleaned, result, cancels>>

\* GitWorktree.create; a call of git that ran out of time may have made it.
CreateWorktree ==
    /\ pc = "worktree"
    /\ \/ worktree' = Base /\ pc' = "agent" /\ UNCHANGED failure
       \/ worktree' = Gone /\ Fails("worktree_creation_failure")
       \/ worktree' = Base /\ Fails("repository_unavailable")
    /\ UNCHANGED <<setup, processes, event, snapshot, given, passed, cleaned, result, cancels>>

-----------------------------------------------------------------------------
\* Children.  A wait begins even when the event is set already, and ends at once then.
Start(s) ==
    /\ pc = s /\ ~child
    /\ child' = TRUE
    /\ given' = IF s = "validate" THEN worktree ELSE given
    /\ UNCHANGED <<setup, pc, worktree, helpers, strayed, event, snapshot, passed, failure, cleaned, result, cancels>>

\* No agent, or a command that cannot be executed: a validation that cannot start has failed.
StartFails ==
    /\ pc \in {"agent", "validate"} /\ ~child
    /\ \/ pc = "agent" /\ Fails("pi_rpc_failure") /\ UNCHANGED passed
       \/ Fails("sandbox_unavailable") /\ UNCHANGED passed
       \/ pc = "validate" /\ Fails("validation_failure") /\ passed' = FALSE
    /\ UNCHANGED <<setup, worktree, processes, event, snapshot, given, cleaned, result, cancels>>

\* Child and helpers write to the worktree, and start helpers, which have no more of the group and
\* of the output than who started them.
Write ==
    /\ child \/ helpers # {}
    /\ worktree \in Contents /\ worktree' \in Contents
    /\ UNCHANGED <<setup, pc, processes, event, outcome, cancels>>
Forks(h) ==
    /\ child \/ \E k \in helpers : (h.inGroup => k.inGroup) /\ (h.holds => k.holds)
    /\ helpers' = helpers \cup {h}
    /\ strayed' = (strayed \/ ~h.inGroup)
    /\ UNCHANGED <<setup, pc, worktree, child, event, outcome, cancels>>
HelperEnds(h) ==
    /\ h \in helpers /\ helpers' = helpers \ {h}
    /\ UNCHANGED <<setup, pc, worktree, child, strayed, event, outcome, cancels>>

\* PiRpcRunner.run: the agent settled, or said why it did not, and is stopped in any case.
AgentEnds ==
    /\ pc = "agent" /\ child
    /\ pc' = "stop agent"
    /\ failure' \in {None, "pi_rpc_failure"}
    /\ UNCHANGED <<setup, worktree, processes, event, snapshot, given, passed, cleaned, result, cancels>>

\* _stop_process: the whole group, also when its leader has ended; elsewhere the leader only.
StopsLeader == FALSE
StopsGroup == Posix
Killed == child' = FALSE /\ helpers' = {h \in helpers : ~(StopsGroup /\ h.inGroup)} /\ UNCHANGED strayed
StopAgent ==
    /\ pc = "stop agent"
    /\ Killed /\ pc' = "agent output"
    /\ UNCHANGED <<setup, worktree, event, outcome, cancels>>
\* Its errors are read to the end, which comes when nobody holds them open any more.
Held == \E h \in helpers : h.holds
ReadAgent ==
    /\ pc = "agent output" /\ ~Held
    /\ pc' = IF failure = None THEN "snapshot" ELSE "finally"
    /\ UNCHANGED <<setup, worktree, processes, event, outcome, cancels>>

\* _run_argv: once for an end of the wait, and once more in its finally if that was cut off.
StopValidation ==
    /\ pc \in {"stop validation", "stop again"}
    /\ Killed /\ pc' = "drain"
    /\ UNCHANGED <<setup, worktree, event, outcome, cancels>>

\* GitWorktree.snapshot; past the deadline there is no validation.
Snapshot ==
    /\ pc = "snapshot"
    /\ \/ snapshot' = worktree /\ pc' = "validate" /\ UNCHANGED failure
       \/ snapshot' = worktree /\ Fails("execution_timeout")
       \/ Fails("internal_worker_failure") /\ UNCHANGED snapshot
    /\ UNCHANGED <<setup, worktree, processes, event, given, passed, cleaned, result, cancels>>

\* _run_argv: the command judges what it finds, and the event overrules what it says.
Overruled == event
ValidationEnds ==
    /\ pc = "validate" /\ child
    /\ child' = FALSE
    /\ IF Overruled THEN failure' = "cancelled" /\ pc' = "stop validation" /\ UNCHANGED passed
       ELSE passed' = (worktree \in Good) /\ pc' = "drain" /\ UNCHANGED failure
    /\ UNCHANGED <<setup, worktree, helpers, strayed, event, snapshot, given, cleaned, result, cancels>>

\* Its output is read to the end, however long a helper keeps it open: no timeout, no event here.
Drain ==
    /\ pc = "drain" /\ ~Held
    /\ \/ /\ failure' = IF failure = None /\ passed = FALSE THEN "validation_failure" ELSE failure
          /\ pc' = "finally" /\ UNCHANGED passed
       \/ failure = None /\ Fails("sandbox_unavailable") /\ passed' = None
    /\ UNCHANGED <<setup, worktree, processes, event, snapshot, given, cleaned, result, cancels>>

\* _run_agent_with_limits and _run_argv: the time is over or the event is set.  The agent is waited
\* for until it was stopped and read, unless a limit ended that wait: what follows has no limit.
\* A limit that meets the stopping cuts it off.
Unlimited == failure \in {None, "pi_rpc_failure"}
AgentWaited == pc \in {"agent", "stop agent", "agent output"} /\ Unlimited
AgentIsLimited == AgentWaited
Limited == AgentWaited \/ (pc = "validate" /\ child)
AgentLeft ==
    /\ pc' = (IF pc = "agent" /\ child THEN "stop agent" ELSE "finally")
    /\ child' \in (IF pc = "stop agent" THEN {child, FALSE} ELSE {child})
Interrupt(code) ==
    /\ Limited
    /\ code \in {"cancelled", "execution_timeout"} /\ (code = "cancelled") = event
    /\ failure' = code
    /\ IF AgentWaited THEN AgentLeft ELSE pc' = "stop validation" /\ UNCHANGED child
    /\ UNCHANGED <<setup, worktree, helpers, strayed, event, snapshot, given, passed, cleaned, result, cancels>>

\* cancel_event.set() by the owner of the job.
Cancel ==
    /\ ~event /\ result = None /\ event' = TRUE
    /\ UNCHANGED <<setup, pc, worktree, processes, outcome, cancels>>

\* The task itself is cancelled.  It stops the child; but a second cancellation, while it is being
\* stopped, is taken for the first one and ends the stopping and the reading.
TaskCancelled ==
    /\ cancels < MaxCancels /\ cancels' = cancels + 1
    /\ \/ AgentWaited /\ AgentLeft /\ failure' = "cancelled" /\ event' = TRUE /\ UNCHANGED passed
       \/ /\ pc \in {"stop agent", "agent output"} /\ ~Unlimited
          /\ AgentLeft /\ UNCHANGED <<failure, event, passed>>
       \/ /\ pc = "validate"
          /\ pc' = IF child THEN "stop again" ELSE "finally"
          /\ failure' = "cancelled" /\ event' = TRUE /\ UNCHANGED <<child, passed>>
       \/ /\ pc = "stop validation"
          /\ \/ child /\ pc' = "stop again" /\ UNCHANGED child
             \/ child' = FALSE /\ pc' = "drain"
          /\ failure' = "cancelled" /\ event' = TRUE /\ UNCHANGED passed
       \/ /\ pc = "stop again"
          /\ child' \in {child, FALSE} /\ pc' = "finally" /\ UNCHANGED <<failure, event, passed>>
       \/ pc = "drain" /\ Fails("cancelled") /\ event' = TRUE /\ passed' = None /\ UNCHANGED child
    /\ UNCHANGED <<setup, worktree, helpers, strayed, snapshot, given, cleaned, result>>
\* It is swallowed where the waiting for the event is taken back: after the agent, and after the
\* validation.
Swallowed ==
    /\ cancels < MaxCancels /\ cancels' = cancels + 1
    /\ pc \in {"snapshot", "drain"}
    /\ UNCHANGED <<setup, pc, worktree, processes, event, outcome>>

-----------------------------------------------------------------------------
\* finally: the patch of a failed run is kept too, then everything temporary goes.
Rescue ==
    /\ pc = "finally"
    /\ pc' = "clean"
    /\ snapshot' \in IF snapshot = None /\ worktree \in Contents THEN {worktree, None} ELSE {snapshot}
    /\ UNCHANGED <<setup, worktree, processes, event, given, passed, failure, cleaned, result, cancels>>

\* GitWorktree.cleanup; git may refuse to, and the directory stays for diagnosis.  A worktree that
\* could not be made is cleaned.
CleanWorktree ==
    /\ pc = "clean"
    /\ \/ worktree = None /\ UNCHANGED <<worktree, failure, cleaned>>
       \/ worktree # None /\ worktree' = Gone /\ cleaned' = TRUE /\ UNCHANGED failure
       \/ /\ worktree \in Contents /\ cleaned' = FALSE /\ UNCHANGED worktree
          /\ failure' = IF failure = None THEN "internal_worker_failure" ELSE failure
    /\ pc' = "clean copy"
    /\ UNCHANGED <<setup, processes, event, snapshot, given, passed, result, cancels>>

\* WorkingTreeSnapshot.cleanup, when no worktree of the copy is left.
ToldOfCopy == IF failure = None THEN "internal_worker_failure" ELSE failure
CleanCopy ==
    /\ pc = "clean copy"
    /\ pc' = "save"
    /\ IF copy /\ cleaned
       THEN \/ copy' = FALSE /\ UNCHANGED failure
            \/ failure' = ToldOfCopy /\ UNCHANGED copy
       ELSE UNCHANGED <<copy, failure>>
    /\ UNCHANGED <<source, worktree, processes, event, snapshot, given, passed, cleaned, result, cancels>>

\* Outcome and store.save; the result is the last of the files, each of which may not be writable.
Status ==
    IF failure = None /\ passed = TRUE THEN "succeeded"
    ELSE IF failure = "cancelled" THEN "cancelled" ELSE "failed"
Save ==
    /\ pc = "save"
    /\ pc' = "saved"
    /\ result' = [status |-> Status, patch |-> snapshot]
    /\ UNCHANGED <<setup, worktree, processes, event, snapshot, given, passed, failure, cleaned, cancels>>

SaveFails ==
    /\ pc = "save" /\ pc' = "lost"
    /\ UNCHANGED <<setup, worktree, processes, event, outcome, cancels>>

Done == pc \in {"saved", "lost"} /\ UNCHANGED vars

Run ==
    \/ Prepare \/ CopyWorkingTree \/ CreateWorktree
    \/ \E s \in {"agent", "validate"} : Start(s)
    \/ StartFails \/ StopAgent \/ ReadAgent \/ Snapshot \/ StopValidation \/ Drain
    \/ \E code \in {"cancelled", "execution_timeout"} : Interrupt(code)
    \/ Rescue \/ CleanWorktree \/ CleanCopy \/ Save \/ SaveFails

Next ==
    \/ Run \/ AgentEnds \/ ValidationEnds \/ Write \/ Cancel \/ TaskCancelled \/ Swallowed \/ Done
    \/ \E h \in Helpers : Forks(h) \/ HelperEnds(h)

\* Every synchronous step returns, and a wait for agent or validation is looked at again and again
\* until its time is over; that they end by themselves is not assumed.
Spec == Init /\ [][Next]_vars /\ WF_vars(Run)

-----------------------------------------------------------------------------
\* Type invariant.
TypeOK ==
    /\ worktree \in Contents \cup {None, Gone} /\ snapshot \in Contents \cup {None}
    /\ given \in Contents \cup {None} /\ copy \in BOOLEAN
    /\ child \in BOOLEAN /\ helpers \subseteq Helpers /\ strayed \in BOOLEAN
    /\ event \in BOOLEAN /\ cleaned \in BOOLEAN
    /\ passed \in BOOLEAN \cup {None} /\ failure \in Failures \cup {None} /\ cancels \in 0 .. MaxCancels
    /\ result \in Results \cup {None}

\* A job that succeeded passed its validation, saved the patch that the validation was given, and left
\* neither worktree nor copy behind, however it was interrupted.  What the agent left running in its
\* process group cannot write in between; a process that left the group is not stopped with it, and
\* the patch is promised only if there was none.
SuccessIsBacked ==
    result # None /\ result.status = "succeeded" =>
        /\ passed = TRUE /\ given # None /\ (strayed \/ result.patch = given)
        /\ worktree = Gone /\ ~copy

\* Every run comes to its end and saves a result, or cannot write it, whatever fails and however it is
\* cancelled, unless a process that agent or validation left behind holds their output for ever.
EveryRunSaves == <>(pc \in {"saved", "lost"}) \/ <>[](pc \in {"agent output", "drain"} /\ Held)
=============================================================================
