---------------------------------- MODULE Karte ----------------------------------
(***************************************************************************)
(* The results of Karte for one stopped job                                *)
(* (src/ephy_worker/karte_experiment_job.py and _consumer.py): each call   *)
(* of record_result verifies a status against the payload and the frozen   *)
(* evidence of the job and commits what it observed to a directory beside  *)
(* the job, by checkpoints, a journal and two latches, each file written   *)
(* at once.  The calls are serialized by a lock; a call can end between    *)
(* any two files, for a full disk or with its process, and the next one    *)
(* finishes what the journal says.                                         *)
(*                                                                         *)
(* A digest is the value it is of: a payload is its pin, a record the name *)
(* of its checkpoint, cancel.request a call that asks to cancel.  Only the *)
(* job, its evidence and the state file are changed beside the calls.      *)
(***************************************************************************)
EXTENDS Naturals, FiniteSets

CONSTANTS
    Payloads, Metadata,
    Sound,              \* pairs of them that agree with each other and with the frozen evidence
    Phases, Terminal, Receipts,
    Unreadable,         \* a status that does not parse
    JobStates, Stopped, \* contents of job.json, and those with a status of STOPPED
    MaxCrashes, MaxDisturbed,   \* bounds
    None

Results == [phase : Phases, receipt : Receipts \cup {None}]
Statuses == {s \in Results : (s.phase \in Terminal) <=> (s.receipt # None)} \cup {Unreadable}
Observations == [payload : Payloads, phase : Phases, receipt : Receipts \cup {None}, cancelled : BOOLEAN]
States == {"verification_failed", "cancelled", "result_failed", "review_pending"}
Records == [job : JobStates, pin : Payloads, status : Statuses, obs : Observations \cup {None}, state : States]
Journals == [prev : Records \cup {None}, next : Records]
Calls == [payload : Payloads, pin : Payloads, metadata : Metadata, status : Statuses, cancel : BOOLEAN]

ASSUME KarteAssumption ==
    /\ Sound \subseteq Payloads \X Metadata
    /\ Terminal \subseteq Phases /\ Stopped \subseteq JobStates
    /\ {MaxCrashes, MaxDisturbed} \subseteq Nat
    /\ None \notin Payloads \cup Metadata \cup Receipts
    /\ None \notin Observations \cup Results \cup Records \cup Journals

VARIABLES
    job,            \* job.json
    evidence,       \* the audit bundle and its anchors are as they were frozen
    payload, metadata,  \* payload.json, metadata.json
    statuses,       \* status-<digest>.json
    checkpoints,    \* state-<digest>.json
    journal,        \* transaction.json
    terminal, cancelled,    \* terminal.json, and whether cancelled.json exists
    state,          \* state.json
    pc, call, read, \* the call that runs, and the job it read first
    previous, record,   \* the observation it starts from, and the record it writes
    recovering,     \* it finishes the journal of an earlier call
    told,           \* history: the observation a call returned last
    crashes,
    disturbed       \* history: what was changed beside the calls

around == <<job, evidence>>
inputs == <<payload, metadata>>
saved == <<inputs, statuses, checkpoints, journal, terminal, cancelled, state>>
memory == <<call, read, previous, record, recovering>>
history == <<told, crashes, disturbed>>
vars == <<around, saved, pc, memory, history>>

-----------------------------------------------------------------------------
Init ==
    /\ job \in Stopped /\ evidence = TRUE
    /\ payload = None /\ metadata = None /\ statuses = {} /\ checkpoints = {}
    /\ journal = None /\ terminal = None /\ cancelled = FALSE /\ state = None
    /\ pc = "off" /\ call = None /\ read = None /\ previous = None /\ record = None
    /\ recovering = FALSE /\ told = None
    /\ crashes = 0 /\ disturbed = {}

Released == pc' = "off" /\ call' = None /\ read' = None /\ previous' = None /\ record' = None /\ recovering' = FALSE
Step(s) == pc' = s

-----------------------------------------------------------------------------
\* consume_result: the status read as an observation of the payload that is pinned.
Observed(c, status, cancel) ==
    [payload |-> c.pin, phase |-> status.phase, receipt |-> status.receipt, cancelled |-> cancel]

\* A receipt stays, and a pending result is not prepared again.
Follows(before, o) ==
    before # None =>
        /\ before.payload = o.payload
        /\ before.phase \in Terminal => o.phase = before.phase /\ o.receipt = before.receipt
        /\ ~(before.phase = "pending" /\ o.phase = "prepared")

\* The payload is the pinned one, whole, and of these metadata; the evidence is the job's own.
PayloadValid(c) == c.payload = c.pin /\ <<c.payload, c.metadata>> \in Sound
Frozen == evidence
Verified(c, status, before) ==
    /\ PayloadValid(c) /\ Frozen
    /\ status # Unreadable /\ Follows(before, Observed(c, status, FALSE))

StateOf(o, j) ==
    IF o.cancelled \/ j = "cancelled" THEN "cancelled"
    ELSE IF o.phase \in Terminal \ {"report_accepted"} \/ j = "failed" THEN "result_failed"
    ELSE "review_pending"

Receipt(o) == [phase |-> o.phase, receipt |-> o.receipt]

\* The latches bind every record that claims an observation.
LatchesHold(o) ==
    /\ terminal # None => terminal = Receipt(o)
    /\ cancelled => o.cancelled

\* _previous: a saved record is one of this job and these inputs, and says what its status says.
Holds(r) ==
    /\ r.job = read /\ r.pin = call.pin /\ r.status \in statuses
    /\ payload = call.payload /\ call.payload = call.pin /\ metadata = call.metadata
    /\ r.obs # None => r \in checkpoints /\ r.obs = Observed(call, r.status, r.obs.cancelled)

-----------------------------------------------------------------------------
\* record_result, up to the lock: the job has stopped, the metadata are bound to it.
Call(c) ==
    /\ pc = "off" /\ job \in Stopped
    /\ call' = c /\ read' = job /\ Step("load")
    /\ UNCHANGED <<around, saved, previous, record, recovering, history>>

\* _recover_transaction: only what verifies again, from its predecessor, is finished.
NotYetReplaced(j) == state = j.prev
Between(j) == state \in {j.prev, j.next}
Recoverable(j) ==
    /\ j.next.job = read /\ Between(j)
    /\ j.prev # None => j.prev \in checkpoints /\ Holds(j.prev)
    /\ j.next \in checkpoints /\ Holds(j.next) /\ j.next.obs # None /\ LatchesHold(j.next.obs)
    /\ Verified(call, j.next.status, IF j.prev = None THEN None ELSE j.prev.obs)
    /\ job = read
Recover ==
    /\ pc = "load" /\ journal # None
    /\ IF Recoverable(journal)
       THEN Step("terminal") /\ record' = journal.next /\ recovering' = TRUE /\ UNCHANGED <<call, read, previous>>
       ELSE Released
    /\ UNCHANGED <<around, saved, history>>

\* The record to go on from must hold, and not be behind the latches.
Load ==
    /\ pc = "load" /\ journal = None
    /\ IF state # None => Holds(state) /\ (state.obs # None => LatchesHold(state.obs))
       THEN /\ Step("payload")
            /\ previous' = IF state = None THEN None ELSE state.obs
            /\ UNCHANGED <<call, read, record, recovering>>
       ELSE Released
    /\ UNCHANGED <<around, saved, history>>

\* _retain: a file that is there is never replaced.
RetainPayload ==
    /\ pc = "payload"
    /\ IF payload \in {None, call.payload} THEN Step("metadata") /\ payload' = call.payload /\ UNCHANGED memory
                                           ELSE Released /\ UNCHANGED payload
    /\ UNCHANGED <<around, metadata, statuses, checkpoints, journal, terminal, cancelled, state, history>>
RetainMetadata ==
    /\ pc = "metadata"
    /\ IF metadata \in {None, call.metadata} THEN Step("consume") /\ metadata' = call.metadata /\ UNCHANGED memory
                                             ELSE Released /\ UNCHANGED metadata
    /\ UNCHANGED <<around, payload, statuses, checkpoints, journal, terminal, cancelled, state, history>>

\* What is observed; nothing new is returned as it was saved.
Failed == [job |-> read, pin |-> call.pin, status |-> call.status, obs |-> None, state |-> "verification_failed"]
CancelSeen == call.cancel \/ read = "cancelled" \/ cancelled \/ (previous # None /\ previous.cancelled)
Consume ==
    /\ pc = "consume"
    /\ IF Verified(call, call.status, previous) /\ job = read
       THEN LET o == Observed(call, call.status, CancelSeen)
            IN IF o = previous
               THEN Released /\ told' = o
               ELSE /\ Step("status") /\ UNCHANGED <<call, read, previous, recovering, told>>
                    /\ record' = [Failed EXCEPT !.obs = o, !.state = StateOf(o, read)]
       ELSE Step("status") /\ record' = Failed /\ UNCHANGED <<call, read, previous, recovering, told>>
    /\ UNCHANGED <<around, saved, crashes, disturbed>>

RetainStatus ==
    /\ pc = "status"
    /\ statuses' = statuses \cup {call.status}
    /\ Step(IF record.obs = None THEN "failure" ELSE "checkpoint")
    /\ UNCHANGED <<around, inputs, checkpoints, journal, terminal, cancelled, state, memory, history>>

\* A failure is the state of a job that was never observed.  Of any other it is told in a file that
\* nothing reads.
RecordFailure ==
    /\ pc = "failure"
    /\ state' = IF previous = None THEN record ELSE state
    /\ Released
    /\ UNCHANGED <<around, inputs, statuses, checkpoints, journal, terminal, cancelled, history>>

-----------------------------------------------------------------------------
\* _commit_state: both checkpoints, then the journal ...
OfVerified == IF previous = None THEN {} ELSE {state}
OfPrevious == {state} \ {None}
CheckpointPrevious ==
    /\ pc = "checkpoint"
    /\ checkpoints' = checkpoints \cup OfPrevious
    /\ Step("next")
    /\ UNCHANGED <<around, inputs, statuses, journal, terminal, cancelled, state, memory, history>>
CheckpointNext ==
    /\ pc = "next"
    /\ checkpoints' = checkpoints \cup {record}
    /\ Step("journal")
    /\ UNCHANGED <<around, inputs, statuses, journal, terminal, cancelled, state, memory, history>>
WriteJournal ==
    /\ pc = "journal"
    /\ journal' = [prev |-> state, next |-> record]
    /\ Step("terminal")
    /\ UNCHANGED <<around, inputs, statuses, checkpoints, terminal, cancelled, state, memory, history>>

\* ... then _finish_transaction: the latches, the state, and the end of the journal.
ReceiptReplaced(o) == TRUE
ReceiptKept(o) == terminal \in {None, Receipt(o)}
LatchTerminal ==
    /\ pc = "terminal"
    /\ IF terminal = None /\ record.obs.phase \notin Terminal
       THEN Step("cancelled") /\ UNCHANGED <<terminal, memory>>
       ELSE IF ReceiptKept(record.obs)
       THEN Step("cancelled") /\ terminal' = Receipt(record.obs) /\ UNCHANGED memory
       ELSE Released /\ UNCHANGED terminal
    /\ UNCHANGED <<around, inputs, statuses, checkpoints, journal, cancelled, state, history>>
LatchCancelled ==
    /\ pc = "cancelled"
    /\ cancelled' = (cancelled \/ record.obs.cancelled)
    /\ Step("state")
    /\ UNCHANGED <<around, inputs, statuses, checkpoints, journal, terminal, state, memory, history>>
ReplaceState ==
    /\ pc = "state"
    /\ state' = record
    /\ Step("unlink")
    /\ UNCHANGED <<around, inputs, statuses, checkpoints, journal, terminal, cancelled, memory, history>>

\* The call returns, or goes on with its own status after it finished that of another.
Unlink ==
    /\ pc = "unlink"
    /\ journal' = None
    /\ IF recovering THEN Step("load") /\ recovering' = FALSE /\ record' = None /\ UNCHANGED <<call, read, previous, told>>
                     ELSE Released /\ told' = record.obs
    /\ UNCHANGED <<around, inputs, statuses, checkpoints, terminal, cancelled, state, crashes, disturbed>>

-----------------------------------------------------------------------------
\* Around the calls.
Crash ==
    /\ pc # "off" /\ crashes < MaxCrashes
    /\ crashes' = crashes + 1
    /\ Released
    /\ UNCHANGED <<around, saved, told, disturbed>>
Disturbs(kind) ==
    /\ kind \notin disturbed /\ Cardinality(disturbed) < MaxDisturbed
    /\ disturbed' = disturbed \cup {kind}
JobMoves ==
    /\ Disturbs("job") /\ job' \in JobStates \ {job}
    /\ UNCHANGED <<evidence, saved, pc, memory, told, crashes>>
EvidenceSpoiled ==
    /\ Disturbs("evidence") /\ evidence' = FALSE
    /\ UNCHANGED <<job, saved, pc, memory, told, crashes>>
EvidenceRestored ==
    /\ ~evidence /\ evidence' = TRUE
    /\ UNCHANGED <<job, saved, pc, memory, history>>
\* An older state is put back, one of the checkpoints.
Rollback ==
    /\ pc = "off" /\ Disturbs("state") /\ state' \in checkpoints \ {state}
    /\ UNCHANGED <<around, inputs, statuses, checkpoints, journal, terminal, cancelled, pc, memory, told,
                   crashes>>

Run ==
    \/ Recover \/ Load \/ RetainPayload \/ RetainMetadata \/ Consume \/ RetainStatus \/ RecordFailure
    \/ CheckpointPrevious \/ CheckpointNext \/ WriteJournal
    \/ LatchTerminal \/ LatchCancelled \/ ReplaceState \/ Unlink
Next ==
    \/ \E c \in Calls : Call(c)
    \/ Run \/ Crash \/ JobMoves \/ EvidenceSpoiled \/ EvidenceRestored \/ Rollback

\* A call that runs goes on, and the caller of an interrupted one repeats it ("retry to recover its
\* journal"), among other calls there may be.
Retry == journal # None /\ \E c \in Calls : PayloadValid(c) /\ Call(c)
Spec == Init /\ [][Next]_vars /\ WF_vars(Run) /\ SF_vars(Retry)

-----------------------------------------------------------------------------
\* Type invariant.
TypeOK ==
    /\ job \in JobStates /\ evidence \in BOOLEAN
    /\ payload \in Payloads \cup {None} /\ metadata \in Metadata \cup {None}
    /\ statuses \subseteq Statuses /\ checkpoints \subseteq Records
    /\ journal \in Journals \cup {None}
    /\ state \in Records \cup {None} /\ told \in Observations \cup {None}
    /\ terminal \in Results \cup {None} /\ cancelled \in BOOLEAN

\* A result that a call returned is never taken back by what a later call returns, whatever died in
\* between and whichever older state was put back: ReceiptContract.
Contract == INSTANCE ReceiptContract
KeepsContract == Contract!Spec

\* What the journal and the state need to be finished or continued from is there at every moment:
\* both checkpoints and the statuses they were made from, and nothing is latched but what the
\* state or the journal says.
Committed == IF journal # None THEN journal.next ELSE state
NothingMissing ==
    /\ journal # None =>
        /\ journal.next \in checkpoints /\ journal.next.obs # None
        /\ journal.prev # None => journal.prev \in checkpoints
        /\ "state" \notin disturbed => state \in {journal.prev, journal.next}
    /\ \A r \in checkpoints \cup ({state} \ {None}) : r.status \in statuses
    /\ state # None /\ state.obs # None => state \in checkpoints
    /\ "state" \notin disturbed /\ (terminal # None \/ cancelled) =>
        /\ Committed # None /\ Committed.obs # None
        /\ terminal # None => terminal = Receipt(Committed.obs)
        /\ cancelled => Committed.obs.cancelled

\* An interrupted commit is finished when its caller repeats it, unless the job, its evidence or
\* the saved state was changed meanwhile.
CommitsEnd ==
    journal # None ~> journal = None \/ disturbed # {}
=============================================================================
