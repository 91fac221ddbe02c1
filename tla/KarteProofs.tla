----------------------------- MODULE KarteProofs -----------------------------
(***************************************************************************)
(* The recorded results of a job keep their contract: what a call returned *)
(* is never taken back, for any payloads, receipts and phases, any number  *)
(* of calls that die between two of their files, changes of the job and of *)
(* its evidence at any time, and an older state that is put back.          *)
(***************************************************************************)
EXTENDS Karte, TLAPS

\* From the loading of the state to the journal; with a journal; with an observation to record.
Begun == {"payload", "metadata", "consume", "status", "failure", "checkpoint", "next", "journal"}
Finishing == {"terminal", "cancelled", "state", "unlink"}
Committing == {"checkpoint", "next", "journal"} \cup Finishing
InFlight == pc \in {"status"} \cup Committing /\ record.obs # None

Control ==
    /\ statuses \subseteq Statuses
    /\ pc # "off" => call \in Calls
    /\ pc \in Begun \cup {"off", "load"} => ~recovering
    /\ pc \in Begun => journal = None
    /\ pc \in Committing => record.obs # None
    /\ pc = "failure" => record.obs = None
    /\ pc \in Finishing => journal.next = record

\* What a call works on is what it found, and it has seen the latches.
Found ==
    /\ pc \in Begun => previous = IF state = None THEN None ELSE state.obs
    /\ pc \in Begun /\ previous # None => LatchesHold(previous)
    /\ pc \in (Begun \ {"payload"}) \cup Finishing /\ ~recovering => payload = call.payload

\* What it is about to record is an observation of the payload, and no cancellation is forgotten.
Recorded ==
    InFlight =>
        /\ Receipt(record.obs) \in Results
        /\ ~recovering => record.obs \in Observations /\ record.obs.payload = payload
        /\ cancelled => record.obs.cancelled

\* A result is latched before it becomes the state.
LatchedFirst ==
    /\ pc \in {"cancelled", "state", "unlink"} =>
        /\ terminal # None => terminal = Receipt(record.obs)
        /\ record.obs.phase \in Terminal => terminal # None
    /\ pc \in {"state", "unlink"} /\ record.obs.cancelled => cancelled
    /\ "state" \notin disturbed /\ state # None /\ state.obs # None =>
        /\ state.obs.phase \in Terminal => terminal # None /\ terminal = Receipt(state.obs)
        /\ state.obs.cancelled => cancelled

\* A state that was put back need not be latched, if the call that made its checkpoint died there.
\* What it says is then kept by the state itself, and by whatever is about to replace it.
SavedReceipt(r) ==
    /\ "state" \in disturbed /\ terminal = None
    /\ state # None /\ state.obs # None /\ Receipt(state.obs) = r
    /\ journal # None => Receipt(journal.next.obs) = r
    /\ InFlight => Receipt(record.obs) = r
SavedCancellation ==
    /\ "state" \in disturbed
    /\ state # None /\ state.obs # None /\ state.obs.cancelled
    /\ journal # None => journal.next.obs.cancelled
    /\ InFlight => record.obs.cancelled

\* What was told last is latched, or saved.
Kept ==
    told # None =>
        /\ told \in Observations /\ payload = told.payload
        /\ told.phase \in Terminal =>
              (terminal # None /\ terminal = Receipt(told)) \/ SavedReceipt(Receipt(told))
        /\ told.cancelled => cancelled \/ SavedCancellation

IInv == Control /\ Found /\ Recorded /\ LatchedFirst /\ Kept

LEMMA InitHolds == Init => IInv
  BY DEF Init, IInv, Control, Found, Recorded, LatchedFirst, Kept, InFlight, Begun, Finishing, Committing

\* What a verified status is observed as.
LEMMA ObservedIs ==
  ASSUME IInv, pc = "consume", Verified(call, call.status, previous)
  PROVE  LET o == Observed(call, call.status, CancelSeen) IN
         /\ o \in Observations /\ o # None /\ Receipt(o) \in Results /\ o.payload = payload
         /\ cancelled => o.cancelled
         /\ previous # None => /\ previous.cancelled => o.cancelled
                               /\ previous.phase \in Terminal => Receipt(o) = Receipt(previous)
<1> DEFINE o == Observed(call, call.status, CancelSeen)
<1>1. call \in Calls /\ call.pin \in Payloads /\ call.status \in Statuses \ {Unreadable}
      /\ payload = call.payload /\ call.payload = call.pin
  BY DEF IInv, Control, Found, Begun, Finishing, Calls, Verified, PayloadValid
<1>2. call.status.phase \in Phases /\ call.status.receipt \in Receipts \cup {None}
  BY <1>1 DEF Statuses, Results
<1>3. CancelSeen \in BOOLEAN
  BY Zenon DEF CancelSeen
<1>4. o = [payload |-> call.pin, phase |-> call.status.phase, receipt |-> call.status.receipt,
           cancelled |-> CancelSeen]
  BY DEF Observed
<1>5. o \in Observations /\ o # None /\ Receipt(o) \in Results
  BY <1>1, <1>2, <1>3, <1>4, KarteAssumption DEF Observations, Receipt, Results
<1>6. o.payload = payload /\ o.cancelled = CancelSeen
  BY <1>1, <1>4
<1>7. previous # None /\ previous.phase \in Terminal => Receipt(o) = Receipt(previous)
  BY DEF Verified, Follows, Observed, Receipt
<1> QED
  BY <1>5, <1>6, <1>7 DEF CancelSeen

LEMMA StepHolds == IInv /\ [Next]_vars => IInv'
<1> SUFFICES ASSUME IInv, [Next]_vars PROVE IInv'
  OBVIOUS
<1> USE KarteAssumption
    DEF IInv, Control, Found, Recorded, LatchedFirst, Kept, SavedReceipt, SavedCancellation, InFlight,
        Begun, Finishing, Committing, LatchesHold, Receipt, Released, Step,
        around, inputs, saved, memory, history
<1>1. ASSUME NEW c \in Calls, Call(c) PROVE IInv'
  BY <1>1 DEF Call
<1>2. CASE Recover
  <2> DEFINE r == journal.next
  <2>1. CASE Recoverable(journal)
    <3>1. /\ r.status \in Statuses \ {Unreadable} /\ r.obs # None /\ LatchesHold(r.obs)
          /\ r.obs = Observed(call, r.status, r.obs.cancelled)
      BY <1>2, <2>1 DEF Recover, Recoverable, Holds, Verified
    <3>2. Receipt(r.obs) \in Results
      BY <3>1 DEF Observed, Statuses, Results
    <3>3. /\ pc = "load" /\ pc' = "terminal" /\ record' = r /\ recovering' = TRUE /\ journal # None
          /\ UNCHANGED <<around, saved, history, call, read, previous>>
      BY <1>2, <2>1 DEF Recover
    <3> HIDE DEF r
    <3>4. record' = journal.next
      BY <3>3 DEF r
    <3> QED
      BY <3>1, <3>2, <3>3, <3>4
  <2>2. CASE ~Recoverable(journal)
    BY <1>2, <2>2 DEF Recover
  <2> QED
    BY <2>1, <2>2
<1>3. CASE Load
  BY <1>3 DEF Load
<1>4. CASE RetainPayload
  <2>1. CASE payload \in {None, call.payload}
    <3>1. told # None => payload = call.payload
      BY <2>1 DEF Observations
    <3> QED
      BY <1>4, <2>1, <3>1 DEF RetainPayload
  <2>2. CASE payload \notin {None, call.payload}
    BY <1>4, <2>2 DEF RetainPayload
  <2> QED
    BY <2>1, <2>2
<1>5. CASE RetainMetadata
  BY <1>5 DEF RetainMetadata
<1>6. CASE Consume
  <2> DEFINE o == Observed(call, call.status, CancelSeen)
  <2>1. CASE Verified(call, call.status, previous) /\ job = read
    <3>1. /\ o \in Observations /\ o # None /\ Receipt(o) \in Results /\ o.payload = payload
          /\ cancelled => o.cancelled
          /\ previous # None => /\ previous.cancelled => o.cancelled
                                /\ previous.phase \in Terminal => Receipt(o) = Receipt(previous)
      BY <1>6, <2>1, ObservedIs DEF Consume
    <3> HIDE DEF o
    <3>2. CASE o = previous
      BY <1>6, <2>1, <3>1, <3>2 DEF Consume, o
    <3>3. CASE o # previous
      <4>1. pc' = "status" /\ record'.obs = o /\ pc = "consume"
            /\ UNCHANGED <<around, saved, history, call, read, previous, recovering>>
        BY <1>6, <2>1, <3>3 DEF Consume, o, Failed
      <4> QED
        BY <3>1, <3>3, <4>1
    <3> QED
      BY <3>2, <3>3
  <2>2. CASE ~(Verified(call, call.status, previous) /\ job = read)
    <3>1. record'.obs = None
      BY <1>6, <2>2 DEF Consume, Failed
    <3> QED
      BY <1>6, <2>2, <3>1 DEF Consume
  <2> QED
    BY <2>1, <2>2
<1>7. CASE RetainStatus
  BY <1>7 DEF RetainStatus, Calls
<1>8. CASE RecordFailure
  <2>1. record.obs = None /\ ~InFlight
    BY <1>8 DEF RecordFailure
  <2>2. CASE previous = None
    BY <1>8, <2>1, <2>2 DEF RecordFailure
  <2>3. CASE previous # None
    BY <1>8, <2>1, <2>3 DEF RecordFailure
  <2> QED
    BY <2>2, <2>3
<1>9. CASE CheckpointPrevious
  BY <1>9 DEF CheckpointPrevious
<1>10. CASE CheckpointNext
  BY <1>10 DEF CheckpointNext
<1>11. CASE WriteJournal
  BY <1>11 DEF WriteJournal
<1>12. CASE LatchTerminal
  BY <1>12 DEF LatchTerminal, ReceiptKept
<1>13. CASE LatchCancelled
  BY <1>13 DEF LatchCancelled
<1>14. CASE ReplaceState
  BY <1>14 DEF ReplaceState
<1>15. CASE Unlink
  BY <1>15 DEF Unlink
<1>16. CASE Crash
  BY <1>16 DEF Crash
<1>17. CASE JobMoves
  BY <1>17 DEF JobMoves, Disturbs
<1>18. CASE EvidenceSpoiled
  BY <1>18 DEF EvidenceSpoiled, Disturbs
<1>19. CASE EvidenceRestored
  BY <1>19 DEF EvidenceRestored
<1>20. CASE Rollback
  BY <1>20 DEF Rollback, Disturbs
<1>21. CASE UNCHANGED vars
  BY <1>21 DEF vars
<1> QED
  BY <1>1, <1>2, <1>3, <1>4, <1>5, <1>6, <1>7, <1>8, <1>9, <1>10, <1>11, <1>12, <1>13, <1>14,
     <1>15, <1>16, <1>17, <1>18, <1>19, <1>20, <1>21 DEF Next, Run

\* A record that is committed keeps what was told before.
LEMMA ReportsKeep ==
  ASSUME IInv, NEW o \in Observations, o.payload = payload, told' = o,
         told # None /\ told.phase \in Terminal => Receipt(o) = Receipt(told),
         told # None /\ told.cancelled => o.cancelled
  PROVE  Contract!Next
<1>1. told # None => Contract!Keeps(told, o)
  BY DEF IInv, Kept, Contract!Keeps, Receipt
<1>2. o \in Contract!Observation
  BY DEF Contract!Observation, Observations
<1> QED
  BY <1>1, <1>2 DEF Contract!Next, Contract!Report

LEMMA StepReports == IInv /\ [Next]_vars => [Contract!Next]_told
<1> SUFFICES ASSUME IInv, [Next]_vars PROVE [Contract!Next]_told
  OBVIOUS
<1>1. ASSUME Consume, told' # told PROVE Contract!Next
  <2> DEFINE o == Observed(call, call.status, CancelSeen)
  <2>1. Verified(call, call.status, previous) /\ o = previous /\ told' = o /\ pc = "consume"
    BY <1>1 DEF Consume
  <2>2. o \in Observations /\ o # None /\ o.payload = payload
    BY <2>1, ObservedIs
  <2> HIDE DEF o
  <2>3. /\ previous # None /\ state # None /\ state.obs = o
        /\ terminal # None => terminal = Receipt(o)
        /\ cancelled => o.cancelled
    BY <2>1, <2>2 DEF IInv, Found, Begun, LatchesHold
  <2>4. told # None /\ told.phase \in Terminal => Receipt(o) = Receipt(told)
    BY <2>3 DEF IInv, Kept, SavedReceipt
  <2>5. told # None /\ told.cancelled => o.cancelled
    BY <2>3 DEF IInv, Kept, SavedCancellation
  <2> QED
    BY <2>1, <2>2, <2>4, <2>5, ReportsKeep
<1>2. ASSUME Unlink, told' # told PROVE Contract!Next
  <2>1. ~recovering /\ pc = "unlink" /\ told' = record.obs
    BY <1>2 DEF Unlink
  <2>2. InFlight
    BY <2>1 DEF IInv, Control, InFlight, Committing, Finishing
  <2>3. record.obs \in Observations /\ record.obs.payload = payload /\ (cancelled => record.obs.cancelled)
    BY <2>1, <2>2 DEF IInv, Recorded
  <2>4. told # None /\ told.phase \in Terminal => Receipt(record.obs) = Receipt(told)
    BY <2>1, <2>2 DEF IInv, Kept, SavedReceipt, LatchedFirst
  <2>5. told # None /\ told.cancelled => record.obs.cancelled
    BY <2>2, <2>3 DEF IInv, Kept, SavedCancellation
  <2> QED
    BY <2>1, <2>3, <2>4, <2>5, ReportsKeep
<1>3. \/ Consume \/ Unlink \/ told' = told
  BY DEF Next, Run, Call, Recover, Load, RetainPayload, RetainMetadata, RetainStatus, RecordFailure,
         CheckpointPrevious, CheckpointNext, WriteJournal, LatchTerminal, LatchCancelled, ReplaceState,
         Crash, JobMoves, EvidenceSpoiled, EvidenceRestored, Rollback, vars, history
<1> QED
  BY <1>1, <1>2, <1>3

\* A result that a call returned is never taken back by what a later call returns, whatever died in
\* between and although an older state may be put back once: the sidecar implements
\* ReceiptContract (record_result, _commit_state, _recover_transaction).
THEOREM KeepsReceipts == Spec => KeepsContract
<1>1. Init => Contract!Init
  BY DEF Init, Contract!Init
<1> QED
  BY InitHolds, StepHolds, StepReports, <1>1, PTL DEF Spec, KeepsContract, Contract!Spec
-----------------------------------------------------------------------------
(* What a commit may have to be finished from is never missing.            *)

FilesTyped ==
    /\ job \in JobStates /\ (pc # "off" => call \in Calls /\ read \in JobStates)
    /\ pc \in {"status", "failure"} \cup Committing => record \in Records
    /\ state \in Records \cup {None} /\ checkpoints \subseteq Records
    /\ journal \in Journals \cup {None}
    /\ terminal # None => terminal.phase \in Terminal

\* The files of a commit are written in the order in which they are needed.
InOrder ==
    /\ pc = "status" => record.status = call.status
    /\ pc \in {"failure"} \cup Committing => record.status \in statuses
    /\ pc \in {"next", "journal"} /\ state # None => state \in checkpoints
    /\ pc \in {"journal"} \cup Finishing => record \in checkpoints
    /\ pc \in Finishing => journal # None
    /\ pc = "unlink" => state = record
    /\ InFlight /\ pc \notin Finishing /\ "state" \notin disturbed /\ terminal # None =>
          terminal = Receipt(record.obs)

FilesInv == FilesTyped /\ InOrder /\ NothingMissing

LEMMA FilesInit == Init => FilesInv
  BY KarteAssumption
  DEF Init, FilesInv, FilesTyped, InOrder, NothingMissing, Committing, Finishing

LEMMA FilesStep == IInv /\ FilesInv /\ [Next]_vars => FilesInv'
<1> SUFFICES ASSUME IInv, FilesInv, [Next]_vars PROVE FilesInv'
  OBVIOUS
<1>0. Control /\ Found /\ Recorded /\ LatchedFirst
  BY DEF IInv
<1> USE <1>0, KarteAssumption
    DEF FilesInv, FilesTyped, InOrder, NothingMissing, Committed, Control, Found, Recorded, LatchedFirst,
        InFlight, Begun, Finishing, Committing, LatchesHold, Receipt, Released, Step,
        around, inputs, saved, memory, history
<1>1. ASSUME NEW c \in Calls, Call(c) PROVE FilesInv'
  BY <1>1 DEF Call
<1>2. CASE Recover
  BY <1>2 DEF Recover, Recoverable, Holds, Journals
<1>3. CASE Load
  BY <1>3 DEF Load
<1>4. CASE RetainPayload
  BY <1>4 DEF RetainPayload
<1>5. CASE RetainMetadata
  BY <1>5 DEF RetainMetadata
<1>6. CASE Consume
  <2>1. pc = "consume" /\ read \in JobStates /\ call.pin \in Payloads /\ call.status \in Statuses
    BY <1>6 DEF Consume, Calls
  <2>2. Failed \in Records /\ Failed.status = call.status
    BY <2>1 DEF Failed, Records, States
  <2> DEFINE o == Observed(call, call.status, CancelSeen)
  <2>3. CASE Verified(call, call.status, previous) /\ job = read
    <3>1. o \in Observations /\ (previous # None /\ previous.phase \in Terminal => Receipt(o) = Receipt(previous))
      BY <2>1, <2>3, ObservedIs
    <3> HIDE DEF o
    <3>2. "state" \notin disturbed /\ terminal # None => terminal = Receipt(o)
      BY <2>1, <3>1
    <3>3. StateOf(o, read) \in States
      BY DEF StateOf, States
    <3>4. CASE o = previous
      BY <1>6, <2>3, <3>4 DEF Consume, o
    <3>5. CASE o # previous
      <4>1. record' = [Failed EXCEPT !.obs = o, !.state = StateOf(o, read)]
            /\ pc' = "status" /\ UNCHANGED <<around, saved, disturbed, call, read>>
        BY <1>6, <2>3, <3>5 DEF Consume, o
      <4> HIDE DEF Failed
      <4>2. record' \in Records /\ record'.status = call.status /\ record'.obs = o
        BY <2>2, <3>1, <3>3, <4>1 DEF Records
      <4> QED
        BY <2>1, <3>2, <4>1, <4>2
    <3> QED
      BY <3>4, <3>5
  <2>4. CASE ~(Verified(call, call.status, previous) /\ job = read)
    <3>1. record' = Failed /\ record'.obs = None /\ pc' = "status"
          /\ UNCHANGED <<around, saved, disturbed, call, read>>
      BY <1>6, <2>4 DEF Consume, Failed
    <3> HIDE DEF Failed
    <3> QED
      BY <2>1, <2>2, <3>1
  <2> QED
    BY <2>3, <2>4
<1>7. CASE RetainStatus
  BY <1>7 DEF RetainStatus, Calls
<1>8. CASE RecordFailure
  BY <1>8 DEF RecordFailure
<1>9. CASE CheckpointPrevious
  BY <1>9 DEF CheckpointPrevious, OfPrevious
<1>10. CASE CheckpointNext
  BY <1>10 DEF CheckpointNext
<1>11. CASE WriteJournal
  <2>1. journal' = [prev |-> state, next |-> record] /\ state \in Records \cup {None} /\ record \in Records
    BY <1>11 DEF WriteJournal
  <2>2. journal' \in Journals /\ journal' # None /\ journal'.prev = state /\ journal'.next = record
    <3>1. journal' \in Journals
      BY <2>1 DEF Journals
    <3> QED
      BY <2>1, <3>1
  <2> QED
    BY <1>11, <2>2 DEF WriteJournal
<1>12. CASE LatchTerminal
  BY <1>12 DEF LatchTerminal, ReceiptKept
<1>13. CASE LatchCancelled
  BY <1>13 DEF LatchCancelled
<1>14. CASE ReplaceState
  BY <1>14 DEF ReplaceState
<1>15. CASE Unlink
  BY <1>15 DEF Unlink
<1>16. CASE Crash
  BY <1>16 DEF Crash
<1>17. CASE JobMoves
  BY <1>17 DEF JobMoves, Disturbs
<1>18. CASE EvidenceSpoiled
  BY <1>18 DEF EvidenceSpoiled, Disturbs
<1>19. CASE EvidenceRestored
  BY <1>19 DEF EvidenceRestored
<1>20. CASE Rollback
  BY <1>20 DEF Rollback, Disturbs
<1>21. CASE UNCHANGED vars
  BY <1>21 DEF vars
<1> QED
  BY <1>1, <1>2, <1>3, <1>4, <1>5, <1>6, <1>7, <1>8, <1>9, <1>10, <1>11, <1>12, <1>13, <1>14,
     <1>15, <1>16, <1>17, <1>18, <1>19, <1>20, <1>21 DEF Next, Run

\* What the journal and the state need to be finished or continued from is there at every moment,
\* at whichever file a call dies (_commit_state, _finish_transaction).
THEOREM FilesComplete == Spec => []NothingMissing
<1>1. FilesInv => NothingMissing
  BY DEF FilesInv
<1> QED
  BY InitHolds, StepHolds, FilesInit, FilesStep, <1>1, PTL DEF Spec

\* The files beside a job are of their types: a latch holds a result, and whatever is put back or
\* left by a dead call can be read.
THEOREM ResultsTyped == Spec => []TypeOK
<1> DEFINE Latches == /\ evidence \in BOOLEAN /\ cancelled \in BOOLEAN
                      /\ payload \in Payloads \cup {None} /\ metadata \in Metadata \cup {None}
                      /\ terminal \in Results \cup {None}
<1>1. Init => Latches
  BY DEF Init
<1>2. IInv /\ FilesInv /\ Latches /\ [Next]_vars => Latches'
  <2> SUFFICES ASSUME IInv, FilesInv, Latches, [Next]_vars PROVE Latches'
    OBVIOUS
  <2>1. ASSUME NEW c \in Calls, Call(c) PROVE Latches'
    BY <2>1 DEF Call, around, saved, inputs
  <2>2. CASE RetainPayload
    <3>1. call \in Calls
      BY <2>2 DEF RetainPayload, IInv, Control
    <3>2. call.payload \in Payloads
      BY <3>1 DEF Calls
    <3> QED
      BY <2>2, <3>2 DEF RetainPayload, around, inputs
  <2>3. CASE RetainMetadata
    <3>1. call \in Calls
      BY <2>3 DEF RetainMetadata, IInv, Control
    <3>2. call.metadata \in Metadata
      BY <3>1 DEF Calls
    <3> QED
      BY <2>3, <3>2 DEF RetainMetadata, around, inputs
  <2>4. CASE LatchTerminal
    <3>1. Receipt(record.obs) \in Results
      BY <2>4 DEF LatchTerminal, IInv, Control, Recorded, InFlight, Committing, Finishing
    <3> HIDE DEF Receipt
    <3>2. terminal' \in {terminal, Receipt(record.obs)}
      BY <2>4 DEF LatchTerminal, memory
    <3> QED
      BY <2>4, <3>1, <3>2 DEF LatchTerminal, around, inputs
  <2>5. CASE LatchCancelled
    <3>1. cancelled' \in BOOLEAN
      BY <2>5, Zenon DEF LatchCancelled
    <3> QED
      BY <2>5, <3>1 DEF LatchCancelled, around, inputs
  <2>6. CASE Recover \/ Load \/ Consume \/ Crash
    BY <2>6 DEF Recover, Load, Consume, Crash, around, saved, inputs
  <2>7. CASE RetainStatus \/ RecordFailure \/ CheckpointPrevious \/ CheckpointNext \/ WriteJournal
    BY <2>7 DEF RetainStatus, RecordFailure, CheckpointPrevious, CheckpointNext, WriteJournal, around, inputs
  <2>8. CASE ReplaceState \/ Unlink \/ Rollback
    BY <2>8 DEF ReplaceState, Unlink, Rollback, around, inputs
  <2>9. CASE JobMoves \/ EvidenceSpoiled \/ EvidenceRestored
    BY <2>9 DEF JobMoves, EvidenceSpoiled, EvidenceRestored, saved, inputs
  <2>10. CASE UNCHANGED vars
    BY <2>10 DEF vars, around, saved, inputs
  <2> QED
    BY <2>1, <2>2, <2>3, <2>4, <2>5, <2>6, <2>7, <2>8, <2>9, <2>10 DEF Next, Run
<1>3. IInv /\ FilesInv /\ Latches => TypeOK
  BY DEF IInv, Control, Kept, FilesInv, FilesTyped, TypeOK
<1> HIDE DEF Latches
<1> QED
  BY InitHolds, StepHolds, FilesInit, FilesStep, <1>1, <1>2, <1>3, PTL DEF Spec
=============================================================================
