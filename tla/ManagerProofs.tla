--------------------------- MODULE ManagerProofs ---------------------------
(***************************************************************************)
(* Theorems about the Manager for any number of jobs, attempts, workers    *)
(* and artifacts, any lease time and any horizon of the clock: how the     *)
(* rows agree, and what this gives the requester (the contract of a job,   *)
(* cancellations that stay, results and artifacts that keep what they name).*)
(* The second half is about the Manager and one worker with a network in   *)
(* between: it is the Manager's own behaviour, and the worker keeps its    *)
(* grip on a job exactly as long as the Manager thinks it does.            *)
(***************************************************************************)
EXTENDS WorkerService, TLAPS

-----------------------------------------------------------------------------
\* Types.

LEMMA InitTyped == Init => TypeOK
BY ManagerAssumption DEF Init, TypeOK, NoJob, NoAttempt, JobRow, AttemptRow,
   WorkerRow, JobStates, Reasons, Occupying, Terminal

\* An empty row of either table has the type of its table.
LEMMA EmptyRows ==
    /\ \A s \in JobStates : NoJob(s) \in JobRow
    /\ \A s \in {"unused", "live", "deleted"} : NoAttempt(s) \in AttemptRow
BY DEF NoJob, NoAttempt, JobRow, AttemptRow, Reasons

LEMMA NextTyped == TypeOK /\ [Next]_vars => TypeOK'
<1> SUFFICES ASSUME TypeOK, [Next]_vars PROVE TypeOK'
  OBVIOUS
<1> USE DEF TypeOK
<1>1. ASSUME NEW w \in Workers, NEW r \in Registrations, Register(w, r)
      PROVE TypeOK'
  BY <1>1 DEF Register, WorkerRow
<1>2. ASSUME NEW j \in Jobs, NEW k \in Keys, NEW i \in Inputs, NEW kind \in Kinds,
             NEW t \in Targets, NEW d \in Terms,
             Submit(j, k, i, kind, t, d)
      PROVE TypeOK'
  <2>1. now + d \in Nat
    BY ManagerAssumption
  <2>2. QueuedJob(k, i, kind, t, d) \in JobRow
    BY <2>1 DEF QueuedJob, JobRow, JobStates, Reasons
  <2> QED BY <1>2, <2>2 DEF Submit
<1>3. ASSUME NEW w \in Workers, NEW j \in Jobs, NEW a \in Attempts, Claim(w, j, a)
      PROVE TypeOK'
  <2>1. job' \in [Jobs -> JobRow]
    <3> DEFINE row == [job[j] EXCEPT !.state = "running", !.worker = w, !.attempt = a]
    <3>1. "running" \in JobStates
      BY DEF JobStates, Occupying
    <3>2. row \in JobRow
      BY <3>1, ZenonT(60) DEF JobRow
    <3>3. job' = [job EXCEPT ![j] = row]
      BY <1>3 DEF Claim
    <3> QED BY <3>2, <3>3
  <2>2. attempt' \in [Attempts -> AttemptRow]
    BY <1>3, ManagerAssumption DEF Claim, AttemptRow
  <2> QED BY <1>3, <2>1, <2>2 DEF Claim
<1>4. ASSUME NEW w \in Workers, NEW j \in Jobs, NEW a \in Attempts, RenewLease(w, j, a)
      PROVE TypeOK'
  <2>1. RenewedUntil(j) \in Nat
    BY ManagerAssumption DEF RenewedUntil, JobRow
  <2> QED BY <1>4, <2>1 DEF RenewLease, AttemptRow
<1>5. ASSUME NEW j \in Jobs, Cancel(j)
      PROVE TypeOK'
  <2>1. job' \in [Jobs -> JobRow]
    <3>1. CASE job' = [job EXCEPT ![j].state = "cancelled",
                                  ![j].reason = "cancelled_by_requester"]
      <4> DEFINE row == [job[j] EXCEPT !.state = "cancelled", !.reason = "cancelled_by_requester"]
      <4>1. "cancelled" \in JobStates /\ "cancelled_by_requester" \in Reasons
        BY DEF JobStates, Terminal, Reasons
      <4>2. row \in JobRow
        BY <4>1, ZenonT(60) DEF JobRow
      <4> QED BY <3>1, <4>2
    <3>2. CASE job' = [job EXCEPT ![j].state = "cancel_requested"]
      <4>1. "cancel_requested" \in JobStates
        BY DEF JobStates, Occupying
      <4>2. [job[j] EXCEPT !.state = "cancel_requested"] \in JobRow
        BY <4>1, ZenonT(60) DEF JobRow
      <4> QED BY <3>2, <4>2
    <3> QED BY <1>5, <3>1, <3>2 DEF Cancel
  <2> QED BY <1>5, <2>1 DEF Cancel
<1>6. ASSUME NEW w \in Workers, NEW j \in Jobs, NEW a \in Attempts, NEW e \in Envelopes,
             Finalize(w, j, a, e)
      PROVE TypeOK'
  <2>1. Concluded(job[j].state, e.status) \in JobStates
    BY <1>6, ManagerAssumption DEF Finalize, MayFinalize, Concluded, JobStates, Terminal, Envelopes
  <2>2. job' \in [Jobs -> JobRow]
    <3> DEFINE how == Concluded(job[j].state, e.status)
               why == IF e.status = "cancelled" THEN "cancelled_by_requester" ELSE None
               row == [job[j] EXCEPT !.state = how, !.reason = why, !.result = e]
    <3>1. job' = [job EXCEPT ![j] = row]
      BY <1>6 DEF Finalize
    <3>2. why \in Reasons
      BY DEF Reasons
    <3>3. job[j] \in JobRow /\ how \in JobStates
      BY <2>1
    <3>4. row \in JobRow
      <4> HIDE DEF TypeOK, how, why
      <4> QED BY <3>2, <3>3 DEF JobRow
    <3> QED BY <3>1, <3>4
  <2>3. attempt' \in [Attempts -> AttemptRow]
    BY <1>6 DEF Finalize, AttemptRow
  <2> QED BY <1>6, <2>2, <2>3 DEF Finalize
<1>7. ASSUME NEW w \in Workers, NEW j \in Jobs, NEW a \in Attempts, NEW r \in Refs,
             AddArtifact(w, j, a, r)
      PROVE TypeOK'
  BY <1>7 DEF AddArtifact, Refs
<1>8. ASSUME NEW w \in Workers, NEW j \in Jobs, NEW a \in Attempts, NEW r \in Refs,
             AddArtifactCrash(w, j, a, r)
      PROVE TypeOK'
  BY <1>8 DEF AddArtifactCrash, Refs
<1>9. ASSUME NEW j \in Jobs, NEW kept, DeleteJob(j, kept)
      PROVE TypeOK'
  <2>1. job' \in [Jobs -> JobRow]
    BY <1>9, EmptyRows DEF DeleteJob, JobStates
  <2>2. attempt' \in [Attempts -> AttemptRow]
    BY <1>9, EmptyRows DEF DeleteJob
  <2>3. disk' \in [Attempts -> [Names -> Contents \cup {None}]]
    BY <1>9 DEF DeleteJob, Without
  <2> QED BY <1>9, <2>1, <2>2, <2>3 DEF DeleteJob
<1>10. ASSUME NEW j \in Jobs, NEW gone, DeleteJobCrash(j, gone)
       PROVE TypeOK'
  BY <1>10 DEF DeleteJobCrash, Without
<1>11. CASE SweepOnce
  <2>1. job' \in [Jobs -> JobRow]
    <3>1. ASSUME NEW j \in Jobs, NEW why \in Reasons
          PROVE [job[j] EXCEPT !.state = "lost", !.reason = why] \in JobRow
      <4>1. "lost" \in JobStates
        BY DEF JobStates, Terminal
      <4> QED BY <4>1, ZenonT(60) DEF JobRow
    <3>2. "lease_expired" \in Reasons /\ "deadline_expired" \in Reasons
      BY DEF Reasons
    <3>3. \A j \in Jobs : job'[j] \in JobRow
      BY <1>11, <3>1, <3>2 DEF SweepOnce
    <3> QED BY <1>11, <3>3 DEF SweepOnce
  <2>2. worker' \in [Workers -> WorkerRow]
    BY <1>11 DEF SweepOnce, WorkerRow
  <2> QED BY <1>11, <2>1, <2>2 DEF SweepOnce
<1>12. CASE Tick
  BY <1>12 DEF Tick
<1>13. CASE UNCHANGED vars
  BY <1>13 DEF vars
<1> QED
  <2> HIDE DEF TypeOK
  <2>1. CASE Next
    BY <2>1, <1>1, <1>2, <1>3, <1>4, <1>5, <1>6, <1>7, <1>8, <1>9, <1>10, <1>11, <1>12,
       Zenon DEF Next
  <2> QED BY <1>13, <2>1

\* Every variable keeps its type, whatever the constants are.
THEOREM Typed == Spec => []TypeOK
BY InitTyped, NextTyped, PTL DEF Spec

-----------------------------------------------------------------------------
\* The rows of jobs and attempts.

\* The job and the attempt rows name each other, the state of a job tells what
\* became of its attempt, leases are bounded and keys are unique.  None of the
\* first three is inductive alone: that a finished attempt is not touched again
\* needs that no two jobs share an attempt, and that a queued job has none.
Rows == TypeOK /\ OneAttemptPerJob /\ OutcomeMatchesAttempt /\ LeaseBounded /\ KeyNamesOneJob

LEMMA InitRows == Init => Rows
<1> SUFFICES ASSUME Init PROVE Rows
  OBVIOUS
<1>1. TypeOK
  BY InitTyped
<1>2. OneAttemptPerJob
  BY DEF Init, NoJob, NoAttempt, OneAttemptPerJob, AttemptHasJob, JobHasAttempt, Live
<1>3. OutcomeMatchesAttempt
  BY DEF Init, NoJob, OutcomeMatchesAttempt, OutcomeMatches, Occupying
<1>4. LeaseBounded /\ KeyNamesOneJob
  BY DEF Init, NoJob, NoAttempt, LeaseBounded, LeaseEnds, KeyNamesOneJob, Live, Present
<1> QED BY <1>1, <1>2, <1>3, <1>4 DEF Rows

\* A job keeps matching its attempt when its row stays, its attempt is not
\* finalized meanwhile and a lease that was over stays over.
LEMMA OutcomeStays ==
    ASSUME NEW m \in Jobs, OutcomeMatches(m), job'[m] = job[m],
           job[m].attempt # None =>
              /\ attempt'[job[m].attempt].finalized = attempt[job[m].attempt].finalized
              /\ job[m].state = "lost" /\ Expired(job[m].attempt) => Expired(job[m].attempt)'
    PROVE  OutcomeMatches(m)'
BY DEF OutcomeMatches, Answered

\* An attempt keeps its job when neither of the two rows moves.
LEMMA AttemptStays ==
    ASSUME NEW b \in Attempts, AttemptHasJob(b), Live(b) => LeaseEnds(b),
           attempt'[b].status = attempt[b].status, attempt'[b].job = attempt[b].job,
           attempt'[b].worker = attempt[b].worker, attempt'[b].created = attempt[b].created,
           Live(b) => job'[attempt[b].job] = job[attempt[b].job]
    PROVE  /\ AttemptHasJob(b)'
           /\ attempt'[b].expires = attempt[b].expires => LeaseEnds(b)'
BY DEF AttemptHasJob, LeaseEnds, Live, Present

LEMMA JobStays ==
    ASSUME NEW m \in Jobs, JobHasAttempt(m), job'[m] = job[m],
           job[m].attempt # None =>
              /\ attempt'[job[m].attempt].status = attempt[job[m].attempt].status
              /\ attempt'[job[m].attempt].job = attempt[job[m].attempt].job
    PROVE  JobHasAttempt(m)'
BY DEF JobHasAttempt, Live, Present

\* Keys stay unique when no job appears and none changes its key.
LEMMA KeysStay ==
    ASSUME KeyNamesOneJob,
           \A m \in Jobs : Present(m)' => Present(m) /\ job'[m].key = job[m].key
    PROVE  KeyNamesOneJob'
BY DEF KeyNamesOneJob

\* A step that leaves both tables alone, and does not turn the clock back.
LEMMA RowsUntouched ==
    ASSUME Rows, TypeOK', UNCHANGED <<job, attempt>>, now' >= now
    PROVE  Rows'
<1> USE DEF Rows
<1>1. \A a \in Attempts : Expired(a) => Expired(a)'
  BY DEF TypeOK, Expired, AttemptRow
<1>2. \A m \in Jobs : job[m].attempt \in Attempts \cup {None}
  BY DEF TypeOK, JobRow
<1>3. OutcomeMatchesAttempt'
  BY <1>1, <1>2, OutcomeStays DEF OutcomeMatchesAttempt
<1>4. OneAttemptPerJob' /\ LeaseBounded'
  BY AttemptStays, JobStays DEF OneAttemptPerJob, LeaseBounded
<1>5. KeyNamesOneJob'
  BY KeysStay DEF Present
<1> QED BY <1>3, <1>4, <1>5

LEMMA SubmitRows ==
    ASSUME Rows, TypeOK', NEW j \in Jobs, NEW k \in Keys, NEW i \in Inputs,
           NEW kind \in Kinds, NEW t \in Targets, NEW d \in Terms, Submit(j, k, i, kind, t, d)
    PROVE  Rows'
<1> USE DEF Rows
<1>1. /\ job[j].state = "unused" /\ ~Present(j) /\ ~KeyTaken(k)
      /\ attempt' = attempt /\ now' = now
      /\ job'[j] = QueuedJob(k, i, kind, t, d)
      /\ \A m \in Jobs \ {j} : job'[m] = job[m]
  BY DEF Submit, TypeOK, Present
<1>2. /\ job'[j].state = "queued" /\ job'[j].key = k
      /\ job'[j].attempt = None /\ job'[j].result = None
  BY <1>1 DEF QueuedJob
<1>3. \A b \in Attempts : Live(b) => attempt[b].job \in Jobs \ {j}
  BY <1>1 DEF OneAttemptPerJob, AttemptHasJob
<1>4. (\A b \in Attempts : AttemptHasJob(b)') /\ LeaseBounded'
  BY <1>1, <1>3, AttemptStays DEF OneAttemptPerJob, LeaseBounded
<1>5. \A m \in Jobs : JobHasAttempt(m)'
  BY <1>1, <1>2, JobStays DEF OneAttemptPerJob, JobHasAttempt
<1>6. OutcomeMatchesAttempt'
  <2>1. OutcomeMatches(j)'
    BY <1>2 DEF OutcomeMatches, Occupying
  <2> QED BY <1>1, <2>1, OutcomeStays DEF OutcomeMatchesAttempt, Expired
<1>7. KeyNamesOneJob'
  BY <1>1, <1>2 DEF KeyNamesOneJob, KeyTaken, Present
<1> QED BY <1>4, <1>5, <1>6, <1>7 DEF OneAttemptPerJob

LEMMA ClaimRows ==
    ASSUME Rows, TypeOK', NEW w \in Workers, NEW j \in Jobs, NEW a \in Attempts, Claim(w, j, a)
    PROVE  Rows'
<1> USE DEF Rows
<1>1. job[j].state = "queued" /\ job[j].deadline > now
  BY DEF Claim, Claimable, MayTake, Waiting
<1>2. /\ ~Live(a) /\ now' = now
      /\ attempt'[a] = [status |-> "live", job |-> j, worker |-> w, created |-> now,
                        expires |-> now + LeaseTTL, finalized |-> FALSE]
      /\ \A b \in Attempts \ {a} : attempt'[b] = attempt[b]
      /\ job'[j] = [job[j] EXCEPT !.state = "running", !.worker = w, !.attempt = a]
      /\ \A m \in Jobs \ {j} : job'[m] = job[m]
  BY DEF Claim, Live, TypeOK
<1>3. job[j].attempt = None /\ job[j].result = None
  BY <1>1 DEF OutcomeMatchesAttempt, OutcomeMatches
<1>4. /\ job'[j].state = "running" /\ job'[j].worker = w /\ job'[j].attempt = a
      /\ job'[j].deadline = job[j].deadline /\ job'[j].key = job[j].key
      /\ job'[j].result = None
  BY <1>2, <1>3 DEF TypeOK, JobRow
<1>5. /\ attempt'[a].status = "live" /\ attempt'[a].job = j /\ attempt'[a].worker = w
      /\ attempt'[a].created = now /\ attempt'[a].expires = now + LeaseTTL
      /\ attempt'[a].finalized = FALSE
  BY <1>2
<1>6. \A m \in Jobs \ {j} : job[m].attempt \in (Attempts \ {a}) \cup {None}
  BY <1>2 DEF OneAttemptPerJob, JobHasAttempt, TypeOK, JobRow
<1>7. \A b \in Attempts \ {a} : Live(b) => attempt[b].job \in Jobs \ {j}
  BY <1>3, ManagerAssumption DEF OneAttemptPerJob, AttemptHasJob
<1>8. \A b \in Attempts \ {a} : AttemptHasJob(b)' /\ LeaseEnds(b)'
  BY <1>2, <1>7, AttemptStays DEF OneAttemptPerJob, LeaseBounded
<1>9. AttemptHasJob(a)'
  BY <1>4, <1>5 DEF AttemptHasJob, Present
<1>10. LeaseEnds(a)'
  BY <1>1, <1>4, <1>5, ManagerAssumption DEF LeaseEnds, TypeOK, JobRow
<1>11. \A m \in Jobs \ {j} : JobHasAttempt(m)' /\ OutcomeMatches(m)'
  BY <1>2, <1>6, JobStays, OutcomeStays DEF OneAttemptPerJob, OutcomeMatchesAttempt, Expired
<1>12. JobHasAttempt(j)' /\ OutcomeMatches(j)'
  BY <1>4, <1>5, ManagerAssumption DEF JobHasAttempt, OutcomeMatches, Occupying, Present, Live
<1>13. KeyNamesOneJob'
  BY <1>1, <1>2, <1>4, KeysStay DEF Present
<1> QED
  BY <1>8, <1>9, <1>10, <1>11, <1>12, <1>13
  DEF OneAttemptPerJob, OutcomeMatchesAttempt, LeaseBounded

LEMMA RenewRows ==
    ASSUME Rows, TypeOK', NEW w \in Workers, NEW j \in Jobs, NEW a \in Attempts,
           RenewLease(w, j, a)
    PROVE  Rows'
<1> USE DEF Rows
<1>1. /\ HoldsLease(w, j, a) /\ job[j].state \notin Terminal /\ job' = job /\ now' = now
      /\ attempt'[a] = [attempt[a] EXCEPT !.expires = RenewedUntil(j)]
      /\ \A b \in Attempts \ {a} : attempt'[b] = attempt[b]
  BY DEF RenewLease, TypeOK
<1>2. /\ attempt'[a].status = attempt[a].status /\ attempt'[a].job = attempt[a].job
      /\ attempt'[a].worker = attempt[a].worker /\ attempt'[a].created = attempt[a].created
      /\ attempt'[a].finalized = attempt[a].finalized /\ attempt'[a].expires = RenewedUntil(j)
  BY <1>1 DEF TypeOK, AttemptRow
<1>3. \A m \in Jobs : job[m].attempt \in Attempts \cup {None}
  BY DEF TypeOK, JobRow
<1>4. \A b \in Attempts : AttemptHasJob(b)' /\ (b # a => LeaseEnds(b)')
  BY <1>1, <1>2, AttemptStays DEF OneAttemptPerJob, LeaseBounded
<1>5. LeaseEnds(a)'
  <2>1. RenewedUntil(j) <= job[j].deadline
    <3>1. job[j].deadline \in Nat /\ now + LeaseTTL \in Nat
      BY ManagerAssumption DEF TypeOK, JobRow
    <3> QED BY <3>1 DEF RenewedUntil
  <2> QED BY <1>1, <1>2, <2>1 DEF LeaseBounded, LeaseEnds, HoldsLease, Live
<1>6. \A m \in Jobs : JobHasAttempt(m)'
  BY <1>1, <1>2, <1>3, JobStays DEF OneAttemptPerJob
<1>7. OutcomeMatchesAttempt'
  <2>1. job[j].state # "lost"
    BY <1>1 DEF Terminal
  <2>2. \A m \in Jobs \ {j} : job[m].attempt # a
    BY <1>1, ManagerAssumption DEF OneAttemptPerJob, JobHasAttempt, HoldsLease
  <2> QED BY <1>1, <1>2, <1>3, <2>1, <2>2, OutcomeStays, ZenonT(60) DEF OutcomeMatchesAttempt, Expired
<1>8. KeyNamesOneJob'
  BY <1>1, KeysStay DEF Present
<1> QED BY <1>4, <1>5, <1>6, <1>7, <1>8 DEF OneAttemptPerJob, LeaseBounded

LEMMA CancelRows ==
    ASSUME Rows, TypeOK', NEW j \in Jobs, Cancel(j)
    PROVE  Rows'
<1> USE DEF Rows
<1>1. /\ attempt' = attempt /\ now' = now
      /\ \A m \in Jobs \ {j} : job'[m] = job[m]
      /\ job'[j].attempt = job[j].attempt /\ job'[j].result = job[j].result
      /\ job'[j].worker = job[j].worker /\ job'[j].key = job[j].key
      /\ job'[j].deadline = job[j].deadline
      /\ \/ job[j].state = "queued" /\ job'[j].state = "cancelled"
         \/ job[j].state = "running" /\ job'[j].state = "cancel_requested"
  BY DEF Cancel, TypeOK, JobRow
<1>2. \A m \in Jobs : job[m].attempt \in Attempts \cup {None}
  BY DEF TypeOK, JobRow
<1>3. OutcomeMatches(j)'
  BY <1>1, <1>2 DEF OutcomeMatchesAttempt, OutcomeMatches, Occupying
<1>4. OutcomeMatchesAttempt'
  BY <1>1, <1>2, <1>3, OutcomeStays DEF OutcomeMatchesAttempt, Expired
<1>5. \A b \in Attempts : AttemptHasJob(b)' /\ LeaseEnds(b)'
  BY <1>1 DEF OneAttemptPerJob, AttemptHasJob, LeaseBounded, LeaseEnds, Live, Present
<1>6. \A m \in Jobs : JobHasAttempt(m)'
  BY <1>1 DEF OneAttemptPerJob, JobHasAttempt, Live, Present
<1>7. KeyNamesOneJob'
  BY <1>1, KeysStay DEF Present
<1> QED BY <1>4, <1>5, <1>6, <1>7 DEF OneAttemptPerJob, LeaseBounded

LEMMA FinalizeRows ==
    ASSUME Rows, TypeOK', NEW w \in Workers, NEW j \in Jobs, NEW a \in Attempts,
           NEW e \in Envelopes, Finalize(w, j, a, e)
    PROVE  Rows'
<1> USE DEF Rows
<1>1. /\ HoldsLease(w, j, a) /\ e.attempt = a
      /\ Concluded(job[j].state, e.status) # None /\ now' = now
      /\ attempt'[a] = [attempt[a] EXCEPT !.finalized = TRUE]
      /\ \A b \in Attempts \ {a} : attempt'[b] = attempt[b]
      /\ \A m \in Jobs \ {j} : job'[m] = job[m]
      /\ job'[j].state = Concluded(job[j].state, e.status) /\ job'[j].result = e
      /\ job'[j].attempt = job[j].attempt /\ job'[j].worker = job[j].worker
      /\ job'[j].key = job[j].key /\ job'[j].deadline = job[j].deadline
  BY DEF Finalize, MayFinalize, TypeOK, JobRow
<1>2. /\ attempt'[a].status = attempt[a].status /\ attempt'[a].job = attempt[a].job
      /\ attempt'[a].worker = attempt[a].worker /\ attempt'[a].created = attempt[a].created
      /\ attempt'[a].expires = attempt[a].expires /\ attempt'[a].finalized
  BY <1>1 DEF TypeOK, AttemptRow
<1>3. \A m \in Jobs \ {j} : job[m].attempt \in (Attempts \ {a}) \cup {None}
  BY <1>1, ManagerAssumption DEF OneAttemptPerJob, JobHasAttempt, HoldsLease, TypeOK, JobRow
<1>4. Present(j)' /\ Present(j) /\ job[j].state \in Occupying
  <2>1. job[j].state \in Occupying
    BY <1>1 DEF Concluded, Occupying
  <2>2. e.status \in {"succeeded", "partial", "failed", "cancelled"}
    BY ManagerAssumption DEF Envelopes
  <2>3. job'[j].state \in {"completed", "partial", "failed", "cancelled"}
    BY <1>1, <2>1, <2>2 DEF Concluded, Occupying
  <2> QED BY <2>1, <2>3 DEF Present, Occupying
<1>5. OutcomeMatches(j)'
  <2>1. e # None /\ a # None /\ job[j].attempt = a
    BY <1>1, NullAssumption, ManagerAssumption DEF HoldsLease
  <2>2. Answered(j)'
    BY <1>1, <1>2, <2>1 DEF Answered
  <2>3. job'[j].state \in {"completed", "partial", "failed"}
          => Concluded("running", e.status) = job'[j].state
    BY <1>1, <1>4 DEF Concluded, Occupying, Envelopes
  <2>4. job'[j].state = "cancelled" => e.status = "cancelled"
    BY <1>1, <1>4 DEF Concluded, Occupying, Envelopes
  <2>5. job'[j].state \in {"completed", "partial", "failed", "cancelled"}
    BY <1>1, <1>4, ManagerAssumption DEF Concluded, Occupying, Envelopes
  <2>6. Concluded("running", e.status)' = Concluded("running", e.status)
    BY DEF Concluded
  <2> QED BY <1>1, <2>2, <2>3, <2>4, <2>5, <2>6 DEF OutcomeMatches, Occupying
<1>6. OutcomeMatchesAttempt'
  BY <1>1, <1>3, <1>5, OutcomeStays DEF OutcomeMatchesAttempt, Expired
<1>7. \A b \in Attempts : /\ attempt'[b].status = attempt[b].status
                          /\ attempt'[b].job = attempt[b].job
                          /\ attempt'[b].worker = attempt[b].worker
                          /\ attempt'[b].created = attempt[b].created
                          /\ attempt'[b].expires = attempt[b].expires
  BY <1>1, <1>2
<1>8. \A m \in Jobs : /\ Present(m)' <=> Present(m)
                      /\ job'[m].attempt = job[m].attempt /\ job'[m].worker = job[m].worker
                      /\ job'[m].key = job[m].key /\ job'[m].deadline = job[m].deadline
  BY <1>1, <1>4 DEF Present
<1>9. \A b \in Attempts : AttemptHasJob(b)' /\ LeaseEnds(b)'
  BY <1>7, <1>8 DEF OneAttemptPerJob, AttemptHasJob, LeaseBounded, LeaseEnds, Live
<1>10. \A m \in Jobs : JobHasAttempt(m)'
  <2>1. \A m \in Jobs : job[m].attempt \in Attempts \cup {None}
    BY DEF TypeOK, JobRow
  <2> QED BY <1>7, <1>8, <2>1 DEF OneAttemptPerJob, JobHasAttempt, Live
<1>11. KeyNamesOneJob'
  BY <1>8, KeysStay
<1> QED BY <1>6, <1>9, <1>10, <1>11 DEF OneAttemptPerJob, LeaseBounded

LEMMA DeleteRows ==
    ASSUME Rows, TypeOK', NEW j \in Jobs, NEW kept, DeleteJob(j, kept)
    PROVE  Rows'
<1> USE DEF Rows
<1>1. /\ now' = now /\ job'[j] = NoJob("deleted")
      /\ \A m \in Jobs \ {j} : job'[m] = job[m]
      /\ \A b \in Attempts : attempt'[b] = IF attempt[b].job = j
                                           THEN NoAttempt("deleted") ELSE attempt[b]
  BY DEF DeleteJob, TypeOK
<1>2. \A m \in Jobs \ {j} : job[m].attempt # None =>
         job[m].attempt \in Attempts /\ attempt'[job[m].attempt] = attempt[job[m].attempt]
  BY <1>1 DEF OneAttemptPerJob, JobHasAttempt, TypeOK, JobRow
<1>3. \A m \in Jobs \ {j} : JobHasAttempt(m)' /\ OutcomeMatches(m)'
  BY <1>1, <1>2, JobStays, OutcomeStays DEF OneAttemptPerJob, OutcomeMatchesAttempt, Expired
<1>4. JobHasAttempt(j)' /\ OutcomeMatches(j)'
  BY <1>1 DEF NoJob, JobHasAttempt, OutcomeMatches, Occupying
<1>5. \A b \in Attempts : AttemptHasJob(b)' /\ LeaseEnds(b)'
  <2> SUFFICES ASSUME NEW b \in Attempts PROVE AttemptHasJob(b)' /\ LeaseEnds(b)'
    OBVIOUS
  <2>1. CASE attempt[b].job = j
    BY <1>1, <2>1 DEF NoAttempt, AttemptHasJob, LeaseEnds, Live
  <2>2. CASE attempt[b].job # j
    <3>1. attempt'[b] = attempt[b] /\ (Live(b) => job'[attempt[b].job] = job[attempt[b].job])
      BY <1>1, <2>2 DEF OneAttemptPerJob, AttemptHasJob
    <3> QED BY <3>1, AttemptStays DEF OneAttemptPerJob, LeaseBounded
  <2> QED BY <2>1, <2>2
<1>6. KeyNamesOneJob'
  BY <1>1, KeysStay DEF Present, NoJob
<1> QED BY <1>3, <1>4, <1>5, <1>6 DEF OneAttemptPerJob, OutcomeMatchesAttempt, LeaseBounded

LEMMA SweepRows ==
    ASSUME Rows, TypeOK', SweepOnce
    PROVE  Rows'
<1> USE DEF Rows
<1>1. attempt' = attempt /\ now' = now
  BY DEF SweepOnce
<1>2. \A m \in Jobs :
         /\ job'[m].attempt = job[m].attempt /\ job'[m].result = job[m].result
         /\ job'[m].worker = job[m].worker /\ job'[m].key = job[m].key
         /\ job'[m].deadline = job[m].deadline
         /\ \/ job'[m] = job[m]
            \/ LeaseRanOut(m) /\ job'[m].state = "lost"
            \/ NeverClaimed(m) /\ job'[m].state = "lost"
  BY DEF SweepOnce, TypeOK, JobRow
<1>3. \A m \in Jobs : (Present(m)' <=> Present(m))
  BY <1>2 DEF Present, LeaseRanOut, NeverClaimed
<1>4. ASSUME NEW m \in Jobs PROVE OutcomeMatches(m)'
  <2>1. CASE job'[m] = job[m]
    BY <1>1, <2>1, OutcomeStays DEF OutcomeMatchesAttempt, Expired
  <2>2. CASE LeaseRanOut(m) /\ job'[m].state = "lost"
    BY <1>1, <1>2, <2>2 DEF OutcomeMatchesAttempt, OutcomeMatches, LeaseRanOut, Expired, Occupying
  <2>3. CASE NeverClaimed(m) /\ job'[m].state = "lost"
    BY <1>1, <1>2, <2>3 DEF OutcomeMatchesAttempt, OutcomeMatches, NeverClaimed, Occupying
  <2> QED BY <1>2, <2>1, <2>2, <2>3
<1>5. \A b \in Attempts : AttemptHasJob(b)' /\ LeaseEnds(b)'
  BY <1>1, <1>2, <1>3 DEF OneAttemptPerJob, AttemptHasJob, LeaseBounded, LeaseEnds, Live
<1>6. \A m \in Jobs : JobHasAttempt(m)'
  BY <1>1, <1>2, <1>3 DEF OneAttemptPerJob, JobHasAttempt, Live
<1>7. KeyNamesOneJob'
  BY <1>2, <1>3, KeysStay
<1> QED BY <1>4, <1>5, <1>6, <1>7 DEF OneAttemptPerJob, OutcomeMatchesAttempt, LeaseBounded

LEMMA NextRows == Rows /\ [Next]_vars => Rows'
<1> SUFFICES ASSUME Rows, [Next]_vars PROVE Rows'
  OBVIOUS
<1>1. TypeOK'
  BY NextTyped DEF Rows
<1>2. CASE UNCHANGED <<job, attempt, now>>
  BY <1>1, <1>2, RowsUntouched DEF Rows, TypeOK
<1>3. CASE Tick
  BY <1>1, <1>3, RowsUntouched DEF Rows, TypeOK, Tick
<1>4. ASSUME NEW w \in Workers, NEW r \in Registrations, Register(w, r)
      PROVE UNCHANGED <<job, attempt, now>>
  BY <1>4 DEF Register
<1>5. ASSUME NEW w, NEW j, NEW a, NEW r, AddArtifact(w, j, a, r) \/ AddArtifactCrash(w, j, a, r)
      PROVE UNCHANGED <<job, attempt, now>>
  BY <1>5 DEF AddArtifact, AddArtifactCrash
<1>6. ASSUME NEW j, NEW gone, DeleteJobCrash(j, gone)
      PROVE UNCHANGED <<job, attempt, now>>
  BY <1>6 DEF DeleteJobCrash
<1>7. UNCHANGED vars => UNCHANGED <<job, attempt, now>>
  BY DEF vars
<1> QED
  BY <1>1, <1>2, <1>3, <1>4, <1>5, <1>6, <1>7, SubmitRows, ClaimRows, RenewRows, CancelRows,
     FinalizeRows, DeleteRows, SweepRows, Zenon DEF Next

LEMMA RowsAlways == Spec => []Rows
BY InitRows, NextRows, PTL DEF Spec

\* A job is executed by at most one attempt, and its row and the attempt's row
\* name each other: what _attempt_row and the checks of renew_lease, finalize
\* and add_artifact rely on.
THEOREM OneAttempt == Spec => []OneAttemptPerJob
<1>1. Rows => OneAttemptPerJob
  BY DEF Rows
<1> QED BY <1>1, RowsAlways, PTL

\* No result contradicts the state of its job, and a job lost to its lease has
\* no result and can get none: finalize and sweep_once exclude each other.
THEOREM Outcome == Spec => []OutcomeMatchesAttempt
<1>1. Rows => OutcomeMatchesAttempt
  BY DEF Rows
<1> QED BY <1>1, RowsAlways, PTL

\* However often a lease is renewed it ends by the deadline of its job or one
\* lease time after the claim.
THEOREM Leases == Spec => []LeaseBounded
<1>1. Rows => LeaseBounded
  BY DEF Rows
<1> QED BY <1>1, RowsAlways, PTL

\* A submit key names at most one job.
THEOREM KeysUnique == Spec => []KeyNamesOneJob
<1>1. Rows => KeyNamesOneJob
  BY DEF Rows
<1> QED BY <1>1, RowsAlways, PTL

-----------------------------------------------------------------------------
\* The contract of a job: one lemma for each way a row moves.

LEMMA Keeps ==
    ASSUME NEW j \in Jobs, job'[j] = job[j]
    PROVE  Contract!Step(j)
BY DEF Contract!Step, Contract!Keep

LEMMA SubmitKeeps ==
    ASSUME TypeOK, NEW j \in Jobs, NEW k, NEW i, NEW kind, NEW t, NEW d, Submit(j, k, i, kind, t, d)
    PROVE  \A m \in Jobs : Contract!Step(m)
<1>1. /\ job[j].state = "unused" /\ job'[j] = QueuedJob(k, i, kind, t, d)
      /\ \A m \in Jobs \ {j} : job'[m] = job[m]
  BY DEF Submit, TypeOK
<1>2. job'[j].state = "queued" /\ job'[j].attempt = None /\ job'[j].result = None
  BY <1>1 DEF QueuedJob
<1>3. Contract!Submit(j)
  BY <1>1, <1>2 DEF Contract!Submit, Phase, Terminal
<1> QED BY <1>1, <1>3, Keeps DEF Contract!Step

LEMMA ClaimKeeps ==
    ASSUME Rows, NEW w, NEW j \in Jobs, NEW a \in Attempts, Claim(w, j, a)
    PROVE  \A m \in Jobs : Contract!Step(m)
<1>1. /\ job[j].state = "queued"
      /\ job'[j].state = "running" /\ job'[j].attempt = a /\ job'[j].result = job[j].result
      /\ \A m \in Jobs \ {j} : job'[m] = job[m]
  BY DEF Rows, Claim, Claimable, MayTake, Waiting, TypeOK, JobRow
<1>2. job[j].attempt = None /\ a # None
  BY <1>1, ManagerAssumption DEF Rows, OutcomeMatchesAttempt, OutcomeMatches
<1>3. Contract!Start(j)
  BY <1>1, <1>2 DEF Contract!Start, Phase, Terminal
<1> QED BY <1>1, <1>3, Keeps DEF Contract!Step

LEMMA CancelKeeps ==
    ASSUME TypeOK, NEW j \in Jobs, Cancel(j)
    PROVE  \A m \in Jobs : Contract!Step(m)
<1>1. /\ job'[j].attempt = job[j].attempt /\ job'[j].result = job[j].result
      /\ \A m \in Jobs \ {j} : job'[m] = job[m]
      /\ \/ job[j].state = "queued" /\ job'[j].state = "cancelled"
         \/ job[j].state = "running" /\ job'[j].state = "cancel_requested"
  BY DEF Cancel, TypeOK, JobRow
<1>2. Contract!Withdraw(j) \/ Contract!AskCancel(j)
  BY <1>1 DEF Contract!Withdraw, Contract!AskCancel, Phase, Terminal
<1> QED BY <1>1, <1>2, Keeps DEF Contract!Step

LEMMA FinalizeKeeps ==
    ASSUME TypeOK, NEW w, NEW j \in Jobs, NEW a \in Attempts, NEW e \in Envelopes,
           Finalize(w, j, a, e)
    PROVE  \A m \in Jobs : Contract!Step(m)
<1>1. /\ Concluded(job[j].state, e.status) # None
      /\ job'[j].state = Concluded(job[j].state, e.status)
      /\ job'[j].attempt = job[j].attempt /\ job'[j].result = e
      /\ \A m \in Jobs \ {j} : job'[m] = job[m]
  BY DEF Finalize, MayFinalize, TypeOK, JobRow
<1>2. e # None /\ e.status \in {"succeeded", "partial", "failed", "cancelled"}
  BY NullAssumption, ManagerAssumption DEF Envelopes
<1>3. \/ job[j].state = "running" /\ job'[j].state \in {"completed", "partial", "failed"}
      \/ job[j].state = "cancel_requested" /\ job'[j].state = "cancelled"
  BY <1>1, <1>2 DEF Concluded
<1>4. Contract!Conclude(j)
  BY <1>1, <1>2, <1>3 DEF Contract!Conclude, Phase, Terminal
<1> QED BY <1>1, <1>4, Keeps DEF Contract!Step

LEMMA DeleteKeeps ==
    ASSUME TypeOK, NEW j \in Jobs, NEW kept, DeleteJob(j, kept)
    PROVE  \A m \in Jobs : Contract!Step(m)
<1>1. /\ job[j].state \in Terminal /\ job'[j] = NoJob("deleted")
      /\ \A m \in Jobs \ {j} : job'[m] = job[m]
  BY DEF DeleteJob, TypeOK
<1>2. Contract!Delete(j)
  BY <1>1 DEF Contract!Delete, NoJob, Phase, Terminal
<1> QED BY <1>1, <1>2, Keeps DEF Contract!Step

LEMMA SweepKeeps ==
    ASSUME Rows, SweepOnce
    PROVE  \A m \in Jobs : Contract!Step(m)
<1> SUFFICES ASSUME NEW m \in Jobs PROVE Contract!Step(m)
  OBVIOUS
<1>1. /\ job'[m].attempt = job[m].attempt /\ job'[m].result = job[m].result
      /\ \/ job'[m] = job[m]
         \/ job[m].state \in {"running", "queued"} /\ job'[m].state = "lost"
  BY DEF Rows, SweepOnce, LeaseRanOut, NeverClaimed, TypeOK, JobRow
<1>2. job[m].state = "running" => job[m].result = None
  BY DEF Rows, OutcomeMatchesAttempt, OutcomeMatches, Occupying
<1>3. job'[m] = job[m] \/ Contract!Conclude(m) \/ Contract!Withdraw(m)
  BY <1>1, <1>2 DEF Contract!Conclude, Contract!Withdraw, Phase, Terminal
<1> QED BY <1>3, Keeps DEF Contract!Step

LEMMA NextKeeps ==
    ASSUME Rows, [Next]_vars
    PROVE  Contract!Next
<1>1. TypeOK
  BY DEF Rows
<1>2. ASSUME job' = job PROVE \A m \in Jobs : Contract!Step(m)
  BY <1>2, Keeps
<1>3. ASSUME NEW w, NEW r, Register(w, r) PROVE job' = job
  BY <1>3 DEF Register
<1>4. ASSUME NEW w, NEW j, NEW a, RenewLease(w, j, a) PROVE job' = job
  BY <1>4 DEF RenewLease
<1>5. ASSUME NEW w, NEW j, NEW a, NEW r, AddArtifact(w, j, a, r) \/ AddArtifactCrash(w, j, a, r)
      PROVE job' = job
  BY <1>5 DEF AddArtifact, AddArtifactCrash
<1>6. ASSUME NEW j, NEW gone, DeleteJobCrash(j, gone) PROVE job' = job
  BY <1>6 DEF DeleteJobCrash
<1>7. (Tick \/ UNCHANGED vars) => job' = job
  BY DEF Tick, vars
<1>8. \A m \in Jobs : Contract!Step(m)
  BY <1>1, <1>2, <1>3, <1>4, <1>5, <1>6, <1>7, SubmitKeeps, ClaimKeeps, CancelKeeps,
     FinalizeKeeps, DeleteKeeps, SweepKeeps, Zenon DEF Next
<1> QED BY <1>8 DEF Contract!Next

LEMMA InitKeeps == Init => Contract!Init
BY DEF Init, NoJob, Contract!Init, Phase, Terminal

\* The queue keeps the contract of a job: one executor, one outcome that never
\* changes, "cancelled" as the only answer to a cancelled execution, and no
\* result without an execution (submit, claim, cancel, finalize, sweep_once,
\* delete_job together).
THEOREM Implements == Spec => KeepsContract
<1>1. Rows /\ [Next]_vars => [Contract!Next]_(Contract!vars)
  BY NextKeeps
<1> QED BY <1>1, InitKeeps, RowsAlways, PTL DEF Spec, KeepsContract, Contract!Spec

-----------------------------------------------------------------------------
\* Unconfirmed cancellations.

LEMMA CancelStaysOneStep ==
    ASSUME Rows, [Next]_vars, NEW m \in Jobs,
           job[m].state = "cancel_requested", Expired(job[m].attempt)
    PROVE  job'[m] = job[m] /\ attempt'[job[m].attempt] = attempt[job[m].attempt]
<1> DEFINE b == job[m].attempt
           Stays == job'[m] = job[m] /\ attempt'[b] = attempt[b]
<1> SUFFICES Stays
  OBVIOUS
<1>1. /\ b \in Attempts /\ Live(b) /\ attempt[b].job = m
      /\ attempt[b].expires < now /\ TypeOK
  BY DEF Rows, OneAttemptPerJob, JobHasAttempt, OutcomeMatchesAttempt, OutcomeMatches,
         Occupying, TypeOK, JobRow, Expired
<1>2. ASSUME UNCHANGED <<job, attempt>> PROVE Stays
  BY <1>2
<1>3. ASSUME NEW j \in Jobs, NEW k, NEW i, NEW kind, NEW t, NEW d, Submit(j, k, i, kind, t, d)
      PROVE Stays
  BY <1>1, <1>3 DEF Submit, TypeOK
<1>4. ASSUME NEW w, NEW j \in Jobs, NEW a \in Attempts, Claim(w, j, a)
      PROVE Stays
  BY <1>1, <1>4 DEF Claim, Claimable, MayTake, Waiting, Live, TypeOK
<1>5. ASSUME NEW w, NEW j, NEW a \in Attempts, RenewLease(w, j, a)
      PROVE Stays
  BY <1>1, <1>5 DEF RenewLease, Expired, TypeOK
<1>6. ASSUME NEW j \in Jobs, Cancel(j)
      PROVE Stays
  BY <1>1, <1>6 DEF Cancel, TypeOK
<1>7. ASSUME NEW w, NEW j \in Jobs, NEW a \in Attempts, NEW e, Finalize(w, j, a, e)
      PROVE Stays
  <2>1. HoldsLease(w, j, a) /\ ~Expired(a)
    BY <1>7 DEF Finalize, MayFinalize
  <2>2. j # m /\ a # b
    BY <1>1, <2>1 DEF HoldsLease, Expired
  <2> QED BY <1>1, <1>7, <2>2 DEF Finalize, TypeOK
<1>8. ASSUME NEW j \in Jobs, NEW kept, DeleteJob(j, kept)
      PROVE Stays
  <2>1. j # m
    BY <1>8 DEF DeleteJob, Terminal
  <2> QED BY <1>1, <1>8, <2>1 DEF DeleteJob, TypeOK
<1>9. CASE SweepOnce
  BY <1>1, <1>9 DEF SweepOnce, LeaseRanOut, NeverClaimed, TypeOK
<1>10. ASSUME NEW w, NEW r, Register(w, r) PROVE UNCHANGED <<job, attempt>>
  BY <1>10 DEF Register
<1>11. ASSUME NEW w, NEW j, NEW a, NEW r,
              AddArtifact(w, j, a, r) \/ AddArtifactCrash(w, j, a, r)
       PROVE UNCHANGED <<job, attempt>>
  BY <1>11 DEF AddArtifact, AddArtifactCrash
<1>12. ASSUME NEW j, NEW gone, DeleteJobCrash(j, gone) PROVE UNCHANGED <<job, attempt>>
  BY <1>12 DEF DeleteJobCrash
<1>13. (Tick \/ UNCHANGED vars) => UNCHANGED <<job, attempt>>
  BY DEF Tick, vars
<1> HIDE DEF Stays
<1>14. CASE UNCHANGED vars
  BY <1>2, <1>13, <1>14
<1>15. CASE Next
  BY <1>2, <1>3, <1>4, <1>5, <1>6, <1>7, <1>8, <1>9, <1>10, <1>11, <1>12, <1>13, <1>15,
     Zenon DEF Next
<1> QED BY <1>14, <1>15

\* A cancellation whose lease ended unconfirmed is never turned into another
\* outcome, by no late result, no sweep and no deletion (sweep_once: "a
\* communications failure is not stop confirmation").
THEOREM CancelStays == Spec => UnconfirmedCancelStays
<1>1. Rows /\ [Next]_vars =>
        [\A j \in Jobs :
            job[j].state = "cancel_requested" /\ Expired(job[j].attempt)
            => job'[j] = job[j] /\ attempt'[job[j].attempt] = attempt[job[j].attempt]]_vars
  BY CancelStaysOneStep
<1> QED BY <1>1, RowsAlways, PTL DEF Spec, UnconfirmedCancelStays

-----------------------------------------------------------------------------
\* Artifacts.  Both properties hold together: a result's manifest is backed by
\* artifact rows, and a row by its job, its attempt and its file.

Backing == Rows /\ ManifestBacked /\ ServedBytesAreStored

\* A step that changes no file and no artifact row, removes no row of a job with
\* artifacts and leaves the results that are there.
LEMMA KeptBacking ==
    ASSUME Backing, UNCHANGED <<artifact, disk>>,
           \A k \in Jobs : Present(k) /\ job[k].attempt # None =>
               Present(k)' /\ job'[k].attempt = job[k].attempt,
           \A k \in Jobs : job'[k].result # None =>
               job[k].attempt # None /\ Present(k) /\
               \/ job'[k].result = job[k].result
               \/ \A r \in job'[k].result.manifest : Stored(k, job[k].attempt, r)
    PROVE  (ManifestBacked /\ ServedBytesAreStored)'
<1>1. artifact \subseteq [job : Jobs, attempt : Attempts, id : ArtifactIds,
                          name : Names, content : Contents]
  BY DEF Backing, Rows, TypeOK
<1>2. ManifestBacked'
  BY DEF Backing, ManifestBacked, Stored
<1>3. ServedBytesAreStored'
  <2> SUFFICES ASSUME NEW x \in artifact
               PROVE  /\ Present(x.job)'
                      /\ job'[x.job].attempt = x.attempt
                      /\ disk[x.attempt][x.name] \in {None, x.content}
    BY DEF ServedBytesAreStored
  <2>1. x.job \in Jobs /\ x.attempt \in Attempts
    BY <1>1
  <2>2. Present(x.job) /\ job[x.job].attempt = x.attempt
        /\ disk[x.attempt][x.name] \in {None, x.content}
    BY DEF Backing, ServedBytesAreStored
  <2>3. x.attempt # None
    BY <2>1, ManagerAssumption
  <2> QED BY <2>1, <2>2, <2>3
<1> QED BY <1>2, <1>3

\* Whatever has a result has an attempt and a row.
LEMMA ResultHasAttempt ==
    ASSUME Rows, NEW k \in Jobs, job[k].result # None
    PROVE  job[k].attempt # None /\ Present(k)
BY DEF Rows, TypeOK, JobRow, JobStates, Occupying, Terminal, OutcomeMatchesAttempt,
       OutcomeMatches, Answered, Present

LEMMA AddBacking ==
    ASSUME Backing, NEW w, NEW j \in Jobs, NEW a \in Attempts, NEW r \in Refs,
           AddArtifact(w, j, a, r) \/ AddArtifactCrash(w, j, a, r)
    PROVE  (ManifestBacked /\ ServedBytesAreStored)'
<1> DEFINE new == [job |-> j, attempt |-> a, id |-> r.id, name |-> r.name, content |-> r.content]
<1>1. MayStore(w, j, a, r) /\ UNCHANGED <<job, attempt>>
      /\ disk' = [disk EXCEPT ![a][r.name] = r.content]
      /\ artifact' \subseteq artifact \cup {new} /\ artifact \subseteq artifact'
  BY DEF AddArtifact, AddArtifactCrash
<1>2. Present(j) /\ job[j].attempt = a /\ \A x \in artifact : x.job = j => x.name # r.name
  BY <1>1 DEF MayStore, HoldsLease, NameFree, ArtifactsOf
<1>3. artifact \subseteq [job : Jobs, attempt : Attempts, id : ArtifactIds,
                          name : Names, content : Contents]
      /\ disk \in [Attempts -> [Names -> Contents \cup {None}]] /\ r.name \in Names
  BY DEF Backing, Rows, TypeOK, Refs
<1>4. ManifestBacked'
  BY <1>1 DEF Backing, ManifestBacked, Stored
<1>5. ServedBytesAreStored'
  <2> SUFFICES ASSUME NEW x \in artifact'
               PROVE  /\ Present(x.job)
                      /\ job[x.job].attempt = x.attempt
                      /\ disk'[x.attempt][x.name] \in {None, x.content}
    BY <1>1 DEF ServedBytesAreStored, Present
  <2>1. CASE x = new
    BY <1>1, <1>2, <1>3, <2>1
  <2>2. CASE x \in artifact
    <3>1. /\ Present(x.job) /\ job[x.job].attempt = x.attempt
          /\ disk[x.attempt][x.name] \in {None, x.content}
      BY <2>2 DEF Backing, ServedBytesAreStored
    <3>2. x.job \in Jobs /\ x.attempt \in Attempts /\ x.name \in Names
      BY <1>3, <2>2
    <3>3. x.attempt = a => x.name # r.name
      <4>1. x.attempt # None
        BY <3>2, ManagerAssumption
      <4>2. attempt[x.attempt].job = x.job
        BY <3>1, <3>2, <4>1 DEF Backing, Rows, OneAttemptPerJob, JobHasAttempt
      <4>3. attempt[a].job = j
        BY <1>1 DEF MayStore, HoldsLease
      <4> QED BY <1>2, <2>2, <4>2, <4>3
    <3>4. disk'[x.attempt][x.name] = disk[x.attempt][x.name]
      BY <1>1, <1>3, <3>2, <3>3
    <3> QED BY <3>1, <3>4
  <2> QED BY <1>1, <2>1, <2>2
<1> QED BY <1>4, <1>5

LEMMA DeleteBacking ==
    ASSUME Backing, NEW j \in Jobs, NEW kept, DeleteJob(j, kept)
    PROVE  (ManifestBacked /\ ServedBytesAreStored)'
<1>1. /\ artifact' = {x \in artifact : x.job # j}
      /\ \A k \in Jobs \ {j} : job'[k] = job[k]
      /\ job'[j].result = None
      /\ \A b \in Attempts, n \in Names : disk'[b][n] \in {None, disk[b][n]}
  BY DEF DeleteJob, Backing, Rows, TypeOK, NoJob, ArtifactsOf, Without
<1>2. artifact \subseteq [job : Jobs, attempt : Attempts, id : ArtifactIds,
                          name : Names, content : Contents]
  BY DEF Backing, Rows, TypeOK
<1>3. ManifestBacked'
  <2> SUFFICES ASSUME NEW k \in Jobs, job'[k].result # None, NEW r \in job'[k].result.manifest
               PROVE  Stored(k, job[k].attempt, r)'
    BY DEF ManifestBacked
  <2>1. k # j /\ job'[k] = job[k]
    BY <1>1
  <2>2. Stored(k, job[k].attempt, r)
    BY <2>1 DEF Backing, ManifestBacked
  <2> QED BY <1>1, <2>1, <2>2 DEF Stored
<1>4. ServedBytesAreStored'
  <2> SUFFICES ASSUME NEW x \in artifact, x.job # j
               PROVE  /\ Present(x.job)'
                      /\ job'[x.job].attempt = x.attempt
                      /\ disk'[x.attempt][x.name] \in {None, x.content}
    BY <1>1 DEF ServedBytesAreStored
  <2>1. /\ Present(x.job) /\ job[x.job].attempt = x.attempt
        /\ disk[x.attempt][x.name] \in {None, x.content}
    BY DEF Backing, ServedBytesAreStored
  <2>2. x.job \in Jobs /\ x.attempt \in Attempts /\ x.name \in Names
    BY <1>2
  <2>3. job'[x.job] = job[x.job]
    BY <1>1, <2>2
  <2>4. disk'[x.attempt][x.name] \in {None, disk[x.attempt][x.name]}
    BY <1>1, <2>2
  <2> QED BY <2>1, <2>3, <2>4 DEF Present
<1> QED BY <1>3, <1>4

LEMMA DeleteCrashBacking ==
    ASSUME Backing, NEW j, NEW gone, DeleteJobCrash(j, gone)
    PROVE  (ManifestBacked /\ ServedBytesAreStored)'
<1>1. UNCHANGED <<job, artifact>>
      /\ \A b \in Attempts, n \in Names : disk'[b][n] \in {None, disk[b][n]}
  BY DEF DeleteJobCrash, Without
<1>2. artifact \subseteq [job : Jobs, attempt : Attempts, id : ArtifactIds,
                          name : Names, content : Contents]
  BY DEF Backing, Rows, TypeOK
<1>3. ManifestBacked'
  BY <1>1 DEF Backing, ManifestBacked, Stored
<1>4. ServedBytesAreStored'
  BY <1>1, <1>2 DEF Backing, ServedBytesAreStored, Present
<1> QED BY <1>3, <1>4

LEMMA NextBacking == Backing /\ [Next]_vars => Backing'
<1> SUFFICES ASSUME Backing, [Next]_vars PROVE (ManifestBacked /\ ServedBytesAreStored)'
  BY NextRows DEF Backing
<1> DEFINE Goal == (ManifestBacked /\ ServedBytesAreStored)'
           Kept == /\ UNCHANGED <<artifact, disk>>
                   /\ \A k \in Jobs : Present(k) /\ job[k].attempt # None =>
                         Present(k)' /\ job'[k].attempt = job[k].attempt
                   /\ \A k \in Jobs : job'[k].result # None =>
                         /\ job[k].attempt # None /\ Present(k)
                         /\ \/ job'[k].result = job[k].result
                            \/ \A r \in job'[k].result.manifest : Stored(k, job[k].attempt, r)
<1>1. Kept => Goal
  BY KeptBacking
<1>2. TypeOK /\ \A k \in Jobs : job[k].result # None => job[k].attempt # None /\ Present(k)
  BY ResultHasAttempt DEF Backing, Rows
<1>3. ASSUME UNCHANGED <<job, artifact, disk>> PROVE Kept
  BY <1>2, <1>3 DEF Present
<1>4. ASSUME NEW j \in Jobs, NEW k, NEW i, NEW kind, NEW t, NEW d, Submit(j, k, i, kind, t, d)
      PROVE Kept
  BY <1>2, <1>4 DEF Submit, QueuedJob, TypeOK, Present
<1>5. ASSUME NEW w, NEW j \in Jobs, NEW a \in Attempts, Claim(w, j, a)
      PROVE Kept
  <2>1. job[j].state = "queued" /\ job[j].attempt = None /\ job[j].result = None
    BY <1>5 DEF Claim, Claimable, MayTake, Waiting, Backing, Rows, OutcomeMatchesAttempt,
                OutcomeMatches
  <2> QED BY <1>2, <1>5, <2>1 DEF Claim, TypeOK, Present
<1>6. ASSUME NEW j \in Jobs, Cancel(j)
      PROVE Kept
  <2>1. /\ job'[j].attempt = job[j].attempt /\ job'[j].result = job[j].result
        /\ job'[j].state \in {"cancelled", "cancel_requested"}
        /\ \A k \in Jobs \ {j} : job'[k] = job[k]
        /\ UNCHANGED <<artifact, disk>>
    BY <1>2, <1>6 DEF Cancel, TypeOK, JobRow
  <2>2. Present(j)'
    BY <2>1 DEF Present
  <2> QED BY <1>2, <2>1, <2>2 DEF Present
<1>7. ASSUME NEW w, NEW j \in Jobs, NEW a \in Attempts, NEW e \in Envelopes,
             Finalize(w, j, a, e)
      PROVE Kept
  <2>1. job[j].attempt = a /\ a # None /\ Present(j) /\ ManifestStored(j, a, e)
    BY <1>7, ManagerAssumption DEF Finalize, MayFinalize, HoldsLease
  <2>2. /\ job'[j].result = e /\ job'[j].attempt = a
        /\ job'[j].state = Concluded(job[j].state, e.status)
        /\ \A k \in Jobs \ {j} : job'[k] = job[k]
        /\ UNCHANGED <<artifact, disk>>
    BY <1>2, <1>7, <2>1 DEF Finalize, TypeOK, JobRow
  <2>3. e.status \in {"succeeded", "partial", "failed", "cancelled"}
    BY ManagerAssumption DEF Envelopes
  <2>4. Concluded(job[j].state, e.status) \in {"completed", "partial", "failed", "cancelled"}
    BY <1>7, <2>3 DEF Finalize, MayFinalize, Concluded
  <2>5. Present(j)'
    BY <2>2, <2>4 DEF Present
  <2> QED BY <1>2, <2>1, <2>2, <2>5 DEF ManifestStored, Present
<1>8. ASSUME SweepOnce PROVE Kept
  <2>1. /\ UNCHANGED <<artifact, disk>>
        /\ \A k \in Jobs : /\ job'[k].attempt = job[k].attempt
                           /\ job'[k].result = job[k].result
                           /\ job'[k].state \in {job[k].state, "lost"}
    BY <1>2, <1>8 DEF SweepOnce, TypeOK, JobRow
  <2>2. \A k \in Jobs : Present(k) => Present(k)'
    BY <2>1 DEF Present
  <2> QED BY <1>2, <2>1, <2>2
<1>9. (Tick \/ UNCHANGED vars) => UNCHANGED <<job, artifact, disk>>
  BY DEF Tick, vars
<1>10. ASSUME NEW w, NEW r, Register(w, r) PROVE UNCHANGED <<job, artifact, disk>>
  BY <1>10 DEF Register
<1>11. ASSUME NEW w, NEW j, NEW a, RenewLease(w, j, a) PROVE UNCHANGED <<job, artifact, disk>>
  BY <1>11 DEF RenewLease
<1> HIDE DEF Kept, Goal
<1>12. CASE UNCHANGED vars
  BY <1>1, <1>3, <1>9, <1>12 DEF Goal
<1>13. CASE Next
  <2>1. ASSUME NEW w \in Workers, NEW j \in Jobs, NEW a \in Attempts, NEW r \in Refs,
               AddArtifact(w, j, a, r) \/ AddArtifactCrash(w, j, a, r)
        PROVE Goal
    BY <2>1, AddBacking DEF Goal
  <2>2. ASSUME NEW j \in Jobs, NEW kept, DeleteJob(j, kept) PROVE Goal
    BY <2>2, DeleteBacking DEF Goal
  <2>3. ASSUME NEW j \in Jobs, NEW gone, DeleteJobCrash(j, gone) PROVE Goal
    BY <2>3, DeleteCrashBacking DEF Goal
  <2>4. Goal
    BY <1>1, <1>3, <1>4, <1>5, <1>6, <1>7, <1>8, <1>9, <1>10, <1>11, <1>13,
       <2>1, <2>2, <2>3, Zenon DEF Next
  <2> QED BY <2>4 DEF Goal
<1> QED BY <1>12, <1>13

LEMMA InitBacking == Init => Backing
BY InitRows, ManagerAssumption DEF Backing, Init, NoJob, ManifestBacked, ServedBytesAreStored

LEMMA BackingAlways == Spec => []Backing
BY InitBacking, NextBacking, PTL DEF Spec

\* The artifacts a result lists were stored by the attempt that sent the result
\* and stay with it: what a requester reads out of a manifest can be fetched
\* (finalize, add_artifact, delete_job).
THEOREM ManifestsBacked == Spec => []ManifestBacked
<1>1. Backing => ManifestBacked
  BY DEF Backing
<1> QED BY <1>1, BackingAlways, PTL

\* get_artifact answers with the bytes that were stored, or not at all, whatever
\* crash of add_artifact or delete_job came in between.
THEOREM ServedBytes == Spec => []ServedBytesAreStored
<1>1. Backing => ServedBytesAreStored
  BY DEF Backing
<1> QED BY <1>1, BackingAlways, PTL

-----------------------------------------------------------------------------
\* What a requester is told about a waiting job is computed from other conditions than
\* those of a claim: _wait_reason must not name an obstacle while claim
\* would hand the job over.
THEOREM NamesNoObstacle == Spec => []WaitReasonHonest
<1>1. WaitReasonHonest
  <2> SUFFICES ASSUME NEW w \in Workers, NEW j \in Jobs, Fresh(w), HasSlot(w), MayTake(w, j)
               PROVE  WaitReason(j) = None
    BY DEF WaitReasonHonest
  <2>1. w \in Eligible(j)
    BY DEF Eligible, MayTake
  <2>2. CASE job[j].target = AutoTarget
    BY <2>1, <2>2 DEF WaitReason
  <2>3. CASE job[j].target = w
    BY <2>1, <2>3 DEF WaitReason, MayTake, Fresh
  <2> QED BY <2>2, <2>3 DEF MayTake, Offered
<1> QED BY <1>1, PTL

-----------------------------------------------------------------------------
\* The worker: types.

LEMMA InitServiceTyped == ServiceInit => ServiceTypeOK
BY DEF ServiceInit, Idle, ServiceTypeOK, Process, Places

LEMMA UploadsTyped ==
    ASSUME NEW a \in Attempts
    PROVE  /\ \A d \in Documents : Document(a, d) \in Refs
           /\ \A s \in Reported : Pack(a, s) \in Refs
BY WorkerAssumption, UploadAssumption DEF Document, Pack, Refs

\* A job in the table has the input it was submitted with.
Known == \A j \in Jobs : Present(j) => job[j].input \in Inputs

\* FinalStatus is a status the Manager knows, whatever the stage came to.
LEMMA FinalStatusTyped ==
    ASSUME ServiceTypeOK, proc.at = "result"
    PROVE  FinalStatus \in Reported
BY DEF ServiceTypeOK, FinalStatus, Reported, StageStatuses

LEMMA ServiceTyped ==
    ASSUME ServiceTypeOK, Known, [ServiceNext]_everything
    PROVE  ServiceTypeOK'
<1> USE DEF ServiceTypeOK
<1>1. ASSUME StartProcess \/ Stop \/ Kill \/ PollBreaks \/ LeaveJob PROVE ServiceTypeOK'
  <2>1. CASE StartProcess
    BY <2>1 DEF StartProcess, Idle, Process, Places
  <2>2. CASE Kill
    BY <2>2 DEF Kill, Idle, Process, Places
  <2>3. CASE Stop \/ PollBreaks
    BY <2>3 DEF Stop, PollBreaks, Exited, Idle, Process, Places
  <2>4. CASE LeaveJob
    <3>1. /\ proc' = Exited(proc.job) \/ proc' = Idle(proc.beating, proc.stopping)
          /\ proc.job \in Jobs \cup {None}
          /\ proc.beating \in BOOLEAN /\ proc.stopping \in BOOLEAN
      BY <2>4 DEF LeaveJob, Process
    <3> HIDE DEF ServiceTypeOK
    <3>2. CASE proc' = Exited(proc.job)
      BY <3>1, <3>2, ZenonT(60) DEF Exited, Idle, Process, Places, ServiceTypeOK
    <3>3. CASE proc' = Idle(proc.beating, proc.stopping)
      BY <3>1, <3>3 DEF Idle, Process, Places, ServiceTypeOK
    <3> QED BY <3>1, <3>2, <3>3
  <2> QED BY <1>1, <2>1, <2>2, <2>3, <2>4
<1>2. ASSUME RequestStop \/ HeartbeatBreaks \/ Renew \/ RenewBreaks PROVE ServiceTypeOK'
  <2>1. CASE RequestStop \/ HeartbeatBreaks
    BY <2>1, ZenonT(60) DEF RequestStop, HeartbeatBreaks, Process
  <2>2. CASE Renew
    <3>1. proc.at \notin {"exited", "idle"}
      BY <2>2 DEF Renew
    <3>2. \/ proc' = [proc EXCEPT !.cancel = TRUE, !.renewal = "ended"]
          \/ proc' = [proc EXCEPT !.lost = TRUE, !.renewal = "ended"]
          \/ proc' = proc
      BY <2>2 DEF Renew
    <3> QED BY <3>1, <3>2, ZenonT(60) DEF Process
  <2>3. CASE RenewBreaks
    BY <2>3 DEF RenewBreaks, Process
  <2> QED BY <1>2, <2>1, <2>2, <2>3
<1>3. ASSUME UNCHANGED proc PROVE ServiceTypeOK'
  BY <1>3
<1>4. ASSUME NEW j \in Jobs, NEW a \in Attempts, Poll(j, a) PROVE ServiceTypeOK'
  <2>1. job[j].input \in Inputs
    BY <1>4 DEF Poll, Claim, Claimable, MayTake, Waiting, Present, Known
  <2>2. Mode(j) \in {"search", "extract"}
    BY <2>1, WorkerAssumption DEF Mode
  <2>3. /\ proc' = [proc EXCEPT !.at = "stage", !.job = j, !.mode = Mode(j),
                                !.attempt = a, !.renewal = "on"]
        /\ proc.docs = {}
    BY <1>4 DEF Poll
  <2> QED BY <2>2, <2>3 DEF Poll, Process, Places
<1>5. ASSUME NEW d \in Documents, NEW answered \in BOOLEAN, StoreDocument(d, answered)
      PROVE  ServiceTypeOK'
  <2>1. Document(proc.attempt, d) \in Refs
    BY <1>5, UploadsTyped DEF StoreDocument
  <2>2. Document(proc.attempt, d) \in DocumentsOf(proc.attempt)
    BY DEF DocumentsOf
  <2> QED BY <1>5, <2>1, <2>2 DEF StoreDocument, Process
<1>6. ASSUME NEW s \in StageStatuses, EndStage(s) \/ CutStage(s) PROVE ServiceTypeOK'
  <2>1. CASE EndStage(s)
    BY <2>1 DEF EndStage, Process, Places, Reported
  <2>2. CASE CutStage(s)
    BY <2>2 DEF CutStage, Process, Places, Reported
  <2> QED BY <1>6, <2>1, <2>2
<1>7. CASE UploadPack
  <2>1. FinalStatus \in Reported /\ Pack(proc.attempt, FinalStatus) \in Refs
    BY <1>7, FinalStatusTyped, UploadsTyped DEF UploadPack
  <2> HIDE DEF ServiceTypeOK
  <2> DEFINE pack == Pack(proc.attempt, FinalStatus)
  <2>2. \/ proc' = [proc EXCEPT !.at = "finalize", !.status = FinalStatus, !.pack = pack]
        \/ proc' = [proc EXCEPT !.at = "raising"]
        \/ proc' = [proc EXCEPT !.at = "leave"]
    BY <1>7 DEF UploadPack
  <2>3. proc.at = "result"
    BY <1>7 DEF UploadPack
  <2> HIDE DEF pack
  <2>4. CASE proc' = [proc EXCEPT !.at = "finalize", !.status = FinalStatus, !.pack = pack]
    <3> DEFINE status == FinalStatus
    <3>1. status \in Reported /\ pack \in Refs /\ pack = Pack(proc.attempt, status)
      BY <2>1 DEF pack
    <3>2. proc' = [proc EXCEPT !.at = "finalize", !.status = status, !.pack = pack]
      BY <2>4
    <3> HIDE DEF status
    <3> QED BY <2>3, <3>1, <3>2 DEF ServiceTypeOK, Process, Places
  <2>5. CASE proc' = [proc EXCEPT !.at = "raising"] \/ proc' = [proc EXCEPT !.at = "leave"]
    BY <2>3, <2>5 DEF ServiceTypeOK, Process, Places
  <2> QED BY <2>2, <2>4, <2>5
<1>8. CASE FinalizeJob \/ FinalizeCancelled
  <2>1. /\ proc.at \in {"finalize", "fallback"}
        /\ \E p \in {"fallback", "leave", "raising"} : proc' = [proc EXCEPT !.at = p]
    BY <1>8 DEF FinalizeJob, FinalizeCancelled, SendResult, ResultRefused
  <2> QED BY <2>1 DEF Process, Places
<1> HIDE DEF ServiceTypeOK
<1>9. (Heartbeat \/ UNCHANGED everything) => UNCHANGED proc
  BY DEF Heartbeat, everything
<1> QED
  <2>1. CASE UNCHANGED everything
    BY <1>3, <1>9, <2>1
  <2>2. CASE ServiceNext
    BY <1>1, <1>2, <1>3, <1>4, <1>5, <1>6, <1>7, <1>8, <1>9, <2>2, Zenon DEF ServiceNext
  <2> QED BY <2>1, <2>2

-----------------------------------------------------------------------------
\* The worker and the network take only steps of the Manager.

LEMMA SentEnvelope ==
    ASSUME ServiceTypeOK, proc.at \in {"finalize", "fallback"}, NEW s \in Reported
    PROVE  Envelope(s) \in Envelopes
<1> DEFINE D == {d \in Documents : Document(proc.attempt, d) \in proc.docs}
           docs == {Document(proc.attempt, d) : d \in D}
<1>1. /\ proc.attempt \in Attempts /\ proc.docs = docs
      /\ proc.status \in Reported /\ proc.pack = Pack(proc.attempt, proc.status)
  BY DEF ServiceTypeOK, DocumentsOf
<1>2. D \in SUBSET Documents
  OBVIOUS
<1>3. proc.docs \cup {proc.pack} \in Manifests
  BY <1>1, <1>2, UploadAssumption, Zenon
<1> QED BY <1>1, <1>3, WorkerAssumption, UploadAssumption DEF Envelope, Envelopes

LEMMA StepOfManager ==
    ASSUME ServiceTypeOK, [ServiceNext]_everything
    PROVE  [Next]_vars
<1>1. ASSUME StartProcess \/ Heartbeat \/ HeartbeatBreaks PROVE [Next]_vars
  BY <1>1, WorkerAssumption DEF StartProcess, Heartbeat, HeartbeatBreaks, Next
<1>2. ASSUME UNCHANGED vars PROVE [Next]_vars
  BY <1>2
<1>3. ASSUME RequestStop \/ Stop \/ Kill \/ LeaveJob PROVE UNCHANGED vars
  BY <1>3 DEF RequestStop, Stop, Kill, LeaveJob
<1>4. ASSUME NEW s, EndStage(s) \/ CutStage(s) PROVE UNCHANGED vars
  BY <1>4 DEF EndStage, CutStage
<1>5. ASSUME NEW j \in Jobs, NEW a \in Attempts, Claim(W, j, a) PROVE [Next]_vars
  BY <1>5, WorkerAssumption DEF Next
<1>6. CASE PollBreaks
  BY <1>5, <1>6 DEF PollBreaks
<1>7. CASE Renew \/ RenewBreaks
  <2>1. (proc.job \in Jobs /\ proc.attempt \in Attempts) \/ UNCHANGED vars
    BY <1>7 DEF Renew, RenewBreaks, ServiceTypeOK
  <2> QED BY <1>7, <2>1, WorkerAssumption DEF Renew, RenewBreaks, Next
<1>8. ASSUME proc.at \notin {"exited", "idle"}, NEW r \in Refs,
             AddArtifact(W, proc.job, proc.attempt, r)
      PROVE  [Next]_vars
  BY <1>8, WorkerAssumption DEF Next, ServiceTypeOK
<1>9. ASSUME NEW d \in Documents, NEW answered, StoreDocument(d, answered) PROVE [Next]_vars
  <2>1. Document(proc.attempt, d) \in Refs
    BY <1>9, UploadsTyped DEF StoreDocument, ServiceTypeOK
  <2> QED BY <1>8, <1>9, <2>1 DEF StoreDocument
<1>10. CASE UploadPack
  <2>1. Pack(proc.attempt, FinalStatus) \in Refs
    BY <1>10, FinalStatusTyped, UploadsTyped DEF UploadPack, ServiceTypeOK
  <2> QED BY <1>8, <1>10, <2>1 DEF UploadPack
<1>11. CASE FinalizeJob \/ FinalizeCancelled
  <2>1. \/ UNCHANGED vars
        \/ /\ proc.at \in {"finalize", "fallback"}
           /\ \E s \in {proc.status, "cancelled"} :
                 Finalize(W, proc.job, proc.attempt, Envelope(s))
    BY <1>11 DEF FinalizeJob, FinalizeCancelled, SendResult, ResultRefused, SentStatus,
                FallbackStatus
  <2>2. proc.at \in {"finalize", "fallback"} =>
          /\ proc.job \in Jobs /\ proc.attempt \in Attempts
          /\ \A s \in {proc.status, "cancelled"} : Envelope(s) \in Envelopes
    BY SentEnvelope DEF ServiceTypeOK, Reported
  <2> QED BY <2>1, <2>2, WorkerAssumption DEF Next
<1>12. CASE Outside
  <2>1. W \in Targets /\ {} \in SUBSET Files
    BY WorkerAssumption DEF Targets
  <2> QED BY <1>12, <2>1 DEF Outside, Next
<1>13. CASE UNCHANGED everything
  BY <1>13 DEF everything, vars
<1>14. ASSUME NEW j \in Jobs, NEW a \in Attempts, Poll(j, a) PROVE [Next]_vars
  BY <1>5, <1>14 DEF Poll
<1>15. CASE ServiceNext
  BY <1>1, <1>2, <1>3, <1>4, <1>6, <1>7, <1>9, <1>10, <1>11, <1>12, <1>14, <1>15, Zenon
  DEF ServiceNext
<1> QED BY <1>13, <1>15

\* The input of a job is settled when it is submitted.
LEMMA InputsSettled ==
    ASSUME TypeOK, [Next]_vars, NEW m \in Jobs
    PROVE  /\ job[m].state # "unused" => job'[m].state # "unused"
           /\ Present(m)' => \/ Present(m) /\ job'[m].input = job[m].input
                             \/ job[m].state = "unused" /\ job'[m].input \in Inputs
<1> DEFINE Settled ==
             /\ job[m].state # "unused" => job'[m].state # "unused"
             /\ Present(m)' => \/ Present(m) /\ job'[m].input = job[m].input
                               \/ job[m].state = "unused" /\ job'[m].input \in Inputs
<1> SUFFICES Settled
  OBVIOUS
<1>1. ASSUME job'[m] = job[m] PROVE Settled
  BY <1>1 DEF Present
<1>2. ASSUME NEW j \in Jobs, NEW k, NEW i \in Inputs, NEW kind, NEW t, NEW d,
             Submit(j, k, i, kind, t, d)
      PROVE  Settled
  BY <1>1, <1>2 DEF Submit, QueuedJob, TypeOK
<1>3. ASSUME NEW w, NEW j \in Jobs, NEW a, Claim(w, j, a) PROVE Settled
  BY <1>3 DEF Claim, Claimable, MayTake, Waiting, TypeOK, JobRow, Present
<1>4. ASSUME NEW j \in Jobs, Cancel(j) PROVE Settled
  <2>1. /\ job[j].state \in {"queued", "running"} /\ job'[j].input = job[j].input
        /\ job'[j].state \in {"cancelled", "cancel_requested"}
        /\ \A k \in Jobs \ {j} : job'[k] = job[k]
    BY <1>4 DEF Cancel, TypeOK, JobRow
  <2> QED BY <2>1, <1>1 DEF Present
<1>5. ASSUME NEW w, NEW j \in Jobs, NEW a, NEW e \in Envelopes, Finalize(w, j, a, e)
      PROVE  Settled
  <2>1. job[j].state \in Occupying
    BY <1>5 DEF Finalize, MayFinalize, Concluded, Occupying
  <2>2. Concluded(job[j].state, e.status) # "unused"
    BY <1>5, ManagerAssumption DEF Finalize, MayFinalize, Concluded, Envelopes
  <2> QED BY <1>5, <2>1, <2>2 DEF Finalize, TypeOK, JobRow, Present, Occupying
<1>6. ASSUME NEW j \in Jobs, NEW kept, DeleteJob(j, kept) PROVE Settled
  BY <1>6 DEF DeleteJob, NoJob, TypeOK, Present
<1>7. CASE SweepOnce
  BY <1>7 DEF SweepOnce, LeaseRanOut, NeverClaimed, TypeOK, JobRow, Present
<1>8. ASSUME NEW w, NEW r, Register(w, r) PROVE job' = job
  BY <1>8 DEF Register
<1>9. ASSUME NEW w, NEW j, NEW a, RenewLease(w, j, a) PROVE job' = job
  BY <1>9 DEF RenewLease
<1>10. ASSUME NEW w, NEW j, NEW a, NEW r,
              AddArtifact(w, j, a, r) \/ AddArtifactCrash(w, j, a, r)
       PROVE job' = job
  BY <1>10 DEF AddArtifact, AddArtifactCrash
<1>11. ASSUME NEW j, NEW gone, DeleteJobCrash(j, gone) PROVE job' = job
  BY <1>11 DEF DeleteJobCrash
<1>12. (Tick \/ UNCHANGED vars) => job' = job
  BY DEF Tick, vars
<1> HIDE DEF Settled
<1>13. (job' = job) => Settled
  BY <1>1
<1>14. CASE UNCHANGED vars
  BY <1>12, <1>13, <1>14
<1>15. CASE Next
  BY <1>2, <1>3, <1>4, <1>5, <1>6, <1>7, <1>8, <1>9, <1>10, <1>11, <1>12, <1>13, <1>15,
     Zenon DEF Next
<1> QED BY <1>14, <1>15

LEMMA KnownStays == ASSUME TypeOK, Known, [Next]_vars PROVE Known'
BY InputsSettled DEF Known

\* Together: the worker is in one of its places, and the Manager below it is the
\* Manager, with all that was shown of it.
Service == ServiceTypeOK /\ Known /\ Backing

LEMMA ServiceAlways == ServiceSpec => []Service
<1>1. ServiceInit => Service
  BY InitServiceTyped, InitBacking DEF ServiceInit, Init, NoJob, Service, Known, Present
<1>2. Service /\ [ServiceNext]_everything => Service'
  BY ServiceTyped, StepOfManager, KnownStays, NextBacking DEF Service, Backing, Rows
<1> QED BY <1>1, <1>2, PTL DEF ServiceSpec

\* The worker's process stays in one of its places with what belongs there.
THEOREM WorkerTyped == ServiceSpec => []ServiceTypeOK
<1>1. Service => ServiceTypeOK
  BY DEF Service
<1> QED BY <1>1, ServiceAlways, PTL

\* Whatever the worker does, and whatever calls or replies the network loses,
\* the Manager behaves as the Manager: everything shown of Spec holds of the
\* composed system (worker_service.py through manager_client.py).
THEOREM WorkerUsesManager == ServiceSpec => Spec
<1>1. ServiceInit => Init
  BY DEF ServiceInit
<1>2. Service /\ [ServiceNext]_everything => [Next]_vars
  BY StepOfManager DEF Service
<1> QED BY <1>1, <1>2, ServiceAlways, PTL DEF ServiceSpec, Spec

-----------------------------------------------------------------------------
\* A job in hand.  While the worker has one, the Manager takes no step that ends
\* it other than by its lease running out, until the worker sends a result.

Serving == {"stage", "result", "finalize", "fallback"}
InHand(j, a) == HoldsLease(W, j, a) /\ ~attempt[a].finalized /\ job[j].state \in Occupying

\* What can happen at the Manager while the worker neither claims nor sends a result.
Quiet ==
    \/ UNCHANGED vars
    \/ \E r \in Registrations : Register(W, r)
    \/ RenewLease(W, proc.job, proc.attempt)
    \/ \E r \in Refs : AddArtifact(W, proc.job, proc.attempt, r)
    \/ Outside

\* What a quiet step does to a job j and an attempt a.
Holds(j, a) ==
    /\ Expired(a) => Expired(a)'
    /\ attempt[a].status # "unused" => attempt'[a].status # "unused"
    /\ InHand(j, a) => Expired(a)' \/ InHand(j, a)'
    /\ job[j].state \notin Occupying => job'[j].state \notin Occupying
    /\ job[j].state # "running" => job'[j].state # "running"
    /\ InHand(j, a) /\ job[j].state = "cancel_requested" => job'[j].state = "cancel_requested"
    /\ \A r \in Refs : InHand(j, a) /\ Stored(j, a, r) => Stored(j, a, r)'

LEMMA QuietHolds ==
    ASSUME Rows, proc.at \in Serving \cup {"leave"}, ServiceTypeOK, Quiet,
           NEW j \in Jobs, NEW a \in Attempts
    PROVE  Holds(j, a)
<1>1. /\ TypeOK /\ job[j] \in JobRow /\ attempt[a] \in AttemptRow
      /\ Live(a) => attempt[a].expires \in Nat
  BY DEF Rows, TypeOK, AttemptRow
<1>2. ASSUME UNCHANGED <<now, job, attempt>>, artifact \subseteq artifact' PROVE Holds(j, a)
  BY <1>2 DEF Holds, Expired, InHand, HoldsLease, Live, Stored
<1>3. ASSUME NEW r, Register(W, r) \/ AddArtifact(W, proc.job, proc.attempt, r)
      PROVE  Holds(j, a)
  BY <1>2, <1>3 DEF Register, AddArtifact
<1>4. CASE UNCHANGED vars
  BY <1>2, <1>4 DEF vars
<1>5. CASE RenewLease(W, proc.job, proc.attempt)
  <2>1. /\ ~Expired(proc.attempt) /\ UNCHANGED <<now, job, artifact>>
        /\ proc.attempt \in Attempts
        /\ attempt' = [attempt EXCEPT ![proc.attempt].expires = RenewedUntil(proc.job)]
    BY <1>5 DEF RenewLease, ServiceTypeOK, Serving
  <2>2. /\ attempt'[a].status = attempt[a].status /\ attempt'[a].job = attempt[a].job
        /\ attempt'[a].worker = attempt[a].worker
        /\ attempt'[a].finalized = attempt[a].finalized
        /\ a # proc.attempt => attempt'[a] = attempt[a]
    BY <1>1, <2>1 DEF TypeOK, AttemptRow
  <2> QED BY <2>1, <2>2 DEF Holds, Expired, InHand, HoldsLease, Live, Stored
<1>6. ASSUME NEW m \in Jobs, NEW k, NEW i, NEW kind, NEW d, Submit(m, k, i, kind, W, d)
      PROVE  Holds(j, a)
  <2>1. /\ UNCHANGED <<now, attempt, artifact>> /\ job[m].state = "unused"
        /\ job'[m].state = "queued" /\ \A n \in Jobs \ {m} : job'[n] = job[n]
    BY <1>1, <1>6 DEF Submit, QueuedJob, TypeOK
  <2> QED BY <2>1 DEF Holds, Expired, InHand, HoldsLease, Live, Stored, Occupying
<1>7. ASSUME NEW m \in Jobs, Cancel(m) PROVE Holds(j, a)
  <2>1. /\ UNCHANGED <<now, attempt, artifact>>
        /\ \A n \in Jobs \ {m} : job'[n] = job[n]
        /\ job'[m].attempt = job[m].attempt
        /\ \/ job[m].state = "queued" /\ job'[m].state = "cancelled"
           \/ job[m].state = "running" /\ job'[m].state = "cancel_requested"
    BY <1>1, <1>7 DEF Cancel, TypeOK, JobRow
  <2> QED BY <2>1 DEF Holds, Expired, InHand, HoldsLease, Live, Stored, Occupying
<1>8. ASSUME NEW m \in Jobs, DeleteJob(m, {}) PROVE Holds(j, a)
  <2>1. /\ now' = now /\ job[m].state \in Terminal /\ job'[m].state = "deleted"
        /\ \A n \in Jobs \ {m} : job'[n] = job[n]
        /\ \A x \in artifact : x.job # m => x \in artifact'
        /\ attempt[a].job # m => attempt'[a] = attempt[a]
        /\ attempt[a].job = m => attempt'[a] = NoAttempt("deleted")
    BY <1>1, <1>8 DEF DeleteJob, NoJob, TypeOK, ArtifactsOf
  <2>2. attempt[a].expires \in Nat /\ now \in Nat
    BY <1>1 DEF TypeOK, AttemptRow
  <2>3. CASE attempt[a].job = m
    <3>1. attempt'[a].status = "deleted" /\ attempt'[a].expires = 0
      BY <2>1, <2>3 DEF NoAttempt
    <3>2. ~InHand(j, a)
      BY <2>1, <2>3 DEF InHand, HoldsLease, Occupying, Terminal
    <3> QED BY <2>1, <2>2, <3>1, <3>2 DEF Holds, Expired, Occupying, Terminal
  <2>4. CASE attempt[a].job # m
    <3>1. InHand(j, a) => j # m
      BY <2>4 DEF InHand, HoldsLease
    <3> QED BY <2>1, <2>4, <3>1
        DEF Holds, Expired, InHand, HoldsLease, Live, Stored, Occupying, Terminal
  <2> QED BY <2>3, <2>4
<1>9. CASE SweepOnce
  <2>1. /\ UNCHANGED <<now, attempt, artifact>> /\ job'[j].attempt = job[j].attempt
        /\ \/ job'[j].state = job[j].state
           \/ LeaseRanOut(j) /\ job[j].state = "running" /\ job'[j].state = "lost"
           \/ job[j].state = "queued" /\ job'[j].state = "lost"
    BY <1>1, <1>9 DEF SweepOnce, NeverClaimed, LeaseRanOut, JobRow
  <2>2. LeaseRanOut(j) /\ InHand(j, a) => Expired(a)
    BY DEF LeaseRanOut, InHand, HoldsLease
  <2> QED BY <2>1, <2>2 DEF Holds, Expired, InHand, HoldsLease, Live, Stored, Occupying
<1>10. CASE Tick
  <2>1. now \in Nat /\ now' = now + 1 /\ UNCHANGED <<job, attempt, artifact>>
        /\ attempt[a].expires \in Nat
    BY <1>1, <1>10 DEF Tick, TypeOK, AttemptRow
  <2> QED BY <2>1 DEF Holds, Expired, InHand, HoldsLease, Live, Stored
<1> QED
  BY <1>3, <1>4, <1>5, <1>6, <1>7, <1>8, <1>9, <1>10, Zenon DEF Quiet, Outside

\* However the worker comes to have a job in hand, or to be about to leave it.
LEMMA WorkerMoves ==
    ASSUME ServiceTypeOK, [ServiceNext]_everything, proc'.at \in Serving \cup {"leave"}
    PROVE  \/ \E j \in Jobs, a \in Attempts : Poll(j, a)
           \/ /\ proc.at \in Serving \cup {"leave"} /\ Quiet
              /\ proc'.job = proc.job /\ proc'.attempt = proc.attempt
              /\ proc'.mode = proc.mode /\ (proc.at = "leave" => proc'.at = "leave")
           \/ /\ proc'.at = "leave" /\ proc.at \in {"finalize", "fallback"}
              /\ proc'.job = proc.job /\ proc'.attempt = proc.attempt
              /\ \E s \in Reported : Finalize(W, proc.job, proc.attempt, Envelope(s))
<1> DEFINE Same == /\ proc.at \in Serving \cup {"leave"} /\ Quiet
                   /\ proc'.job = proc.job /\ proc'.attempt = proc.attempt
                   /\ proc'.mode = proc.mode /\ (proc.at = "leave" => proc'.at = "leave")
           Sent == /\ proc'.at = "leave" /\ proc.at \in {"finalize", "fallback"}
                   /\ proc'.job = proc.job /\ proc'.attempt = proc.attempt
                   /\ \E s \in Reported : Finalize(W, proc.job, proc.attempt, Envelope(s))
<1>1. proc \in Process
  BY DEF ServiceTypeOK
<1>2. ASSUME StartProcess \/ Stop \/ Kill \/ PollBreaks \/ LeaveJob PROVE FALSE
  <2>1. CASE StartProcess
    BY <2>1 DEF StartProcess, Idle, Serving
  <2>2. CASE Kill
    BY <2>2 DEF Kill, Idle, Serving
  <2>3. CASE Stop \/ PollBreaks
    BY <2>3 DEF Stop, PollBreaks, Exited, Idle, Serving
  <2>4. CASE LeaveJob
    <3>1. CASE proc' = Exited(proc.job)
      BY <3>1 DEF Exited, Idle, Serving
    <3>2. CASE proc' = Idle(proc.beating, proc.stopping)
      BY <3>2 DEF Idle, Serving
    <3> QED BY <2>4, <3>1, <3>2 DEF LeaveJob
  <2> QED BY <1>2, <2>1, <2>2, <2>3, <2>4
<1>3. ASSUME RequestStop \/ Heartbeat \/ HeartbeatBreaks PROVE Same
  BY <1>1, <1>3 DEF RequestStop, Heartbeat, HeartbeatBreaks, Process, Quiet
<1>4. ASSUME Renew PROVE Same
  <2>1. \/ proc' = [proc EXCEPT !.cancel = TRUE, !.renewal = "ended"]
        \/ proc' = [proc EXCEPT !.lost = TRUE, !.renewal = "ended"]
        \/ proc' = proc
    BY <1>4 DEF Renew
  <2> QED BY <1>1, <1>4, <2>1 DEF Renew, Process, Quiet
<1>5. ASSUME RenewBreaks PROVE Same
  BY <1>1, <1>5 DEF RenewBreaks, Process, Quiet
<1>6. ASSUME NEW d \in Documents, NEW answered, StoreDocument(d, answered) PROVE Same
  <2>1. Document(proc.attempt, d) \in Refs
    BY <1>6, UploadsTyped DEF StoreDocument, ServiceTypeOK
  <2> QED BY <1>1, <1>6, <2>1 DEF StoreDocument, Process, Quiet, Serving
<1>7. ASSUME NEW s, EndStage(s) \/ CutStage(s) PROVE Same
  BY <1>1, <1>7 DEF EndStage, CutStage, Process, Quiet, Serving
<1>8. ASSUME UploadPack PROVE Same
  <2>1. Pack(proc.attempt, FinalStatus) \in Refs
    BY <1>8, FinalStatusTyped, UploadsTyped DEF UploadPack, ServiceTypeOK
  <2>2. /\ proc.at = "result" /\ Quiet
    BY <1>8, <2>1 DEF UploadPack, Quiet
  <2>3. \/ \E f, p : proc' = [proc EXCEPT !.at = "finalize", !.status = f, !.pack = p]
        \/ \E p : proc' = [proc EXCEPT !.at = p]
    BY <1>8 DEF UploadPack
  <2> QED BY <1>1, <2>2, <2>3 DEF Process, Serving
<1>9. ASSUME FinalizeJob \/ FinalizeCancelled PROVE Same \/ Sent
  <2>1. /\ proc.at \in {"finalize", "fallback"}
        /\ \E p \in {"fallback", "leave", "raising"} : proc' = [proc EXCEPT !.at = p]
        /\ \/ UNCHANGED vars
           \/ \E s \in {proc.status, "cancelled"} :
                 /\ Finalize(W, proc.job, proc.attempt, Envelope(s))
                 /\ proc' = [proc EXCEPT !.at = "leave"] \/ proc' = [proc EXCEPT !.at = "raising"]
    BY <1>9 DEF FinalizeJob, FinalizeCancelled, SendResult, ResultRefused, SentStatus,
                FallbackStatus
  <2>2. proc'.job = proc.job /\ proc'.attempt = proc.attempt /\ proc'.mode = proc.mode
    BY <1>1, <2>1 DEF Process
  <2>3. {proc.status, "cancelled"} \subseteq Reported
    BY <2>1 DEF ServiceTypeOK, Reported
  <2>4. CASE UNCHANGED vars
    BY <2>1, <2>2, <2>4 DEF Quiet, Serving
  <2>5. ASSUME NEW s \in Reported, Finalize(W, proc.job, proc.attempt, Envelope(s)),
               proc' = [proc EXCEPT !.at = "leave"] \/ proc' = [proc EXCEPT !.at = "raising"]
        PROVE  Sent
    BY <1>1, <2>1, <2>2, <2>5 DEF Process, Serving
  <2> QED BY <2>1, <2>3, <2>4, <2>5, Zenon
<1>10. ASSUME Outside, UNCHANGED proc PROVE Same
  BY <1>10 DEF Quiet
<1>11. CASE UNCHANGED everything
  BY <1>11 DEF everything, Quiet, vars
<1> HIDE DEF Same, Sent
<1>12. CASE ServiceNext
  <2>1. (\E j \in Jobs, a \in Attempts : Poll(j, a)) \/ Same \/ Sent
    BY <1>2, <1>3, <1>4, <1>5, <1>6, <1>7, <1>8, <1>9, <1>10, <1>12, Zenon DEF ServiceNext
  <2> QED BY <2>1 DEF Same, Sent
<1> QED BY <1>11, <1>12 DEF Same

\* What a step of the worker makes of its own notes on the job in hand.
Uploading(r) == AddArtifact(W, proc.job, proc.attempt, r)
NotesKept ==
    /\ proc'.cut => proc.cut \/ proc.cancel \/ proc.lost
    /\ proc.cancel => proc'.cancel
    /\ proc.lost => proc'.lost
    /\ \/ proc'.cancel = proc.cancel
       \/ job[proc.job].state = "cancel_requested" /\ job' = job
StatusKept ==
    /\ proc'.cancel = proc.cancel \/ proc.at \in {"finalize", "fallback"}
    /\ \/ /\ proc.at = "result" /\ proc'.status = FinalStatus
          /\ proc'.pack = Pack(proc.attempt, FinalStatus) /\ Uploading(proc'.pack)
       \/ /\ proc.at \in {"finalize", "fallback"}
          /\ proc'.status = proc.status /\ proc'.pack = proc.pack
    /\ proc'.cut = proc.cut /\ proc'.mode = proc.mode
FallbackKept ==
    \/ proc.at = "fallback"
    \/ /\ proc.at = "finalize" /\ Conflicts(proc.job, proc.attempt, proc.status)
       /\ UNCHANGED vars /\ proc'.status = proc.status /\ proc'.cancel = proc.cancel
DocsKept ==
    /\ proc'.at \in {"stage", "result"} => proc.at \in {"stage", "result"}
    /\ \/ proc'.docs = proc.docs
       \/ \E d \in Documents : /\ proc'.docs = proc.docs \cup {Document(proc.attempt, d)}
                               /\ Uploading(Document(proc.attempt, d))
    /\ \/ artifact' \subseteq artifact
       \/ \E d \in Documents : Uploading(Document(proc.attempt, d))
       \/ proc'.at \in {"finalize", "raising"} /\ Uploading(Pack(proc.attempt, FinalStatus))
Noted ==
    /\ NotesKept
    /\ proc'.at \in {"finalize", "fallback"} => StatusKept
    /\ proc'.at = "fallback" => FallbackKept
    /\ proc'.at \in Serving => DocsKept

LEMMA WorkerNotes ==
    ASSUME ServiceTypeOK, proc.at \in Serving, [ServiceNext]_everything, proc'.at \in Serving
    PROVE  Noted
<1> USE DEF Serving
<1>1. proc \in Process
  BY DEF ServiceTypeOK
<1>2. ASSUME StartProcess \/ Stop \/ Kill \/ PollBreaks \/ LeaveJob PROVE FALSE
  BY <1>2 DEF StartProcess, Stop, Kill, PollBreaks, LeaveJob, Idle
<1>3. ASSUME NEW j, NEW a, Poll(j, a) PROVE FALSE
  BY <1>3 DEF Poll
<1>4. ASSUME RequestStop \/ Heartbeat \/ HeartbeatBreaks PROVE Noted
  <2>1. /\ artifact' = artifact
        /\ \/ proc' = proc
           \/ proc' = [proc EXCEPT !.stopping = TRUE]
           \/ proc' = [proc EXCEPT !.beating = FALSE]
    BY <1>4 DEF RequestStop, Heartbeat, HeartbeatBreaks, Register, vars
  <2>2. /\ proc'.at = proc.at /\ proc'.cut = proc.cut /\ proc'.status = proc.status
        /\ proc'.pack = proc.pack /\ proc'.mode = proc.mode /\ proc'.docs = proc.docs
        /\ proc'.cancel = proc.cancel /\ proc'.lost = proc.lost
    BY <1>1, <2>1 DEF Process
  <2>N. NotesKept
    BY <2>1, <2>2 DEF NotesKept
  <2>S. proc'.at \in {"finalize", "fallback"} => StatusKept
    BY <2>1, <2>2 DEF StatusKept
  <2>F. proc'.at = "fallback" => FallbackKept
    BY <2>1, <2>2 DEF FallbackKept
  <2>D. proc'.at \in Serving => DocsKept
    BY <2>1, <2>2 DEF DocsKept
  <2> QED BY <2>N, <2>S, <2>F, <2>D DEF Noted
<1>5. ASSUME Renew \/ RenewBreaks PROVE Noted
  <2>1. /\ job' = job /\ artifact' = artifact
        /\ \/ proc' = proc
           \/ /\ job[proc.job].state = "cancel_requested"
              /\ proc' = [proc EXCEPT !.cancel = TRUE, !.renewal = "ended"]
           \/ proc' = [proc EXCEPT !.lost = TRUE, !.renewal = "ended"]
           \/ proc' = [proc EXCEPT !.renewal = "broken"]
    BY <1>5 DEF Renew, RenewBreaks, RenewLease, vars
  <2>2. /\ proc'.at = proc.at /\ proc'.cut = proc.cut /\ proc'.status = proc.status
        /\ proc'.pack = proc.pack /\ proc'.mode = proc.mode /\ proc'.docs = proc.docs
        /\ proc.cancel => proc'.cancel
        /\ proc.lost => proc'.lost
        /\ proc'.cancel = proc.cancel \/ job[proc.job].state = "cancel_requested"
    BY <1>1, <2>1 DEF Process
  <2>N. NotesKept
    BY <2>1, <2>2 DEF NotesKept
  <2>S. proc'.at \in {"finalize", "fallback"} => StatusKept
    BY <2>1, <2>2 DEF StatusKept
  <2>F. proc'.at = "fallback" => FallbackKept
    BY <2>1, <2>2 DEF FallbackKept
  <2>D. proc'.at \in Serving => DocsKept
    BY <2>1, <2>2 DEF DocsKept
  <2> QED BY <2>N, <2>S, <2>F, <2>D DEF Noted
<1>6. ASSUME NEW d \in Documents, NEW answered, StoreDocument(d, answered) PROVE Noted
  <2>1. /\ proc.at = "stage" /\ Uploading(Document(proc.attempt, d))
        /\ \/ proc' = proc
           \/ proc' = [proc EXCEPT !.docs = proc.docs \cup {Document(proc.attempt, d)}]
    BY <1>6 DEF StoreDocument, Uploading
  <2>2. /\ proc'.at = "stage" /\ proc'.cut = proc.cut
        /\ proc'.cancel = proc.cancel /\ proc'.lost = proc.lost
        /\ proc'.docs = proc.docs \/ proc'.docs = proc.docs \cup {Document(proc.attempt, d)}
    BY <1>1, <2>1 DEF Process
  <2>N. NotesKept
    BY <2>1, <2>2 DEF NotesKept
  <2>S. proc'.at \in {"finalize", "fallback"} => StatusKept
    BY <2>1, <2>2 DEF StatusKept
  <2>F. proc'.at = "fallback" => FallbackKept
    BY <2>1, <2>2 DEF FallbackKept
  <2>D. proc'.at \in Serving => DocsKept
    BY <2>1, <2>2 DEF DocsKept
  <2> QED BY <2>N, <2>S, <2>F, <2>D DEF Noted
<1>7. ASSUME NEW s, EndStage(s) \/ CutStage(s) PROVE Noted
  <2>1. /\ artifact' = artifact /\ proc.at = "stage"
        /\ \/ proc' = [proc EXCEPT !.at = "result", !.status = s]
           \/ /\ proc.cancel \/ proc.lost
              /\ proc' = [proc EXCEPT !.at = "result", !.status = s, !.cut = TRUE]
    BY <1>7 DEF EndStage, CutStage, vars
  <2>2. /\ proc'.at = "result" /\ proc'.docs = proc.docs
        /\ proc'.cancel = proc.cancel /\ proc'.lost = proc.lost
        /\ proc'.cut => proc.cut \/ proc.cancel \/ proc.lost
    BY <1>1, <2>1 DEF Process
  <2>N. NotesKept
    BY <2>1, <2>2 DEF NotesKept
  <2>S. proc'.at \in {"finalize", "fallback"} => StatusKept
    BY <2>1, <2>2 DEF StatusKept
  <2>F. proc'.at = "fallback" => FallbackKept
    BY <2>1, <2>2 DEF FallbackKept
  <2>D. proc'.at \in Serving => DocsKept
    BY <2>1, <2>2 DEF DocsKept
  <2> QED BY <2>N, <2>S, <2>F, <2>D DEF Noted
<1>8. ASSUME UploadPack PROVE Noted
  <2> DEFINE pack == Pack(proc.attempt, FinalStatus)
  <2>1. proc.at = "result"
    BY <1>8 DEF UploadPack
  <2>2. proc' # [proc EXCEPT !.at = "raising"] /\ proc' # [proc EXCEPT !.at = "leave"]
    BY <1>1 DEF Process
  <2>3. /\ Uploading(pack)
        /\ proc' = [proc EXCEPT !.at = "finalize", !.status = FinalStatus, !.pack = pack]
    BY <1>8, <2>2 DEF UploadPack, Uploading
  <2> HIDE DEF pack
  <2>4. /\ proc'.at = "finalize" /\ proc'.status = FinalStatus /\ proc'.pack = pack
        /\ proc'.cancel = proc.cancel /\ proc'.lost = proc.lost /\ proc'.cut = proc.cut
        /\ proc'.docs = proc.docs /\ proc'.mode = proc.mode
    BY <1>1, <2>3 DEF Process
  <2>N. NotesKept
    BY <2>1, <2>3, <2>4 DEF pack, NotesKept
  <2>S. proc'.at \in {"finalize", "fallback"} => StatusKept
    BY <2>1, <2>3, <2>4 DEF pack, StatusKept
  <2>F. proc'.at = "fallback" => FallbackKept
    BY <2>1, <2>3, <2>4 DEF pack, FallbackKept
  <2>D. proc'.at \in Serving => DocsKept
    BY <2>1, <2>3, <2>4 DEF pack, DocsKept
  <2> QED BY <2>N, <2>S, <2>F, <2>D DEF Noted
<1>9. ASSUME FinalizeJob \/ FinalizeCancelled PROVE Noted
  <2>1. proc' # [proc EXCEPT !.at = "raising"] /\ proc' # [proc EXCEPT !.at = "leave"]
    BY <1>1 DEF Process
  <2>2. FinalizeJob /\ Conflicts(proc.job, proc.attempt, proc.status)
        /\ proc' = [proc EXCEPT !.at = "fallback"] /\ UNCHANGED vars
    BY <1>9, <2>1 DEF FinalizeJob, FinalizeCancelled, SendResult, ResultRefused, SentStatus
  <2>3. proc.at = "finalize" /\ artifact' = artifact
    BY <2>2 DEF FinalizeJob, vars
  <2>4. /\ proc'.at = "fallback" /\ proc'.cut = proc.cut /\ proc'.status = proc.status
        /\ proc'.pack = proc.pack /\ proc'.mode = proc.mode /\ proc'.docs = proc.docs
        /\ proc'.cancel = proc.cancel /\ proc'.lost = proc.lost
    BY <1>1, <2>2 DEF Process
  <2>N. NotesKept
    BY <2>2, <2>3, <2>4 DEF NotesKept
  <2>S. proc'.at \in {"finalize", "fallback"} => StatusKept
    BY <2>2, <2>3, <2>4 DEF StatusKept
  <2>F. proc'.at = "fallback" => FallbackKept
    BY <2>2, <2>3, <2>4 DEF FallbackKept
  <2>D. proc'.at \in Serving => DocsKept
    BY <2>2, <2>3, <2>4 DEF DocsKept
  <2> QED BY <2>N, <2>S, <2>F, <2>D DEF Noted
<1>10. ASSUME Outside, UNCHANGED proc PROVE Noted
  <2>1. artifact' \subseteq artifact
    BY <1>10 DEF Outside, Submit, Cancel, DeleteJob, SweepOnce, Tick
  <2>2. proc' = proc
    BY <1>10
  <2>N. NotesKept
    BY <2>1, <2>2 DEF NotesKept
  <2>S. proc'.at \in {"finalize", "fallback"} => StatusKept
    BY <2>1, <2>2 DEF StatusKept
  <2>F. proc'.at = "fallback" => FallbackKept
    BY <2>1, <2>2 DEF FallbackKept
  <2>D. proc'.at \in Serving => DocsKept
    BY <2>1, <2>2 DEF DocsKept
  <2> QED BY <2>N, <2>S, <2>F, <2>D DEF Noted
<1>11. CASE UNCHANGED everything
  <2>1. proc' = proc /\ artifact' = artifact
    BY <1>11 DEF everything
  <2>N. NotesKept
    BY <2>1 DEF NotesKept
  <2>S. proc'.at \in {"finalize", "fallback"} => StatusKept
    BY <2>1 DEF StatusKept
  <2>F. proc'.at = "fallback" => FallbackKept
    BY <2>1 DEF FallbackKept
  <2>D. proc'.at \in Serving => DocsKept
    BY <2>1 DEF DocsKept
  <2> QED BY <2>N, <2>S, <2>F, <2>D DEF Noted
<1>12. CASE ServiceNext
  BY <1>2, <1>3, <1>4, <1>5, <1>6, <1>7, <1>8, <1>9, <1>10, <1>12, Zenon DEF ServiceNext
<1> QED BY <1>11, <1>12

-----------------------------------------------------------------------------
\* The worker's grip on a job.

\* The lease of the job in hand is over, or the job goes on under it.
Grip ==
    proc.at \in Serving =>
        /\ attempt[proc.attempt].status # "unused"
        /\ Expired(proc.attempt) \/ InHand(proc.job, proc.attempt)

\* A claim: the rows it makes.
LEMMA PollTakes ==
    ASSUME Service, NEW j \in Jobs, NEW a \in Attempts, Poll(j, a)
    PROVE  /\ proc'.at = "stage" /\ proc'.job = j /\ proc'.attempt = a /\ proc'.mode = Mode(j)
           /\ ~proc'.cancel /\ ~proc'.cut /\ proc'.docs = {}
           /\ attempt[a].status = "unused" /\ attempt'[a].status = "live"
           /\ InHand(j, a)' /\ ~Expired(a)'
           /\ job'[j].state = "running" /\ job'[j].input = job[j].input
           /\ UNCHANGED artifact
<1>1. /\ proc \in Process /\ TypeOK /\ proc.docs = {}
  BY DEF Service, ServiceTypeOK, Backing, Rows, Poll
<1>2. proc' = [proc EXCEPT !.at = "stage", !.job = j, !.mode = Mode(j),
                           !.attempt = a, !.renewal = "on"]
  BY DEF Poll
<1>3. /\ proc'.at = "stage" /\ proc'.job = j /\ proc'.attempt = a /\ proc'.mode = Mode(j)
      /\ proc'.cancel = proc.cancel /\ proc'.cut = proc.cut /\ proc'.docs = {}
  BY <1>1, <1>2 DEF Process
<1>4. ~proc.cancel /\ ~proc.cut
  BY DEF Service, ServiceTypeOK, Poll
<1>5. /\ attempt[a].status = "unused" /\ job[j].state = "queued" /\ UNCHANGED <<now, artifact>>
      /\ attempt'[a] = [status |-> "live", job |-> j, worker |-> W, created |-> now,
                        expires |-> now + LeaseTTL, finalized |-> FALSE]
      /\ job'[j].state = "running" /\ job'[j].attempt = a /\ job'[j].input = job[j].input
  BY <1>1 DEF Poll, Claim, Claimable, MayTake, Waiting, TypeOK, JobRow
<1>6. now \in Nat /\ LeaseTTL \in Nat
  BY <1>1, ManagerAssumption DEF TypeOK
<1>7. InHand(j, a)' /\ ~Expired(a)'
  BY <1>5, <1>6 DEF InHand, HoldsLease, Live, Occupying, Expired
<1> QED BY <1>3, <1>4, <1>5, <1>7

LEMMA GripStep ==
    ASSUME Service, Grip, [ServiceNext]_everything
    PROVE  Grip'
<1> SUFFICES ASSUME proc'.at \in Serving
             PROVE  /\ attempt'[proc'.attempt].status # "unused"
                    /\ Expired(proc.attempt)' \/ InHand(proc.job, proc.attempt)'
  BY DEF Grip
<1>1. ServiceTypeOK /\ Rows
  BY DEF Service, Backing
<1>2. CASE \E j \in Jobs, a \in Attempts : Poll(j, a)
  BY <1>2, PollTakes DEF InHand, HoldsLease, Live
<1>3. CASE /\ proc.at \in Serving /\ Quiet
           /\ proc'.job = proc.job /\ proc'.attempt = proc.attempt
  <2>1. proc.job \in Jobs /\ proc.attempt \in Attempts
    BY <1>1, <1>3 DEF ServiceTypeOK, Serving
  <2>2. Holds(proc.job, proc.attempt)
    BY <1>1, <1>3, <2>1, QuietHolds
  <2>3. /\ attempt'[proc.attempt].status # "unused"
        /\ \/ attempt'[proc.attempt].expires < now'
           \/ InHand(proc.job, proc.attempt)'
    BY <1>3, <2>2 DEF Grip, Holds, Expired
  <2> QED BY <1>3, <2>3 DEF Expired, InHand, HoldsLease, Live
<1> QED BY <1>1, <1>2, <1>3, WorkerMoves DEF Serving

\* The worker works under a valid lease only on a job that goes on: nobody is told
\* the outcome of a job whose executor may still go to the network (_lease_loop,
\* sweep_once, finalize).
THEOREM WorkEnds == ServiceSpec => []NoWorkAfterTheEnd
<1>1. ServiceInit => Grip
  BY DEF ServiceInit, Idle, Grip, Serving
<1>2. Service /\ Grip /\ [ServiceNext]_everything => Grip'
  BY GripStep
<1>3. Grip => NoWorkAfterTheEnd
  BY DEF Grip, NoWorkAfterTheEnd, Serving, InHand, HoldsLease
<1> QED BY <1>1, <1>2, <1>3, ServiceAlways, PTL DEF ServiceSpec

-----------------------------------------------------------------------------
\* What the worker reports.  Its notes agree with the job: the mode is that of the
\* job, a stage is cut only after an order to stop, such an order comes only for a
\* job that does not run on, and the status sent for a cut search is settled.
Notes ==
    /\ proc.at \in Serving => job[proc.job].state # "unused"
    /\ proc.at \in Serving /\ Present(proc.job) => proc.mode = Mode(proc.job)
    /\ proc.at \in Serving /\ proc.cut => proc.cancel \/ proc.lost
    /\ proc.at \in {"finalize", "fallback"} /\ proc.cut /\ proc.mode = "search" =>
         proc.status \in {"failed", "cancelled"}
Orders ==
    /\ proc.at \in Serving /\ proc.cancel => job[proc.job].state # "running"
    /\ proc.at \in {"finalize", "fallback"} /\ proc.status = "cancelled" => proc.cancel
    /\ proc.at = "fallback" /\ ~Expired(proc.attempt) =>
         job[proc.job].state = "cancel_requested"

\* What a step does to the job in hand, as the worker can rely on it.
LEMMA InHandStep ==
    ASSUME Service, [ServiceNext]_everything, proc'.at \in Serving,
           ~\E j \in Jobs, a \in Attempts : Poll(j, a)
    PROVE  /\ proc.at \in Serving /\ proc.job \in Jobs /\ proc.attempt \in Attempts
           /\ proc'.job = proc.job /\ proc'.attempt = proc.attempt /\ proc'.mode = proc.mode
           /\ Holds(proc.job, proc.attempt) /\ Noted
<1>1. ServiceTypeOK /\ Rows
  BY DEF Service, Backing
<1>2. /\ proc.at \in Serving /\ Quiet
      /\ proc'.job = proc.job /\ proc'.attempt = proc.attempt /\ proc'.mode = proc.mode
  BY <1>1, WorkerMoves DEF Serving
<1>3. proc.job \in Jobs /\ proc.attempt \in Attempts
  BY <1>1, <1>2 DEF ServiceTypeOK, Serving
<1> QED BY <1>1, <1>2, <1>3, QuietHolds, WorkerNotes

LEMMA NotesStep ==
    ASSUME Service, Notes, [ServiceNext]_everything
    PROVE  Notes'
<1> SUFFICES ASSUME proc'.at \in Serving PROVE Notes'
  BY DEF Notes, Serving
<1>1. /\ ServiceTypeOK /\ Rows /\ TypeOK /\ [Next]_vars
  BY StepOfManager DEF Service, Backing, Rows
<1>2. ASSUME NEW j \in Jobs, NEW a \in Attempts, Poll(j, a) PROVE Notes'
  BY <1>2, PollTakes DEF Notes, Mode
<1>3. CASE ~\E j \in Jobs, a \in Attempts : Poll(j, a)
  <2>1. /\ proc.at \in Serving /\ proc.job \in Jobs
        /\ proc'.job = proc.job /\ proc'.mode = proc.mode /\ Noted
    BY <1>3, InHandStep
  <2>2. /\ job[proc.job].state # "unused" => job'[proc.job].state # "unused"
        /\ (job'[proc.job].state \notin {"unused", "deleted"}) =>
             \/ Present(proc.job) /\ job'[proc.job].input = job[proc.job].input
             \/ job[proc.job].state = "unused"
    BY <1>1, <2>1, InputsSettled DEF Present
  <2>3. job'[proc'.job].state # "unused"
    BY <2>1, <2>2 DEF Notes
  <2>4. (job'[proc'.job].state \notin {"unused", "deleted"}) =>
          proc'.mode = ModeOf[job'[proc'.job].input]
    BY <2>1, <2>2 DEF Notes, Mode
  <2>5. proc'.cut => proc'.cancel \/ proc'.lost
    BY <2>1, Zenon DEF Notes, Noted, NotesKept
  <2>6. proc'.at \in {"finalize", "fallback"} /\ proc'.cut /\ proc'.mode = "search" =>
          proc'.status \in {"failed", "cancelled"}
    <3> SUFFICES ASSUME proc'.at \in {"finalize", "fallback"}, proc'.cut, proc'.mode = "search"
                 PROVE  proc'.status \in {"failed", "cancelled"}
      OBVIOUS
    <3>1. StatusKept
      BY <2>1 DEF Noted
    <3>2. proc.cut /\ proc.mode = "search"
      BY <3>1, Zenon DEF StatusKept
    <3>3. proc.cancel \/ proc.lost
      BY <2>1, <3>2 DEF Notes
    <3>4. FinalStatus \in {"failed", "cancelled"}
      BY <3>2, <3>3 DEF FinalStatus
    <3>5. \/ proc'.status = FinalStatus
          \/ proc.at \in {"finalize", "fallback"} /\ proc'.status = proc.status
      BY <3>1 DEF StatusKept
    <3> QED BY <3>2, <3>4, <3>5 DEF Notes
  <2> QED BY <2>3, <2>4, <2>5, <2>6 DEF Notes, Present, Mode
<1> QED BY <1>2, <1>3

\* Only a result the worker sends puts a result into a row.
LEMMA ResultsSent ==
    ASSUME Service, [ServiceNext]_everything, NEW m \in Jobs, job'[m].result # None
    PROVE  \/ job'[m].result = job[m].result
           \/ /\ m = proc.job /\ proc.at \in {"finalize", "fallback"}
              /\ \/ job'[m].result = Envelope(proc.status) /\ proc.at = "finalize"
                 \/ job'[m].result = Envelope("cancelled")
<1> DEFINE Result == \/ job'[m].result = job[m].result
                     \/ /\ m = proc.job /\ proc.at \in {"finalize", "fallback"}
                        /\ \/ job'[m].result = Envelope(proc.status) /\ proc.at = "finalize"
                           \/ job'[m].result = Envelope("cancelled")
<1> SUFFICES Result
  OBVIOUS
<1>1. TypeOK /\ job[m] \in JobRow
  BY DEF Service, Backing, Rows, TypeOK
<1>2. (job' = job) => Result
  OBVIOUS
<1>3. ASSUME NEW r, Register(W, r) PROVE job' = job
  BY <1>3 DEF Register
<1>4. ASSUME NEW j, NEW a, RenewLease(W, j, a) PROVE job' = job
  BY <1>4 DEF RenewLease
<1>5. ASSUME NEW r, AddArtifact(W, proc.job, proc.attempt, r) PROVE job' = job
  BY <1>5 DEF AddArtifact
<1>6. UNCHANGED vars \/ Tick => job' = job
  BY DEF vars, Tick
<1>7. ASSUME NEW j \in Jobs, NEW a, Claim(W, j, a) PROVE Result
  BY <1>1, <1>7 DEF Claim, TypeOK, JobRow
<1>8. ASSUME NEW j \in Jobs, NEW k, NEW i, NEW kind, NEW t, NEW d, Submit(j, k, i, kind, t, d)
      PROVE  Result
  BY <1>1, <1>8 DEF Submit, QueuedJob, TypeOK
<1>9. ASSUME NEW j \in Jobs, Cancel(j) PROVE Result
  BY <1>1, <1>9 DEF Cancel, TypeOK, JobRow
<1>10. ASSUME NEW j \in Jobs, DeleteJob(j, {}) PROVE Result
  BY <1>1, <1>10 DEF DeleteJob, NoJob, TypeOK
<1>11. CASE SweepOnce
  BY <1>1, <1>11 DEF SweepOnce, JobRow
<1>12. ASSUME FinalizeJob \/ FinalizeCancelled PROVE Result
  <2>1. \/ UNCHANGED vars
        \/ /\ proc.at \in {"finalize", "fallback"}
           /\ \E s : /\ Finalize(W, proc.job, proc.attempt, Envelope(s))
                    /\ \/ s = "cancelled"
                       \/ s = proc.status /\ proc.at = "finalize"
    BY <1>12 DEF FinalizeJob, FinalizeCancelled, SendResult, ResultRefused, SentStatus,
                 FallbackStatus
  <2>2. ASSUME NEW s, Finalize(W, proc.job, proc.attempt, Envelope(s)),
               proc.at \in {"finalize", "fallback"},
               s = "cancelled" \/ (s = proc.status /\ proc.at = "finalize")
        PROVE  Result
    <3>1. /\ m # proc.job => job'[m] = job[m]
          /\ m = proc.job => job'[m].result = Envelope(s)
      BY <1>1, <2>2 DEF Finalize, TypeOK, JobRow
    <3> QED BY <2>2, <3>1
  <2> HIDE DEF Result
  <2> QED BY <1>2, <1>6, <2>1, <2>2, Zenon
<1> HIDE DEF Result
<1>13. (StartProcess \/ Heartbeat \/ HeartbeatBreaks \/ RequestStop \/ Stop \/ Kill \/ LeaveJob)
       => job' = job
  BY <1>3, <1>6 DEF StartProcess, Heartbeat, HeartbeatBreaks, RequestStop, Stop, Kill, LeaveJob
<1>14. (Renew \/ RenewBreaks \/ UploadPack) => job' = job
  BY <1>4, <1>5, <1>6 DEF Renew, RenewBreaks, UploadPack
<1>15. ASSUME NEW s, EndStage(s) \/ CutStage(s) PROVE job' = job
  BY <1>6, <1>15 DEF EndStage, CutStage
<1>16. ASSUME NEW d, NEW answered, StoreDocument(d, answered) PROVE job' = job
  BY <1>5, <1>16 DEF StoreDocument
<1>17. PollBreaks => Result
  BY <1>2, <1>6, <1>7 DEF PollBreaks
<1>18. ASSUME NEW j \in Jobs, NEW a, Poll(j, a) PROVE Result
  BY <1>7, <1>18 DEF Poll
<1>19. Outside => Result
  BY <1>2, <1>6, <1>8, <1>9, <1>10, <1>11 DEF Outside
<1>20. CASE ServiceNext
  BY <1>2, <1>12, <1>13, <1>14, <1>15, <1>16, <1>17, <1>18, <1>19, <1>20, Zenon DEF ServiceNext
<1>21. CASE UNCHANGED everything
  BY <1>2, <1>21 DEF everything
<1> QED BY <1>20, <1>21

LEMMA CutStep ==
    ASSUME Service, Notes, CutSearchIsNoSuccess, [ServiceNext]_everything
    PROVE  CutSearchIsNoSuccess'
<1> SUFFICES ASSUME NEW m \in Jobs, job'[m].result # None,
                    ModeOf[job'[m].input] = "search", job'[m].result.tag = "cut"
             PROVE  job'[m].result.status \in {"failed", "cancelled"}
  BY DEF CutSearchIsNoSuccess, Mode
<1>1. /\ ServiceTypeOK /\ Rows /\ TypeOK /\ [Next]_vars /\ Rows'
  BY StepOfManager, NextBacking DEF Service, Backing, Rows
<1>2. Present(m)'
  <2>1. OutcomeMatches(m)' /\ job'[m] \in JobRow
    BY <1>1 DEF Rows, OutcomeMatchesAttempt, TypeOK
  <2> QED BY <2>1 DEF OutcomeMatches, Present
<1>3. job[m].state = "unused" => job[m].result = None
  BY <1>1 DEF Rows, OutcomeMatchesAttempt, OutcomeMatches
<1>4. CASE job'[m].result = job[m].result
  <2>1. job'[m].input = job[m].input
    BY <1>1, <1>2, <1>3, <1>4, InputsSettled
  <2> QED BY <1>4, <2>1 DEF CutSearchIsNoSuccess, Mode
<1>5. CASE /\ m = proc.job /\ proc.at \in {"finalize", "fallback"}
           /\ \/ job'[m].result = Envelope(proc.status) /\ proc.at = "finalize"
              \/ job'[m].result = Envelope("cancelled")
  <2>1. proc.at \in Serving /\ job[m].state # "unused"
    BY <1>5 DEF Serving, Notes
  <2>2. Present(m) /\ job'[m].input = job[m].input
    BY <1>1, <1>2, <2>1, InputsSettled
  <2>3. proc.mode = "search"
    BY <1>5, <2>1, <2>2 DEF Notes, Mode
  <2>4. CASE job'[m].result = Envelope("cancelled")
    BY <2>4 DEF Envelope
  <2>5. CASE job'[m].result = Envelope(proc.status)
    <3>1. proc.cut
      BY <2>5 DEF Envelope
    <3>2. proc.status \in {"failed", "cancelled"}
      BY <1>5, <2>3, <3>1 DEF Notes
    <3> QED BY <2>5, <3>2 DEF Envelope
  <2> QED BY <1>5, <2>4, <2>5
<1> QED BY <1>4, <1>5, ResultsSent

\* A search that was cut short, because a cancellation was asked for or the lease was
\* lost, is never reported as a success (_execute_job, _finalize and its fallback).
THEOREM CutIsNoSuccess == ServiceSpec => []CutSearchIsNoSuccess
<1>1. ServiceInit => Notes /\ CutSearchIsNoSuccess
  BY DEF ServiceInit, Init, NoJob, Idle, Notes, Serving, CutSearchIsNoSuccess
<1>2. Service /\ Notes /\ CutSearchIsNoSuccess /\ [ServiceNext]_everything
      => Notes' /\ CutSearchIsNoSuccess'
  BY NotesStep, CutStep
<1> QED BY <1>1, <1>2, ServiceAlways, PTL DEF ServiceSpec

-----------------------------------------------------------------------------
\* What the worker has uploaded, and that the place of its pack is free until then.
Uploads ==
    /\ \A x \in artifact : x.id = <<x.attempt, x.name>>
    /\ proc.at \in {"stage", "result"} =>
         \A x \in artifact : x.attempt = proc.attempt => x.name \in Documents
    /\ proc.at \in Serving /\ ~Expired(proc.attempt) =>
         \A r \in proc.docs : Stored(proc.job, proc.attempt, r)
    /\ proc.at \in {"finalize", "fallback"} /\ ~Expired(proc.attempt) =>
         Stored(proc.job, proc.attempt, proc.pack)

\* finalize refuses no status of a job that runs but "cancelled", and "cancelled" of
\* no job whose cancellation was asked for.
LEMMA Accepts ==
    /\ \A s \in Reported \ {"cancelled"} : Concluded("running", s) \notin Occupying \cup {None}
    /\ Concluded("cancel_requested", "cancelled") \notin Occupying \cup {None}
BY NullAssumption DEF Reported, StageStatuses, Concluded, Occupying, JobStates, Terminal

LEMMA OrdersStep ==
    ASSUME Service, Grip, Orders, [ServiceNext]_everything
    PROVE  Orders'
<1> SUFFICES ASSUME proc'.at \in Serving PROVE Orders'
  BY DEF Orders, Serving
<1>1. ASSUME NEW j \in Jobs, NEW a \in Attempts, Poll(j, a) PROVE Orders'
  BY <1>1, PollTakes DEF Orders
<1>2. CASE ~\E j \in Jobs, a \in Attempts : Poll(j, a)
  <2>1. /\ proc.at \in Serving /\ proc.job \in Jobs
        /\ proc'.job = proc.job /\ proc'.attempt = proc.attempt
        /\ Holds(proc.job, proc.attempt) /\ Noted
    BY <1>2, InHandStep
  <2>2. ASSUME proc'.cancel PROVE job'[proc.job].state # "running"
    <3>1. CASE proc'.cancel = proc.cancel
      <4>1. proc.cancel
        BY <2>2, <3>1, Zenon
      <4> QED BY <2>1, <4>1 DEF Orders, Holds
    <3>2. CASE job[proc.job].state = "cancel_requested" /\ job' = job
      BY <3>2
    <3> QED BY <2>1, <3>1, <3>2 DEF Noted, NotesKept
  <2>3. ASSUME proc'.at \in {"finalize", "fallback"}, proc'.status = "cancelled"
        PROVE  proc'.cancel
    <3>1. StatusKept
      BY <2>1, <2>3 DEF Noted
    <3>2. CASE proc.at = "result" /\ proc'.status = FinalStatus
      <4>1. proc.status # "cancelled"
        BY <3>2 DEF Service, ServiceTypeOK, StageStatuses
      <4>2. proc.cancel
        BY <2>3, <3>2, <4>1 DEF FinalStatus
      <4> QED BY <2>1, <4>2 DEF Noted, NotesKept
    <3>3. CASE proc.at \in {"finalize", "fallback"} /\ proc'.status = proc.status
      <4>1. proc.cancel
        BY <2>3, <3>3 DEF Orders
      <4> QED BY <2>1, <4>1 DEF Noted, NotesKept
    <3> QED BY <3>1, <3>2, <3>3 DEF StatusKept
  <2>4. ASSUME proc'.at = "fallback", ~(attempt'[proc.attempt].expires < now')
        PROVE  job'[proc.job].state = "cancel_requested"
    <3>1. FallbackKept
      BY <2>1, <2>4 DEF Noted
    <3>2. ~Expired(proc.attempt)
      BY <2>1, <2>4 DEF Holds, Expired
    <3>3. InHand(proc.job, proc.attempt)
      BY <2>1, <3>2 DEF Grip
    <3>4. CASE proc.at = "fallback"
      BY <2>1, <2>4, <3>2, <3>3, <3>4 DEF Orders, Holds, Expired
    <3>5. CASE /\ proc.at = "finalize" /\ UNCHANGED vars
               /\ Conflicts(proc.job, proc.attempt, proc.status)
      <4>1. /\ job[proc.job].state \in {"running", "cancel_requested"} /\ job' = job
            /\ Concluded(job[proc.job].state, proc.status) = None
        BY <3>5 DEF Conflicts, Occupying, vars
      <4>2. proc.status = "cancelled" => proc.cancel
        BY <3>5 DEF Orders
      <4>3. proc.cancel => job[proc.job].state # "running"
        BY <2>1 DEF Orders
      <4>4. job[proc.job].state = "running" => proc.status = "cancelled"
        BY <3>5, <4>1, Accepts DEF Service, ServiceTypeOK
      <4> QED BY <4>1, <4>2, <4>3, <4>4
    <3> QED BY <3>1, <3>4, <3>5 DEF FallbackKept
  <2> QED BY <2>1, <2>2, <2>3, <2>4 DEF Orders, Expired
<1> QED BY <1>1, <1>2

\* Every artifact of the table is one the worker has sent.
LEMMA ArtifactsSent ==
    ASSUME Service, [ServiceNext]_everything
    PROVE  \/ artifact' \subseteq artifact
           \/ \E d \in Documents : Uploading(Document(proc.attempt, d))
           \/ Uploading(Pack(proc.attempt, FinalStatus))
<1> DEFINE Sent == \/ artifact' \subseteq artifact
                   \/ \E d \in Documents : Uploading(Document(proc.attempt, d))
                   \/ Uploading(Pack(proc.attempt, FinalStatus))
<1> SUFFICES Sent
  OBVIOUS
<1>1. ASSUME NEW r, Register(W, r) PROVE artifact' \subseteq artifact
  BY <1>1 DEF Register
<1>2. ASSUME NEW j, NEW a, RenewLease(W, j, a) \/ Claim(W, j, a) PROVE artifact' \subseteq artifact
  BY <1>2 DEF RenewLease, Claim
<1>3. ASSUME NEW e, Finalize(W, proc.job, proc.attempt, e) PROVE artifact' \subseteq artifact
  BY <1>3 DEF Finalize
<1>4. UNCHANGED vars \/ Outside => artifact' \subseteq artifact
  BY DEF vars, Outside, Submit, Cancel, DeleteJob, SweepOnce, Tick
<1>5. (StartProcess \/ Heartbeat \/ HeartbeatBreaks \/ RequestStop \/ Stop \/ Kill \/ LeaveJob)
      => artifact' \subseteq artifact
  BY <1>1, <1>4 DEF StartProcess, Heartbeat, HeartbeatBreaks, RequestStop, Stop, Kill, LeaveJob
<1>6. (Renew \/ RenewBreaks \/ PollBreaks) => artifact' \subseteq artifact
  BY <1>2, <1>4 DEF Renew, RenewBreaks, PollBreaks
<1>7. ASSUME NEW s, EndStage(s) \/ CutStage(s) PROVE artifact' \subseteq artifact
  BY <1>4, <1>7 DEF EndStage, CutStage
<1>8. ASSUME NEW j, NEW a, Poll(j, a) PROVE artifact' \subseteq artifact
  BY <1>2, <1>8 DEF Poll
<1>9. ASSUME NEW d \in Documents, NEW answered, StoreDocument(d, answered) PROVE Sent
  BY <1>9 DEF StoreDocument, Uploading
<1>10. UploadPack => Sent
  BY <1>4 DEF UploadPack, Uploading
<1>11. FinalizeJob \/ FinalizeCancelled => artifact' \subseteq artifact
  BY <1>3, <1>4 DEF FinalizeJob, FinalizeCancelled, SendResult, ResultRefused
<1>12. UNCHANGED everything => artifact' \subseteq artifact
  BY DEF everything
<1>13. artifact' \subseteq artifact => Sent
  OBVIOUS
<1> HIDE DEF Sent
<1> QED
  BY <1>4, <1>5, <1>6, <1>7, <1>8, <1>9, <1>10, <1>11, <1>12, <1>13, Zenon DEF ServiceNext

LEMMA UploadsStep ==
    ASSUME Service, Grip, Uploads, [ServiceNext]_everything
    PROVE  Uploads'
<1>1. /\ ServiceTypeOK /\ Rows /\ ServedBytesAreStored
      /\ artifact \subseteq [job : Jobs, attempt : Attempts, id : ArtifactIds,
                            name : Names, content : Contents]
  BY DEF Service, Backing, Rows, TypeOK
<1>2. ASSUME NEW r, Uploading(r)
      PROVE  /\ Stored(proc.job, proc.attempt, r)'
                 \/ proc'.job # proc.job \/ proc'.attempt # proc.attempt
             /\ artifact' = artifact \cup {[job |-> proc.job, attempt |-> proc.attempt,
                                          id |-> r.id, name |-> r.name, content |-> r.content]}
  BY <1>2 DEF Uploading, AddArtifact, Stored
<1>3. ASSUME NEW x \in artifact' PROVE x.id = <<x.attempt, x.name>>
  <2>1. ASSUME NEW r, Uploading(r), r.id = <<proc.attempt, r.name>>
        PROVE  x.id = <<x.attempt, x.name>>
    BY <1>2, <1>3, <2>1 DEF Uploads
  <2>2. \A d \in Documents : LET r == Document(proc.attempt, d) IN r.id = <<proc.attempt, r.name>>
    BY DEF Document
  <2>3. LET r == Pack(proc.attempt, FinalStatus) IN r.id = <<proc.attempt, r.name>>
    BY DEF Pack
  <2> QED BY <1>3, <2>1, <2>2, <2>3, ArtifactsSent DEF Uploads
<1>4. ASSUME NEW j \in Jobs, NEW a \in Attempts, Poll(j, a) PROVE Uploads'
  <2>1. ASSUME NEW x \in artifact PROVE x.attempt # a
    <3>1. x.job \in Jobs /\ x.attempt \in Attempts /\ job[x.job].attempt = x.attempt
      BY <1>1 DEF ServedBytesAreStored
    <3>2. x.attempt # None
      BY <3>1, ManagerAssumption
    <3>3. Live(x.attempt)
      BY <1>1, <3>1, <3>2 DEF Rows, OneAttemptPerJob, JobHasAttempt
    <3> QED BY <1>4, <3>3, PollTakes DEF Live
  <2> QED BY <1>3, <1>4, <2>1, PollTakes DEF Uploads
<1>5. CASE proc'.at \in Serving /\ ~\E j \in Jobs, a \in Attempts : Poll(j, a)
  <2>1. /\ proc.at \in Serving /\ proc.job \in Jobs /\ proc.attempt \in Attempts
        /\ proc'.job = proc.job /\ proc'.attempt = proc.attempt
        /\ Holds(proc.job, proc.attempt) /\ Noted /\ DocsKept
    BY <1>5, InHandStep DEF Noted
  <2>2. ASSUME ~Expired(proc.attempt)'
        PROVE  ~Expired(proc.attempt) /\ InHand(proc.job, proc.attempt)
    BY <2>1, <2>2 DEF Holds, Expired, Grip
  <2>3. ASSUME proc'.at \in {"stage", "result"}, NEW x \in artifact', x.attempt = proc.attempt
        PROVE  x.name \in Documents
    <3>1. /\ proc.at \in {"stage", "result"}
          /\ \/ artifact' \subseteq artifact
             \/ \E d \in Documents : Uploading(Document(proc.attempt, d))
      BY <2>1, <2>3 DEF DocsKept
    <3>2. \A d \in Documents : Document(proc.attempt, d).name = d
      BY DEF Document
    <3> QED BY <1>2, <2>3, <3>1, <3>2 DEF Uploads
  <2>4. ASSUME ~Expired(proc.attempt)', NEW r \in proc'.docs
        PROVE  Stored(proc.job, proc.attempt, r)'
    <3>1. CASE r \in proc.docs
      <4>1. r \in Refs /\ Stored(proc.job, proc.attempt, r)
        BY <1>1, <2>1, <2>2, <2>4, <3>1 DEF Uploads, ServiceTypeOK, Process
      <4> QED BY <2>1, <2>2, <2>4, <4>1 DEF Holds, Stored
    <3>2. CASE Uploading(r)
      BY <1>2, <2>1, <3>2
    <3> QED BY <2>1, <2>4, <3>1, <3>2 DEF DocsKept
  <2>5. ASSUME proc'.at \in {"finalize", "fallback"}, ~Expired(proc.attempt)'
        PROVE  Stored(proc.job, proc.attempt, proc.pack)'
    <3>1. \/ Uploading(proc'.pack)
          \/ proc.at \in {"finalize", "fallback"} /\ proc'.pack = proc.pack
      BY <2>1, <2>5 DEF Noted, StatusKept
    <3>2. CASE Uploading(proc'.pack)
      BY <2>1, <3>2 DEF Uploading, AddArtifact, Stored
    <3>3. CASE proc.at \in {"finalize", "fallback"} /\ proc'.pack = proc.pack
      <4>1. proc.pack \in Refs
        BY <1>1, <2>1, <3>3, UploadsTyped DEF ServiceTypeOK
      <4>2. Stored(proc.job, proc.attempt, proc.pack)
        BY <2>2, <2>5, <3>3 DEF Uploads
      <4> QED BY <2>1, <2>2, <2>5, <3>3, <4>1, <4>2 DEF Holds, Stored
    <3> QED BY <3>1, <3>2, <3>3
  <2> QED BY <1>3, <2>1, <2>3, <2>4, <2>5 DEF Uploads
<1>6. CASE proc'.at \notin Serving
  BY <1>3, <1>6 DEF Uploads, Serving
<1> QED BY <1>4, <1>5, <1>6

-----------------------------------------------------------------------------
\* Leaving a job.

Sends == \E s \in Reported : Finalize(W, proc.job, proc.attempt, Envelope(s))
Refused ==
    \/ /\ proc.at = "result"
       /\ ~MayStore(W, proc.job, proc.attempt, Pack(proc.attempt, FinalStatus))
    \/ /\ proc.at = "finalize"
       /\ ~MayFinalize(W, proc.job, proc.attempt, Envelope(proc.status))
       /\ ~Conflicts(proc.job, proc.attempt, proc.status)
    \/ /\ proc.at = "fallback"
       /\ ~MayFinalize(W, proc.job, proc.attempt, Envelope("cancelled"))

\* The worker leaves a job it has in hand when the Manager took its result, or
\* refused its pack or its result and there was nothing left to try.
LEMMA WorkerLeaves ==
    ASSUME ServiceTypeOK, proc.at \in Serving, [ServiceNext]_everything, proc'.at = "leave"
    PROVE  /\ proc'.job = proc.job /\ proc'.attempt = proc.attempt
           /\ Sends \/ (UNCHANGED vars /\ Refused)
<1> DEFINE Left == /\ proc'.job = proc.job /\ proc'.attempt = proc.attempt
                   /\ Sends \/ (UNCHANGED vars /\ Refused)
<1> SUFFICES Left
  OBVIOUS
<1> USE DEF Serving
<1>1. proc \in Process
  BY DEF ServiceTypeOK
<1>2. ASSUME StartProcess \/ Stop \/ Kill \/ PollBreaks \/ LeaveJob PROVE FALSE
  BY <1>2 DEF StartProcess, Stop, Kill, PollBreaks, LeaveJob, Idle
<1>3. ASSUME NEW j, NEW a, Poll(j, a) PROVE FALSE
  BY <1>3 DEF Poll
<1>4. ASSUME RequestStop \/ HeartbeatBreaks \/ RenewBreaks PROVE FALSE
  BY <1>1, <1>4 DEF RequestStop, HeartbeatBreaks, RenewBreaks, Process
<1>5. ASSUME Renew PROVE FALSE
  <2>1. \/ proc' = [proc EXCEPT !.cancel = TRUE, !.renewal = "ended"]
        \/ proc' = [proc EXCEPT !.lost = TRUE, !.renewal = "ended"]
        \/ proc' = proc
    BY <1>5 DEF Renew
  <2> QED BY <1>1, <2>1 DEF Process
<1>6. ASSUME NEW d, NEW answered, StoreDocument(d, answered) PROVE FALSE
  BY <1>1, <1>6 DEF StoreDocument, Process
<1>7. ASSUME NEW s, EndStage(s) \/ CutStage(s) PROVE FALSE
  BY <1>1, <1>7 DEF EndStage, CutStage, Process
<1>8. ASSUME UploadPack PROVE Left
  <2> DEFINE pack == Pack(proc.attempt, FinalStatus)
  <2>1. /\ proc' # [proc EXCEPT !.at = "raising"]
        /\ \A f, p : proc' # [proc EXCEPT !.at = "finalize", !.status = f, !.pack = p]
    BY <1>1 DEF Process
  <2>2. /\ proc.at = "result" /\ ~MayStore(W, proc.job, proc.attempt, pack)
        /\ proc' = [proc EXCEPT !.at = "leave"] /\ UNCHANGED vars
    BY <1>8, <2>1 DEF UploadPack
  <2> QED BY <1>1, <2>2 DEF Refused, Process
<1>9. ASSUME FinalizeJob \/ FinalizeCancelled PROVE Left
  <2>1. /\ proc' # [proc EXCEPT !.at = "raising"] /\ proc' # [proc EXCEPT !.at = "fallback"]
    BY <1>1 DEF Process
  <2>2. /\ proc' = [proc EXCEPT !.at = "leave"]
        /\ \/ Finalize(W, proc.job, proc.attempt, Envelope(proc.status)) /\ proc.at = "finalize"
           \/ Finalize(W, proc.job, proc.attempt, Envelope("cancelled"))
           \/ UNCHANGED vars /\ Refused
    <3>1. CASE FinalizeJob
      BY <2>1, <3>1 DEF FinalizeJob, SendResult, ResultRefused, SentStatus, Refused
    <3>2. CASE FinalizeCancelled
      BY <2>1, <3>2 DEF FinalizeCancelled, SendResult, ResultRefused, FallbackStatus, Refused
    <3> QED BY <1>9, <3>1, <3>2
  <2>3. "cancelled" \in Reported /\ (proc.at = "finalize" => proc.status \in Reported)
    BY DEF Reported, ServiceTypeOK
  <2>4. proc'.job = proc.job /\ proc'.attempt = proc.attempt
    BY <1>1, <2>2 DEF Process
  <2> QED BY <2>2, <2>3, <2>4 DEF Sends
<1>10. ASSUME (Heartbeat \/ UNCHANGED everything) \/ (Outside /\ UNCHANGED proc) PROVE FALSE
  BY <1>10 DEF Heartbeat, everything
<1> HIDE DEF Left
<1> QED
  BY <1>2, <1>3, <1>4, <1>5, <1>6, <1>7, <1>8, <1>9, <1>10, Zenon DEF ServiceNext

\* The Manager refuses nothing the worker sends for a job it still has in hand.
LEMMA NothingRefused ==
    ASSUME Service, Orders, Uploads, RoomForPack, Refused, ~Expired(proc.attempt)
    PROVE  ~InHand(proc.job, proc.attempt)
<1> SUFFICES ASSUME InHand(proc.job, proc.attempt) PROVE FALSE
  OBVIOUS
<1>1. /\ Present(proc.job) /\ HoldsLease(W, proc.job, proc.attempt)
      /\ ~attempt[proc.attempt].finalized /\ job[proc.job].state \in Occupying
      /\ job[proc.job].attempt = proc.attempt
  BY DEF InHand, HoldsLease, Present, Occupying
<1>2. proc.at \in Serving /\ proc.at # "stage"
  BY DEF Refused, Serving
<1>3. \A r \in proc.docs : Stored(proc.job, proc.attempt, r)
  BY <1>2 DEF Uploads
<1>4. CASE /\ proc.at = "result"
           /\ ~MayStore(W, proc.job, proc.attempt, Pack(proc.attempt, FinalStatus))
  <2> DEFINE pack == Pack(proc.attempt, FinalStatus)
  <2>1. pack.id = <<proc.attempt, "result-pack">> /\ pack.name = "result-pack"
    BY DEF Pack
  <2>2. FinalStatus \in Reported
    BY <1>4, FinalStatusTyped DEF Service
  <2>3. WithinLimits(proc.job, pack)
    BY <1>4, <2>2 DEF RoomForPack
  <2>4. \A x \in artifact : x.attempt = proc.attempt => x.name # "result-pack"
    BY <1>4, WorkerAssumption DEF Uploads
  <2>5. \A x \in artifact : x.id # pack.id
    BY <2>1, <2>4 DEF Uploads
  <2>6. NameFree(proc.job, pack)
    BY <1>1, <2>1, <2>4 DEF NameFree, ArtifactsOf, Service, Backing, ServedBytesAreStored
  <2> HIDE DEF pack
  <2>7. MayStore(W, proc.job, proc.attempt, pack)
    BY <1>1, <2>3, <2>5, <2>6 DEF MayStore
  <2> QED BY <1>4, <2>7 DEF pack
<1>5. ASSUME proc.at \in {"finalize", "fallback"}, NEW s,
             Concluded(job[proc.job].state, s) # None
      PROVE  MayFinalize(W, proc.job, proc.attempt, Envelope(s))
  <2>1. /\ Envelope(s).attempt = proc.attempt /\ Envelope(s).fits /\ Envelope(s).status = s
        /\ Envelope(s).manifest = proc.docs \cup {proc.pack}
    BY DEF Envelope
  <2>2. ManifestStored(proc.job, proc.attempt, Envelope(s))
    BY <1>3, <1>5, <2>1 DEF ManifestStored, Uploads
  <2> QED BY <1>1, <1>5, <2>1, <2>2 DEF MayFinalize
<1>6. CASE /\ proc.at = "finalize"
           /\ ~MayFinalize(W, proc.job, proc.attempt, Envelope(proc.status))
           /\ ~Conflicts(proc.job, proc.attempt, proc.status)
  BY <1>1, <1>5, <1>6 DEF Conflicts
<1>7. CASE /\ proc.at = "fallback"
           /\ ~MayFinalize(W, proc.job, proc.attempt, Envelope("cancelled"))
  <2>1. job[proc.job].state = "cancel_requested"
    BY <1>7 DEF Orders
  <2> QED BY <1>5, <1>7, <2>1, Accepts
<1> QED BY <1>4, <1>6, <1>7 DEF Refused

LEMMA LeaveStep ==
    ASSUME Service, Grip, Orders, Uploads, RoomForPack, NoJobAbandoned, [ServiceNext]_everything
    PROVE  NoJobAbandoned'
<1> SUFFICES ASSUME proc'.at = "leave"
             PROVE  job'[proc'.job].state \notin Occupying \/ attempt'[proc'.attempt].expires < now'
  BY DEF NoJobAbandoned, Expired
<1>1. ServiceTypeOK /\ Rows /\ TypeOK
  BY DEF Service, Backing, Rows
<1>2. ASSUME NEW j \in Jobs, NEW a \in Attempts, Poll(j, a) PROVE FALSE
  BY <1>2, PollTakes
<1>3. CASE proc.at \in Serving
  <2>1. /\ proc'.job = proc.job /\ proc'.attempt = proc.attempt
        /\ Sends \/ (UNCHANGED vars /\ Refused)
    BY <1>1, <1>3, WorkerLeaves
  <2>2. proc.job \in Jobs
    BY <1>1, <1>3 DEF ServiceTypeOK, Serving
  <2>3. ASSUME NEW s \in Reported, Finalize(W, proc.job, proc.attempt, Envelope(s))
        PROVE  job'[proc.job].state \notin Occupying
    <3>1. /\ job'[proc.job].state = Concluded(job[proc.job].state, s)
          /\ Concluded(job[proc.job].state, s) # None
      BY <1>1, <2>2, <2>3 DEF Finalize, MayFinalize, Envelope, TypeOK, JobRow
    <3>2. Concluded(job[proc.job].state, s) \notin Occupying
      BY <2>3, <3>1 DEF Concluded, Occupying, Reported, StageStatuses
    <3> QED BY <3>1, <3>2
  <2>4. CASE UNCHANGED vars /\ Refused
    <3>1. Expired(proc.attempt) \/ ~InHand(proc.job, proc.attempt)
      BY <2>4, NothingRefused
    <3>2. Expired(proc.attempt)
      BY <1>3, <3>1 DEF Grip
    <3> QED BY <2>1, <2>4, <3>2 DEF Expired, vars
  <2> QED BY <2>1, <2>3, <2>4 DEF Sends
<1>4. CASE proc.at = "leave"
  <2>1. /\ Quiet /\ proc'.job = proc.job /\ proc'.attempt = proc.attempt
        /\ proc.job \in Jobs /\ proc.attempt \in Attempts
    BY <1>1, <1>2, <1>4, WorkerMoves DEF ServiceTypeOK
  <2>2. Holds(proc.job, proc.attempt)
    BY <1>1, <1>4, <2>1, QuietHolds
  <2> QED BY <1>4, <2>1, <2>2 DEF NoJobAbandoned, Holds, Expired
<1> QED BY <1>1, <1>2, <1>3, <1>4, WorkerMoves DEF Serving

\* As long as there is room for its result pack, a worker whose calls are answered
\* does not walk away from a job it still holds: the job is concluded or its lease
\* is over, however its cancellation races the result (_finalize and its fallback).
THEOREM NotAbandoned == ServiceSpec /\ []RoomForPack => []NoJobAbandoned
<1> DEFINE Inv == Grip /\ Orders /\ Uploads /\ NoJobAbandoned
<1>1. ServiceInit => Inv
  BY DEF ServiceInit, Init, Idle, Grip, Orders, Uploads, Serving, NoJobAbandoned
<1>2. Service /\ RoomForPack /\ Inv /\ [ServiceNext]_everything => Inv'
  BY GripStep, OrdersStep, UploadsStep, LeaveStep
<1>3. Inv => NoJobAbandoned
  OBVIOUS
<1> HIDE DEF Inv
<1> QED BY <1>1, <1>2, <1>3, ServiceAlways, PTL DEF ServiceSpec
=============================================================================
