-------------------------- MODULE OwnerRepairProofs --------------------------
(***************************************************************************)
(* Theorems about the controller of the owner's repairs for any number of  *)
(* repairs, answers of the reviewers, crashes and versions of the grant,   *)
(* and about the discovery that goes before each of them: for any source,  *)
(* any test modules and any proposals of the model.                        *)
(***************************************************************************)
EXTENDS OwnerRepair, Discovery, WellFoundedInduction, TLAPS

-----------------------------------------------------------------------------
\* The inductive invariant.

\* What the code relies on where it stands: no other process moves the job of the
\* tick, and what the steps before have recorded is still there.
Placed ==
    /\ step = "discover" => stage[job] = "discovering"
    /\ step = "formal" => stage[job] = "running"
    /\ step \notin Away \cup {"discover", "formal"} => stage[job] \in Releasing
    /\ step \notin Away \cup {"discover", "formal", "context"} => file[job].context # None
    /\ step = "record authorization" => file[job].authorization # None
    /\ step = "merge" => data[job].authorization # None
    /\ step = "result" /\ result = "healthy" => job \in live

\* A record on disk was made of the ones before it, and the database has either
\* nothing or what is on disk.
Written == \A j \in Jobs :
    /\ file[j].authorization # None =>
        /\ file[j].context # None /\ file[j].evidence \in Ready
        /\ file[j].authorization = [grant |-> file[j].context, evidence |-> file[j].evidence]
    /\ data[j].evidence \in {None, file[j].evidence}
    /\ data[j].authorization \in {None, file[j].authorization}
    /\ file[j].merge \in {None, data[j].authorization}

\* The stage tells which of the models have worked on a job.
Worked == \A j \in Jobs :
    /\ stage[j] \in {"absent", "queued"} => begun[j].discovery = 0
    /\ stage[j] \in {"absent", "queued", "discovering", "submitted"} => begun[j].formal = 0
    /\ stage[j] \in {"discovering", "submitted"} => begun[j].discovery = 1

\* Repairs are numbered as they are queued.
Numbered == \A i, j \in Jobs : i < j /\ stage[j] # "absent" => stage[i] # "absent"

IInv ==
    /\ TypeOK /\ Placed /\ Written /\ Worked /\ Numbered
    /\ ReleasedAsAuthorized /\ CompletedIsLive /\ ModelsRunOnce /\ OneAfterTheOther

LEMMA InitInv == Init => IInv
<1> SUFFICES ASSUME Init PROVE IInv
  OBVIOUS
<1>1. TypeOK
  BY RepairAssumption DEF Init, TypeOK, Stages, Steps, Away, Terminal, Releasing, Records, DataRow, Directory,
          PullRequest
<1>2. Placed /\ Written /\ Worked /\ Numbered
  BY DEF Init, Placed, Written, Worked, Numbered, Away
<1>3. ReleasedAsAuthorized /\ CompletedIsLive /\ ModelsRunOnce /\ OneAfterTheOther
  BY RepairAssumption DEF Init, ReleasedAsAuthorized, CompletedIsLive, ModelsRunOnce, OneAfterTheOther
<1> QED BY <1>1, <1>2, <1>3 DEF IInv

-----------------------------------------------------------------------------
\* Steps.

\* The job of a tick is not yet queued for anything else and has not ended.
LEMMA Working ==
    ASSUME IInv, NEW j \in Jobs, job = j
    PROVE  /\ step \notin Away
           /\ stage[j] \in Releasing \cup {"discovering", "running"}
           /\ Open(j)
<1>1. step \notin Away
  BY RepairAssumption DEF IInv, TypeOK
<1> QED BY <1>1 DEF IInv, Placed, Releasing, Open, Terminal, Away

\* A job ends with a report of its success, of its failure, or without any.
Ending(j) ==
    /\ Reject(j) \/ Complete(j) \/ Finish(j, "failed")
    /\ UNCHANGED <<remote, live>>

\* The ways a step may change the stages, the reports and what is counted of the models.
StageMove(j) ==
    \/ UNCHANGED <<stage, report, begun>>
    \/ /\ stage[j] \in Releasing \cup {"running"}
       /\ \E s \in Releasing : stage' = [stage EXCEPT ![j] = s]
       /\ UNCHANGED <<report, begun>>
    \/ Open(j) /\ (job = j \/ Turn(j)) /\ Ending(j) /\ begun' = begun
    \/ /\ stage[j] = "discovering" /\ stage' = [stage EXCEPT ![j] = "submitted"]
       /\ UNCHANGED <<report, begun>>
    \/ Enqueue(j) \/ BeginDiscovery(j) \/ BeginFormal(j)

LEMMA StageMoves ==
    ASSUME IInv, NEW j \in Jobs, Ticks(j) \/ Outside(j)
    PROVE  StageMove(j)
<1> USE DEF StageMove
<1>1. CASE Enqueue(j) \/ BeginDiscovery(j) \/ BeginFormal(j)
  BY <1>1
<1>2. CASE Retain(j) \/ Reject(j)
  BY <1>2 DEF Retain, Reject, Turn, Oldest, Ending, outside
<1>3. CASE Fails(j) \/ AdapterFails(j) \/ Complete(j)
  <2>1. job = j /\ begun' = begun
    BY <1>3 DEF Fails, AdapterFails, Complete, At
  <2>2. Ending(j)
    BY <1>3 DEF Fails, AdapterFails, Complete, Ending, outside
  <2> QED BY <2>1, <2>2, Working
<1>4. CASE Discovered(j)
  BY <1>4 DEF Discovered, At, Transition, IInv, Placed
<1>5. CASE Proposed(j)
  BY <1>5 DEF Proposed, At, Transition, IInv, Placed, Releasing
<1>6. CASE RecordHead(j) \/ RecordPr(j) \/ Publish(j) \/ Ask(j) \/ RelayUnconfirmed(j)
           \/ NotReady(j) \/ RecordEvidence(j) \/ Verify(j) \/ AdapterTimesOut(j)
  <2>1. step \notin Away \cup {"discover", "formal"} /\ job = j
    BY <1>6 DEF RecordHead, RecordPr, Publish, Ask, RelayUnconfirmed, NotReady, RecordEvidence,
                Verify, AdapterTimesOut, At, Away
  <2>2. stage[j] \in Releasing
    BY <2>1 DEF IInv, Placed
  <2>3. /\ \E s \in Releasing : stage' = [stage EXCEPT ![j] = s]
        /\ UNCHANGED <<report, begun>>
    BY <1>6 DEF RecordHead, RecordPr, Publish, Ask, RelayUnconfirmed, NotReady, RecordEvidence,
                Verify, AdapterTimesOut, Noted, Waits, Transition, Releasing
  <2> QED BY <2>2, <2>3
<1>7. CASE RecordAuthorization(j)
  BY <1>7 DEF RecordAuthorization, Noted, IInv, TypeOK
<1>8. CASE BeginRelease(j) \/ BindContext(j) \/ AddWorktree(j) \/ Commit(j) \/ Propose(j) \/ Look(j)
           \/ FreezeEvidence(j) \/ Authorize(j) \/ Recheck(j) \/ Merge(j) \/ CallAdapter(j) \/ BindResult(j)
  BY <1>8 DEF BeginRelease, BindContext, AddWorktree, Commit, Propose, Look, FreezeEvidence, Authorize,
              Recheck, Merge, CallAdapter, BindResult, database
<1>9. CASE \E r \in {"healthy", "unhealthy"} : AdapterReturns(j, r)
  BY <1>9 DEF AdapterReturns, database
<1>10. CASE PushedOver(j) \/ AdapterDeploys(j) \/ OrphanEnds(j)
            \/ (\E e \in Evidences : Reviewed(j, e))
            \/ (\E s \in {"merged", "closed"} : EndedByHand(j, s))
  BY <1>10 DEF PushedOver, AdapterDeploys, OrphanEnds, Reviewed, EndedByHand, database
<1> HIDE DEF StageMove
<1> QED BY <1>1, <1>2, <1>3, <1>4, <1>5, <1>6, <1>7, <1>8, <1>9, <1>10 DEF Ticks, Outside

LEMMA EndingStage ==
    ASSUME NEW j \in Jobs, Ending(j)
    PROVE  \E s \in Terminal : stage' = [stage EXCEPT ![j] = s]
BY DEF Ending, Reject, Complete, Finish, Transition, Terminal

-----------------------------------------------------------------------------
\* Stages: what the models do, and in which order jobs are taken up.

LEMMA StagesStep ==
    ASSUME IInv, NEW j \in Jobs, StageMove(j)
    PROVE  Worked' /\ Numbered' /\ ModelsRunOnce' /\ OneAfterTheOther'
<1> USE DEF IInv, TypeOK
<1>1. CASE UNCHANGED <<stage, report, begun>>
  BY <1>1 DEF Worked, Numbered, ModelsRunOnce, OneAfterTheOther
<1>2. CASE /\ stage[j] \in Releasing \cup {"running"}
           /\ \E s \in Releasing : stage' = [stage EXCEPT ![j] = s]
           /\ UNCHANGED <<report, begun>>
  BY <1>2 DEF Worked, Numbered, ModelsRunOnce, OneAfterTheOther, Releasing, Terminal
<1>3. CASE Open(j) /\ (job = j \/ Turn(j)) /\ Ending(j) /\ begun' = begun
  <2>1. \A i \in Jobs : i < j => stage[i] \in Terminal
    <3>1. CASE job = j
      <4>1. stage[j] \notin {"absent", "queued"}
        BY <3>1, Working DEF Releasing
      <4> QED BY <4>1 DEF OneAfterTheOther
    <3>2. CASE Turn(j)
      BY <3>2, <1>3, RepairAssumption DEF Turn, Oldest, Open, Numbered
    <3> QED BY <1>3, <3>1, <3>2
  <2>2. \E s \in Terminal : stage' = [stage EXCEPT ![j] = s]
    BY <1>3, EndingStage
  <2> QED BY <1>3, <2>1, <2>2 DEF Worked, Numbered, ModelsRunOnce, OneAfterTheOther, Terminal, Open
<1>4. CASE /\ stage[j] = "discovering" /\ stage' = [stage EXCEPT ![j] = "submitted"]
           /\ UNCHANGED <<report, begun>>
  BY <1>4 DEF Worked, Numbered, ModelsRunOnce, OneAfterTheOther, Terminal
<1>5. CASE Enqueue(j)
  BY <1>5 DEF Enqueue, Transition, Worked, Numbered, ModelsRunOnce, OneAfterTheOther, Terminal
<1>6. CASE BeginDiscovery(j)
  <2>1. \A i \in Jobs : i < j => stage[i] \in Terminal
    BY <1>6, RepairAssumption DEF BeginDiscovery, Takes, Turn, Oldest, Open, Numbered
  <2>2. /\ begun'[j].discovery = 1 /\ begun'[j].formal = begun[j].formal
        /\ \A i \in Jobs \ {j} : begun'[i] = begun[i]
    BY <1>6 DEF BeginDiscovery, Worked
  <2>3. stage[j] = "queued" /\ stage' = [stage EXCEPT ![j] = "discovering"]
    BY <1>6 DEF BeginDiscovery, Transition
  <2>4. Worked' /\ ModelsRunOnce'
    BY <2>2, <2>3 DEF Worked, ModelsRunOnce
  <2>5. Numbered' /\ OneAfterTheOther'
    BY <2>1, <2>3, RepairAssumption DEF Numbered, OneAfterTheOther, Terminal
  <2> QED BY <2>4, <2>5
<1>7. CASE BeginFormal(j)
  <2>1. /\ begun'[j].formal = 1 /\ begun'[j].discovery = 1
        /\ \A i \in Jobs \ {j} : begun'[i] = begun[i]
    BY <1>7 DEF BeginFormal, Worked
  <2>2. stage[j] = "submitted" /\ stage' = [stage EXCEPT ![j] = "running"]
    BY <1>7 DEF BeginFormal, Transition
  <2>3. Worked' /\ ModelsRunOnce'
    BY <2>1, <2>2 DEF Worked, ModelsRunOnce
  <2>4. Numbered' /\ OneAfterTheOther'
    BY <2>2, RepairAssumption DEF Numbered, OneAfterTheOther, Terminal
  <2> QED BY <2>3, <2>4
<1> QED BY <1>1, <1>2, <1>3, <1>4, <1>5, <1>6, <1>7 DEF StageMove

-----------------------------------------------------------------------------
\* Which steps write what.

LEMMA DataMoves ==
    ASSUME NEW j \in Jobs, Ticks(j) \/ Outside(j)
    PROVE  \/ data' = data
           \/ RecordHead(j) \/ RecordPr(j) \/ Ask(j) \/ RecordEvidence(j) \/ RecordAuthorization(j)
  BY DEF Ticks, Outside, BeginRelease, BindContext, AddWorktree, Commit, Propose, Publish, Look,
         RelayUnconfirmed, NotReady, FreezeEvidence, Authorize, Recheck, Merge, Verify,
         CallAdapter, BindResult, Reject, Retain, BeginDiscovery, Discovered,
         BeginFormal, Proposed, Fails, AdapterFails, AdapterTimesOut, Complete,
         AdapterReturns, Enqueue, PushedOver, AdapterDeploys, OrphanEnds, Reviewed,
         EndedByHand, Transition, Waits, Finish, database

LEMMA FileMoves ==
    ASSUME NEW j \in Jobs, Ticks(j) \/ Outside(j)
    PROVE  \/ file' = file
           \/ BindContext(j) \/ AddWorktree(j) \/ Commit(j) \/ FreezeEvidence(j) \/ Authorize(j)
           \/ Verify(j) \/ BindResult(j)
  BY DEF Ticks, Outside, BeginRelease, RecordHead, Propose, RecordPr, Publish, Look, Ask,
         RelayUnconfirmed, NotReady, RecordEvidence, RecordAuthorization, Recheck,
         Merge, CallAdapter, Reject, Retain, BeginDiscovery, Discovered, BeginFormal,
         Proposed, Fails, AdapterFails, AdapterTimesOut, Complete, AdapterReturns,
         Enqueue, PushedOver, AdapterDeploys, OrphanEnds, Reviewed, EndedByHand

LEMMA RemoteMoves ==
    ASSUME NEW j \in Jobs, Ticks(j) \/ Outside(j)
    PROVE  \/ remote' = remote
           \/ Propose(j) \/ Merge(j) \/ PushedOver(j)
           \/ \E e \in Evidences : Reviewed(j, e)
           \/ \E s \in {"merged", "closed"} : EndedByHand(j, s)
  BY DEF Ticks, Outside, BeginRelease, BindContext, AddWorktree, Commit, RecordHead, RecordPr, Publish,
         Look, Ask, RelayUnconfirmed, NotReady, FreezeEvidence, RecordEvidence,
         Authorize, RecordAuthorization, Recheck, Verify, CallAdapter, BindResult,
         Reject, Retain, BeginDiscovery, Discovered, BeginFormal, Proposed, Fails,
         AdapterFails, AdapterTimesOut, Complete, AdapterReturns, Enqueue,
         AdapterDeploys, OrphanEnds, outside

LEMMA AdapterMoves ==
    ASSUME NEW j \in Jobs, Ticks(j) \/ Outside(j)
    PROVE  \/ adapters' \subseteq adapters /\ live' = live
           \/ CallAdapter(j) \/ AdapterDeploys(j)
  BY DEF Ticks, Outside, BeginRelease, BindContext, AddWorktree, Commit, RecordHead, Propose, RecordPr,
         Publish, Look, Ask, RelayUnconfirmed, NotReady, FreezeEvidence, RecordEvidence,
         Authorize, RecordAuthorization, Recheck, Merge, Verify, BindResult, Reject,
         Retain, BeginDiscovery, Discovered, BeginFormal, Proposed, Fails, AdapterFails,
         AdapterTimesOut, Complete, AdapterReturns, Enqueue, PushedOver, OrphanEnds,
         Reviewed, EndedByHand, outside
-----------------------------------------------------------------------------
\* Types.

LEMMA DataType ==
    ASSUME IInv, NEW j \in Jobs, Ticks(j) \/ Outside(j)
    PROVE  data' \in [Jobs -> DataRow]
<1>1. data \in [Jobs -> DataRow]
  BY DEF IInv, TypeOK
<1>2. CASE data' = data
  BY <1>1, <1>2
<1>3. CASE RecordHead(j)
  <2> DEFINE row == [data[j] EXCEPT !.head = TRUE]
  <2>1. row \in DataRow
    BY <1>1 DEF DataRow
  <2>2. data' = [data EXCEPT ![j] = row]
    BY <1>3 DEF RecordHead, Noted
  <2> HIDE DEF row
  <2> QED BY <1>1, <2>1, <2>2
<1>4. CASE RecordPr(j)
  <2> DEFINE row == [data[j] EXCEPT !.pr = TRUE]
  <2>1. row \in DataRow
    BY <1>1 DEF DataRow
  <2>2. data' = [data EXCEPT ![j] = row]
    BY <1>4 DEF RecordPr, Noted
  <2> HIDE DEF row
  <2> QED BY <1>1, <2>1, <2>2
<1>5. CASE Ask(j)
  <2> DEFINE row == [data[j] EXCEPT !.requested = TRUE]
  <2>1. row \in DataRow
    BY <1>1 DEF DataRow
  <2>2. data' = [data EXCEPT ![j] = row]
    BY <1>5 DEF Ask, Noted
  <2> HIDE DEF row
  <2> QED BY <1>1, <2>1, <2>2
<1>6. CASE RecordEvidence(j)
  <2> DEFINE row == [data[j] EXCEPT !.evidence = file[j].evidence]
  <2>1. row \in DataRow
    <3>1. file[j].evidence \in Evidences \cup {None}
      BY DEF IInv, TypeOK, Directory
    <3> QED BY <1>1, <3>1 DEF DataRow
  <2>2. data' = [data EXCEPT ![j] = row]
    BY <1>6 DEF RecordEvidence, Noted
  <2> HIDE DEF row
  <2> QED BY <1>1, <2>1, <2>2
<1>7. CASE RecordAuthorization(j)
  <2> DEFINE row == [data[j] EXCEPT !.authorization = file[j].authorization]
  <2>1. row \in DataRow
    <3>1. file[j].authorization \in Records \cup {None}
      BY DEF IInv, TypeOK, Directory
    <3> QED BY <1>1, <3>1 DEF DataRow
  <2>2. data' = [data EXCEPT ![j] = row]
    BY <1>7 DEF RecordAuthorization, Noted
  <2> HIDE DEF row
  <2> QED BY <1>1, <2>1, <2>2
<1> QED BY <1>2, <1>3, <1>4, <1>5, <1>6, <1>7, DataMoves

LEMMA AuthorizationType ==
    ASSUME IInv, NEW j \in Jobs, job = j, step \notin Away \cup {"discover", "formal", "context"},
           data[j].evidence \in Ready
    PROVE  Authorization(j) \in Records
<1>1. file[j].context \in Nat \cup {None} /\ file[j].context # None
  BY DEF IInv, Placed, TypeOK, Directory
<1> QED BY <1>1, RepairAssumption DEF Authorization, Records

LEMMA FileType ==
    ASSUME IInv, NEW j \in Jobs, Ticks(j) \/ Outside(j)
    PROVE  file' \in [Jobs -> Directory]
<1>1. file \in [Jobs -> Directory]
  BY DEF IInv, TypeOK
<1>2. CASE file' = file
  BY <1>1, <1>2
<1>3. CASE BindContext(j)
  <2> DEFINE row == [file[j] EXCEPT !.context = grant]
  <2>1. row \in Directory
    <3>1. grant \in Nat
      BY DEF IInv, TypeOK
    <3> QED BY <1>1, <3>1 DEF Directory
  <2>2. file' = [file EXCEPT ![j] = row]
    BY <1>3 DEF BindContext, Bound
  <2> HIDE DEF row
  <2> QED BY <1>1, <2>1, <2>2
<1>4. CASE AddWorktree(j)
  <2> DEFINE row == [file[j] EXCEPT !.integration = "base"]
  <2>1. row \in Directory
    BY <1>1 DEF Directory
  <2>2. file' = [file EXCEPT ![j] = row]
    BY <1>4 DEF AddWorktree, Bound
  <2> HIDE DEF row
  <2> QED BY <1>1, <2>1, <2>2
<1>5. CASE Commit(j)
  <2> DEFINE row == [file[j] EXCEPT !.integration = "committed"]
  <2>1. row \in Directory
    BY <1>1 DEF Directory
  <2>2. file' = [file EXCEPT ![j] = row]
    BY <1>5 DEF Commit, Bound
  <2> HIDE DEF row
  <2> QED BY <1>1, <2>1, <2>2
<1>6. CASE FreezeEvidence(j)
  <2> DEFINE row == [file[j] EXCEPT !.evidence = remote[j].evidence]
  <2>1. row \in Directory
    <3>1. remote[j].evidence \in Evidences
      BY <1>6, RepairAssumption DEF FreezeEvidence
    <3> QED BY <1>1, <3>1 DEF Directory
  <2>2. file' = [file EXCEPT ![j] = row]
    BY <1>6 DEF FreezeEvidence, Bound
  <2> HIDE DEF row
  <2> QED BY <1>1, <2>1, <2>2
<1>7. CASE Authorize(j)
  <2> DEFINE row == [file[j] EXCEPT !.authorization = Authorization(j)]
  <2>1. row \in Directory
    <3>1. step = "authorize" /\ job = j /\ data[j].evidence \in Ready
      BY <1>7 DEF Authorize, At, Authorizable
    <3>2. Authorization(j) \in Records
      BY <3>1, AuthorizationType DEF Away
    <3> QED BY <1>1, <3>2 DEF Directory
  <2>2. file' = [file EXCEPT ![j] = row]
    BY <1>7 DEF Authorize, Bound
  <2> HIDE DEF row
  <2> QED BY <1>1, <2>1, <2>2
<1>8. CASE Verify(j)
  <2> DEFINE row == [file[j] EXCEPT !.merge = data[j].authorization]
  <2>1. row \in Directory
    <3>1. data[j].authorization \in Records \cup {None}
      BY DEF IInv, TypeOK, DataRow
    <3> QED BY <1>1, <3>1 DEF Directory
  <2>2. file' = [file EXCEPT ![j] = row]
    BY <1>8 DEF Verify, Bound
  <2> HIDE DEF row
  <2> QED BY <1>1, <2>1, <2>2
<1>9. CASE BindResult(j)
  <2> DEFINE row == [file[j] EXCEPT !.result = result]
  <2>1. row \in Directory
    <3>1. result \in {None, "healthy", "unhealthy"}
      BY DEF IInv, TypeOK
    <3> QED BY <1>1, <3>1 DEF Directory
  <2>2. file' = [file EXCEPT ![j] = row]
    BY <1>9 DEF BindResult, Bound
  <2> HIDE DEF row
  <2> QED BY <1>1, <2>1, <2>2
<1> QED BY <1>2, <1>3, <1>4, <1>5, <1>6, <1>7, <1>8, <1>9, FileMoves

LEMMA RemoteType ==
    ASSUME IInv, NEW j \in Jobs, Ticks(j) \/ Outside(j)
    PROVE  remote' \in [Jobs -> PullRequest]
<1>1. remote \in [Jobs -> PullRequest]
  BY DEF IInv, TypeOK
<1>2. CASE remote' = remote
  BY <1>1, <1>2
<1>3. CASE Propose(j)
  <2> DEFINE row == [remote[j] EXCEPT !.state = IF @ = "none" THEN "open" ELSE @]
  <2>1. row \in PullRequest
    BY <1>1 DEF PullRequest
  <2>2. remote' = [remote EXCEPT ![j] = row]
    BY <1>3 DEF Propose
  <2> HIDE DEF row
  <2> QED BY <1>1, <2>1, <2>2
<1>4. CASE Merge(j)
  <2> DEFINE row == [remote[j] EXCEPT !.state = "merged", !.by = "controller"]
  <2>1. row \in PullRequest
    BY <1>1 DEF PullRequest
  <2>2. remote' = [remote EXCEPT ![j] = row]
    BY <1>4 DEF Merge
  <2> HIDE DEF row
  <2> QED BY <1>1, <2>1, <2>2
<1>5. CASE PushedOver(j)
  <2> DEFINE row == [remote[j] EXCEPT !.head = "other"]
  <2>1. row \in PullRequest
    BY <1>1 DEF PullRequest
  <2>2. remote' = [remote EXCEPT ![j] = row]
    BY <1>5 DEF PushedOver
  <2> HIDE DEF row
  <2> QED BY <1>1, <2>1, <2>2
<1>6. ASSUME NEW e \in Evidences, Reviewed(j, e)
      PROVE  remote' \in [Jobs -> PullRequest]
  <2> DEFINE row == [remote[j] EXCEPT !.evidence = e]
  <2>1. row \in PullRequest
    BY <1>1 DEF PullRequest
  <2>2. remote' = [remote EXCEPT ![j] = row]
    BY <1>6 DEF Reviewed
  <2> HIDE DEF row
  <2> QED BY <1>1, <2>1, <2>2
<1>7. ASSUME NEW s \in {"merged", "closed"}, EndedByHand(j, s)
      PROVE  remote' \in [Jobs -> PullRequest]
  <2> DEFINE row == [remote[j] EXCEPT !.state = s, !.by = "hand"]
  <2>1. row \in PullRequest
    BY <1>1 DEF PullRequest
  <2>2. remote' = [remote EXCEPT ![j] = row]
    BY <1>7 DEF EndedByHand
  <2> HIDE DEF row
  <2> QED BY <1>1, <2>1, <2>2
<1> QED BY <1>2, <1>3, <1>4, <1>5, <1>6, <1>7, RemoteMoves

LEMMA StageType ==
    ASSUME IInv, NEW j \in Jobs, StageMove(j)
    PROVE  stage' \in [Jobs -> Stages] /\ begun' \in [Jobs -> [discovery : Nat, formal : Nat]]
<1>1. stage \in [Jobs -> Stages] /\ begun \in [Jobs -> [discovery : Nat, formal : Nat]]
  BY DEF IInv, TypeOK
<1>2. CASE BeginDiscovery(j)
  <2> DEFINE row == [begun[j] EXCEPT !.discovery = @ + 1]
  <2>1. row \in [discovery : Nat, formal : Nat]
    BY <1>1
  <2>2. begun' = [begun EXCEPT ![j] = row] /\ stage' = [stage EXCEPT ![j] = "discovering"]
    BY <1>2 DEF BeginDiscovery, Transition
  <2> HIDE DEF row
  <2> QED BY <1>1, <2>1, <2>2 DEF Stages
<1>3. CASE BeginFormal(j)
  <2> DEFINE row == [begun[j] EXCEPT !.formal = @ + 1]
  <2>1. row \in [discovery : Nat, formal : Nat]
    BY <1>1
  <2>2. begun' = [begun EXCEPT ![j] = row] /\ stage' = [stage EXCEPT ![j] = "running"]
    BY <1>3 DEF BeginFormal, Transition
  <2> HIDE DEF row
  <2> QED BY <1>1, <2>1, <2>2 DEF Stages
<1>4. CASE Enqueue(j)
  BY <1>1, <1>4 DEF Enqueue, Transition, Stages
<1>5. CASE Ending(j) /\ begun' = begun
  BY <1>1, <1>5, EndingStage DEF Stages
<1> QED BY <1>1, <1>2, <1>3, <1>4, <1>5 DEF StageMove, Stages

LEMMA ReportType ==
    ASSUME IInv, NEW j \in Jobs, StageMove(j)
    PROVE  report' \in [Jobs -> Terminal \cup {None}]
<1>1. report \in [Jobs -> Terminal \cup {None}]
  BY DEF IInv, TypeOK
<1> QED BY <1>1 DEF StageMove, Ending, Reject, Complete, Finish, Enqueue, BeginDiscovery, BeginFormal,
                    Transition, Terminal

LEMMA AdapterType ==
    ASSUME IInv, NEW j \in Jobs, Ticks(j) \/ Outside(j)
    PROVE  adapters' \subseteq Jobs /\ live' \subseteq Jobs
BY AdapterMoves DEF IInv, TypeOK, CallAdapter, AdapterDeploys

\* The ways a step may move the controller.
ControlMove(j) ==
    /\ UNCHANGED <<pinned, scope, crashes>>
    /\ \/ UNCHANGED <<step, job, result>>
       \/ step' = "idle" /\ job' = None /\ result' = None
       \/ step = "idle" /\ step' \in {"discover", "formal", "context"} /\ job' = j /\ result' = result
       \/ step \notin Away /\ step' \in Steps \ Away /\ UNCHANGED <<job, result>>
       \/ step \notin Away /\ step' = "result" /\ job' = job /\ result' \in {"healthy", "unhealthy"}

LEMMA ControlMoves ==
    ASSUME NEW j \in Jobs, Ticks(j) \/ Outside(j)
    PROVE  ControlMove(j)
<1> USE DEF ControlMove, Away, Steps, process, At, Goto, EndTick
<1>1. CASE BeginDiscovery(j) \/ BeginFormal(j) \/ BeginRelease(j)
  BY <1>1 DEF BeginDiscovery, BeginFormal, BeginRelease, Takes, Turn
<1>2. CASE Retain(j) \/ Discovered(j) \/ Proposed(j) \/ RelayUnconfirmed(j) \/ NotReady(j)
           \/ AdapterFails(j) \/ AdapterTimesOut(j) \/ Complete(j) \/ Fails(j)
  BY <1>2 DEF Retain, Discovered, Proposed, RelayUnconfirmed, NotReady, AdapterFails,
              AdapterTimesOut, Complete, Fails, Finish, Waits
<1>3. CASE BindContext(j) \/ AddWorktree(j) \/ Commit(j) \/ RecordHead(j) \/ Propose(j) \/ RecordPr(j)
           \/ Publish(j) \/ Look(j) \/ Ask(j) \/ FreezeEvidence(j) \/ RecordEvidence(j) \/ Authorize(j)
           \/ RecordAuthorization(j) \/ Recheck(j) \/ Merge(j) \/ Verify(j) \/ CallAdapter(j)
  BY <1>3 DEF BindContext, AddWorktree, Commit, RecordHead, Propose, RecordPr, Publish, Look, Ask,
              FreezeEvidence, RecordEvidence, Authorize, RecordAuthorization, Recheck, Merge, Verify, CallAdapter
<1>4. CASE \E r \in {"healthy", "unhealthy"} : AdapterReturns(j, r)
  BY <1>4 DEF AdapterReturns
<1>5. CASE \/ Enqueue(j) \/ Reject(j) \/ BindResult(j) \/ PushedOver(j) \/ AdapterDeploys(j) \/ OrphanEnds(j)
           \/ \E e \in Evidences : Reviewed(j, e)
           \/ \E s \in {"merged", "closed"} : EndedByHand(j, s)
  BY <1>5 DEF Enqueue, Reject, BindResult, PushedOver, AdapterDeploys, OrphanEnds, Reviewed, EndedByHand
<1> HIDE DEF ControlMove
<1> QED BY <1>1, <1>2, <1>3, <1>4, <1>5 DEF Ticks, Outside

LEMMA ControlType ==
    ASSUME IInv, NEW j \in Jobs, ControlMove(j)
    PROVE  /\ step' \in Steps /\ job' \in Jobs \cup {None} /\ result' \in {None, "healthy", "unhealthy"}
           /\ step' \in Away <=> job' = None
           /\ scope' \subseteq Jobs /\ pinned' \in Nat /\ crashes' \in Nat
BY RepairAssumption DEF IInv, TypeOK, ControlMove, Steps, Away
-----------------------------------------------------------------------------
\* Records.

LEMMA DataFields ==
    ASSUME IInv, NEW j \in Jobs, Ticks(j) \/ Outside(j), NEW i \in Jobs
    PROVE  /\ data'[i].evidence = data[i].evidence \/ (RecordEvidence(j) /\ i = j /\ data'[i].evidence = file[i].evidence)
           /\ \/ data'[i].authorization = data[i].authorization
              \/ RecordAuthorization(j) /\ i = j /\ data'[i].authorization = file[i].authorization
<1>1. data \in [Jobs -> DataRow]
  BY DEF IInv, TypeOK
<1>2. CASE data' = data
  BY <1>2
<1>3. CASE RecordHead(j)
  <2>1. data' = [data EXCEPT ![j] = [data[j] EXCEPT !.head = TRUE]]
    BY <1>3 DEF RecordHead, Noted
  <2> QED BY <1>1, <2>1 DEF DataRow
<1>4. CASE RecordPr(j)
  <2>1. data' = [data EXCEPT ![j] = [data[j] EXCEPT !.pr = TRUE]]
    BY <1>4 DEF RecordPr, Noted
  <2> QED BY <1>1, <2>1 DEF DataRow
<1>5. CASE Ask(j)
  <2>1. data' = [data EXCEPT ![j] = [data[j] EXCEPT !.requested = TRUE]]
    BY <1>5 DEF Ask, Noted
  <2> QED BY <1>1, <2>1 DEF DataRow
<1>6. CASE RecordEvidence(j)
  <2>1. data' = [data EXCEPT ![j] = [data[j] EXCEPT !.evidence = file[j].evidence]]
    BY <1>6 DEF RecordEvidence, Noted
  <2> QED BY <1>1, <1>6, <2>1 DEF DataRow
<1>7. CASE RecordAuthorization(j)
  <2>1. data' = [data EXCEPT ![j] = [data[j] EXCEPT !.authorization = file[j].authorization]]
    BY <1>7 DEF RecordAuthorization, Noted
  <2> QED BY <1>1, <1>7, <2>1 DEF DataRow
<1> QED BY <1>2, <1>3, <1>4, <1>5, <1>6, <1>7, DataMoves

\* The same of the records on disk, which are written once.
LEMMA FileFields ==
    ASSUME IInv, NEW j \in Jobs, Ticks(j) \/ Outside(j), NEW i \in Jobs
    PROVE  /\ \/ file'[i].context = file[i].context
              \/ file[i].context = None /\ file'[i].context # None
           /\ \/ file'[i].evidence = file[i].evidence
              \/ file[i].evidence = None
           /\ \/ file'[i].authorization = file[i].authorization
              \/ Authorize(j) /\ i = j /\ file'[i].authorization = Authorization(i)
           /\ \/ file'[i].merge = file[i].merge
              \/ Verify(j) /\ i = j /\ file'[i].merge = data[i].authorization
<1>1. file \in [Jobs -> Directory] /\ grant \in Nat
  BY DEF IInv, TypeOK
<1>2. CASE file' = file
  BY <1>2
<1>3. CASE BindContext(j)
  <2>1. /\ file' = [file EXCEPT ![j] = [file[j] EXCEPT !.context = grant]]
        /\ file[j].context \in {None, grant}
    BY <1>3 DEF BindContext, Bound, OwnerContext, Binds
  <2> QED BY <1>1, <2>1, RepairAssumption DEF Directory
<1>4. CASE AddWorktree(j)
  <2>1. file' = [file EXCEPT ![j] = [file[j] EXCEPT !.integration = "base"]]
    BY <1>4 DEF AddWorktree, Bound
  <2> QED BY <1>1, <2>1 DEF Directory
<1>5. CASE Commit(j)
  <2>1. file' = [file EXCEPT ![j] = [file[j] EXCEPT !.integration = "committed"]]
    BY <1>5 DEF Commit, Bound
  <2> QED BY <1>1, <2>1 DEF Directory
<1>6. CASE FreezeEvidence(j)
  <2>1. /\ file' = [file EXCEPT ![j] = [file[j] EXCEPT !.evidence = remote[j].evidence]]
        /\ file[j].evidence \in {None, remote[j].evidence}
    BY <1>6 DEF FreezeEvidence, Bound, Binds
  <2> QED BY <1>1, <2>1 DEF Directory
<1>7. CASE Authorize(j)
  <2>1. file' = [file EXCEPT ![j] = [file[j] EXCEPT !.authorization = Authorization(j)]]
    BY <1>7 DEF Authorize, Bound
  <2> QED BY <1>1, <1>7, <2>1 DEF Directory
<1>8. CASE Verify(j)
  <2>1. file' = [file EXCEPT ![j] = [file[j] EXCEPT !.merge = data[j].authorization]]
    BY <1>8 DEF Verify, Bound
  <2> QED BY <1>1, <1>8, <2>1 DEF Directory
<1>9. CASE BindResult(j)
  <2>1. file' = [file EXCEPT ![j] = [file[j] EXCEPT !.result = result]]
    BY <1>9 DEF BindResult, Bound
  <2> QED BY <1>1, <2>1 DEF Directory
<1> QED BY <1>2, <1>3, <1>4, <1>5, <1>6, <1>7, <1>8, <1>9, FileMoves

LEMMA WrittenStep ==
    ASSUME IInv, NEW j \in Jobs, Ticks(j) \/ Outside(j)
    PROVE  Written'
<1> SUFFICES ASSUME NEW i \in Jobs
             PROVE  /\ file'[i].authorization # None =>
                        /\ file'[i].context # None /\ file'[i].evidence \in Ready
                        /\ file'[i].authorization = [grant |-> file'[i].context, evidence |-> file'[i].evidence]
                    /\ data'[i].evidence \in {None, file'[i].evidence}
                    /\ data'[i].authorization \in {None, file'[i].authorization}
                    /\ file'[i].merge \in {None, data'[i].authorization}
  BY DEF Written
<1>1. /\ file[i].authorization # None =>
          /\ file[i].context # None /\ file[i].evidence \in Ready
          /\ file[i].authorization = [grant |-> file[i].context, evidence |-> file[i].evidence]
      /\ data[i].evidence \in {None, file[i].evidence}
      /\ data[i].authorization \in {None, file[i].authorization}
      /\ file[i].merge \in {None, data[i].authorization}
  BY DEF IInv, Written
<1>2. None \notin Ready
  BY RepairAssumption
<1>3. CASE RecordEvidence(j) /\ i = j
  <2>1. file' = file /\ data'[i].authorization = data[i].authorization
    BY <1>3, DataFields DEF RecordEvidence, RecordAuthorization, At
  <2> QED BY <1>1, <1>3, <2>1, DataFields
<1>4. CASE RecordAuthorization(j) /\ i = j
  <2>1. file' = file /\ data'[i].evidence = data[i].evidence
    BY <1>4, DataFields DEF RecordEvidence, RecordAuthorization, At
  <2> QED BY <1>1, <1>4, <2>1, DataFields
<1>5. CASE Authorize(j) /\ i = j
  <2>1. /\ data' = data
        /\ file[i].authorization \in {None, Authorization(i)}
        /\ step = "authorize" /\ job = i
        /\ data[i].evidence \in Ready /\ file[i].evidence = data[i].evidence
    BY <1>5 DEF Authorize, database, Binds, At, Authorizable
  <2>2. file[i].context # None
    BY <2>1 DEF IInv, Placed, Away
  <2>3. /\ file'[i].context = file[i].context /\ file'[i].evidence = file[i].evidence
        /\ file'[i].merge = file[i].merge
    BY <1>2, <1>5, <2>1, <2>2, FileFields DEF Authorize, Verify, At
  <2>4. file'[i].authorization = file[i].authorization \/ file'[i].authorization = Authorization(i)
    BY FileFields
  <2> QED BY <1>1, <1>2, <2>1, <2>2, <2>3, <2>4 DEF Authorization
<1>6. CASE Verify(j) /\ i = j
  <2>1. data' = data /\ file'[i].authorization = file[i].authorization
    BY <1>6, FileFields DEF Verify, Authorize, At, Transition
  <2> QED BY <1>1, <1>2, <2>1, FileFields
<1>7. CASE ~((RecordEvidence(j) \/ RecordAuthorization(j) \/ Authorize(j) \/ Verify(j)) /\ i = j)
  <2>1. /\ data'[i].evidence = data[i].evidence /\ data'[i].authorization = data[i].authorization
        /\ file'[i].authorization = file[i].authorization /\ file'[i].merge = file[i].merge
    BY <1>7, DataFields, FileFields
  <2>2. /\ file'[i].context = file[i].context \/ file[i].context = None
        /\ file'[i].evidence = file[i].evidence \/ file[i].evidence = None
    BY FileFields
  <2> QED BY <1>1, <1>2, <2>1, <2>2
<1> QED BY <1>3, <1>4, <1>5, <1>6, <1>7
-----------------------------------------------------------------------------
\* Release.

\* Only a pull request that is still open can change, so what is merged stays so.
LEMMA RemoteFields ==
    ASSUME IInv, NEW j \in Jobs, Ticks(j) \/ Outside(j), NEW i \in Jobs
    PROVE  /\ Merged(i) => Merged(i)'
           /\ remote'[i].by = "controller" =>
                remote[i].by = "controller" \/ (Merge(j) /\ i = j /\ Merged(i)')
<1>1. remote \in [Jobs -> PullRequest]
  BY DEF IInv, TypeOK
<1>2. CASE remote' = remote
  BY <1>2 DEF Merged, Own
<1>3. CASE Propose(j)
  <2>1. remote' = [remote EXCEPT ![j] = [remote[j] EXCEPT !.state = IF @ = "none" THEN "open" ELSE @]]
    BY <1>3 DEF Propose
  <2> QED BY <1>1, <2>1 DEF PullRequest, Merged, Own
<1>4. CASE Merge(j)
  <2>1. /\ remote' = [remote EXCEPT ![j] = [remote[j] EXCEPT !.state = "merged", !.by = "controller"]]
        /\ remote[j].head = "own"
    BY <1>4 DEF Merge, Own
  <2> QED BY <1>1, <1>4, <2>1 DEF PullRequest, Merged, Own
<1>5. CASE PushedOver(j)
  <2>1. /\ remote' = [remote EXCEPT ![j] = [remote[j] EXCEPT !.head = "other"]]
        /\ remote[j].state = "open"
    BY <1>5 DEF PushedOver, Offered
  <2> QED BY <1>1, <2>1 DEF PullRequest, Merged, Own
<1>6. ASSUME NEW e \in Evidences, Reviewed(j, e)
      PROVE  /\ Merged(i) => Merged(i)'
             /\ remote'[i].by = "controller" => remote[i].by = "controller"
  <2>1. remote' = [remote EXCEPT ![j] = [remote[j] EXCEPT !.evidence = e]]
    BY <1>6 DEF Reviewed
  <2> QED BY <1>1, <2>1 DEF PullRequest, Merged, Own
<1>7. ASSUME NEW s \in {"merged", "closed"}, EndedByHand(j, s)
      PROVE  /\ Merged(i) => Merged(i)'
             /\ remote'[i].by = "controller" => remote[i].by = "controller"
  <2>1. /\ remote' = [remote EXCEPT ![j] = [remote[j] EXCEPT !.state = s, !.by = "hand"]]
        /\ remote[j].state = "open"
    BY <1>7 DEF EndedByHand, Offered
  <2> QED BY <1>1, <2>1 DEF PullRequest, Merged, Own
<1> QED BY <1>2, <1>3, <1>4, <1>5, <1>6, <1>7, RemoteMoves

\* An authorization in the database rests on evidence that was accepted, and stays.
LEMMA AuthorizedEvidence ==
    ASSUME IInv, NEW i \in Jobs, data[i].authorization # None
    PROVE  data[i].authorization.evidence \in Ready
<1>1. /\ file[i].evidence \in Ready
      /\ data[i].authorization = [grant |-> file[i].context, evidence |-> file[i].evidence]
  BY DEF IInv, Written
<1> QED BY <1>1

LEMMA AuthorizationStays ==
    ASSUME IInv, NEW j \in Jobs, Ticks(j) \/ Outside(j), NEW i \in Jobs, data[i].authorization # None
    PROVE  data'[i].authorization = data[i].authorization
BY DataFields DEF IInv, Written

LEMMA AuthorizedRecord ==
    ASSUME IInv, NEW j \in Jobs, job = j, step \notin Away \cup {"discover", "formal", "context"}, Authorizable(j)
    PROVE  Authorization(j) # None
BY AuthorizationType, RepairAssumption DEF Authorizable, Records

LEMMA ReleasedStep ==
    ASSUME IInv, NEW j \in Jobs, Ticks(j) \/ Outside(j)
    PROVE  ReleasedAsAuthorized'
<1> SUFFICES ASSUME NEW i \in Jobs, remote'[i].by = "controller" \/ i \in adapters' \cup live'
             PROVE  Merged(i)' /\ data'[i].authorization # None /\ data'[i].authorization.evidence \in Ready
  BY DEF ReleasedAsAuthorized, Merged, Own
<1>1. CASE remote[i].by = "controller" \/ i \in adapters \cup live
  <2>1. Merged(i) /\ data[i].authorization # None /\ data[i].authorization.evidence \in Ready
    BY <1>1 DEF IInv, ReleasedAsAuthorized
  <2> QED BY <2>1, RemoteFields, AuthorizationStays
<1>2. CASE Merge(j) /\ i = j /\ Merged(i)'
  <2>1. data[i].authorization # None
    BY <1>2 DEF Merge, At, IInv, Placed
  <2> QED BY <1>2, <2>1, AuthorizedEvidence, AuthorizationStays
<1>3. CASE CallAdapter(j) /\ i = j
  <2>1. /\ Merged(i) /\ Authorizable(i) /\ data[i].authorization = Authorization(i)
        /\ step = "callback" /\ job = i
    BY <1>3 DEF CallAdapter, At, Authorized
  <2>2. data[i].authorization # None
    BY <2>1, AuthorizedRecord DEF Away
  <2> QED BY <2>1, <2>2, RemoteFields, AuthorizedEvidence, AuthorizationStays
<1>4. CASE remote[i].by # "controller" /\ i \notin adapters \cup live
  <2>1. CASE remote'[i].by = "controller"
    BY <1>2, <1>4, <2>1, RemoteFields
  <2>2. CASE i \in adapters' \cup live'
    BY <1>3, <1>4, <2>2, AdapterMoves DEF CallAdapter, AdapterDeploys
  <2> QED BY <2>1, <2>2
<1> QED BY <1>1, <1>4

LEMMA LiveGrows ==
    ASSUME IInv, NEW j \in Jobs, Ticks(j) \/ Outside(j)
    PROVE  live \subseteq live'
BY AdapterMoves DEF CallAdapter, AdapterDeploys

LEMMA CompletedStep ==
    ASSUME IInv, NEW j \in Jobs, Ticks(j) \/ Outside(j), StageMove(j)
    PROVE  CompletedIsLive'
<1> SUFFICES ASSUME NEW i \in Jobs
             PROVE  /\ stage'[i] = "completed" => report'[i] = "completed" /\ i \in live' /\ Merged(i)'
                    /\ report'[i] # None => stage'[i] = report'[i]
  BY DEF CompletedIsLive, Merged, Own
<1>1. /\ stage[i] = "completed" => report[i] = "completed" /\ i \in live' /\ Merged(i)'
      /\ report[i] # None => stage[i] = report[i]
  BY RemoteFields, LiveGrows DEF IInv, CompletedIsLive
<1>2. /\ stage \in [Jobs -> Stages] /\ report \in [Jobs -> Terminal \cup {None}]
      /\ None \notin {"completed", "failed"}
  BY RepairAssumption DEF IInv, TypeOK
<1>3. CASE stage'[i] = stage[i] /\ report'[i] = report[i]
  BY <1>1, <1>3
<1>4. CASE stage[i] \notin Terminal /\ stage'[i] # "completed" /\ report'[i] = report[i]
  BY <1>1, <1>2, <1>4 DEF Terminal
<1>5. CASE Open(j) /\ Ending(j) /\ i = j
  <2>1. report[i] = None
    BY <1>1, <1>2, <1>5 DEF Open, Terminal
  <2>2. CASE Reject(j)
    BY <1>2, <1>5, <2>1, <2>2 DEF Reject, Transition
  <2>3. CASE Finish(j, "failed")
    BY <1>2, <1>5, <2>1, <2>3 DEF Finish
  <2>4. CASE Complete(j)
    <3>1. stage'[i] = "completed" /\ report'[i] = "completed"
      BY <1>2, <1>5, <2>1, <2>4 DEF Complete, Finish
    <3>2. i \in live /\ Merged(i)
      BY <1>5, <2>4 DEF Complete, At, IInv, Placed, ReleasedAsAuthorized
    <3> QED BY <3>1, <3>2, RemoteFields, LiveGrows
  <2> QED BY <1>5, <2>2, <2>3, <2>4 DEF Ending
<1>6. CASE Open(j) /\ Ending(j) /\ i # j
  BY <1>1, <1>2, <1>6 DEF Ending, Reject, Transition, Finish, Complete
<1>7. CASE /\ stage[j] \in Releasing \cup {"running"}
           /\ \E s \in Releasing : stage' = [stage EXCEPT ![j] = s]
           /\ UNCHANGED <<report, begun>>
  BY <1>2, <1>3, <1>4, <1>7 DEF Releasing, Terminal
<1>8. CASE /\ stage[j] = "discovering" /\ stage' = [stage EXCEPT ![j] = "submitted"]
           /\ UNCHANGED <<report, begun>>
  BY <1>2, <1>3, <1>4, <1>8 DEF Terminal
<1>9. CASE Enqueue(j) \/ BeginDiscovery(j) \/ BeginFormal(j)
  BY <1>2, <1>3, <1>4, <1>9 DEF Enqueue, BeginDiscovery, BeginFormal, Transition, Terminal
<1> QED BY <1>3, <1>5, <1>6, <1>7, <1>8, <1>9 DEF StageMove

-----------------------------------------------------------------------------
\* Where the controller stands.

\* A step that leaves the controller inside of a release.
Releases(j) ==
    \/ BindContext(j) \/ AddWorktree(j) \/ Commit(j) \/ RecordHead(j) \/ Propose(j) \/ RecordPr(j)
    \/ Publish(j) \/ Look(j) \/ Ask(j) \/ FreezeEvidence(j) \/ RecordEvidence(j) \/ Authorize(j)
    \/ RecordAuthorization(j) \/ Recheck(j) \/ Merge(j) \/ Verify(j) \/ CallAdapter(j)

LEMMA PlacedMoves ==
    ASSUME NEW j \in Jobs, Ticks(j) \/ Outside(j)
    PROVE  \/ UNCHANGED <<step, job, result>> /\ (stage' = stage \/ Enqueue(j) \/ Reject(j))
           \/ step' = "idle"
           \/ BeginDiscovery(j) \/ BeginFormal(j) \/ BeginRelease(j)
           \/ Releases(j)
           \/ \E r \in {"healthy", "unhealthy"} : AdapterReturns(j, r)
BY DEF Ticks, Outside, Releases, Retain, Discovered, Proposed, RelayUnconfirmed, NotReady, AdapterFails,
       AdapterTimesOut, Complete, Fails, Finish, Waits, EndTick, Enqueue, Reject, BindResult, PushedOver,
       AdapterDeploys, OrphanEnds, Reviewed, EndedByHand, process, database

LEMMA ReleasesPlaced ==
    ASSUME IInv, NEW j \in Jobs, Releases(j)
    PROVE  Placed'
<1>1. /\ job = j /\ job' = j /\ result' = result
      /\ step \notin Away \cup {"discover", "formal"}
      /\ step' \notin Away \cup {"discover", "formal", "context", "result"}
      /\ step' = "record authorization" => Authorize(j)
      /\ step' = "merge" => Recheck(j)
      /\ step = "context" => BindContext(j)
  BY DEF Releases, BindContext, AddWorktree, Commit, RecordHead, Propose, RecordPr, Publish, Look, Ask,
         FreezeEvidence, RecordEvidence, Authorize, RecordAuthorization, Recheck, Merge, Verify, CallAdapter,
         At, Goto, Away
<1>2. Ticks(j)
  BY DEF Releases, Ticks
<1>3. stage'[j] \in Releasing
  <2>1. stage[j] \in Releasing /\ stage \in [Jobs -> Stages]
    BY <1>1 DEF IInv, Placed, TypeOK
  <2>2. stage' = stage \/ \E s \in Releasing : stage' = [stage EXCEPT ![j] = s]
    BY <2>1 DEF Releases, BindContext, AddWorktree, Commit, RecordHead, Propose, RecordPr, Publish, Look, Ask,
           FreezeEvidence, RecordEvidence, Authorize, RecordAuthorization, Recheck, Merge, Verify, CallAdapter,
           Noted, Transition, database, Releasing
  <2> QED BY <2>1, <2>2
<1>4. file'[j].context # None
  <2>1. CASE BindContext(j)
    <3>1. /\ file' = [file EXCEPT ![j] = [file[j] EXCEPT !.context = grant]]
          /\ file \in [Jobs -> Directory] /\ grant \in Nat
      BY <2>1 DEF BindContext, Bound, IInv, TypeOK
    <3> QED BY <3>1, RepairAssumption DEF Directory
  <2>2. CASE step # "context"
    <3>1. file[j].context # None
      BY <1>1, <2>2 DEF IInv, Placed
    <3> QED BY <1>2, <3>1, FileFields
  <2> QED BY <1>1, <2>1, <2>2
<1>5. CASE Authorize(j)
  <2>1. /\ step = "authorize" /\ Authorizable(j)
        /\ file' = [file EXCEPT ![j] = [file[j] EXCEPT !.authorization = Authorization(j)]]
        /\ file \in [Jobs -> Directory]
    BY <1>5 DEF Authorize, At, Bound, IInv, TypeOK
  <2>2. Authorization(j) # None
    BY <1>1, <2>1, AuthorizedRecord DEF Away
  <2>3. file'[j].authorization # None
    BY <2>1, <2>2 DEF Directory
  <2>4. step' = "record authorization"
    BY <1>5 DEF Authorize, Goto
  <2> QED BY <1>1, <1>3, <1>4, <2>3, <2>4 DEF Placed
<1>6. CASE Recheck(j)
  <2>1. /\ step = "recheck" /\ Authorizable(j) /\ data[j].authorization = Authorization(j)
        /\ data' = data /\ step' = "merge"
    BY <1>6 DEF Recheck, At, Authorized, database, Goto
  <2>2. data'[j].authorization # None
    BY <1>1, <2>1, AuthorizedRecord DEF Away
  <2> QED BY <1>1, <1>3, <1>4, <2>1, <2>2 DEF Placed
<1>7. CASE step' \notin {"record authorization", "merge"}
  BY <1>1, <1>3, <1>4, <1>7 DEF Placed
<1> QED BY <1>1, <1>5, <1>6, <1>7

LEMMA PlacedStep ==
    ASSUME IInv, NEW j \in Jobs, Ticks(j) \/ Outside(j)
    PROVE  Placed'
<1>1. CASE UNCHANGED <<step, job, result>> /\ (stage' = stage \/ Enqueue(j) \/ Reject(j))
  <2>1. CASE job = None
    BY <1>1, <2>1 DEF IInv, TypeOK, Placed, Away
  <2>2. CASE job \in Jobs
    <3>1. stage'[job] = stage[job]
      <4>1. Enqueue(j) \/ Reject(j) => job # j
        BY <2>2, Working DEF Enqueue, Reject, Turn, Open, Away
      <4>2. stage \in [Jobs -> Stages]
        BY DEF IInv, TypeOK
      <4> QED BY <1>1, <2>2, <4>1, <4>2 DEF Enqueue, Reject, Transition
    <3>2. /\ file[job].context # None => file'[job].context # None
          /\ file[job].authorization # None => file'[job].authorization # None
      BY <2>2, FileFields, AuthorizedRecord, ZenonT(60) DEF IInv, Written, Authorize, Binds
    <3>3. data[job].authorization # None => data'[job].authorization # None
      BY <2>2, AuthorizationStays
    <3> QED BY <1>1, <3>1, <3>2, <3>3, LiveGrows DEF IInv, Placed
  <2> QED BY <2>1, <2>2 DEF IInv, TypeOK
<1>2. CASE step' = "idle"
  BY <1>2 DEF Placed, Away
<1>3. CASE BeginDiscovery(j) \/ BeginFormal(j) \/ BeginRelease(j)
  BY <1>3 DEF BeginDiscovery, BeginFormal, BeginRelease, Takes, Transition, database, Placed, Away, IInv, TypeOK
<1>4. CASE Releases(j)
  BY <1>4, ReleasesPlaced
<1>5. ASSUME NEW r \in {"healthy", "unhealthy"}, AdapterReturns(j, r)
      PROVE  Placed'
  BY <1>5 DEF AdapterReturns, At, database, IInv, Placed, Away
<1> QED BY <1>1, <1>2, <1>3, <1>4, <1>5, PlacedMoves
-----------------------------------------------------------------------------
\* Theorems.

LEMMA GrantMoves ==
    ASSUME NEW j \in Jobs, Ticks(j) \/ Outside(j)
    PROVE  grant' = grant
BY DEF Ticks, Outside, BeginRelease, BindContext, AddWorktree, Commit, RecordHead, Propose, RecordPr, Publish,
       Look, Ask, RelayUnconfirmed, NotReady, FreezeEvidence, RecordEvidence, Authorize, RecordAuthorization,
       Recheck, Merge, Verify, CallAdapter, BindResult, Reject, Retain, BeginDiscovery, Discovered, BeginFormal,
       Proposed, Fails, AdapterFails, AdapterTimesOut, Complete, AdapterReturns, Enqueue, PushedOver,
       AdapterDeploys, OrphanEnds, Reviewed, EndedByHand, outside

LEMMA JobStep ==
    ASSUME IInv, NEW j \in Jobs, Ticks(j) \/ Outside(j)
    PROVE  IInv'
<1>1. StageMove(j) /\ ControlMove(j) /\ grant' = grant
  BY StageMoves, ControlMoves, GrantMoves
<1>2. TypeOK'
  BY <1>1, DataType, FileType, RemoteType, StageType, ReportType, AdapterType, ControlType DEF IInv, TypeOK
<1>3. Worked' /\ Numbered' /\ ModelsRunOnce' /\ OneAfterTheOther'
  BY <1>1, StagesStep
<1> QED BY <1>1, <1>2, <1>3, WrittenStep, ReleasedStep, CompletedStep, PlacedStep DEF IInv

LEMMA NextInv == IInv /\ [Next]_vars => IInv'
<1> SUFFICES ASSUME IInv, [Next]_vars PROVE IInv'
  OBVIOUS
<1>1. CASE UNCHANGED <<database, file, remote, adapters, live, begun>> /\ TypeOK' /\ Placed'
  BY <1>1 DEF IInv, database, Written, Worked, Numbered, ReleasedAsAuthorized, CompletedIsLive,
              ModelsRunOnce, OneAfterTheOther, Merged, Own
<1>2. CASE Start
  <2>1. /\ step = "down" /\ step' = "idle" /\ job' = job /\ result' = result
        /\ pinned' = grant /\ scope' \subseteq Jobs /\ grant' = grant /\ crashes' = crashes
        /\ UNCHANGED <<database, file, remote, adapters, live, begun>>
    BY <1>2 DEF Start, outside
  <2>2. job = None
    BY <2>1 DEF IInv, TypeOK, Away
  <2>3. step' \in Steps /\ step' \in Away
    BY <2>1 DEF Steps, Away
  <2>4. TypeOK'
    BY <2>1, <2>2, <2>3 DEF IInv, TypeOK, database
  <2>5. Placed'
    BY <2>1 DEF Placed, Away
  <2> QED BY <1>1, <2>1, <2>4, <2>5
<1>3. CASE Crash
  <2>1. /\ step' = "down" /\ job' = None /\ result' = None
        /\ crashes' = crashes + 1 /\ UNCHANGED <<pinned, scope, grant>>
        /\ UNCHANGED <<database, file, remote, adapters, live, begun>>
    BY <1>3 DEF Crash, EndTick, outside
  <2>2. step' \in Steps /\ step' \in Away
    BY <2>1 DEF Steps, Away
  <2>3. crashes' \in Nat
    BY <2>1 DEF IInv, TypeOK
  <2>4. TypeOK'
    BY <2>1, <2>2, <2>3 DEF IInv, TypeOK, database
  <2>5. Placed'
    BY <2>1 DEF Placed, Away
  <2> QED BY <1>1, <2>1, <2>4, <2>5
<1>4. CASE ChangeGrant
  <2>1. grant' \in Nat /\ UNCHANGED <<process, crashes>>
        /\ UNCHANGED <<database, file, remote, adapters, live, begun>>
    BY <1>4 DEF ChangeGrant, IInv, TypeOK
  <2>2. TypeOK' /\ Placed'
    BY <2>1 DEF IInv, TypeOK, Placed, database, process
  <2> QED BY <1>1, <2>1, <2>2
<1>5. CASE UNCHANGED vars
  <2>1. TypeOK' /\ Placed'
    BY <1>5 DEF vars, database, process, outside, IInv, TypeOK, Placed
  <2> QED BY <1>1, <1>5, <2>1 DEF vars, outside
<1> QED BY <1>2, <1>3, <1>4, <1>5, JobStep DEF Next

\* The inductive invariant holds in every reachable state of the controller and of the
\* world around it (OwnerRepairPipeline.tick, the release).
THEOREM Invariance == Spec => []IInv
BY InitInv, NextInv, PTL DEF Spec

\* Every reachable state has its type, and the controller works on a job or on none.
THEOREM Typed == Spec => []TypeOK
<1>1. IInv => TypeOK
  BY DEF IInv
<1> QED BY <1>1, Invariance, PTL

\* The controller merges, and production is given, only a reviewed head under a
\* recorded authorization.
THEOREM OnlyAuthorized == Spec => []ReleasedAsAuthorized
<1>1. IInv => ReleasedAsAuthorized
  BY DEF IInv
<1> QED BY <1>1, Invariance, PTL

\* The records of a release agree after any crash and any repetition.
THEOREM Agreement == Spec => []RecordsAgree
<1>1. IInv => RecordsAgree
  <2> SUFFICES ASSUME IInv, NEW j \in Jobs, data[j].authorization # None
               PROVE  /\ file[j].authorization = data[j].authorization
                      /\ file[j].merge \in {None, data[j].authorization}
                      /\ data[j].authorization = [grant |-> file[j].context, evidence |-> file[j].evidence]
    BY DEF RecordsAgree
  <2> QED BY DEF IInv, Written
<1> QED BY <1>1, Invariance, PTL

\* What the owner is told is how the job ended, and production has what is completed.
THEOREM TrueReports == Spec => []CompletedIsLive
<1>1. IInv => CompletedIsLive
  BY DEF IInv
<1> QED BY <1>1, Invariance, PTL

\* The models work at most once on a job.
THEOREM WorkedOnce == Spec => []ModelsRunOnce
<1>1. IInv => ModelsRunOnce
  BY DEF IInv
<1> QED BY <1>1, Invariance, PTL

\* Jobs are taken up one after the other.
THEOREM Serial == Spec => []OneAfterTheOther
<1>1. IInv => OneAfterTheOther
  BY DEF IInv
<1> QED BY <1>1, Invariance, PTL

-----------------------------------------------------------------------------
\* Refinement of ReleaseContract.

LEMMA ContractAnswers ==
    ASSUME IInv, NEW j \in Jobs, Ticks(j) \/ Outside(j), Open(j), job = j \/ Turn(j), Ending(j)
    PROVE  [Contract!Next]_(Contract!vars)
<1>1. report \in [Jobs -> Terminal \cup {None}] /\ None \notin Terminal
  BY RepairAssumption DEF IInv, TypeOK, Terminal
<1>2. report[j] = None
  BY <1>1 DEF IInv, CompletedIsLive, Open
<1>3. CASE Reject(j)
  BY <1>3 DEF Reject, Transition, outside, Contract!vars
<1>4. CASE Complete(j) \/ Finish(j, "failed")
  <2>1. PICK outcome \in {"completed", "failed"} :
            /\ report' = [report EXCEPT ![j] = outcome]
            /\ outcome = "completed" => Complete(j)
    BY <1>1, <1>2, <1>4 DEF Complete, Finish
  <2>2. data' = data /\ remote' = remote /\ live' = live
    BY <1>4 DEF Complete, Finish, Ending
  <2>3. outcome = "completed" => j \in live
    BY <2>1 DEF Complete, At, IInv, Placed
  <2> QED BY <1>2, <2>1, <2>2, <2>3 DEF Contract!Next, Contract!Answer
<1> QED BY <1>3, <1>4 DEF Ending

LEMMA ContractAuthorizes ==
    ASSUME IInv, NEW j \in Jobs, RecordAuthorization(j)
    PROVE  [Contract!Next]_(Contract!vars)
<1>1. /\ job = j /\ file[j].authorization # None /\ report' = report /\ remote' = remote /\ live' = live
      /\ data' = [data EXCEPT ![j] = [data[j] EXCEPT !.authorization = file[j].authorization]]
  BY DEF RecordAuthorization, At, IInv, Placed, Noted, outside
<1>2. /\ \A i \in Jobs \ {j} : data'[i].authorization = data[i].authorization
      /\ data'[j].authorization = file[j].authorization
  BY <1>1 DEF IInv, TypeOK, DataRow
<1>3. report[j] = None
  <2>1. stage[j] \notin Terminal /\ report \in [Jobs -> Terminal \cup {None}]
    BY <1>1, Working DEF Open, IInv, TypeOK
  <2> QED BY <2>1 DEF IInv, CompletedIsLive
<1>4. data[j].authorization \in {None, file[j].authorization}
  BY DEF IInv, Written
<1>5. CASE data[j].authorization = None
  <2> DEFINE old == [i \in Jobs |-> data[i].authorization]
             new == [i \in Jobs |-> data'[i].authorization]
  <2>1. new = [old EXCEPT ![j] = new[j]] /\ new[j] # None /\ old[j] = None
    BY <1>1, <1>2, <1>5
  <2> QED BY <1>1, <1>3, <2>1 DEF Contract!Next, Contract!Authorize
<1>6. CASE data[j].authorization = file[j].authorization
  BY <1>1, <1>2, <1>6 DEF Contract!vars
<1> QED BY <1>4, <1>5, <1>6

LEMMA ContractMerges ==
    ASSUME IInv, NEW j \in Jobs, UNCHANGED <<data, report, live>>,
           NEW row, remote' = [remote EXCEPT ![j] = row], remote[j].state # "merged"
    PROVE  [Contract!Next]_(Contract!vars)
<1>1. remote \in [Jobs -> PullRequest]
  BY DEF IInv, TypeOK
<1>2. CASE row.state = "merged"
  <2>1. {i \in Jobs : remote'[i].state = "merged"} = {i \in Jobs : remote[i].state = "merged"} \cup {j}
    BY <1>1, <1>2
  <2> QED BY <2>1 DEF Contract!Next, Contract!Merge
<1>3. CASE row.state # "merged"
  <2>1. {i \in Jobs : remote'[i].state = "merged"} = {i \in Jobs : remote[i].state = "merged"}
    BY <1>1, <1>3
  <2> QED BY <2>1 DEF Contract!vars
<1> QED BY <1>2, <1>3

LEMMA ContractStep ==
    ASSUME IInv, NEW j \in Jobs, Ticks(j) \/ Outside(j)
    PROVE  [Contract!Next]_(Contract!vars)
<1>1. CASE RecordAuthorization(j)
  BY <1>1, ContractAuthorizes
<1>2. CASE Open(j) /\ (job = j \/ Turn(j)) /\ Ending(j)
  BY <1>2, ContractAnswers
<1>3. CASE Propose(j)
  <2>1. /\ remote' = [remote EXCEPT ![j] = [remote[j] EXCEPT !.state = IF @ = "none" THEN "open" ELSE @]]
        /\ UNCHANGED <<data, report, live>>
    BY <1>3 DEF Propose, database
  <2>2. CASE remote[j].state = "merged"
    <3>1. remote' = remote
      BY <2>1, <2>2 DEF IInv, TypeOK, PullRequest
    <3> QED BY <2>1, <3>1 DEF Contract!vars
  <2> QED BY <2>1, <2>2, ContractMerges
<1>4. CASE Merge(j)
  <2>1. /\ remote' = [remote EXCEPT ![j] = [remote[j] EXCEPT !.state = "merged", !.by = "controller"]]
        /\ UNCHANGED <<data, report, live>> /\ remote[j].state = "open"
    BY <1>4 DEF Merge, database
  <2> QED BY <2>1, ContractMerges
<1>5. CASE PushedOver(j)
  <2>1. /\ remote' = [remote EXCEPT ![j] = [remote[j] EXCEPT !.head = "other"]]
        /\ UNCHANGED <<data, report, live>> /\ remote[j].state = "open"
    BY <1>5 DEF PushedOver, Offered, database
  <2> QED BY <2>1, ContractMerges
<1>6. ASSUME NEW e \in Evidences, Reviewed(j, e)
      PROVE  [Contract!Next]_(Contract!vars)
  <2>1. /\ remote' = [remote EXCEPT ![j] = [remote[j] EXCEPT !.evidence = e]]
        /\ UNCHANGED <<data, report, live>> /\ remote[j].state = "open"
    BY <1>6 DEF Reviewed, Offered, database
  <2> QED BY <2>1, ContractMerges
<1>7. ASSUME NEW s \in {"merged", "closed"}, EndedByHand(j, s)
      PROVE  [Contract!Next]_(Contract!vars)
  <2>1. /\ remote' = [remote EXCEPT ![j] = [remote[j] EXCEPT !.state = s, !.by = "hand"]]
        /\ UNCHANGED <<data, report, live>> /\ remote[j].state = "open"
    BY <1>7 DEF EndedByHand, Offered, database
  <2> QED BY <2>1, ContractMerges
<1>8. CASE AdapterDeploys(j)
  <2>1. /\ data[j].authorization # None /\ remote[j].state = "merged"
        /\ live' = live \cup {j} /\ UNCHANGED <<data, report, remote>>
    BY <1>8 DEF AdapterDeploys, database, IInv, ReleasedAsAuthorized, Merged
  <2> QED BY <2>1 DEF Contract!Next, Contract!Deploy
<1>9. CASE /\ remote' = remote /\ live' = live /\ report' = report
           /\ \A i \in Jobs : data'[i].authorization = data[i].authorization
  BY <1>9 DEF Contract!vars
<1>10. \/ report' = report
       \/ Open(j) /\ (job = j \/ Turn(j)) /\ Ending(j)
  BY StageMoves DEF StageMove, Enqueue, BeginDiscovery, BeginFormal, Transition
<1>11. live' = live \/ AdapterDeploys(j)
  BY AdapterMoves DEF CallAdapter
<1>12. RecordAuthorization(j) \/ \A i \in Jobs : data'[i].authorization = data[i].authorization
  BY DataFields
<1> QED BY <1>1, <1>2, <1>3, <1>4, <1>5, <1>6, <1>7, <1>8, <1>9, <1>10, <1>11, <1>12, RemoteMoves

LEMMA ContractNext == IInv /\ [Next]_vars => [Contract!Next]_(Contract!vars)
<1>1. ASSUME Start \/ Crash \/ ChangeGrant \/ UNCHANGED vars
      PROVE  UNCHANGED Contract!vars
  BY <1>1 DEF Start, Crash, ChangeGrant, vars, outside, database, Contract!vars
<1> QED BY <1>1, ContractStep DEF Next

\* The controller implements the promise to the owner: one answer, one authorization,
\* nothing in production but what was authorized and merged.
THEOREM KeepsItsPromise == Spec => KeepsPromise
<1>1. Init => Contract!Init
  BY DEF Init, Contract!Init
<1> QED BY <1>1, Invariance, ContractNext, PTL DEF Spec, KeepsPromise, Contract!Spec

-----------------------------------------------------------------------------
\* The rules about test modules keep every original test.

\* Induction, about a set of numbers instead of a predicate.
LEMMA NatSetInduction ==
  ASSUME NEW T, 0 \in T, \A n \in Nat : n \in T => n + 1 \in T
  PROVE  Nat \subseteq T
<1> SUFFICES ASSUME Nat \ T # {} PROVE FALSE
  OBVIOUS
<1> DEFINE R == {ss \in Nat \X Nat : ss[1] < ss[2]}
<1>1. IsWellFoundedOn(R, Nat)
  <2>1. OpToRel(<, Nat) = R
    BY DEF OpToRel
  <2> QED
    BY <2>1, NatLessThanWellFounded
<1> HIDE DEF R
<1>2. PICK n \in Nat \ T : \A k \in Nat \ T : <<k, n>> \notin R
  BY <1>1, WFMin
<1>3. n # 0 /\ n - 1 \in Nat
  BY <1>2
<1>4. n - 1 \notin T
  BY <1>3, (n - 1) + 1 = n
<1>5. <<n - 1, n>> \in R
  BY <1>2, <1>3 DEF R
<1> QED
  BY <1>2, <1>3, <1>4, <1>5

\* A set of numbers has a least one, and a bounded one has a greatest.
LEMMA LeastOf ==
  ASSUME NEW S \in SUBSET Nat, S # {}
  PROVE  Min(S) \in S /\ \A k \in S : Min(S) <= k
<1>1. \E n \in S : \A k \in S : n <= k
  <2> SUFFICES ASSUME \A n \in S : \E k \in S : ~(n <= k) PROVE FALSE
    OBVIOUS
  <2> DEFINE T == {n \in Nat : \A k \in S : n <= k}
  <2>1. 0 \in T
    OBVIOUS
  <2>2. ASSUME NEW n \in Nat, n \in T PROVE n + 1 \in T
    <3>1. n \notin S
      BY <2>2
    <3> QED
      BY <2>2, <3>1
  <2> HIDE DEF T
  <2>3. Nat \subseteq T
    BY <2>1, <2>2, NatSetInduction
  <2>4. PICK k \in S : TRUE
    OBVIOUS
  <2>5. k + 1 \in T
    BY <2>3
  <2> QED
    BY <2>5 DEF T
<1> QED
  BY <1>1 DEF Min

LEMMA GreatestOf ==
  ASSUME NEW S \in SUBSET Nat, S # {}, NEW limit \in Nat, \A k \in S : k <= limit
  PROVE  Max(S) \in S /\ \A k \in S : k <= Max(S)
<1> DEFINE U == {n \in Nat : \A k \in S : k <= n}
<1>1. limit \in U
  OBVIOUS
<1>2. Min(U) \in U /\ \A n \in U : Min(U) <= n
  <2> HIDE DEF U
  <2>1. U \in SUBSET Nat
    BY DEF U
  <2> QED
    BY <1>1, <2>1, LeastOf
<1>3. PICK m \in U : \A n \in U : m <= n
  BY <1>2
<1>4. m \in S
  <2> SUFFICES ASSUME m \notin S PROVE FALSE
    OBVIOUS
  <2>1. \A k \in S : k < m
    BY <1>3
  <2>2. PICK k \in S : TRUE
    OBVIOUS
  <2>3. m - 1 \in U
    BY <2>1, <2>2, <1>3
  <2> QED
    BY <2>3, <1>3
<1>5. \A k \in S : k <= m
  BY <1>3
<1> HIDE DEF U
<1>6. \E x \in S : \A y \in S : x >= y
  BY <1>4, <1>5
<1>7. Max(S) \in S /\ \A y \in S : Max(S) >= y
  BY <1>6 DEF Max
<1> QED
  BY <1>7

\* What the next statement to be found is, and the place after one line more.
Later(o, n) == {k \in Statements(o) : k > n}
Advance(o, x, n) == IF Later(o, n) # {} /\ x = o[Min(Later(o, n))] THEN Min(Later(o, n)) ELSE n

ModuleTexts == Seq(Nodes \cup Comments)

\* A line moves the place only onto the statement it is.
LEMMA NextPlace ==
  ASSUME NEW o \in ModuleTexts, NEW x, NEW n \in {0} \cup Statements(o)
  PROVE  /\ Advance(o, x, n) \in {0} \cup Statements(o)
         /\ Advance(o, x, n) >= n
         /\ Advance(o, x, n) > n =>
              x = o[Advance(o, x, n)] /\ \A k \in Statements(o) : k > n => k >= Advance(o, x, n)
<1>1. Statements(o) \in SUBSET Nat /\ n \in Nat
  BY DEF Statements, ModuleTexts
<1>2. CASE Later(o, n) # {} /\ x = o[Min(Later(o, n))]
  <2>1. Later(o, n) \in SUBSET Nat
    BY <1>1 DEF Later
  <2>2. Min(Later(o, n)) \in Later(o, n) /\ \A k \in Later(o, n) : Min(Later(o, n)) <= k
    BY <1>2, <2>1, LeastOf
  <2> QED
    BY <1>1, <1>2, <2>1, <2>2 DEF Advance, Later
<1>3. CASE ~(Later(o, n) # {} /\ x = o[Min(Later(o, n))])
  BY <1>1, <1>3 DEF Advance
<1> QED
  BY <1>2, <1>3

\* A function on 0 .. n that is computed from place to place exists.
Computed(o, m, c, n) == c = [i \in 0..n |-> IF i = 0 THEN 0 ELSE Advance(o, m[i], c[i - 1])]
LEMMA CursorExists ==
  ASSUME NEW o \in ModuleTexts, NEW m \in ModuleTexts
  PROVE  \E c \in [0..Len(m) -> {0} \cup Statements(o)] : Computed(o, m, c, Len(m))
<1> DEFINE P == {0} \cup Statements(o)
           Up(n) == \E c \in [0..n -> P] : Computed(o, m, c, n)
           T == {n \in Nat : Up(n)}
<1>1. Up(0)
  <2> DEFINE c == [i \in 0..0 |-> 0]
  <2>1. c \in [0..0 -> P]
    OBVIOUS
  <2>2. \A i \in 0..0 : 0 = IF i = 0 THEN 0 ELSE Advance(o, m[i], c[i - 1])
    OBVIOUS
  <2>3. Computed(o, m, c, 0)
    BY <2>2 DEF Computed
  <2> QED
    BY <2>1, <2>3
<1>2. ASSUME NEW n \in Nat, Up(n) PROVE Up(n + 1)
  <2>1. PICK c \in [0..n -> P] : Computed(o, m, c, n)
    BY <1>2
  <2> DEFINE d == [i \in 0..(n + 1) |-> IF i <= n THEN c[i] ELSE Advance(o, m[n + 1], c[n])]
  <2>2. Advance(o, m[n + 1], c[n]) \in P
    <3> DEFINE p == c[n]
               x == m[n + 1]
    <3>1. p \in P
      OBVIOUS
    <3> HIDE DEF p, x
    <3>2. Advance(o, x, p) \in P
      BY <3>1, NextPlace
    <3> QED
      BY <3>2 DEF p, x
  <2>3. d \in [0..(n + 1) -> P]
    BY <2>2
  <2>4. ASSUME NEW i \in 0..(n + 1)
        PROVE  d[i] = IF i = 0 THEN 0 ELSE Advance(o, m[i], d[i - 1])
    <3>1. CASE i = 0
      BY <2>1, <3>1 DEF Computed
    <3>2. CASE i \in 1..n
      <4>1. i \in 0..n /\ i # 0 /\ i - 1 <= n /\ i - 1 \in 0..(n + 1)
        BY <3>2
      <4>2. d[i] = c[i] /\ d[i - 1] = c[i - 1]
        BY <4>1
      <4>3. c[i] = Advance(o, m[i], c[i - 1])
        BY <2>1, <4>1 DEF Computed
      <4> QED
        BY <4>1, <4>2, <4>3
    <3>3. CASE i = n + 1
      BY <3>3
    <3> QED
      BY <3>1, <3>2, <3>3
  <2>5. Computed(o, m, d, n + 1)
    BY <2>4, <2>3 DEF Computed
  <2> QED
    BY <2>3, <2>5
<1> HIDE DEF Up
<1>3. 0 \in T
  BY <1>1
<1>4. \A n \in Nat : n \in T => n + 1 \in T
  BY <1>2
<1>5. Up(Len(m))
  <2> HIDE DEF T
  <2>1. Len(m) \in T
    BY <1>3, <1>4, NatSetInduction DEF ModuleTexts
  <2> QED
    BY <2>1 DEF T
<1> QED
  BY <1>5 DEF Up

\* So Cursor is such a function.
LEMMA CursorIs ==
  ASSUME NEW o \in ModuleTexts, NEW m \in ModuleTexts
  PROVE  /\ Cursor(o, m) \in [0..Len(m) -> {0} \cup Statements(o)]
         /\ Cursor(o, m)[0] = 0
         /\ \A i \in 1..Len(m) : Cursor(o, m)[i] = Advance(o, m[i], Cursor(o, m)[i - 1])
<1> DEFINE F(c) == [i \in 0..Len(m) |-> IF i = 0 THEN 0 ELSE Advance(o, m[i], c[i - 1])]
<1>1. Cursor(o, m) = CHOOSE c : c = F(c)
  BY DEF Cursor, Advance, Later
<1>2. PICK d \in [0..Len(m) -> {0} \cup Statements(o)] : d = F(d)
  BY CursorExists DEF Computed
<1>3. Cursor(o, m) = F(Cursor(o, m))
  <2> HIDE DEF F
  <2> QED
    BY <1>1, <1>2
<1> DEFINE c == Cursor(o, m)
<1>0. Len(m) \in Nat
  BY DEF ModuleTexts
<1> HIDE DEF c
<1>4. c[0] = 0 /\ \A i \in 1..Len(m) : c[i] = Advance(o, m[i], c[i - 1])
  BY <1>0, <1>3 DEF c
<1>5. \A i \in 0..Len(m) : c[i] \in {0} \cup Statements(o)
  <2> DEFINE T == {n \in Nat : n <= Len(m) => c[n] \in {0} \cup Statements(o)}
  <2>1. 0 \in T
    BY <1>4
  <2>2. ASSUME NEW n \in Nat, n \in T PROVE n + 1 \in T
    <3> SUFFICES ASSUME n + 1 <= Len(m) PROVE c[n + 1] \in {0} \cup Statements(o)
      OBVIOUS
    <3>1. c[n] \in {0} \cup Statements(o) /\ n + 1 \in 1..Len(m) /\ (n + 1) - 1 = n
      BY <1>0, <2>2
    <3>2. c[n + 1] = Advance(o, m[n + 1], c[n])
      BY <1>4, <3>1
    <3> DEFINE p == c[n]
    <3>3. p \in {0} \cup Statements(o)
      BY <3>1
    <3> HIDE DEF p
    <3>4. Advance(o, m[n + 1], p) \in {0} \cup Statements(o)
      BY <3>3, NextPlace
    <3> QED
      BY <3>2, <3>4 DEF p
  <2> HIDE DEF T
  <2>3. Nat \subseteq T
    BY <2>1, <2>2, NatSetInduction
  <2> QED
    BY <2>3, <1>0 DEF T
<1>6. c = F(c)
  BY <1>3 DEF c
<1>7. c \in [0..Len(m) -> {0} \cup Statements(o)]
  BY <1>5, <1>6
<1> QED
  BY <1>4, <1>7 DEF c

LEMMA CursorSteps ==
  ASSUME NEW o \in ModuleTexts, NEW m \in ModuleTexts, NEW i \in 1..Len(m)
  PROVE  LET c == Cursor(o, m)
         IN  /\ c[i - 1] <= c[i]
             /\ c[i - 1] < c[i] => /\ c[i] \in Statements(o) /\ m[i] = o[c[i]]
                                  /\ \A k \in Statements(o) : k > c[i - 1] => k >= c[i]
<1> DEFINE c == Cursor(o, m)
           n == c[i - 1]
           x == m[i]
<1>1. Len(m) \in Nat /\ i - 1 \in 0..Len(m)
  BY DEF ModuleTexts
<1>2. n \in {0} \cup Statements(o) /\ c[i] = Advance(o, x, n)
  BY <1>1, CursorIs
<1>3. Statements(o) \in SUBSET Nat
  BY DEF Statements, ModuleTexts
<1> HIDE DEF c, n, x
<1>4. /\ Advance(o, x, n) \in {0} \cup Statements(o)
      /\ Advance(o, x, n) >= n
      /\ Advance(o, x, n) > n =>
           x = o[Advance(o, x, n)] /\ \A k \in Statements(o) : k > n => k >= Advance(o, x, n)
  BY <1>2, NextPlace
<1>5. n <= c[i] /\ (n < c[i] => c[i] \in Statements(o) /\ x = o[c[i]] /\ \A k \in Statements(o) : k > n => k >= c[i])
  BY <1>2, <1>3, <1>4
<1> QED
  BY <1>5 DEF c, n, x

LEMMA CursorIsPlace ==
  ASSUME NEW o \in ModuleTexts, NEW m \in ModuleTexts
  PROVE  Len(m) \in Nat /\ \A n \in 0..Len(m) : Cursor(o, m)[n] \in Nat
<1>1. Len(m) \in Nat
  BY DEF ModuleTexts
<1>2. {0} \cup Statements(o) \subseteq Nat
  BY DEF Statements, ModuleTexts
<1> DEFINE P == {0} \cup Statements(o)
           c == Cursor(o, m)
<1>3. c \in [0..Len(m) -> P]
  BY CursorIs
<1> HIDE DEF P, c
<1>4. \A n \in 0..Len(m) : c[n] \in P
  BY <1>3
<1>5. P \subseteq Nat
  BY <1>2 DEF P
<1>6. \A n \in 0..Len(m) : c[n] \in Nat
  BY <1>4, <1>5
<1> QED
  BY <1>1, <1>6 DEF c

LEMMA CursorRises ==
  ASSUME NEW o \in ModuleTexts, NEW m \in ModuleTexts, NEW i \in 0..Len(m), NEW j \in 0..Len(m), i <= j
  PROVE  Cursor(o, m)[i] <= Cursor(o, m)[j]
<1> DEFINE c == Cursor(o, m)
           T == {n \in Nat : i + n <= Len(m) => c[i] <= c[i + n]}
<1>1. Len(m) \in Nat /\ \A k \in 0..Len(m) : c[k] \in Nat
  BY CursorIsPlace
<1>2. \A k \in 1..Len(m) : c[k - 1] <= c[k]
  BY CursorSteps
<1> HIDE DEF c
<1>3. 0 \in T
  BY <1>1
<1>4. ASSUME NEW n \in Nat, n \in T PROVE n + 1 \in T
  <2> SUFFICES ASSUME i + (n + 1) <= Len(m) PROVE c[i] <= c[i + (n + 1)]
    OBVIOUS
  <2>1. i + n \in 0..Len(m) /\ i + (n + 1) \in 1..Len(m) /\ (i + (n + 1)) - 1 = i + n
    BY <1>1
  <2>2. c[i + n] <= c[i + (n + 1)]
    BY <1>2, <2>1
  <2>3. c[i] <= c[i + n]
    BY <1>4, <2>1
  <2>4. c[i] \in Nat /\ c[i + n] \in Nat /\ c[i + (n + 1)] \in Nat
    BY <1>1, <2>1
  <2> QED
    BY <2>2, <2>3, <2>4
<1>5. j - i \in T
  <2> HIDE DEF T
  <2>1. j - i \in Nat
    BY <1>1
  <2> QED
    BY <1>3, <1>4, <2>1, NatSetInduction
<1>6. i + (j - i) = j
  BY <1>1
<1> QED
  BY <1>5, <1>6, <1>1 DEF c

\* Every statement up to the cursor has been found, at one place.
LEMMA EachFound ==
  ASSUME NEW o \in ModuleTexts, NEW m \in ModuleTexts, NEW k \in Statements(o), k <= Cursor(o, m)[Len(m)]
  PROVE  \E i \in Found(o, m) : Cursor(o, m)[i] = k
<1> DEFINE c == Cursor(o, m)
           T == {n \in Nat : n <= Len(m) /\ k <= c[n] => \E i \in 1..n : c[i - 1] < c[i] /\ c[i] = k}
<1>1. Len(m) \in Nat /\ c[0] = 0 /\ k \in Nat /\ k > 0 /\ \A n \in 0..Len(m) : c[n] \in Nat
  <2>1. \A l \in Statements(o) : l \in Nat /\ l > 0
    BY DEF Statements, ModuleTexts
  <2> QED
    BY <2>1, CursorIs, CursorIsPlace
<1>2. ASSUME NEW i \in 1..Len(m), c[i - 1] < c[i], NEW l \in Statements(o), l > c[i - 1] PROVE l >= c[i]
  BY <1>2, CursorSteps
<1> HIDE DEF c
<1>3. 0 \in T
  BY <1>1
<1>4. ASSUME NEW n \in Nat, n \in T PROVE n + 1 \in T
  <2> SUFFICES ASSUME n + 1 <= Len(m), k <= c[n + 1]
               PROVE  \E i \in 1..(n + 1) : c[i - 1] < c[i] /\ c[i] = k
    OBVIOUS
  <2>1. n + 1 \in 1..Len(m) /\ (n + 1) - 1 = n /\ n \in 0..Len(m) /\ n + 1 \in 0..Len(m)
    BY <1>1
  <2>2. CASE k <= c[n]
    BY <1>4, <2>1, <2>2
  <2>3. CASE ~(k <= c[n])
    <3>1. c[n] \in Nat /\ c[n + 1] \in Nat
      BY <1>1, <2>1
    <3>2. c[n] < c[n + 1] /\ k > c[n]
      BY <1>1, <2>3, <3>1
    <3>3. k >= c[n + 1]
      <4> DEFINE i == n + 1
      <4>1. i \in 1..Len(m) /\ i - 1 = n
        BY <2>1
      <4> HIDE DEF i
      <4>2. c[i - 1] < c[i] /\ k > c[i - 1]
        BY <3>2, <4>1 DEF i
      <4> QED
        BY <1>2, <4>1, <4>2 DEF i
    <3>4. c[n + 1] = k
      BY <1>1, <3>1, <3>3
    <3> QED
      BY <2>1, <3>2, <3>4
  <2> QED
    BY <2>2, <2>3
<1>5. Len(m) \in T
  <2> HIDE DEF T
  <2> QED
    BY <1>1, <1>3, <1>4, NatSetInduction
<1>6. k <= c[Len(m)]
  BY DEF c
<1>7. PICK i \in 1..Len(m) : c[i - 1] < c[i] /\ c[i] = k
  BY <1>1, <1>5, <1>6
<1>8. i \in Found(o, m)
  BY <1>1, <1>7 DEF c, Found
<1> QED
  BY <1>7, <1>8 DEF c

\* Where the statements of the original are in m.
PlaceOf(o, m) == [k \in Statements(o) |-> CHOOSE i \in Found(o, m) : Cursor(o, m)[i] = k]

\* No two places of m hold the same statement of the original.
LEMMA FoundOnce ==
  ASSUME NEW o \in ModuleTexts, NEW m \in ModuleTexts
  PROVE  /\ Found(o, m) \subseteq Statements(m)
         /\ \A i \in Found(o, m) : Cursor(o, m)[i] \in Statements(o) /\ m[i] = o[Cursor(o, m)[i]]
         /\ \A i, j \in Found(o, m) : i < j => Cursor(o, m)[i] < Cursor(o, m)[j]
<1> DEFINE c == Cursor(o, m)
<1>1. Len(m) \in Nat /\ \A n \in 0..Len(m) : c[n] \in Nat
  BY CursorIsPlace
<1>2. ASSUME NEW i \in Found(o, m) PROVE i \in 1..Len(m) /\ c[i - 1] < c[i] /\ i - 1 \in 0..Len(m)
  BY <1>1 DEF Found
<1>3. ASSUME NEW i \in Found(o, m) PROVE c[i] \in Statements(o) /\ m[i] = o[c[i]]
  BY <1>2, CursorSteps
<1>4. \A i \in Found(o, m) : i \in Statements(m)
  BY <1>2, <1>3 DEF Statements
<1>5. ASSUME NEW i \in Found(o, m), NEW j \in Found(o, m), i < j PROVE c[i] < c[j]
  <2>1. i \in 0..Len(m) /\ j - 1 \in 0..Len(m) /\ i <= j - 1 /\ j \in 0..Len(m) /\ c[j - 1] < c[j]
    BY <1>1, <1>2, <1>5
  <2>2. c[i] <= c[j - 1]
    BY <2>1, CursorRises
  <2>3. c[i] \in Nat /\ c[j - 1] \in Nat /\ c[j] \in Nat
    BY <1>1, <2>1
  <2> HIDE DEF c
  <2> QED
    BY <2>1, <2>2, <2>3
<1> QED
  BY <1>3, <1>4, <1>5

LEMMA PlacesFit ==
  ASSUME NEW o \in ModuleTexts, NEW m \in ModuleTexts, AllFound(o, m)
  PROVE  /\ PlaceOf(o, m) \in [Statements(o) -> Statements(m)]
         /\ \A k \in Statements(o) : PlaceOf(o, m)[k] \in Found(o, m) /\ m[PlaceOf(o, m)[k]] = o[k]
         /\ \A k, l \in Statements(o) : k < l => PlaceOf(o, m)[k] < PlaceOf(o, m)[l]
         /\ \A i \in Found(o, m) : \E k \in Statements(o) : PlaceOf(o, m)[k] = i
<1> DEFINE c == Cursor(o, m)
           at == PlaceOf(o, m)
<1>1. ASSUME NEW k \in Statements(o) PROVE at[k] \in Found(o, m) /\ c[at[k]] = k
  <2>1. \E i \in Found(o, m) : c[i] = k
    BY EachFound DEF AllFound
  <2> QED
    BY <2>1 DEF PlaceOf
<1>2. /\ Found(o, m) \subseteq Statements(m)
      /\ \A i \in Found(o, m) : c[i] \in Statements(o) /\ m[i] = o[c[i]]
      /\ \A i, j \in Found(o, m) : i < j => c[i] < c[j]
  BY FoundOnce
<1>3. /\ \A k \in Statements(o) : k \in Nat
      /\ \A k \in Statements(m) : k \in Nat
  BY DEF Statements, ModuleTexts
<1>4. at \in [Statements(o) -> Statements(m)]
  <2>1. at = [k \in Statements(o) |-> at[k]]
    BY DEF PlaceOf
  <2> QED
    BY <1>1, <1>2, <2>1
<1> HIDE DEF c, at
<1>5. \A k \in Statements(o) : at[k] \in Found(o, m) /\ m[at[k]] = o[k]
  BY <1>1, <1>2
<1>6. ASSUME NEW k \in Statements(o), NEW l \in Statements(o), k < l PROVE at[k] < at[l]
  <2>1. at[k] \in Nat /\ at[l] \in Nat /\ k \in Nat /\ l \in Nat
    BY <1>3, <1>4
  <2>2. CASE at[l] < at[k]
    <3>1. c[at[l]] < c[at[k]]
      BY <1>1, <1>2, <2>2
    <3> QED
      BY <1>1, <1>6, <2>1, <3>1
  <2>3. CASE at[l] = at[k]
    BY <1>1, <1>6, <2>1, <2>3
  <2> QED
    BY <2>1, <2>2, <2>3
<1>7. ASSUME NEW i \in Found(o, m) PROVE \E k \in Statements(o) : at[k] = i
  <2>1. c[i] \in Statements(o)
    BY <1>2
  <2>2. at[c[i]] \in Found(o, m) /\ c[at[c[i]]] = c[i]
    BY <1>1, <2>1
  <2>3. at[c[i]] \in Nat /\ i \in Nat /\ c[i] \in Nat
    BY <1>2, <1>3, <2>1, <2>2
  <2>4. at[c[i]] = i
    BY <1>2, <2>2, <2>3
  <2> QED
    BY <2>1, <2>4
<1> QED
  BY <1>4, <1>5, <1>6, <1>7 DEF at

\* A name is bound alike where the bindings before are those of the original.
ValueOf(m, i, n) == IF Bindings(m, i, n) = {} THEN <<>> ELSE <<m[Max(Bindings(m, i, n))]>>

LEMMA SameValue ==
  ASSUME NEW o \in ModuleTexts, NEW m \in ModuleTexts, NEW at \in [Statements(o) -> Statements(m)],
         \A k \in Statements(o) : m[at[k]] = o[k],
         \A k, l \in Statements(o) : k < l => at[k] < at[l],
         NEW i, NEW k, NEW n, Bindings(m, i, n) = {at[l] : l \in Bindings(o, k, n)}
  PROVE  ValueOf(m, i, n) = ValueOf(o, k, n)
<1> DEFINE B == Bindings(o, k, n)
           C == Bindings(m, i, n)
<1>1. CASE B = {}
  BY <1>1 DEF ValueOf
<1>2. CASE B # {}
  <2>1. /\ Len(o) \in Nat /\ Len(m) \in Nat
        /\ B \subseteq Statements(o) /\ Statements(o) \subseteq 1..Len(o)
        /\ C \subseteq Statements(m) /\ Statements(m) \subseteq 1..Len(m)
    BY DEF Bindings, Statements, ModuleTexts
  <2> HIDE DEF B, C
  <2>2. B \in SUBSET Nat /\ C \in SUBSET Nat /\ (\A x \in B : x <= Len(o)) /\ (\A x \in C : x <= Len(m))
    BY <2>1
  <2>3. C = {at[l] : l \in B}
    BY DEF B, C
  <2>4. C # {}
    BY <1>2, <2>3, ZenonT(60)
  <2>5. Max(B) \in B /\ \A l \in B : l <= Max(B)
    BY <1>2, <2>1, <2>2, GreatestOf
  <2>6. Max(C) \in C /\ \A x \in C : x <= Max(C)
    BY <2>1, <2>2, <2>4, GreatestOf
  <2>7. at[Max(B)] \in C /\ \A x \in C : x <= at[Max(B)]
    <3>1. at[Max(B)] \in C
      BY <2>3, <2>5
    <3>2. ASSUME NEW l \in B PROVE at[l] <= at[Max(B)]
      <4>1. l \in Nat /\ Max(B) \in Nat /\ l <= Max(B) /\ at[l] \in Nat /\ at[Max(B)] \in Nat
        BY <2>1, <2>2, <2>5
      <4>2. l < Max(B) => at[l] < at[Max(B)]
        BY <2>1, <2>5
      <4>3. l = Max(B) \/ l < Max(B)
        BY <4>1
      <4> QED
        BY <4>1, <4>2, <4>3
    <3> QED
      BY <2>3, <3>1, <3>2
  <2>8. Max(C) = at[Max(B)]
    BY <2>2, <2>6, <2>7
  <2>9. m[Max(C)] = o[Max(B)]
    BY <2>1, <2>5, <2>8
  <2> QED
    BY <1>2, <2>4, <2>9 DEF ValueOf, B, C
<1> QED
  BY <1>1, <1>2

\* Bindings of the original, found again.
LEMMA SameBindings ==
  ASSUME NEW o \in ModuleTexts, NEW m \in ModuleTexts, AllFound(o, m),
         NEW k \in 1..(Len(o) + 1), NEW i \in 1..(Len(m) + 1), NEW n,
         \A l \in Statements(o) : l < k <=> PlaceOf(o, m)[l] < i,
         \A x \in Added(o, m) : x < i => NameOf[m[x]] # n
  PROVE  ValueOf(m, i, n) = ValueOf(o, k, n)
<1> DEFINE at == PlaceOf(o, m)
<1>1. /\ at \in [Statements(o) -> Statements(m)]
      /\ \A l \in Statements(o) : m[at[l]] = o[l]
      /\ \A l, j \in Statements(o) : l < j => at[l] < at[j]
      /\ \A x \in Found(o, m) : \E l \in Statements(o) : at[l] = x
  BY PlacesFit
<1> HIDE DEF at
<1>2. ASSUME NEW x \in Bindings(m, i, n) PROVE \E l \in Bindings(o, k, n) : x = at[l]
  <2>1. x \in Statements(m) /\ x < i /\ NameOf[m[x]] = n
    BY DEF Bindings
  <2>2. x \in Found(o, m)
    BY <2>1 DEF Added
  <2>3. PICK l \in Statements(o) : at[l] = x
    BY <1>1, <2>2
  <2>4. l < k /\ NameOf[o[l]] = n
    BY <1>1, <2>1, <2>3 DEF at
  <2> QED
    BY <2>3, <2>4 DEF Bindings
<1>3. ASSUME NEW l \in Bindings(o, k, n) PROVE at[l] \in Bindings(m, i, n)
  <2>1. l \in Statements(o) /\ l < k /\ NameOf[o[l]] = n
    BY DEF Bindings
  <2>2. at[l] \in Statements(m) /\ at[l] < i /\ m[at[l]] = o[l]
    BY <1>1, <2>1 DEF at
  <2> QED
    BY <2>1, <2>2 DEF Bindings
<1>4. Bindings(m, i, n) = {at[l] : l \in Bindings(o, k, n)}
  BY <1>2, <1>3
<1> QED
  BY <1>1, <1>4, SameValue

\* What the rules of preserve_original_tests are for: in a module they accept, every original
\* test is still there in its order, is evaluated with the bindings it had, and every original
\* name ends up bound to what it was -- for any module, any additions and both profiles.
THEOREM RulesPreserve ==
  ASSUME NEW o \in ModuleTexts, NEW m \in ModuleTexts, NEW onNative \in BOOLEAN, TestsKept(o, m, onNative)
  PROVE  OriginalStands(o, m)
<1> DEFINE at == PlaceOf(o, m)
<1>0. AllFound(o, m) /\ StatementsKept(o, m, onNative) /\ AdditionsAllowed(o, m)
  BY DEF TestsKept, StatementsKept
<1>1. /\ at \in [Statements(o) -> Statements(m)]
      /\ \A k \in Statements(o) : at[k] \in Found(o, m) /\ m[at[k]] = o[k]
      /\ \A k, l \in Statements(o) : k < l => at[k] < at[l]
  BY <1>0, PlacesFit
<1>2. /\ Len(o) \in Nat /\ Len(m) \in Nat
      /\ Statements(o) \subseteq 1..Len(o) /\ Statements(m) \subseteq 1..Len(m)
  BY DEF ModuleTexts, Statements
<1>3. ASSUME NEW k \in Statements(o), o[k] \notin Inert, NEW x \in Added(o, m) PROVE ~(x < at[k])
  <2> HIDE DEF at
  <2>1. at[k] \in Found(o, m) /\ m[at[k]] \notin Inert
    BY <1>1, <1>3
  <2>2. CASE onNative
    <3>1. BeforeBoundary(o, m) = {}
      BY <1>0, <2>2 DEF StatementsKept
    <3> QED
      BY <2>1, <3>1 DEF BeforeBoundary
  <2>3. CASE ~onNative
    <3>1. at[k] < x
      BY <1>0, <2>1, <2>3 DEF StatementsKept
    <3>2. at[k] \in Nat /\ x \in Nat
      BY <1>1, <1>2 DEF Added
    <3> QED
      BY <3>1, <3>2
  <2> QED
    BY <2>2, <2>3
<1>4. ASSUME NEW k \in Statements(o), o[k] \notin Inert, NEW n PROVE ValueOf(m, at[k], n) = ValueOf(o, k, n)
  <2> DEFINE i == at[k]
  <2>1. k \in 1..(Len(o) + 1) /\ i \in 1..(Len(m) + 1)
    BY <1>1, <1>2
  <2>2. ASSUME NEW l \in Statements(o) PROVE l < k <=> at[l] < i
    <3> HIDE DEF at
    <3>1. l \in Nat /\ k \in Nat /\ at[l] \in Nat /\ at[k] \in Nat
      BY <1>1, <1>2
    <3>2. l < k => at[l] < at[k]
      BY <1>1
    <3>3. k < l => at[k] < at[l]
      BY <1>1
    <3>4. k = l => at[k] = at[l]
      OBVIOUS
    <3> QED
      BY <3>1, <3>2, <3>3, <3>4
  <2>3. \A x \in Added(o, m) : ~(x < i)
    BY <1>3, <1>4
  <2> HIDE DEF i
  <2>4. ValueOf(m, i, n) = ValueOf(o, k, n)
    BY <1>0, <2>1, <2>2, <2>3, SameBindings
  <2> QED
    BY <2>4 DEF i
<1>5. ASSUME NEW n \in {NameOf[o[k]] : k \in Statements(o)}
      PROVE  ValueOf(m, Len(m) + 1, n) = ValueOf(o, Len(o) + 1, n)
  <2> HIDE DEF at
  <2>1. ASSUME NEW l \in Statements(o) PROVE l < Len(o) + 1 <=> at[l] < Len(m) + 1
    BY <1>1, <1>2
  <2>2. \A x \in Added(o, m) : NameOf[m[x]] # n
    BY <1>0 DEF AdditionsAllowed
  <2>3. Len(o) + 1 \in 1..(Len(o) + 1) /\ Len(m) + 1 \in 1..(Len(m) + 1)
    BY <1>2
  <2> DEFINE i == Len(m) + 1
             k == Len(o) + 1
  <2> HIDE DEF i, k
  <2>4. ValueOf(m, i, n) = ValueOf(o, k, n)
    BY <1>0, <2>1, <2>2, <2>3, SameBindings DEF i, k, at
  <2> QED
    BY <2>4 DEF i, k
<1>6. \A l, i, names : Environment(l, i, names) = [n \in names |-> ValueOf(l, i, n)]
  BY DEF Environment, ValueOf
<1> HIDE DEF at
<1>7. ASSUME NEW k \in Statements(o), o[k] \notin Inert, NEW names
      PROVE  Environment(m, at[k], names) = Environment(o, k, names)
  BY <1>4, <1>6, <1>7
<1>8. Environment(m, Len(m) + 1, {NameOf[o[k]] : k \in Statements(o)})
        = Environment(o, Len(o) + 1, {NameOf[o[k]] : k \in Statements(o)})
  <2> DEFINE names == {NameOf[o[k]] : k \in Statements(o)}
  <2>1. \A n \in names : ValueOf(m, Len(m) + 1, n) = ValueOf(o, Len(o) + 1, n)
    BY <1>5
  <2> HIDE DEF names
  <2>2. Environment(m, Len(m) + 1, names) = Environment(o, Len(o) + 1, names)
    BY <1>6, <2>1
  <2> QED
    BY <2>2 DEF names
<1> QED
  BY <1>1, <1>7, <1>8 DEF OriginalStands

\* They accept the original as it is.
LEMMA CursorOnItself ==
  ASSUME NEW o \in ModuleTexts
  PROVE  /\ \A n \in 0..Len(o) : Cursor(o, o)[n] <= n
         /\ \A n \in 0..Len(o), k \in Statements(o) : k <= n => k <= Cursor(o, o)[n]
<1> DEFINE c == Cursor(o, o)
           Keeps(n) == c[n] <= n /\ \A k \in Statements(o) : k <= n => k <= c[n]
           T == {n \in Nat : n <= Len(o) => Keeps(n)}
<1>1. /\ Len(o) \in Nat /\ c[0] = 0 /\ \A n \in 0..Len(o) : c[n] \in Nat
      /\ \A k \in Statements(o) : k \in 1..Len(o)
  BY CursorIs, CursorIsPlace DEF Statements
<1>2. ASSUME NEW n \in Nat, n + 1 <= Len(o), Keeps(n) PROVE Keeps(n + 1)
  <2> DEFINE i == n + 1
             x == o[i]
             p == c[n]
  <2>1. i \in 1..Len(o) /\ i - 1 = n /\ n \in 0..Len(o) /\ i \in 0..Len(o)
    BY <1>1, <1>2
  <2>2. c[i] = Advance(o, x, p) /\ p \in {0} \cup Statements(o)
    BY <2>1, CursorIs
  <2>3. p \in Nat /\ p <= n /\ \A k \in Statements(o) : k <= n => k <= p
    BY <1>1, <1>2, <2>1
  <2>4. Later(o, p) \in SUBSET Nat /\ \A k \in Later(o, p) : k >= i
    BY <1>1, <2>3 DEF Later
  <2>5. i \in Statements(o) => i \in Later(o, p)
    BY <2>3 DEF Later
  <2> HIDE DEF c, p, x
  <2>6. CASE i \in Statements(o)
    <3>1. Min(Later(o, p)) = i
      <4>1. Min(Later(o, p)) \in Later(o, p) /\ \A k \in Later(o, p) : Min(Later(o, p)) <= k
        BY <2>4, <2>5, <2>6, LeastOf
      <4> HIDE DEF i
      <4>2. Min(Later(o, p)) <= i /\ Min(Later(o, p)) >= i /\ Min(Later(o, p)) \in Nat /\ i \in Nat
        BY <2>1, <2>4, <2>5, <2>6, <4>1
      <4> QED
        BY <4>2
    <3>2. Advance(o, x, p) = i
      BY <2>5, <2>6, <3>1 DEF Advance, x
    <3> QED
      BY <2>2, <3>2
  <2>7. CASE i \notin Statements(o)
    <3>1. Later(o, p) # {} => x # o[Min(Later(o, p))]
      <4> SUFFICES ASSUME Later(o, p) # {} PROVE x # o[Min(Later(o, p))]
        OBVIOUS
      <4>1. Min(Later(o, p)) \in Statements(o)
        BY <2>4, LeastOf DEF Later
      <4>2. x \notin Nodes
        BY <2>1, <2>7 DEF x, Statements
      <4> QED
        BY <4>1, <4>2 DEF Statements
    <3>2. c[i] = p
      BY <2>2, <3>1 DEF Advance
    <3>3. \A k \in Statements(o) : k <= i => k <= n
      BY <1>1, <2>7
    <3> QED
      BY <2>3, <3>2, <3>3
  <2> QED
    BY <2>6, <2>7
<1>3. Keeps(0)
  BY <1>1
<1> HIDE DEF Keeps
<1>4. 0 \in T
  BY <1>3
<1>5. \A n \in Nat : n \in T => n + 1 \in T
  BY <1>1, <1>2
<1>6. \A n \in 0..Len(o) : Keeps(n)
  <2> HIDE DEF T
  <2>1. Nat \subseteq T
    BY <1>4, <1>5, NatSetInduction
  <2> QED
    BY <2>1, <1>1 DEF T
<1> QED
  BY <1>6 DEF Keeps

\* Nothing of the original counts as an addition to it.
LEMMA NothingAdded ==
  ASSUME NEW o \in ModuleTexts
  PROVE  Added(o, o) = {} /\ AllFound(o, o)
<1> DEFINE c == Cursor(o, o)
<1>1. /\ Len(o) \in Nat /\ (\A n \in 0..Len(o) : c[n] \in Nat)
      /\ \A k \in Statements(o) : k \in 1..Len(o)
  BY CursorIsPlace DEF Statements
<1>2. /\ \A n \in 0..Len(o) : c[n] <= n
      /\ \A n \in 0..Len(o), k \in Statements(o) : k <= n => k <= c[n]
  BY CursorOnItself
<1>3. ASSUME NEW k \in Statements(o) PROVE k \in Found(o, o)
  <2>1. k \in 1..Len(o) /\ k - 1 \in 0..Len(o) /\ k \in 0..Len(o) /\ k <= k
    BY <1>1
  <2>2. c[k - 1] <= k - 1 /\ k <= c[k] /\ c[k - 1] \in Nat /\ c[k] \in Nat
    BY <1>1, <1>2, <2>1
  <2>3. c[k] > c[k - 1]
    <3> HIDE DEF c
    <3> QED
      BY <2>1, <2>2
  <2> QED
    BY <2>1, <2>3 DEF Found
<1>4. ASSUME NEW k \in Statements(o) PROVE k <= c[Len(o)]
  BY <1>1, <1>2
<1> QED
  BY <1>3, <1>4 DEF Added, AllFound

\* The rules refuse no module that leaves the original as it is.
THEOREM OriginalKept ==
  ASSUME NEW o \in ModuleTexts, NEW onNative \in BOOLEAN
  PROVE  TestsKept(o, o, onNative)
<1>1. Added(o, o) = {} /\ AllFound(o, o)
  BY NothingAdded
<1>2. CommentsKept(o, o)
  <2>1. ASSUME NEW S \in SUBSET Nat PROVE InOrder(o, o, S, S)
    <3> DEFINE at == [k \in S |-> k]
    <3>1. at \in [S -> S] /\ (\A k \in S : o[at[k]] = o[k]) /\ \A k, l \in S : k < l => at[k] < at[l]
      OBVIOUS
    <3> HIDE DEF at
    <3> QED
      BY <3>1 DEF InOrder
  <2>2. \A k : Gap(o, o, k) \in SUBSET Nat
    BY DEF Gap, ModuleTexts
  <2> QED
    BY <2>1, <2>2 DEF CommentsKept
<1>3. BeforeBoundary(o, o) = {}
  BY <1>1 DEF BeforeBoundary
<1>4. StatementsKept(o, o, onNative)
  BY <1>1, <1>2, <1>3 DEF StatementsKept
<1>5. AdditionsAllowed(o, o)
  BY <1>1 DEF AdditionsAllowed
<1>6. BodiesClosed(o, o)
  <2>1. {o[i] : i \in Added(o, o)} = {}
    BY <1>1
  <2>2. CallsKnown(o, {}) /\ NoCycle({})
    BY DEF CallsKnown, NoCycle
  <2> QED
    BY <2>1, <2>2 DEF BodiesClosed
<1> QED
  BY <1>4, <1>5, <1>6 DEF TestsKept

-----------------------------------------------------------------------------
\* Discovery: its controls are what they measured while the source was what it is.

\* What the controls rely on about the rules: they accept the original as it is, and an accepted
\* module of the instance keeps every original test.
TestRulesSound ==
    /\ \A n \in BOOLEAN : TestsKept(Original, Original, n)
    /\ Added(Original, Original) = {}
    /\ \A m \in TestModules, n \in BOOLEAN : TestsKept(Original, m, n) => OriginalStands(Original, m)

LEMMA RulesAreSound == TestRulesSound
<1>1. Original \in ModuleTexts /\ TestModules \subseteq ModuleTexts
  BY DiscoveryAssumption DEF ModuleTexts
<1> QED
  BY <1>1, RulesPreserve, OriginalKept, NothingAdded DEF TestRulesSound

\* Somebody changes the source at most once, so nobody puts it back.
SourceOnce ==
    /\ edits \in {0, 1} /\ (edits = 0 <=> source = Registered)
    /\ source \in [code : Codes, present : SUBSET Names] /\ native \in BOOLEAN

Proposals == [good : Edits(TestModules), wrong : Edits(WrongTests), accepts : SUBSET Codes \cup {Nil}]
Measuring == {"measure", "freeze"}

\* While the source is what it was, each control is what its specimen measures.
Measured ==
    doing \in Measuring =>
        /\ proposal \in Proposals
        /\ control \in Seq({0, 1}) /\ (Len(control) > 3 => proposal.good.tests # Nil)
        /\ edits = 0 => \A k \in 1..Len(control) : control[k] = ExitCode(Specimen(Controls[k]), proposal)
Unmeasured == doing \notin Measuring \cup {"frozen", "failed"} => control = <<>>
AsExpected ==
    doing = "freeze" =>
        Len(control) = Len(Controls) /\ \A k \in 1..Len(Controls) : control[k] = Expected(Controls[k])

DiscoveryInv == SourceOnce /\ Measured /\ Unmeasured /\ AsExpected /\ FrozenDiscriminates

\* The five controls on an unchanged source say what the frozen checker has to say.
LEMMA ControlsDiscriminate ==
  ASSUME TestRulesSound, DiscoveryInv, doing = "freeze", Unchanged
  PROVE  Discriminates(proposal)
<1> DEFINE p == proposal
           known == Copy(p.good, FALSE)
           bad == Copy(p.wrong, FALSE)
           plain == Copy(Untouched, FALSE)
<1>1. /\ source = Registered /\ edits = 0 /\ native \in BOOLEAN
      /\ p \in Proposals /\ p.good.tests # Nil
      /\ \A k \in 1..5 : control[k] = Expected(Controls[k])
                         /\ control[k] = ExitCode(Specimen(Controls[k]), p)
  <2>1. Len(Controls) = 5
    BY DEF Controls
  <2>2. source = Registered /\ edits = 0 /\ native \in BOOLEAN
    BY DEF DiscoveryInv, SourceOnce, Unchanged
  <2>3. Len(control) = 5 /\ \A k \in 1..5 : control[k] = Expected(Controls[k])
    BY <2>1 DEF DiscoveryInv, AsExpected
  <2>4. doing \in Measuring
    BY DEF Measuring
  <2>5. /\ p \in Proposals /\ (Len(control) > 3 => p.good.tests # Nil)
        /\ \A k \in 1..Len(control) : control[k] = ExitCode(Specimen(Controls[k]), p)
    BY <2>2, <2>4 DEF DiscoveryInv, Measured
  <2> QED
    BY <2>2, <2>3, <2>5
<1>2. ExitCode(known, p) = 0 /\ ExitCode(plain, p) = 1 /\ ExitCode(bad, p) = 1
  <2>1. Controls[1] = "known_good" /\ Controls[2] = "unchanged" /\ Controls[3] = "wrong_answer"
    BY DEF Controls
  <2>2. Specimen("known_good") = known /\ Specimen("unchanged") = plain /\ Specimen("wrong_answer") = bad
    BY DEF Specimen
  <2>3. Expected("known_good") = 0 /\ Expected("unchanged") = 1 /\ Expected("wrong_answer") = 1
    BY DEF Expected
  <2>4. ExitCode(Specimen(Controls[1]), p) = Expected(Controls[1])
        /\ ExitCode(Specimen(Controls[2]), p) = Expected(Controls[2])
        /\ ExitCode(Specimen(Controls[3]), p) = Expected(Controls[3])
    BY <1>1
  <2> HIDE DEF known, plain, bad
  <2> QED
    BY <2>1, <2>2, <2>3, <2>4
<1>3. GuardHolds(known) /\ p.accepts # Nil /\ known.code \in p.accepts
  <2> HIDE DEF known, plain
  <2>1. GuardHolds(known)
    BY <1>2 DEF ExitCode
  <2>2. LeavesRecord(p)
    BY <1>2, <2>1, DiscoveryAssumption DEF ExitCode
  <2>3. known.code \in p.accepts
    BY <1>2, <2>1, <2>2 DEF ExitCode
  <2> QED
    BY <2>1, <2>2, <2>3 DEF LeavesRecord
<1>4. p.good \in Edits(TestModules)
  BY <1>1 DEF Proposals
<1>5. p.good.tests \in TestModules /\ (p.good.code # Nil => CodeFile \in selected)
  BY <1>1, <1>4 DEF Edits
<1>6. known.tests = p.good.tests /\ (p.good.code # Nil => known.code = p.good.code)
      /\ (p.good.code = Nil => known.code = Base)
  BY <1>1 DEF Copy, Registered
<1>7. plain.code = Base /\ plain.tests = Original /\ plain.escape = FALSE
      /\ plain.present = Registered.present
  BY <1>1 DEF Copy, Untouched, Registered
<1>8. GuardHolds(plain)
  <2>1. SymDiff(Registered.present, Registered.present) = {}
    BY DEF SymDiff
  <2>2. WithinScope(plain)
    BY <1>7, <2>1 DEF WithinScope
  <2>3. AuthorityKept(Base)
    BY DiscoveryAssumption DEF AuthorityKept
  <2>4. TestFile \in plain.present
    BY <1>7, DiscoveryAssumption DEF Registered
  <2>5. TestsKept(Original, Original, native)
    BY <1>1 DEF TestRulesSound
  <2>6. NoNewModule(selected)
    BY <1>3 DEF GuardHolds
  <2> HIDE DEF plain
  <2> QED
    BY <1>7, <2>2, <2>3, <2>4, <2>5, <2>6 DEF GuardHolds
<1>9. AddedTestsPass(plain)
  BY <1>7 DEF AddedTestsPass, TestRulesSound
<1>10. Base \notin p.accepts
  <2> HIDE DEF plain
  <2> QED
    BY <1>2, <1>3, <1>7, <1>8, <1>9 DEF ExitCode, LeavesRecord
<1>11. p.good.code # Nil
  BY <1>3, <1>6, <1>10
<1>12. Authority => AuthorityKept(p.good.code)
  BY <1>3, <1>5, <1>6, <1>11 DEF GuardHolds
<1>13. OriginalStands(Original, p.good.tests)
  <2>1. TestsKept(Original, p.good.tests, native)
    BY <1>3, <1>6 DEF GuardHolds
  <2> QED
    BY <1>1, <1>5, <2>1 DEF TestRulesSound
<1>14. AddedTestsPass(known)
  <2> HIDE DEF known
  <2> QED
    BY <1>2, <1>3 DEF ExitCode, LeavesRecord
<1>15. Accepts(p, p.good)
  <2>1. /\ known.code \in p.accepts
        /\ known.code # Base => CodeFile \in selected
        /\ known.tests # Original => TestFile \in selected
        /\ Authority /\ CodeFile \in selected => AuthorityKept(known.code)
        /\ TestsKept(Original, known.tests, native)
        /\ native => \A i \in Added(Original, known.tests) :
                        known.tests[i] \in Helpers \cup Passing[known.code]
    <3> HIDE DEF known
    <3> QED
      BY <1>3, <1>14 DEF GuardHolds, WithinScope, AddedTestsPass
  <2>2. known.code = p.good.code
    BY <1>6, <1>11
  <2> HIDE DEF known
  <2> QED
    BY <1>1, <1>6, <1>11, <2>1, <2>2 DEF Accepts
<1>16. ~Accepts(p, p.wrong)
  <2> SUFFICES ASSUME Accepts(p, p.wrong) PROVE FALSE
    OBVIOUS
  <2>1. /\ bad.code = (IF p.wrong.code = Nil THEN Base ELSE p.wrong.code)
        /\ bad.tests = (IF p.wrong.tests = Nil THEN Original ELSE p.wrong.tests)
        /\ bad.escape = FALSE
        /\ bad.present = Registered.present
    BY <1>1, DiscoveryAssumption DEF Copy, Registered
  <2> HIDE DEF bad
  <2>2. WithinScope(bad)
    <3>1. SymDiff(Registered.present, Registered.present) = {}
      BY DEF SymDiff
    <3> QED
      BY <2>1, <3>1 DEF WithinScope, Accepts
  <2>3. GuardHolds(bad)
    <3>1. NoNewModule(selected)
      BY <1>3 DEF GuardHolds
    <3>2. TestFile \in bad.present
      BY <2>1, DiscoveryAssumption DEF Registered
    <3> QED
      BY <2>1, <2>2, <3>1, <3>2 DEF GuardHolds, Accepts
  <2>4. AddedTestsPass(bad) /\ bad.code \in p.accepts
    BY <2>1 DEF AddedTestsPass, Accepts
  <2> QED
    BY <1>2, <1>3, <2>3, <2>4 DEF ExitCode, LeavesRecord
<1> QED
  BY <1>1, <1>3, <1>10, <1>11, <1>12, <1>13, <1>15, <1>16 DEF Discriminates

LEMMA DiscoveryBegins == DiscoveryInit => DiscoveryInv
<1> SUFFICES ASSUME DiscoveryInit PROVE DiscoveryInv
  OBVIOUS
<1>1. Registered \in [code : Codes, present : SUBSET Names]
  BY DiscoveryAssumption DEF Registered
<1> QED
  BY <1>1 DEF DiscoveryInit, DiscoveryInv, SourceOnce, Measured, Measuring, Unmeasured, AsExpected,
     FrozenDiscriminates

\* What a checker accepts depends on the scope and the profile only.
LEMMA DiscriminatesStays ==
  ASSUME UNCHANGED <<native, selected>>
  PROVE  \A p : Discriminates(p) => Discriminates(p)'
<1>1. \A p, c : Accepts(p, c)' = Accepts(p, c)
  BY DEF Accepts
<1> QED
  BY <1>1 DEF Discriminates

LEMMA FrozenStays ==
  ASSUME FrozenDiscriminates, UNCHANGED <<native, selected, doing, frozen>>
  PROVE  FrozenDiscriminates'
<1>1. CASE doing = "frozen"
  BY <1>1, DiscriminatesStays DEF FrozenDiscriminates
<1>2. CASE doing # "frozen"
  BY <1>2 DEF FrozenDiscriminates
<1> QED
  BY <1>1, <1>2

\* Before the proposal nothing is measured.
LEMMA SelectionKeeps ==
  ASSUME DiscoveryInv, UNCHANGED <<native, source, edits, frozen>>,
         doing \notin Measuring \cup {"frozen", "failed"}, doing' \notin Measuring \cup {"frozen"},
         UNCHANGED control
  PROVE  DiscoveryInv'
  BY DEF DiscoveryInv, SourceOnce, Registered, Measured, Measuring, Unmeasured, AsExpected, FrozenDiscriminates

LEMMA RetryKeeps ==
  ASSUME DiscoveryInv, Retry, UNCHANGED <<native, source, edits, frozen>>
  PROVE  DiscoveryInv'
<1>1. doing' \in {"failed", "propose"} /\ control' = <<>>
  BY DEF Retry
<1> QED
  BY <1>1 DEF DiscoveryInv, SourceOnce, Registered, Measured, Measuring, Unmeasured, AsExpected, FrozenDiscriminates

LEMMA DiscoveryStep == TestRulesSound /\ MaxEdits \in {0, 1} /\ DiscoveryInv /\ [DiscoveryNext]_discoveryVars => DiscoveryInv'
<1> SUFFICES ASSUME TestRulesSound, MaxEdits \in {0, 1}, DiscoveryInv, [DiscoveryNext]_discoveryVars
             PROVE  DiscoveryInv'
  OBVIOUS
<1>1. CASE BreaksOff
  BY <1>1 DEF BreaksOff, DiscoveryInv, SourceOnce, Registered, Measured, Measuring, Unmeasured, AsExpected,
     FrozenDiscriminates
<1>2. CASE Gather \/ Prompt
  <2>1. /\ UNCHANGED <<native, source, edits, frozen, control>>
        /\ doing = "gather" /\ doing' \in {"gather", "select"}
    BY <1>2 DEF Gather, Prompt, measurement
  <2> QED
    BY <2>1, SelectionKeeps DEF Measuring
<1>3. CASE InvalidAnswer \/ ReadMore \/ Select
  <2>1. UNCHANGED <<native, source, edits, frozen, control>> /\ doing = "select"
    BY <1>3 DEF InvalidAnswer, ReadMore, Select, Besides, measurement
  <2>2. doing' \in {"gather", "failed", "prepare"}
    BY <1>3 DEF InvalidAnswer, ReadMore, Select, Refuse, Requested, Correct
  <2> QED
    BY <2>1, <2>2, SelectionKeeps DEF Measuring
<1>4. CASE Prepare
  <2>1. /\ UNCHANGED <<native, source, edits, frozen, control>>
        /\ doing = "prepare" /\ doing' \in {"propose", "failed"}
    BY <1>4 DEF Prepare
  <2> QED
    BY <2>1, SelectionKeeps DEF Measuring
<1>5. CASE ProposeChecker
  <2>1. /\ doing = "propose" /\ doing' = "measure" /\ control' = control
        /\ UNCHANGED <<native, source, edits, selected, frozen>>
        /\ proposal' \in Proposals
    BY <1>5 DEF ProposeChecker, Proposals
  <2>2. control = <<>>
    BY <2>1 DEF DiscoveryInv, Unmeasured, Measuring
  <2>3. Proposals' = Proposals
    BY <2>1 DEF Proposals, Edits
  <2>4. Len(control') = 0 /\ control' \in Seq({0, 1})
    BY <2>1, <2>2
  <2>5. Measured'
    BY <2>1, <2>3, <2>4 DEF Measured
  <2> QED
    BY <2>1, <2>5 DEF DiscoveryInv, SourceOnce, Registered, Measuring, Unmeasured, AsExpected, FrozenDiscriminates
<1>6. CASE InvalidProposal
  BY <1>6, RetryKeeps DEF InvalidProposal
<1>7. CASE Measure
  <2>1. /\ doing = "measure" /\ Len(control) < 5
        /\ UNCHANGED <<native, source, edits, selected, frozen>>
    BY <1>7 DEF Measure, Controls
  <2>2. PICK code \in {0, 1, Nil} :
           LET name == Controls[Len(control) + 1] IN
           /\ code = ExitCode(Specimen(name), proposal)
           /\ IF name = "test_weakening" /\ proposal.good.tests = Nil THEN Retry
              ELSE IF code = Nil THEN doing' = "failed" /\ UNCHANGED measurement
              ELSE control' = Append(control, code) /\ UNCHANGED <<doing, attempt, proposal>>
    BY <1>7 DEF Measure
  <2>3. CASE Retry
    BY <2>1, <2>3, RetryKeeps
  <2>4. CASE doing' = "failed"
    BY <2>1, <2>4 DEF DiscoveryInv, SourceOnce, Registered, Measured, Measuring, Unmeasured, AsExpected,
       FrozenDiscriminates
  <2>5. CASE /\ control' = Append(control, code) /\ UNCHANGED <<doing, attempt, proposal>> /\ code # Nil
             /\ ~(Controls[Len(control) + 1] = "test_weakening" /\ proposal.good.tests = Nil)
    <3>1. control \in Seq({0, 1}) /\ code \in {0, 1} /\ Len(control) \in Nat
      BY <2>1, <2>5 DEF DiscoveryInv, Measured, Measuring
    <3>2. /\ control' \in Seq({0, 1}) /\ Len(control') = Len(control) + 1
          /\ control'[Len(control) + 1] = code
          /\ \A k \in 1..Len(control) : control'[k] = control[k]
      BY <2>5, <3>1
    <3>3. \A name : ExitCode(Specimen(name), proposal)' = ExitCode(Specimen(name), proposal)
      BY <2>1, <2>5 DEF ExitCode, Specimen, Copy, GuardHolds, WithinScope, NoNewModule, Registered,
         LeavesRecord, AddedTestsPass
    <3>4. Len(control') > 3 => proposal'.good.tests # Nil
      <4>1. Len(control) = 3 => Controls[Len(control) + 1] = "test_weakening"
        BY DEF Controls
      <4> QED
        <5>1. proposal' = proposal /\ (Len(control) > 3 => proposal.good.tests # Nil)
          BY <2>1, <2>5 DEF DiscoveryInv, Measured, Measuring
        <5>2. Len(control) = 3 => proposal.good.tests # Nil
          BY <2>5, <4>1
        <5> QED
          <6>1. Len(control') > 3 => Len(control) = 3 \/ Len(control) > 3
            <7>1. PICK n \in Nat : n = Len(control)
              BY <3>1
            <7>2. PICK m : m = Len(control')
              OBVIOUS
            <7>3. m = n + 1
              BY <3>2, <7>1, <7>2
            <7>4. m > 3 => n = 3 \/ n > 3
              BY <7>3
            <7> QED
              BY <7>1, <7>2, <7>4
          <6>2. proposal'.good.tests = proposal.good.tests
            BY <5>1
          <6> QED
            BY <5>1, <5>2, <6>1, <6>2
    <3>5. ASSUME edits' = 0, NEW k \in 1..Len(control')
          PROVE  control'[k] = ExitCode(Specimen(Controls[k]), proposal)'
      <4>1. CASE k = Len(control) + 1
        BY <2>2, <3>2, <3>3, <4>1
      <4>2. CASE k # Len(control) + 1
        <5>1. k \in 1..Len(control)
          BY <3>1, <3>2, <4>2
        <5>2. control[k] = ExitCode(Specimen(Controls[k]), proposal)
          BY <2>1, <3>5, <5>1 DEF DiscoveryInv, Measured, Measuring
        <5> QED
          BY <3>2, <3>3, <5>1, <5>2
      <4> QED
        BY <4>1, <4>2
    <3>6. proposal' \in Proposals'
      <4>1. proposal \in Proposals
        BY <2>1 DEF DiscoveryInv, Measured, Measuring
      <4>2. Proposals' = Proposals
        BY <2>1 DEF Proposals, Edits
      <4> QED
        BY <2>5, <4>1, <4>2
    <3>7. Measured'
      BY <3>2, <3>4, <3>5, <3>6 DEF Measured
    <3> QED
      BY <2>1, <2>5, <3>7 DEF DiscoveryInv, SourceOnce, Registered, Measuring, Unmeasured, AsExpected, FrozenDiscriminates
  <2> QED
    BY <2>2, <2>3, <2>4, <2>5
<1>8. CASE Compare
  <2>1. doing = "measure" /\ Len(control) = Len(Controls) /\ UNCHANGED <<native, source, edits, selected, frozen>>
    BY <1>8 DEF Compare
  <2>2. CASE Retry
    BY <2>1, <2>2, RetryKeeps
  <2>3. CASE /\ \A k \in 1..Len(Controls) : control[k] = Expected(Controls[k])
             /\ doing' = "freeze" /\ UNCHANGED measurement
    <3>1. \A name : ExitCode(Specimen(name), proposal)' = ExitCode(Specimen(name), proposal)
      BY <2>1, <2>3 DEF ExitCode, Specimen, Copy, GuardHolds, WithinScope, NoNewModule, Registered,
         LeavesRecord, AddedTestsPass, measurement
    <3>2. Proposals' = Proposals
      BY <2>1 DEF Proposals, Edits
    <3>3. proposal' = proposal /\ control' = control
      BY <2>3 DEF measurement
    <3>4. Measured'
      BY <2>1, <3>1, <3>2, <3>3 DEF DiscoveryInv, Measured, Measuring
    <3> QED
      BY <2>1, <2>3, <3>3, <3>4 DEF DiscoveryInv, SourceOnce, Registered, Measuring, Unmeasured, AsExpected, FrozenDiscriminates
  <2> QED
    BY <1>8, <2>2, <2>3 DEF Compare
<1>9. CASE Freeze
  <2>1. UNCHANGED <<native, source, edits>> /\ doing = "freeze"
    BY <1>9 DEF Freeze
  <2>2. CASE LastLook /\ doing' = "frozen" /\ frozen' = proposal
    <3>1. FrozenDiscriminates'
      <4>1. Discriminates(proposal)
        BY <2>1, <2>2, ControlsDiscriminate DEF LastLook
      <4>2. UNCHANGED <<native, selected>>
        BY <1>9 DEF Freeze
      <4> QED
        BY <2>2, <4>1, <4>2, DiscriminatesStays DEF FrozenDiscriminates
    <3> QED
      BY <2>1, <2>2, <3>1 DEF DiscoveryInv, SourceOnce, Registered, Measured, Measuring, Unmeasured, AsExpected
  <2>3. CASE doing' = "failed"
    BY <2>1, <2>3 DEF DiscoveryInv, SourceOnce, Registered, Measured, Measuring, Unmeasured, AsExpected, FrozenDiscriminates
  <2> QED
    BY <1>9, <2>2, <2>3 DEF Freeze
<1>10. CASE Edit
  <2>1. /\ edits = 0 /\ edits' = 1 /\ source = Registered
        /\ UNCHANGED <<native, doing, selection, selected, measurement, frozen>>
    <3>1. edits \in {0, 1} /\ edits < MaxEdits /\ edits' = edits + 1
      BY <1>10 DEF Edit, DiscoveryInv, SourceOnce
    <3>2. edits = 0 /\ edits' = 1
      BY <3>1
    <3> QED
      BY <1>10, <3>2 DEF Edit, DiscoveryInv, SourceOnce
  <2>2. source' # Registered /\ source' \in [code : Codes, present : SUBSET Names]
    <3>1. CASE \E c \in Codes \ {Base} : source' = [source EXCEPT !.code = c]
      BY <2>1, <3>1 DEF DiscoveryInv, SourceOnce, Registered
    <3>2. CASE \E n \in Names \ (Secret \cup {CodeFile}) :
                 source' = [source EXCEPT !.present = SymDiff(@, {n})]
      BY <2>1, <3>2 DEF DiscoveryInv, SourceOnce, Registered, SymDiff
    <3> QED
      BY <1>10, <3>1, <3>2 DEF Edit
  <2>3. SourceOnce'
    BY <2>1, <2>2 DEF DiscoveryInv, SourceOnce, Registered
  <2>4. Measured'
    BY <2>1 DEF DiscoveryInv, Measured, Measuring, Proposals, Edits, measurement
  <2> QED
    BY <2>1, <2>3, <2>4, FrozenStays DEF DiscoveryInv, Measuring, Unmeasured, AsExpected, measurement
<1>11. CASE UNCHANGED discoveryVars
  <2>1. /\ UNCHANGED <<native, source, edits, doing, selected, proposal, control, frozen>>
    BY <1>11 DEF discoveryVars, measurement
  <2>2. \A name : ExitCode(Specimen(name), proposal)' = ExitCode(Specimen(name), proposal)
    BY <2>1 DEF ExitCode, Specimen, Copy, GuardHolds, WithinScope, NoNewModule, Registered,
       LeavesRecord, AddedTestsPass
  <2>3. Measured'
    BY <2>1, <2>2 DEF DiscoveryInv, Measured, Measuring, Proposals, Edits
  <2> QED
    BY <2>1, <2>3, FrozenStays DEF DiscoveryInv, SourceOnce, Registered, Measuring, Unmeasured, AsExpected
<1> QED
  BY <1>1, <1>2, <1>3, <1>4, <1>5, <1>6, <1>7, <1>8, <1>9, <1>10, <1>11 DEF DiscoveryNext, Controller

\* What is frozen tells good from bad on the source it is frozen with, if somebody changes that
\* source at most once: whoever changes it back between two controls fools the digest.
THEOREM WhatIsFrozen == MaxEdits \in {0, 1} => (DiscoverySpec => []FrozenDiscriminates)
<1> SUFFICES ASSUME MaxEdits \in {0, 1} PROVE DiscoverySpec => []FrozenDiscriminates
  OBVIOUS
<1>1. DiscoveryInit => DiscoveryInv
  BY DiscoveryBegins
<1>2. DiscoveryInv /\ [DiscoveryNext]_discoveryVars => DiscoveryInv'
  BY RulesAreSound, DiscoveryStep
<1>3. DiscoveryInv => FrozenDiscriminates
  BY DEF DiscoveryInv
<1> QED
  BY <1>1, <1>2, <1>3, PTL DEF DiscoverySpec
=============================================================================
