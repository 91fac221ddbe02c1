---------------------------- MODULE FormalProofs ----------------------------
(***************************************************************************)
(* What a formal job, and a campaign of such jobs, may be relied on for.   *)
(*                                                                         *)
(* A job: proved for any contents, checks and contracts, any number of     *)
(* processes that run it, and whatever somebody else changes meanwhile.    *)
(*                                                                         *)
(* A campaign: it never repeats a job, and runs none after a result that   *)
(* says stop, for any plan, any number of failures that are permitted and  *)
(* any number of processes that die.                                       *)
(***************************************************************************)
EXTENDS FormalRun, Campaign, FiniteSetTheorems, SequenceTheorems, TLAPS

-----------------------------------------------------------------------------
(* Stages.  A job that has a worktree was begun: the preflight of another  *)
(* process does not get past it, so only the process that added it has     *)
(* stages to run, and it runs them in their order.                         *)

Begins == {"off", "preflight", "close"}
\* From the first implementation to the audit.
Implements == {"implementer", "check", "commands", "diff", "compare", "judge", "freeze", "bundle",
               "external", "auditor"}

StagesTyped ==
    /\ contract \in Contracts /\ ran \in [Roles -> Nat] /\ attempt \in Nat
    /\ candidate \in Contents \cup {None}

NoneBefore ==
    /\ candidate = None => pc \in Begins /\ \A r \in Roles : ran[r] = 0
    /\ pc \in {"baseline", "planner"} => \A r \in Roles : ran[r] = 0
    /\ pc \in {"preflight", "baseline", "planner", "planned"} => attempt = 0
    /\ pc = "planned" => ran["implementer"] = 0 /\ ran["auditor"] = 0

InTheirOrder ==
    /\ pc \in Implements =>
        /\ ran["implementer"] = attempt /\ ran["auditor"] = 0
        /\ attempt <= contract.repairs + 1 /\ ~contract.plannerOnly
    /\ pc = "implementer" => attempt <= contract.repairs
    /\ pc = "auditor" => contract.backend # "strata"

StagesInv == StagesTyped /\ NoneBefore /\ InTheirOrder /\ StagesRunOnce

LEMMA StagesInit == Init => StagesInv
  BY FormalRunAssumption
  DEF Init, StagesInv, StagesTyped, NoneBefore, InTheirOrder, StagesRunOnce, Begins, Implements, Roles

LEMMA StagesStep == StagesInv /\ [Next]_vars => StagesInv'
<1> SUFFICES ASSUME StagesInv, [Next]_vars PROVE StagesInv'
  OBVIOUS
<1>0. contract.repairs \in Nat
  BY FormalRunAssumption DEF StagesInv, StagesTyped
<1> USE <1>0, FormalRunAssumption
    DEF StagesInv, StagesTyped, NoneBefore, InTheirOrder, StagesRunOnce, Begins, Implements, Roles,
        Goto, Step, process, service, tree, judging, frozen, gate
<1>1. CASE Preflight
  BY <1>1 DEF Preflight, CandidateFree
<1>2. CASE Baseline
  BY <1>2 DEF Baseline
<1>3. CASE StartServer
  BY <1>3 DEF StartServer
<1>4. CASE Unload
  BY <1>4 DEF Unload, Model, RoleModel
<1>5. CASE Await
  BY <1>5 DEF Await, Looks
<1>6. CASE Load
  BY <1>6 DEF Load, Looks, Model, RoleModel
<1>7. CASE Loaded
  BY <1>7 DEF Loaded, Model, RoleModel
<1>8. CASE PlannerRuns
  BY <1>8 DEF PlannerRuns, Begun
<1>9. CASE Planned
  BY <1>9 DEF Planned
<1>10. CASE ImplementerRuns
  BY <1>10 DEF ImplementerRuns, Begun
<1>11. CASE BeginChecks
  BY <1>11 DEF BeginChecks
<1>12. CASE RunCommands
  BY <1>12 DEF RunCommands
<1>13. CASE RunDiffCheck
  BY <1>13 DEF RunDiffCheck
<1>14. CASE EndChecks
  BY <1>14 DEF EndChecks, Unmoved, InAllowedFiles
<1>15. CASE Judge
  BY <1>15 DEF Judge, AttemptsLeft
<1>16. CASE FreezePatch
  BY <1>16 DEF FreezePatch
<1>17. CASE FreezeBundle
  BY <1>17 DEF FreezeBundle
<1>18. CASE FreezeExternal
  BY <1>18 DEF FreezeExternal
<1>19. CASE VerifyExternal
  BY <1>19 DEF VerifyExternal
<1>20. CASE AuditorRuns
  BY <1>20 DEF AuditorRuns, Begun
<1>21. CASE ConfirmAudit
  BY <1>21 DEF ConfirmAudit
<1>22. CASE Refused
  BY <1>22 DEF Refused
<1>23. CASE Close
  BY <1>23 DEF Close, StopServer, StopRouter
<1>24. CASE Start
  BY <1>24 DEF Start, LockFree
<1>25. CASE Crash
  BY <1>25 DEF Crash
<1>26. ASSUME NEW m \in Models, RouterMoves(m) PROVE StagesInv'
  BY <1>26 DEF RouterMoves
<1>27. CASE VerifyBundle
  BY <1>27 DEF VerifyBundle, AuditValid, BundleWhole, Accepted
<1>28. CASE VerifyPatch
  BY <1>28 DEF VerifyPatch, PatchBound
<1>29. ASSUME NEW thing \in Touchable, Touch(thing) PROVE StagesInv'
  BY <1>29 DEF Touch
<1>30. CASE ForeignStopped
  BY <1>30 DEF ForeignStopped
<1>31. CASE UNCHANGED vars
  BY <1>31 DEF vars
<1> QED
  BY <1>1, <1>2, <1>3, <1>4, <1>5, <1>6, <1>7, <1>8, <1>9, <1>10, <1>11, <1>12, <1>13,
     <1>14, <1>15, <1>16, <1>17, <1>18, <1>19, <1>20, <1>21, <1>22, <1>23, <1>24, <1>25,
     <1>26, <1>27, <1>28, <1>29, <1>30, <1>31 DEF Next, Runner

\* However often the job is started, killed and started again, no stage begins a second time,
\* repairs stay within the contract, and nothing begins behind a planner-only boundary (run).
THEOREM StagesOnce == Spec => []StagesRunOnce
<1>1. StagesInv => StagesRunOnce
  BY DEF StagesInv
<1> QED
  BY StagesInit, StagesStep, <1>1, PTL DEF Spec
-----------------------------------------------------------------------------
(* The router.  A model is loaded only when three looks found none, and    *)
(* the model that is unloaded first is the one the run has loaded.         *)

OneAlive == \A m, n \in Models : router[m] # "unloaded" /\ router[n] # "unloaded" => m = n

RouterTyped ==
    /\ router \in [Models -> {"unloaded", "loading", "loaded", "unloading"}]
    /\ loaded \in Models \cup {None} /\ stable \in Nat
    /\ at \in {"enter", "unload", "load", "run"}

\* A model that is loaded, or being loaded, is so at a server of this run.
OwnServer ==
    pc \notin {"off", "close"} =>
        /\ Owned /\ (loaded # None \/ at \in {"unload", "load"}) => server = "owned"
        /\ Owned /\ loaded # None /\ at # "unload" => router[loaded] = "loaded"

LooksAreOfNow ==
    /\ at # "enter" => pc \in Roles
    /\ pc \notin {"off", "close"} =>
        /\ at \in {"unload", "load"} => Owned
        /\ at # "unload" => stable = 0
        /\ at = "unload" /\ stable > 0 => \A m \in Models : router[m] = "unloaded"

RouterInv == RouterTyped /\ OwnServer /\ LooksAreOfNow /\ OneAlive

LEMMA RouterInit == Init => RouterInv
  BY FormalRunAssumption DEF Init, RouterInv, RouterTyped, OwnServer, LooksAreOfNow, OneAlive, Models

LEMMA RouterStep == RouterInv /\ [Next]_vars => RouterInv'
<1> SUFFICES ASSUME RouterInv, [Next]_vars PROVE RouterInv'
  OBVIOUS
<1> USE FormalRunAssumption DEF RouterInv, RouterTyped, OwnServer, LooksAreOfNow, OneAlive, Models, Roles, Owned,
        Goto, Step, process, service, tree, judging, frozen, gate
<1>1. CASE Preflight
  BY <1>1 DEF Preflight, CandidateFree
<1>2. CASE Baseline
  BY <1>2 DEF Baseline
<1>3. CASE StartServer
  BY <1>3 DEF StartServer
<1>4. CASE Unload
  BY <1>4 DEF Unload, Model, RoleModel
<1>5. CASE Await
  BY <1>5 DEF Await, Looks
<1>6. CASE Load
  BY <1>6 DEF Load, Looks, Model, RoleModel
<1>7. CASE Loaded
  BY <1>7 DEF Loaded, Model, RoleModel
<1>8. CASE PlannerRuns
  BY <1>8 DEF PlannerRuns, Begun
<1>9. CASE Planned
  BY <1>9 DEF Planned
<1>10. CASE ImplementerRuns
  BY <1>10 DEF ImplementerRuns, Begun
<1>11. CASE BeginChecks
  BY <1>11 DEF BeginChecks
<1>12. CASE RunCommands
  BY <1>12 DEF RunCommands, Judgement
<1>13. CASE RunDiffCheck
  BY <1>13 DEF RunDiffCheck
<1>14. CASE EndChecks
  BY <1>14 DEF EndChecks, Unmoved, InAllowedFiles
<1>15. CASE Judge
  BY <1>15 DEF Judge, AttemptsLeft
<1>16. CASE FreezePatch
  BY <1>16 DEF FreezePatch
<1>17. CASE FreezeBundle
  BY <1>17 DEF FreezeBundle
<1>18. CASE FreezeExternal
  BY <1>18 DEF FreezeExternal
<1>19. CASE VerifyExternal
  BY <1>19 DEF VerifyExternal
<1>20. CASE AuditorRuns
  BY <1>20 DEF AuditorRuns, Begun
<1>21. CASE ConfirmAudit
  BY <1>21 DEF ConfirmAudit
<1>22. CASE Refused
  BY <1>22 DEF Refused
<1>23. CASE Close
  BY <1>23 DEF Close, StopServer, StopRouter
<1>24. CASE Start
  BY <1>24 DEF Start, LockFree
<1>25. CASE Crash
  BY <1>25 DEF Crash
<1>26. ASSUME NEW m \in Models, RouterMoves(m) PROVE RouterInv'
  BY <1>26 DEF RouterMoves
<1>27. CASE VerifyBundle
  BY <1>27 DEF VerifyBundle, AuditValid, BundleWhole
<1>28. CASE VerifyPatch
  BY <1>28 DEF VerifyPatch, PatchBound
<1>29. ASSUME NEW thing \in Touchable, Touch(thing) PROVE RouterInv'
  BY <1>29 DEF Touch
<1>30. CASE ForeignStopped
  BY <1>30 DEF ForeignStopped
<1>31. CASE UNCHANGED vars
  BY <1>31 DEF vars
<1> QED
  BY <1>1, <1>2, <1>3, <1>4, <1>5, <1>6, <1>7, <1>8, <1>9, <1>10, <1>11, <1>12, <1>13,
     <1>14, <1>15, <1>16, <1>17, <1>18, <1>19, <1>20, <1>21, <1>22, <1>23, <1>24, <1>25,
     <1>26, <1>27, <1>28, <1>29, <1>30, <1>31 DEF Next, Runner

\* The router never holds two models, although it unloads in its own time and the process may be
\* killed at any step (load_model).
THEOREM OneModel == Spec => []OneModelAtATime
<1>1. RouterInv => OneModelAtATime
  <2> SUFFICES ASSUME RouterInv PROVE OneModelAtATime
    OBVIOUS
  <2> DEFINE alive == {m \in Models : router[m] # "unloaded"}
  <2>1. CASE alive = {}
    BY <2>1, FS_EmptySet DEF OneModelAtATime
  <2>2. CASE alive # {}
    <3>1. PICK m \in Models : router[m] # "unloaded"
      BY <2>2
    <3>2. alive = {m}
      BY <3>1 DEF RouterInv, OneAlive
    <3>3. Cardinality(alive) = 1
      BY <3>2, FS_Singleton
    <3> QED
      BY <3>3 DEF OneModelAtATime
  <2> QED
    BY <2>1, <2>2
<1> QED
  BY RouterInit, RouterStep, <1>1, PTL DEF Spec

-----------------------------------------------------------------------------
(* Frozen and audited.  What the runner compares is compared with what the *)
(* checks were run on: a content that was changed since is found by some   *)
(* comparison, because nobody changes it back.                             *)

Good == (Passing \cap InScope) \ {Base}

FilesTyped ==
    /\ {candidate, before} \subseteq Contents \cup {None}
    /\ bundle \in Bundles \cup {None}

\* Between the snapshot and the comparison only somebody else can change the worktree.
ChecksAreOfBefore ==
    /\ pc \in {"commands", "diff", "compare"} /\ "candidate" \notin touched => candidate = before
    /\ pc \in {"diff", "compare"} /\ candidate = before => verdict = Judgement(before)
    /\ pc = "judge" => verdict = Judgement(before) /\ before \in InScope
    /\ pc \in {"freeze", "bundle"} => before \in Good

\* The binding of a bundle never changes, its audit is made once.
BundleIsGood ==
    /\ bundle # None => bundle.bound \in Good
    /\ audit # None => ran["auditor"] > 0

Audited(c) == audit # None /\ bundle # None /\ bundle.bound = c
              /\ audit.accepts /\ audit.complete /\ audit.of = c
VerifiedIsAudited ==
    /\ verifying # None => Audited(verifying)
    /\ verified # None => Audited(verified)

BundleInv == FilesTyped /\ ChecksAreOfBefore /\ BundleIsGood /\ VerifiedIsAudited

LEMMA BundleInit == Init => BundleInv
  BY FormalRunAssumption
  DEF Init, BundleInv, FilesTyped, ChecksAreOfBefore, BundleIsGood, VerifiedIsAudited

LEMMA BundleStep == StagesInv /\ BundleInv /\ [Next]_vars => BundleInv'
<1> SUFFICES ASSUME StagesInv, BundleInv, [Next]_vars PROVE BundleInv'
  OBVIOUS
<1>0. ran \in [Roles -> Nat] /\ (pc = "auditor" => ran["auditor"] = 0)
  BY DEF StagesInv, StagesTyped, InTheirOrder, Implements
<1> USE <1>0, FormalRunAssumption
    DEF BundleInv, FilesTyped, ChecksAreOfBefore, BundleIsGood, VerifiedIsAudited, Audited, Good,
        Bundles, Roles, Goto, Step, process, service, tree, judging, frozen, gate
<1>1. CASE Preflight
  BY <1>1 DEF Preflight, CandidateFree
<1>2. CASE Baseline
  BY <1>2 DEF Baseline
<1>3. CASE StartServer
  BY <1>3 DEF StartServer
<1>4. CASE Unload
  BY <1>4 DEF Unload, Model, RoleModel
<1>5. CASE Await
  BY <1>5 DEF Await, Looks
<1>6. CASE Load
  BY <1>6 DEF Load, Looks, Model, RoleModel
<1>7. CASE Loaded
  BY <1>7 DEF Loaded, Model, RoleModel
<1>8. CASE PlannerRuns
  BY <1>8 DEF PlannerRuns, Begun
<1>9. CASE Planned
  BY <1>9 DEF Planned
<1>10. CASE ImplementerRuns
  BY <1>10 DEF ImplementerRuns, Begun
<1>11. CASE BeginChecks
  BY <1>11 DEF BeginChecks
<1>12. CASE RunCommands
  BY <1>12 DEF RunCommands, Judgement
<1>13. CASE RunDiffCheck
  BY <1>13 DEF RunDiffCheck
<1>14. CASE EndChecks
  BY <1>14 DEF EndChecks, Unmoved, InAllowedFiles
<1>15. CASE Judge
  <2>1. verdict = "passed" /\ pc = "judge" => before \in Passing /\ before \in InScope
    BY DEF Judgement
  <2> QED
    BY <1>15, <2>1 DEF Judge, AttemptsLeft
<1>16. CASE FreezePatch
  BY <1>16 DEF FreezePatch
<1>17. CASE FreezeBundle
  BY <1>17 DEF FreezeBundle
<1>18. CASE FreezeExternal
  BY <1>18 DEF FreezeExternal
<1>19. CASE VerifyExternal
  BY <1>19 DEF VerifyExternal
<1>20. CASE AuditorRuns
  BY <1>20 DEF AuditorRuns, Begun
<1>21. CASE ConfirmAudit
  BY <1>21 DEF ConfirmAudit
<1>22. CASE Refused
  BY <1>22 DEF Refused
<1>23. CASE Close
  BY <1>23 DEF Close, StopServer, StopRouter
<1>24. CASE Start
  BY <1>24 DEF Start, LockFree
<1>25. CASE Crash
  BY <1>25 DEF Crash
<1>26. ASSUME NEW m \in Models, RouterMoves(m) PROVE BundleInv'
  BY <1>26 DEF RouterMoves
<1>27. CASE VerifyBundle
  BY <1>27 DEF VerifyBundle, AuditValid, BundleWhole
<1>28. CASE VerifyPatch
  BY <1>28 DEF VerifyPatch, PatchBound
<1>29. ASSUME NEW thing \in Touchable, Touch(thing) PROVE BundleInv'
  BY <1>29 DEF Touch
<1>30. CASE ForeignStopped
  BY <1>30 DEF ForeignStopped
<1>31. CASE UNCHANGED vars
  BY <1>31 DEF vars
<1> QED
  BY <1>1, <1>2, <1>3, <1>4, <1>5, <1>6, <1>7, <1>8, <1>9, <1>10, <1>11, <1>12, <1>13,
     <1>14, <1>15, <1>16, <1>17, <1>18, <1>19, <1>20, <1>21, <1>22, <1>23, <1>24, <1>25,
     <1>26, <1>27, <1>28, <1>29, <1>30, <1>31 DEF Next, Runner

\* What verify_proposal_for_integration hands out passed the checks, is in scope, is what an
\* auditor accepted, and differs from the base, although each touchable thing may be changed once.
THEOREM Integrates == Spec => []IntegratesWhatWasAudited
<1>1. BundleInv => IntegratesWhatWasAudited
  BY DEF BundleInv, BundleIsGood, VerifiedIsAudited, Audited, Good, IntegratesWhatWasAudited
<1> QED
  BY StagesInit, StagesStep, BundleInit, BundleStep, <1>1, PTL DEF Spec

\* An external proposal that its verification accepts is a patch that passed
\* (verify_external_proposal).
THEOREM ExternalVerified == Spec => []ExternalIsVerified
<1>1. BundleInv => ExternalIsVerified
  BY DEF BundleInv, BundleIsGood, Good, ExternalIsVerified, ExternalProposal, BundleWhole, PatchBound
<1> QED
  BY StagesInit, StagesStep, BundleInit, BundleStep, <1>1, PTL DEF Spec

-----------------------------------------------------------------------------
(* Types.  What is read of a bundle is there when it is read.              *)

JobTyped == TypeOK /\ (pc = "auditor" => bundle # None)

LEMMA JobTypedInit == Init => JobTyped
<1> SUFFICES ASSUME Init PROVE JobTyped
  OBVIOUS
<1>1. ran \in [Roles -> Nat] /\ router \in [Models -> {"unloaded", "loading", "loaded", "unloading"}]
  BY DEF Init
<1>2. job \in [status : Statuses, outcome : Outcomes]
  BY DEF Init, Statuses, Outcomes
<1>3. contract \in Contracts /\ server \in {"none", "owned", "foreign"}
  BY DEF Init
<1>4. loaded \in Models \cup {None} /\ stable \in 0 .. 3 /\ attempt \in Nat /\ starts \in Nat
  BY DEF Init
<1>5. /\ {candidate, index, before, patch, verified, verifying} \subseteq Contents \cup {None}
      /\ verdict \in {None, "passed", "repairable", "environment"} /\ tried \subseteq Contents
  BY DEF Init
<1>6. /\ bundle \in Bundles \cup {None}
      /\ audit \in [of : Contents, accepts : BOOLEAN, complete : BOOLEAN] \cup {None}
      /\ touched \subseteq Touchable /\ retained \in BOOLEAN /\ pc # "auditor"
  BY DEF Init
<1> QED
  BY <1>1, <1>2, <1>3, <1>4, <1>5, <1>6 DEF JobTyped, TypeOK

LEMMA JobTypedStep == StagesInv /\ BundleInv /\ JobTyped /\ [Next]_vars => JobTyped'
<1> SUFFICES ASSUME StagesInv, BundleInv, JobTyped, [Next]_vars PROVE JobTyped'
  OBVIOUS
<1>0. /\ pc = "judge" => before \in Contents
      /\ pc \in {"freeze", "bundle"} => before \in Contents
  BY FormalRunAssumption DEF BundleInv, ChecksAreOfBefore, Good
<1> USE <1>0, FormalRunAssumption
    DEF JobTyped, TypeOK, Roles, Statuses, Closed, Outcomes, Bundles, Models, Goto, Step,
        process, service, tree, judging, frozen, gate
<1>1. CASE Preflight
  BY <1>1 DEF Preflight, CandidateFree
<1>2. CASE Baseline
  BY <1>2 DEF Baseline, State
<1>3. CASE StartServer
  BY <1>3 DEF StartServer
<1>4. CASE Unload
  BY <1>4 DEF Unload, Model, RoleModel
<1>5. CASE Await
  BY <1>5 DEF Await, Looks
<1>6. CASE Load
  BY <1>6 DEF Load, Looks, Model, RoleModel
<1>7. CASE Loaded
  BY <1>7 DEF Loaded, Model, RoleModel
<1>8. CASE PlannerRuns
  BY <1>8 DEF PlannerRuns, Begun
<1>9. CASE Planned
  BY <1>9 DEF Planned, Concluded, State
<1>10. CASE ImplementerRuns
  BY <1>10 DEF ImplementerRuns, Begun, State
<1>11. CASE BeginChecks
  BY <1>11 DEF BeginChecks
<1>12. CASE RunCommands
  BY <1>12 DEF RunCommands, Judgement
<1>13. CASE RunDiffCheck
  BY <1>13 DEF RunDiffCheck
<1>14. CASE EndChecks
  BY <1>14 DEF EndChecks
<1>15. CASE Judge
  BY <1>15 DEF Judge, Concluded, State
<1>16. CASE FreezePatch
  BY <1>16 DEF FreezePatch
<1>17. CASE FreezeBundle
  BY <1>17 DEF FreezeBundle, State
<1>18. CASE FreezeExternal
  BY <1>18 DEF FreezeExternal, Concluded
<1>19. CASE VerifyExternal
  <2>1. pc' = "close" /\ at' = "enter" /\ UNCHANGED <<loaded, stable, before, verdict, attempt, tried>>
        /\ UNCHANGED <<contract, job, service, tree, frozen, ran, touched, gate, starts, retained>>
    BY <1>19 DEF VerifyExternal
  <2> QED
    BY <2>1
<1>20. CASE AuditorRuns
  BY <1>20 DEF AuditorRuns, Begun
<1>21. CASE ConfirmAudit
  BY <1>21 DEF ConfirmAudit, Concluded
<1>22. CASE Refused
  BY <1>22 DEF Refused, Concluded
<1>23. CASE Close
  BY <1>23, ZenonT(60) DEF Close, StopServer, StopRouter, State
<1>24. CASE Start
  BY <1>24 DEF Start, State
<1>25. CASE Crash
  BY <1>25 DEF Crash
<1>26. ASSUME NEW m \in Models, RouterMoves(m) PROVE JobTyped'
  BY <1>26 DEF RouterMoves
<1>27. CASE VerifyBundle
  BY <1>27 DEF VerifyBundle, BundleWhole
<1>28. CASE VerifyPatch
  BY <1>28 DEF VerifyPatch, PatchBound
<1>29. ASSUME NEW thing \in Touchable, Touch(thing) PROVE JobTyped'
  BY <1>29 DEF Touch
<1>30. CASE ForeignStopped
  BY <1>30 DEF ForeignStopped
<1>31. CASE UNCHANGED vars
  BY <1>31 DEF vars
<1> QED
  BY <1>1, <1>2, <1>3, <1>4, <1>5, <1>6, <1>7, <1>8, <1>9, <1>10, <1>11, <1>12, <1>13,
     <1>14, <1>15, <1>16, <1>17, <1>18, <1>19, <1>20, <1>21, <1>22, <1>23, <1>24, <1>25,
     <1>26, <1>27, <1>28, <1>29, <1>30, <1>31 DEF Next, Runner

\* What a job keeps on disk and in its process is of its types, whoever changes it in between.
THEOREM FormalTyped == Spec => []TypeOK
<1>1. JobTyped => TypeOK
  BY DEF JobTyped
<1> QED
  BY StagesInit, StagesStep, BundleInit, BundleStep, JobTypedInit, JobTypedStep, <1>1, PTL DEF Spec

-----------------------------------------------------------------------------
(* The campaign: which jobs it submitted, and what each state says of them. *)

Rows == [status : {"running"} \cup Ended, next : Nat, failures : Nat,
         results : Seq(Nat), active : Nat \cup {Nil}]

\* What a state, in memory or on disk, says of the jobs: those it counts have ended, and the one it
\* calls active is the last one submitted.
Fits(state, js) ==
    /\ state \in Rows /\ state.next <= Len(js) /\ state.next <= N
    /\ \A k \in 1 .. state.next : js[k].status \in Settled
    /\ state.active # Nil => state.active = Len(js) /\ Len(js) = state.next + 1

StatesFit ==
    /\ disk # Nil => root /\ Fits(disk, jobs)
    /\ place # "off" => root /\ Fits(mem, jobs)

\* Jobs are submitted in the order of the specs, each after its submission file was made, and all
\* but the last one have ended.
JobsFit ==
    /\ jobs \in Seq(Jobs)
    /\ \A k \in 1 .. Len(jobs) : jobs[k].spec = k /\ k \in submission
    /\ \A k \in 1 .. Len(jobs) : k < Len(jobs) => jobs[k].status \in Settled

\* A process works on what it has saved.
Held ==
    /\ place \in {"interrupted", "count", "thaw", "loop", "submit", "run", "running", "record", "decide"} =>
          mem = disk
    /\ place \in {"interrupted", "count", "activate", "run", "running", "record"} => mem.active # Nil
    /\ place \in {"enter", "thaw", "loop", "submit", "decide"} => mem.active = Nil
    /\ place \in {"count", "record"} => jobs[mem.active].status \in Settled
    /\ place = "submit" => mem.next = Len(jobs) /\ mem.next < N /\ mem.next + 1 \in submission

RunsFit ==
    /\ runs \in [Specs -> Nat]
    /\ \A i \in Specs : runs[i] <= 1 /\ (runs[i] > 0 => i <= Len(jobs))
    /\ place \in {"activate", "run"} => runs[Len(jobs)] = 0

IInv == StatesFit /\ JobsFit /\ Held /\ RunsFit

LEMMA InitHolds == CampaignInit => IInv
  BY CampaignAssumption
  DEF CampaignInit, IInv, StatesFit, JobsFit, Held, RunsFit, Specs

\* A state is a state, whatever its status.
LEMMA StatusFits ==
  ASSUME NEW state, NEW js, Fits(state, js), NEW x \in {"stopped", "failed", "completed"}
  PROVE  LET new == [state EXCEPT !.status = x]
         IN Fits(new, js) /\ new.active = state.active /\ new.next = state.next
  BY DEF Fits, Rows, Ended

\* A job that ended can be counted.
LEMMA CountedFits ==
  ASSUME place # "off", StatesFit, JobsFit, mem.active # Nil, jobs[mem.active].status \in Settled
  PROVE  Fits(Counted(mem.active), jobs) /\ Counted(mem.active).active = Nil
<1>1. mem \in Rows /\ mem.active \in Nat /\ mem.active = mem.next + 1 /\ mem.active = Len(jobs)
  BY DEF StatesFit, Fits, Rows
<1>2. Len(jobs) <= N
  <2>1. Len(jobs) \in 1 .. Len(jobs)
    BY <1>1 DEF Rows
  <2>2. jobs[Len(jobs)] \in Jobs /\ jobs[Len(jobs)].spec = Len(jobs)
    BY <2>1 DEF JobsFit
  <2> QED
    BY <2>2, CampaignAssumption DEF Jobs, Specs
<1>3. Append(mem.results, mem.active) \in Seq(Nat)
  BY <1>1 DEF Rows
<1>4. Counted(mem.active) \in Rows
  <2> DEFINE fails == IF Valid(mem.active) THEN 0 ELSE mem.failures + 1
  <2>1. fails \in Nat
    BY <1>1 DEF Rows
  <2>2. Counted(mem.active) =
          [mem EXCEPT !.results = Append(mem.results, mem.active), !.next = mem.next + 1, !.active = Nil,
                      !.failures = fails]
    BY DEF Counted
  <2> HIDE DEF fails
  <2> QED
    BY <1>1, <1>3, <2>1, <2>2 DEF Rows
<1>5. Counted(mem.active).next = mem.next + 1 /\ Counted(mem.active).active = Nil
  BY <1>1 DEF Counted, Rows
<1>6. ASSUME NEW k \in 1 .. mem.next + 1 PROVE jobs[k].status \in Settled
  <2>1. k = mem.active \/ k \in 1 .. mem.next
    BY <1>1 DEF Rows
  <2> QED
    BY <2>1 DEF StatesFit, Fits
<1> QED
  BY <1>1, <1>2, <1>4, <1>5, <1>6 DEF Fits

\* A job of its spec is changed: its end stays an end, or it is not counted yet.
LEMMA JobChanges ==
  ASSUME JobsFit, NEW k \in 1 .. Len(jobs), NEW row \in Jobs, row.spec = jobs[k].spec,
         row.status \in Settled \/ k = Len(jobs),
         UNCHANGED submission, jobs' = [jobs EXCEPT ![k] = row]
  PROVE  /\ JobsFit' /\ Len(jobs') = Len(jobs) /\ jobs'[k] = row
         /\ \A state : Fits(state, jobs) /\ (row.status \in Settled \/ state.next < k)
                          => Fits(state, jobs')
<1>1. jobs \in Seq(Jobs)
  BY DEF JobsFit
<1>2. jobs' \in Seq(Jobs) /\ Len(jobs') = Len(jobs) /\ jobs'[k] = row
      /\ \A i \in 1 .. Len(jobs) : i # k => jobs'[i] = jobs[i]
  BY <1>1
<1>3. JobsFit'
  <2>1. ASSUME NEW i \in 1 .. Len(jobs)
        PROVE  /\ jobs'[i].spec = i /\ i \in submission
               /\ i < Len(jobs) => jobs'[i].status \in Settled
    <3>1. jobs[i].spec = i /\ i \in submission /\ (i < Len(jobs) => jobs[i].status \in Settled)
      BY DEF JobsFit
    <3>2. CASE i = k
      BY <1>2, <3>1, <3>2
    <3>3. CASE i # k
      BY <1>2, <3>1, <3>3
    <3> QED
      BY <3>2, <3>3
  <2> QED
    BY <1>2, <2>1 DEF JobsFit
<1>4. ASSUME NEW state, Fits(state, jobs), row.status \in Settled \/ state.next < k
      PROVE  Fits(state, jobs')
  <2>1. ASSUME NEW i \in 1 .. state.next PROVE jobs'[i].status \in Settled
    <3>1. i \in 1 .. Len(jobs) /\ jobs[i].status \in Settled /\ i <= state.next
      BY <1>1, <1>4 DEF Fits, Rows
    <3>2. CASE i = k
      <4>1. row.status \in Settled
        BY <3>1, <3>2, <1>4 DEF Fits, Rows
      <4> QED
        BY <4>1, <1>2, <3>2
    <3>3. CASE i # k
      BY <3>1, <3>3, <1>2
    <3> QED
      BY <3>2, <3>3
  <2> QED
    BY <1>2, <1>4, <2>1 DEF Fits
<1> QED
  BY <1>2, <1>3, <1>4

LEMMA StepHolds == IInv /\ [CampaignNext]_campaignVars => IInv'
<1> SUFFICES ASSUME IInv, [CampaignNext]_campaignVars PROVE IInv'
  OBVIOUS
<1> USE CampaignAssumption
    DEF IInv, StatesFit, Held, RunsFit, Specs, GoTo
<1>0. jobs \in Seq(Jobs)
  BY DEF JobsFit
<1>1. CASE Fresh
  <2>1. Fits(mem', jobs) /\ mem'.active = Nil
    <3> DEFINE new == [status |-> "running", next |-> 0, failures |-> 0, results |-> <<>>, active |-> Nil]
    <3>1. new \in Rows /\ new.next = 0 /\ new.active = Nil
      BY DEF Rows
    <3>2. Fits(new, jobs)
      BY <3>1, <1>0 DEF Fits
    <3> QED
      BY <1>1, <3>1, <3>2 DEF Fresh
  <2> QED
    BY <1>1, <2>1 DEF Fresh, JobsFit
<1>2. CASE Resume
  BY <1>2 DEF Resume, JobsFit
<1>3. CASE CloseJob
  <2>1. mem = disk /\ mem.active = Len(jobs) /\ mem.active \in 1 .. Len(jobs)
    BY <1>3, <1>0 DEF CloseJob, Fits, Rows
  <2>2. CASE jobs[mem.active].status \in Settled
    BY <1>3, <2>1, <2>2 DEF CloseJob, JobsFit
  <2>3. CASE jobs[mem.active].status \notin Settled
    <3> DEFINE old == jobs[mem.active]
    <3> DEFINE row == [old EXCEPT !.status = "failed", !.infra = @ \/ old.spec \in Strata]
    <3>1. old \in Jobs
      BY <1>0, <2>1
    <3>2. row \in Jobs /\ row.spec = old.spec /\ row.status \in Settled
      BY <3>1 DEF Jobs, Settled
    <3>3. jobs' = [jobs EXCEPT ![mem.active] = row]
      BY <1>3, <2>3, <1>0, <2>1 DEF CloseJob
    <3> HIDE DEF old, row
    <3>4. UNCHANGED submission
      BY <1>3 DEF CloseJob
    <3>5. /\ JobsFit' /\ Len(jobs') = Len(jobs) /\ jobs'[mem.active] = row
          /\ \A state : Fits(state, jobs) => Fits(state, jobs')
      BY <2>1, <3>2, <3>3, <3>4, JobChanges DEF old
    <3> QED
      BY <1>3, <3>2, <3>5 DEF CloseJob
  <2> QED
    BY <2>2, <2>3
<1>4. CASE CountJob
  <2>1. Fits(Counted(mem.active), jobs) /\ Counted(mem.active).active = Nil
    BY <1>4, CountedFits DEF CountJob
  <2>2. Fits([Counted(mem.active) EXCEPT !.status = "stopped"], jobs)
        /\ [Counted(mem.active) EXCEPT !.status = "stopped"].active = Nil
    BY <2>1, StatusFits
  <2> QED
    BY <1>4, <2>1, <2>2 DEF CountJob, JobsFit
<1>5. CASE Enter
  <2>1. Fits(mem, jobs) /\ mem.active = Nil
    BY <1>5 DEF Enter
  <2>2. Fits(Stopped, jobs)
    BY <2>1, StatusFits DEF Stopped
  <2> QED
    BY <1>5, <2>1, <2>2 DEF Enter, Saved, JobsFit
<1>r. CASE ReadFreeze
  <2>1. Fits(FailedState, jobs)
    BY <1>r, StatusFits DEF ReadFreeze, FailedState
  <2> QED
    BY <1>r, <2>1 DEF ReadFreeze, JobsFit
<1>6. CASE EndLoop
  <2>1. \A x \in {"stopped", "failed", "completed"} : Fits([mem EXCEPT !.status = x], jobs)
    BY <1>6, StatusFits DEF EndLoop
  <2> QED
    BY <1>6, <2>1 DEF EndLoop, Stopped, FailedState, JobsFit
<1>7. CASE Observe
  <2>1. Fits(FailedState, jobs) /\ Fits(mem, jobs) /\ mem.next \in Nat
    BY <1>7, StatusFits DEF Observe, FailedState, Fits, Rows
  <2>2. NotSubmitted => mem.next = Len(jobs)
    BY <2>1, <1>0 DEF NotSubmitted, JobsFit, Fits
  <2> QED
    BY <1>7, <2>1, <2>2 DEF Observe, JobsFit
<1>8. CASE Submit
  <2> DEFINE row == [spec |-> mem.next + 1, status |-> "queued", infra |-> FALSE, sound |-> TRUE]
  <2>1. mem.next = Len(jobs) /\ mem.next < N /\ Fits(mem, jobs) /\ mem = disk /\ mem.active = Nil
    BY <1>8 DEF Submit
  <2>2. row \in Jobs /\ row.spec = Len(jobs) + 1
    BY <2>1, <1>0 DEF Jobs
  <2>3. jobs' = Append(jobs, row)
    BY <1>8 DEF Submit
  <2> HIDE DEF row
  <2>4. /\ jobs' \in Seq(Jobs) /\ Len(jobs') = Len(jobs) + 1 /\ jobs'[Len(jobs) + 1] = row
        /\ \A k \in 1 .. Len(jobs) : jobs'[k] = jobs[k]
    BY <1>0, <2>2, <2>3
  <2>5. JobsFit'
    <3>1. ASSUME NEW k \in 1 .. Len(jobs) + 1
          PROVE  /\ jobs'[k].spec = k /\ (k <= Len(jobs) => jobs'[k].status \in Settled)
                 /\ k \in submission'
      <4>1. CASE k \in 1 .. Len(jobs)
        BY <1>8, <4>1, <2>1, <2>4 DEF Submit, JobsFit, Fits
      <4>2. CASE k = Len(jobs) + 1
        <5>1. k \in submission /\ UNCHANGED submission
          BY <1>8, <4>2, <2>1 DEF Submit
        <5> QED
          BY <5>1, <4>2, <2>2, <2>4, <1>0
      <4> QED
        BY <3>1, <4>1, <4>2, <1>0
    <3> QED
      BY <3>1, <2>4, <1>0 DEF JobsFit
  <2>6. mem \in Rows /\ mem.next \in Nat /\ \A k \in 1 .. mem.next : jobs'[k].status \in Settled
    BY <2>1, <2>4 DEF Fits, Rows
  <2>7. Fits(disk', jobs')
    BY <1>8, <2>1, <2>4, <2>6 DEF Submit, Fits
  <2>8. mem' \in Rows /\ mem'.next = mem.next /\ mem'.active = Len(jobs) + 1
    <3>1. mem' = [mem EXCEPT !.active = Len(jobs) + 1] /\ Len(jobs) + 1 \in Nat
      BY <1>8, <1>0 DEF Submit
    <3> QED
      BY <2>6, <3>1 DEF Rows
  <2>9. Fits(mem', jobs')
    BY <2>1, <2>4, <2>6, <2>8 DEF Fits
  <2>10. runs[Len(jobs) + 1] = 0 /\ Len(jobs) \in Nat
    BY <1>0, <2>1
  <2>11. mem'.active # Nil
    BY <2>8, <2>10
  <2> QED
    BY <1>8, <2>1, <2>4, <2>5, <2>7, <2>9, <2>10, <2>11 DEF Submit
<1>9. CASE Activate
  BY <1>9 DEF Activate, Saved, JobsFit
<1>10. CASE RunJob
  <2>1. /\ mem = disk /\ mem.active = Len(jobs) /\ mem.active \in 1 .. Len(jobs)
        /\ mem.next \in Nat /\ Len(jobs) = mem.next + 1
    BY <1>10, <1>0 DEF RunJob, Fits, Rows
  <2> DEFINE old == jobs[mem.active]
  <2> DEFINE row == [old EXCEPT !.status = "running"]
  <2>2. old \in Jobs
    BY <1>0, <2>1
  <2>3. row \in Jobs /\ row.spec = old.spec
    BY <2>2 DEF Jobs
  <2>4. jobs' = [jobs EXCEPT ![mem.active] = row] /\ UNCHANGED submission
    BY <1>10, <1>0, <2>1 DEF RunJob
  <2> HIDE DEF row
  <2>5. /\ JobsFit' /\ Len(jobs') = Len(jobs)
        /\ \A state : Fits(state, jobs) /\ state.next < mem.active => Fits(state, jobs')
    BY <2>1, <2>3, <2>4, JobChanges
  <2>6. Fits(mem', jobs') /\ Fits(disk', jobs')
    <3>1. UNCHANGED <<mem, disk>> /\ Fits(mem, jobs) /\ mem.next < mem.active
      BY <1>10, <2>1 DEF RunJob
    <3> QED
      BY <2>1, <2>5, <3>1
  <2>7. RunsFit'
    <3>1. runs' = [runs EXCEPT ![Len(jobs)] = runs[Len(jobs)] + 1] /\ runs[Len(jobs)] = 0
      BY <1>10, <2>1 DEF RunJob
    <3>2. Len(jobs) \in Specs
      BY <2>1, <2>2 DEF JobsFit, Jobs
    <3>3. runs \in [Specs -> Nat] /\ \A i \in Specs : runs[i] <= 1 /\ (runs[i] > 0 => i <= Len(jobs))
      OBVIOUS
    <3>4. /\ runs' \in [Specs -> Nat]
          /\ \A i \in Specs : runs'[i] <= 1 /\ (runs'[i] > 0 => i <= Len(jobs))
      BY <3>1, <3>2, <3>3
    <3> QED
      BY <1>10, <2>5, <3>4 DEF RunJob
  <2> QED
    BY <1>10, <2>1, <2>5, <2>6, <2>7 DEF RunJob
<1>11. CASE JobEnds
  <2>1. /\ mem = disk /\ mem.active = Len(jobs) /\ mem.active \in 1 .. Len(jobs)
        /\ mem.next \in Nat /\ Len(jobs) = mem.next + 1
    <3>1. place = "running"
      BY <1>11 DEF JobEnds
    <3> QED
      BY <3>1, <1>0 DEF Fits, Rows
  <2>2. ASSUME NEW s \in Settled, NEW sound \in BOOLEAN, GoTo("record"), UNCHANGED mem,
               jobs' = [jobs EXCEPT ![mem.active].status = s, ![mem.active].infra = (s = "failed"),
                                    ![mem.active].sound = sound]
        PROVE  IInv'
    <3> DEFINE old == jobs[mem.active]
    <3> DEFINE row == [old EXCEPT !.status = s, !.infra = (s = "failed"), !.sound = sound]
    <3>1. old \in Jobs
      BY <1>0, <2>1
    <3>2. row \in Jobs /\ row.spec = old.spec /\ row.status \in Settled
      BY <3>1 DEF Jobs
    <3>3. jobs' = [jobs EXCEPT ![mem.active] = row] /\ UNCHANGED submission
      <4>1. UNCHANGED submission
        BY <1>11 DEF JobEnds
      <4> QED
        BY <2>2, <1>0, <2>1, <4>1
    <3> HIDE DEF row
    <3>4. /\ JobsFit' /\ Len(jobs') = Len(jobs) /\ jobs'[mem.active] = row
          /\ \A state : Fits(state, jobs) => Fits(state, jobs')
      BY <2>1, <3>2, <3>3, JobChanges
    <3> QED
      BY <1>11, <2>1, <2>2, <3>2, <3>4 DEF JobEnds
  <2>3. CASE GoTo("final") /\ mem' = FailedState /\ UNCHANGED jobs
    <3>1. Fits(FailedState, jobs)
      BY <1>11, StatusFits DEF JobEnds, FailedState
    <3> QED
      BY <1>11, <2>3, <3>1 DEF JobEnds, JobsFit
  <2>5. ASSUME NEW infra \in BOOLEAN, GoTo("final"), mem' = FailedState,
               jobs' = [jobs EXCEPT ![mem.active].status = "failed", ![mem.active].infra = infra]
        PROVE  IInv'
    <3> DEFINE old == jobs[mem.active]
    <3> DEFINE row == [old EXCEPT !.status = "failed", !.infra = infra]
    <3>1. old \in Jobs
      BY <1>0, <2>1
    <3>2. row \in Jobs /\ row.spec = old.spec /\ row.status \in Settled
      BY <3>1 DEF Jobs, Settled
    <3>3. jobs' = [jobs EXCEPT ![mem.active] = row] /\ UNCHANGED submission
      <4>1. UNCHANGED submission
        BY <1>11 DEF JobEnds
      <4> QED
        BY <2>5, <1>0, <2>1, <4>1
    <3> HIDE DEF row
    <3>4. /\ JobsFit' /\ Len(jobs') = Len(jobs) /\ jobs'[mem.active] = row
          /\ \A state : Fits(state, jobs) => Fits(state, jobs')
      BY <2>1, <3>2, <3>3, JobChanges
    <3>5. Fits(FailedState, jobs)
      BY <1>11, StatusFits DEF JobEnds, FailedState
    <3> QED
      BY <1>11, <2>1, <2>5, <3>2, <3>4, <3>5 DEF JobEnds
  <2>4. Conclusions(mem.next + 1) \subseteq Settled
    BY DEF Conclusions, Settled, Proposals
  <2> QED
    BY <1>11, <2>2, <2>3, <2>4, <2>5 DEF JobEnds
<1>12. CASE Record
  <2>1. Fits(mem, jobs) /\ mem \in Rows /\ mem.active \in Nat
    BY <1>12 DEF Record, Fits, Rows
  <2> DEFINE failed == [FailedState EXCEPT !.results = Append(@, mem.active)]
  <2>2. Fits(failed, jobs)
    <3>1. Fits(FailedState, jobs)
      BY <2>1, StatusFits DEF FailedState
    <3>2. FailedState \in Rows /\ FailedState.results \in Seq(Nat)
      BY <3>1 DEF Fits, Rows
    <3>3. Append(FailedState.results, mem.active) \in Seq(Nat)
      BY <2>1, <3>2
    <3> HIDE DEF FailedState
    <3>4. /\ failed \in Rows /\ failed.next = FailedState.next /\ failed.active = FailedState.active
      BY <3>2, <3>3 DEF Rows
    <3> QED
      BY <3>1, <3>4 DEF Fits
  <2>3. Fits(Counted(mem.active), jobs) /\ Counted(mem.active).active = Nil
    BY <1>12, CountedFits DEF Record
  <2>4. Fits([Counted(mem.active) EXCEPT !.status = "stopped"], jobs)
        /\ [Counted(mem.active) EXCEPT !.status = "stopped"].active = Nil
    BY <2>3, StatusFits
  <2> QED
    BY <1>12, <2>2, <2>3, <2>4 DEF Record, JobsFit
<1>13. CASE Decide
  <2>1. Fits(Stopped, jobs)
    BY <1>13, StatusFits DEF Decide, Stopped
  <2> QED
    BY <1>13, <2>1 DEF Decide, JobsFit
<1>14. CASE Final
  BY <1>14 DEF Final, Saved, JobsFit
<1>15. CASE Dies
  BY <1>15 DEF Dies, JobsFit
<1>16. CASE StopAsked
  BY <1>16 DEF StopAsked, JobsFit
<1>17. CASE Recapture
  BY <1>17 DEF Recapture, JobsFit
<1>18. ASSUME NEW j \in DOMAIN jobs, Spoil(j) PROVE IInv'
  <2> DEFINE row == [jobs[j] EXCEPT !.sound = FALSE]
  <2>1. j \in 1 .. Len(jobs) /\ jobs[j] \in Jobs
    BY <1>0
  <2>2. row \in Jobs /\ row.spec = jobs[j].spec /\ row.status = jobs[j].status
    BY <2>1 DEF Jobs
  <2>3. jobs[j].status \in Settled /\ jobs' = [jobs EXCEPT ![j] = row] /\ UNCHANGED submission
    BY <1>18, <1>0, <2>1 DEF Spoil
  <2> HIDE DEF row
  <2>4. /\ JobsFit' /\ Len(jobs') = Len(jobs) /\ jobs'[j] = row
        /\ \A state : Fits(state, jobs) => Fits(state, jobs')
    BY <2>1, <2>2, <2>3, JobChanges
  <2>5. \A k \in 1 .. Len(jobs) : jobs[k].status \in Settled => jobs'[k].status \in Settled
    BY <1>0, <2>2, <2>3, <2>4
  <2>6. place \in {"count", "record"} => mem.active \in 1 .. Len(jobs)
    BY <1>0 DEF Fits, Rows
  <2> QED
    BY <1>18, <2>4, <2>5, <2>6 DEF Spoil
<1>19. CASE UNCHANGED campaignVars
  BY <1>19 DEF campaignVars, JobsFit
<1> QED
  BY <1>r, <1>1, <1>2, <1>3, <1>4, <1>5, <1>6, <1>7, <1>8, <1>9, <1>10, <1>11, <1>12, <1>13, <1>14,
     <1>15, <1>16, <1>17, <1>18, <1>19 DEF CampaignNext

\* However the process dies and is resumed, no spec is submitted or run a second time, and none
\* before the one ahead of it has ended (formal_campaign.py, run).
THEOREM NothingRepeats == CampaignSpec => []SpecRunsOnce
<1>1. IInv => SpecRunsOnce
  BY DEF IInv, JobsFit, RunsFit, SpecRunsOnce
<1> QED
  BY InitHolds, StepHolds, <1>1, PTL DEF CampaignSpec

-----------------------------------------------------------------------------
(* Types.  No state counts more failures than results.                     *)

Limits ==
    /\ root \in BOOLEAN /\ stop \in BOOLEAN /\ unspoiled \in BOOLEAN /\ crashes \in Nat
    /\ submission \subseteq Specs /\ cut \subseteq 0 .. N
    /\ place \notin {"off", "enter"} => disk.next \in 0 .. N
    /\ IF place = "off" THEN mem = Nil ELSE mem.failures <= mem.next
    /\ disk # Nil => disk.failures <= disk.next

LEMMA LimitsInit == CampaignInit => Limits
<1> SUFFICES ASSUME CampaignInit PROVE Limits
  OBVIOUS
<1>1. /\ root = FALSE /\ stop = FALSE /\ unspoiled = TRUE /\ crashes = 0
      /\ disk = Nil /\ mem = Nil /\ place = "off" /\ submission = {} /\ cut = {}
  BY DEF CampaignInit
<1> QED
  BY <1>1 DEF Limits

LEMMA LimitsStep == IInv /\ Limits /\ [CampaignNext]_campaignVars => Limits'
<1> SUFFICES ASSUME IInv, Limits, [CampaignNext]_campaignVars PROVE Limits'
  OBVIOUS
<1>0. /\ place # "off" => mem \in Rows /\ mem.next \in Nat /\ mem.failures \in Nat
      /\ disk # Nil => disk \in Rows /\ disk.next \in Nat /\ disk.failures \in Nat
  BY DEF IInv, StatesFit, Fits, Rows
<1>a. \A state \in Rows, x \in {"stopped", "failed", "completed"} :
        LET new == [state EXCEPT !.status = x]
        IN  new.next = state.next /\ new.failures = state.failures
  BY DEF Rows
<1>b. \A state : Fits(state, jobs) => state.next \in 0 .. N
  <2>1. Len(jobs) \in Nat /\ N \in Nat
    BY CampaignAssumption DEF IInv, JobsFit
  <2>2. Len(jobs) <= N
    <3>1. ASSUME Len(jobs) # 0 PROVE Len(jobs) <= N
      <4>1. Len(jobs) \in 1 .. Len(jobs)
        BY <2>1, <3>1
      <4>2. jobs[Len(jobs)] \in Jobs /\ jobs[Len(jobs)].spec = Len(jobs)
        BY <4>1 DEF IInv, JobsFit
      <4> QED
        BY <4>2, CampaignAssumption DEF Jobs, Specs
    <3> QED
      BY <2>1, <3>1
  <2> QED
    BY <2>1, <2>2 DEF Fits, Rows
<1>c. /\ place # "off" => mem.next \in 0 .. N
      /\ disk # Nil => disk.next \in 0 .. N
  BY <1>b DEF IInv, StatesFit
<1> USE <1>0, <1>c, CampaignAssumption DEF Limits, Specs, GoTo
<1>1. CASE Fresh
  BY <1>1 DEF Fresh
<1>2. CASE Resume
  BY <1>2 DEF Resume
<1>3. CASE CloseJob
  BY <1>3 DEF CloseJob
<1>4. ASSUME place # "off", mem.active # Nil
      PROVE  /\ Counted(mem.active) \in Rows => Counted(mem.active).failures <= Counted(mem.active).next
  <2>1. Counted(mem.active).next = mem.next + 1
        /\ Counted(mem.active).failures \in {0, mem.failures + 1}
    BY <1>4 DEF Counted, Rows
  <2> HIDE DEF Counted
  <2> QED
    BY <1>4, <2>1
<1>5. CASE CountJob
  <2> DEFINE new == Counted(mem.active)
  <2>1. new \in Rows /\ new.failures <= new.next
    <3>1. Fits(new, jobs)
      BY <1>5, CountedFits DEF CountJob, IInv, Held
    <3> QED
      BY <1>4, <1>5, <3>1 DEF CountJob, IInv, Held, Fits
  <2> HIDE DEF new
  <2>2. LET stopped == [new EXCEPT !.status = "stopped"] IN stopped.failures <= stopped.next
    BY <1>a, <2>1
  <2> QED
    BY <1>5, <2>1, <2>2 DEF CountJob, new
<1>6. CASE Enter
  BY <1>6, <1>a DEF Enter, Saved, Stopped
<1>r. CASE ReadFreeze
  BY <1>r, <1>a DEF ReadFreeze, FailedState
<1>7. CASE EndLoop
  BY <1>7, <1>a DEF EndLoop, Stopped, FailedState
<1>8. CASE Observe
  <2>1. mem.next + 1 \in Specs
    BY <1>8 DEF Observe
  <2> QED
    BY <1>8, <1>a, <2>1 DEF Observe, FailedState
<1>9. CASE Submit
  <2>1. mem'.next = mem.next /\ mem'.failures = mem.failures
    BY <1>9 DEF Submit, Rows
  <2> QED
    BY <1>9, <2>1 DEF Submit
<1>10. CASE Activate
  BY <1>10 DEF Activate, Saved
<1>11. CASE RunJob
  BY <1>11 DEF RunJob
<1>12. CASE JobEnds
  BY <1>12, <1>a DEF JobEnds, FailedState
<1>13. CASE Record
  <2> DEFINE new == Counted(mem.active)
             failed == [FailedState EXCEPT !.results = Append(@, mem.active)]
  <2>1. new \in Rows /\ new.failures <= new.next
    <3>1. Fits(new, jobs)
      BY <1>13, CountedFits DEF Record, IInv, Held
    <3> QED
      BY <1>4, <1>13, <3>1 DEF Record, IInv, Held, Fits
  <2>2. failed.next = mem.next /\ failed.failures = mem.failures
    BY <1>13 DEF Record, FailedState, Rows
  <2> HIDE DEF new, failed
  <2>3. LET stopped == [new EXCEPT !.status = "stopped"]
        IN  stopped.failures <= stopped.next /\ stopped.next = new.next
    BY <1>a, <2>1
  <2>4. new.next \in 0 .. N
    BY <1>13, <1>b, CountedFits DEF Record, IInv, Held, new
  <2> QED
    BY <1>13, <2>1, <2>2, <2>3, <2>4 DEF Record, new, failed
<1>14. CASE Decide
  BY <1>14, <1>a DEF Decide, Stopped
<1>15. CASE Final
  BY <1>15 DEF Final, Saved
<1>16. CASE Dies
  <2>1. cut' = cut \/ (cut' = cut \cup {disk.next} /\ place \in {"decide", "final"})
    BY <1>16 DEF Dies
  <2>2. cut' \subseteq 0 .. N
    BY <2>1
  <2> QED
    BY <1>16, <2>2 DEF Dies
<1>17. CASE StopAsked \/ Recapture
  BY <1>17 DEF StopAsked, Recapture
<1>18. ASSUME NEW j \in DOMAIN jobs, Spoil(j) PROVE Limits'
  BY <1>18 DEF Spoil
<1>19. CASE UNCHANGED campaignVars
  BY <1>19 DEF campaignVars
<1> QED
  BY <1>r, <1>1, <1>2, <1>3, <1>5, <1>6, <1>7, <1>8, <1>9, <1>10, <1>11, <1>12, <1>13, <1>14,
     <1>15, <1>16, <1>17, <1>18, <1>19 DEF CampaignNext

\* campaign.json and what the process holds of it are of their types: it counts at most the
\* specs of its plan, and no more failures than results.
THEOREM CampaignTyped == CampaignSpec => []CampaignTypeOK
<1>1. IInv /\ Limits => CampaignTypeOK
  <2> SUFFICES ASSUME IInv, Limits PROVE CampaignTypeOK
    OBVIOUS
  <2>1. ASSUME NEW state, Fits(state, jobs), state.failures <= state.next PROVE state \in States
    <3>1. state \in Rows /\ state.next \in 0 .. N /\ state.failures \in 0 .. N
      BY <2>1, CampaignAssumption, SMTT(30) DEF Fits, Rows
    <3> QED
      BY <3>1 DEF Rows, States
  <2> QED
    BY <2>1 DEF IInv, StatesFit, JobsFit, RunsFit, Limits, CampaignTypeOK
<1> QED
  BY InitHolds, StepHolds, LimitsInit, LimitsStep, <1>1, PTL DEF CampaignSpec

-----------------------------------------------------------------------------
\* What a state says of how its jobs ended: the failures it counts are those after the last
\* proposal, its first result is the first job, and while it goes on it has one result for each
\* job and none was planner-only.
Accounts(state, js) ==
    /\ state.failures <= state.next
    /\ state.failures < state.next => js[state.next - state.failures].status \in Proposals
    /\ state.next >= 1 => Len(state.results) >= 1 /\ state.results[1] = 1
    /\ state.status = "running" =>
         Len(state.results) = state.next /\ \A k \in 1 .. state.next : k \notin PlannerOnly

StatesAccount ==
    /\ disk # Nil => Accounts(disk, jobs)
    /\ place # "off" => Accounts(mem, jobs)

\* A process that goes on was told nothing else, and looked before it submits.
GoesOn ==
    /\ place \in {"enter", "decide"} => mem.status \in {"running", "stopped"}
    /\ place \in {"interrupted", "count", "thaw", "loop", "submit", "activate", "run", "running", "record"} =>
         mem.status = "running"
    /\ place \in {"submit", "activate", "run"} =>
         mem.failures < MaxFailures /\ (mem.next >= 1 => jobs[1].status \in Proposals)
    /\ place = "final" => mem.status # "running"

Stops == IInv /\ StatesAccount /\ GoesOn

LEMMA InitStops == CampaignInit => Stops
<1>1. CampaignInit => StatesAccount /\ GoesOn
  BY DEF CampaignInit, StatesAccount, GoesOn
<1> QED
  BY <1>1, InitHolds DEF Stops

\* A state that ends accounts for what it counted.
LEMMA EndAccounts ==
  ASSUME NEW state, NEW js, Fits(state, js), Accounts(state, js),
         NEW x \in {"stopped", "failed", "completed"}
  PROVE  Accounts([state EXCEPT !.status = x], js)
  BY DEF Fits, Rows, Accounts

\* Jobs that are counted keep how they ended.
LEMMA AccountsKept ==
  ASSUME NEW state, NEW js, NEW new, Fits(state, js), Accounts(state, js),
         \A k \in 1 .. state.next : new[k].status = js[k].status
  PROVE  Accounts(state, new)
<1>1. state.next \in Nat /\ state.failures \in Nat
  BY DEF Fits, Rows
<1>2. state.failures < state.next => state.next - state.failures \in 1 .. state.next
  BY <1>1
<1> QED
  BY <1>1, <1>2 DEF Accounts

\* Counting a job keeps the account; where it stops the plan, the status says so.
LEMMA CountedAccounts ==
  ASSUME IInv, place # "off", Accounts(mem, jobs), mem.status = "running", mem.active # Nil,
         jobs[mem.active].status \in Settled
  PROVE  /\ Accounts([Counted(mem.active) EXCEPT !.status = "stopped"], jobs)
         /\ ~ PlannerStops(mem.active) => Accounts(Counted(mem.active), jobs)
         /\ Counted(mem.active).status = "running"
<1> DEFINE c == Counted(mem.active)
<1>1. /\ mem \in Rows /\ mem.active = mem.next + 1 /\ mem.active = Len(jobs)
      /\ mem.next \in Nat /\ mem.failures \in Nat /\ mem.results \in Seq(Nat)
  BY DEF IInv, StatesFit, Fits, Rows
<1>2. /\ c.results = Append(mem.results, mem.active) /\ c.next = mem.next + 1
      /\ c.failures = (IF Valid(mem.active) THEN 0 ELSE mem.failures + 1)
      /\ c.status = "running"
  BY <1>1 DEF Counted, Rows
<1>3. c \in Rows
  BY CountedFits DEF IInv, Fits
<1> HIDE DEF c
<1>4. Len(mem.results) = mem.next /\ \A k \in 1 .. mem.next : k \notin PlannerOnly
  BY DEF Accounts
<1>5. Len(c.results) = c.next /\ c.results[1] = 1
  <2>1. /\ Len(Append(mem.results, mem.active)) = mem.next + 1
        /\ Append(mem.results, mem.active)[mem.next + 1] = mem.next + 1
        /\ \A k \in 1 .. mem.next : Append(mem.results, mem.active)[k] = mem.results[k]
    BY <1>1, <1>4
  <2>2. CASE mem.next = 0
    BY <2>1, <2>2, <1>2
  <2>3. CASE mem.next >= 1
    <3>1. mem.results[1] = 1 /\ 1 \in 1 .. mem.next
      BY <2>3, <1>1 DEF Accounts
    <3> QED
      BY <2>1, <3>1, <1>2
  <2> QED
    BY <2>2, <2>3, <1>1
<1>6. c.failures <= c.next /\ (c.failures < c.next => jobs[c.next - c.failures].status \in Proposals)
  <2>1. CASE Valid(mem.active)
    BY <2>1, <1>1, <1>2 DEF Valid
  <2>2. CASE ~ Valid(mem.active)
    <3>1. c.failures = mem.failures + 1 /\ c.next = mem.next + 1
      BY <2>2, <1>2
    <3>0. mem.next \in Nat /\ mem.failures \in Nat
      BY <1>1
    <3>2. c.next - c.failures = mem.next - mem.failures
      BY <3>0, <3>1
    <3>3. /\ mem.failures <= mem.next
          /\ mem.failures < mem.next => jobs[mem.next - mem.failures].status \in Proposals
      BY DEF Accounts
    <3>4. c.failures <= c.next
      BY <3>1, <3>3, <1>1
    <3>5. c.failures < c.next => mem.failures < mem.next
      BY <3>1, <1>1
    <3> QED
      BY <3>2, <3>3, <3>4, <3>5
  <2> QED
    BY <2>1, <2>2
<1>7. ~ PlannerStops(mem.active) => \A k \in 1 .. c.next : k \notin PlannerOnly
  <2>1. mem.active \in 1 .. Len(jobs)
    BY <1>1
  <2>2. jobs[mem.active].spec = mem.active
    BY <2>1 DEF IInv, JobsFit
  <2>3. \A k \in 1 .. c.next : k \in 1 .. mem.next \/ k = mem.active
    BY <1>1, <1>2
  <2> QED
    BY <1>4, <2>2, <2>3 DEF PlannerStops
<1>8. c.next \in Nat /\ c.next >= 1
  BY <1>1, <1>2
<1>9. ~ PlannerStops(mem.active) => Accounts(c, jobs)
  BY <1>5, <1>6, <1>7, <1>8 DEF Accounts
<1>10. Accounts([c EXCEPT !.status = "stopped"], jobs)
  <2> DEFINE d == [c EXCEPT !.status = "stopped"]
  <2>1. d.failures = c.failures /\ d.next = c.next /\ d.results = c.results /\ d.status = "stopped"
    BY <1>3 DEF Rows
  <2> HIDE DEF d
  <2>2. Accounts(d, jobs)
    BY <2>1, <1>5, <1>6, <1>8 DEF Accounts
  <2> QED
    BY <2>2 DEF d
<1> QED
  BY <1>2, <1>9, <1>10 DEF c

-----------------------------------------------------------------------------
\* A step that leaves the jobs alone and takes over no state that does not account.
LEMMA JobsStay ==
  ASSUME StatesAccount, jobs' = jobs,
         disk' = disk \/ Accounts(disk', jobs),
         \/ place' = "off"
         \/ mem' = mem /\ place # "off"
         \/ Accounts(mem', jobs)
  PROVE  StatesAccount'
BY DEF StatesAccount

\* A step that leaves the states alone, and how the jobs ended that they count.
LEMMA EndsStay ==
  ASSUME IInv, StatesAccount, UNCHANGED disk,
         place' # "off" => place # "off" /\ UNCHANGED mem,
         place # "off" => \A k \in 1 .. mem.next : jobs'[k].status = jobs[k].status,
         disk # Nil => \A k \in 1 .. disk.next : jobs'[k].status = jobs[k].status
  PROVE  StatesAccount'
<1>1. disk # Nil => Fits(disk, jobs)
  BY DEF IInv, StatesFit
<1>2. place # "off" => Fits(mem, jobs)
  BY DEF IInv, StatesFit
<1>3. disk' # Nil => Accounts(disk, jobs')
  BY <1>1, AccountsKept DEF StatesAccount
<1>4. place' # "off" => Accounts(mem, jobs')
  BY <1>2, AccountsKept DEF StatesAccount
<1> QED
  BY <1>3, <1>4 DEF StatesAccount

LEMMA StepStops == Stops /\ [CampaignNext]_campaignVars => Stops'
<1> SUFFICES ASSUME Stops, [CampaignNext]_campaignVars PROVE StatesAccount' /\ GoesOn'
  BY StepHolds DEF Stops
<1>0. IInv /\ StatesAccount /\ GoesOn /\ jobs \in Seq(Jobs)
  BY DEF Stops, IInv, JobsFit
<1>m. place # "off" => Fits(mem, jobs) /\ Accounts(mem, jobs)
  BY <1>0 DEF IInv, StatesFit, StatesAccount
<1>n. place # "off" => mem.next \in Nat /\ mem.next <= Len(jobs)
  BY <1>m DEF Fits, Rows
<1>d. disk # Nil => disk.next \in Nat /\ disk.next <= Len(jobs)
  BY <1>0 DEF IInv, StatesFit, Fits, Rows
<1>e. place # "off" => /\ Accounts(Stopped, jobs) /\ Accounts(FailedState, jobs)
                    /\ Accounts([mem EXCEPT !.status = "completed"], jobs)
                    /\ Stopped.status = "stopped" /\ FailedState.status = "failed"
                    /\ [mem EXCEPT !.status = "completed"].status = "completed"
  <2> SUFFICES ASSUME place # "off"
               PROVE  /\ Accounts(Stopped, jobs) /\ Accounts(FailedState, jobs)
                      /\ Accounts([mem EXCEPT !.status = "completed"], jobs)
                      /\ Stopped.status = "stopped" /\ FailedState.status = "failed"
                      /\ [mem EXCEPT !.status = "completed"].status = "completed"
    OBVIOUS
  <2>1. /\ Stopped.status = "stopped" /\ FailedState.status = "failed"
        /\ [mem EXCEPT !.status = "completed"].status = "completed"
    BY <1>m DEF Stopped, FailedState, Fits, Rows
  <2> QED
    BY <1>m, <2>1, EndAccounts DEF Stopped, FailedState
<1>1. CASE Fresh
  <2>1. /\ mem'.status = "running" /\ mem'.next = 0 /\ mem'.failures = 0 /\ mem'.results = <<>>
        /\ place' = "enter" /\ jobs' = jobs /\ disk' = disk
    BY <1>1 DEF Fresh, GoTo
  <2>2. Accounts(mem', jobs)
    BY <2>1 DEF Accounts
  <2> QED
    BY <1>0, <2>1, <2>2, JobsStay DEF GoesOn
<1>2. CASE Resume
  <2>1. mem' = disk /\ disk' = disk /\ disk.status = "running" /\ place' \in {"enter", "interrupted"}
        /\ jobs' = jobs /\ disk # Nil
    BY <1>2 DEF Resume, GoTo
  <2> QED
    BY <1>0, <2>1 DEF StatesAccount, GoesOn
<1>3. CASE CloseJob
  <2>1. place = "interrupted" /\ mem = disk /\ mem.active # Nil
    BY <1>3, <1>0 DEF CloseJob, IInv, Held
  <2>2. mem.active = mem.next + 1 /\ mem.active \in 1 .. Len(jobs)
    BY <1>m, <1>n, <1>0, <2>1 DEF Fits
  <2>3. \A k \in 1 .. mem.next : jobs'[k].status = jobs[k].status
    BY <1>3, <1>0, <1>n, <2>1, <2>2 DEF CloseJob
  <2>4. place' = "count" /\ UNCHANGED <<mem, disk>>
    BY <1>3 DEF CloseJob, GoTo
  <2>5. StatesAccount'
    BY <1>0, <2>1, <2>3, <2>4, EndsStay
  <2> QED
    BY <1>0, <2>1, <2>4, <2>5 DEF GoesOn
<1>4. CASE CountJob
  <2>1. place = "count" /\ jobs' = jobs /\ disk' = disk
    BY <1>4 DEF CountJob
  <2>2. mem.status = "running" /\ mem.active # Nil /\ jobs[mem.active].status \in Settled
    BY <1>0, <2>1 DEF GoesOn, IInv, Held
  <2> DEFINE c == Counted(mem.active)
  <2>3. /\ Accounts([c EXCEPT !.status = "stopped"], jobs)
        /\ ~ PlannerStops(mem.active) => Accounts(c, jobs)
        /\ c.status = "running"
    BY <1>0, <1>m, <2>1, <2>2, CountedAccounts
  <2>4. [c EXCEPT !.status = "stopped"].status = "stopped"
    <3>1. c \in Rows
      BY <1>0, <2>1, <2>2, CountedFits DEF IInv, Fits
    <3> QED
      BY <3>1 DEF Rows
  <2>5. \/ place' = "off"
        \/ place' = "enter" /\ mem' = [c EXCEPT !.status = "stopped"]
        \/ place' = "enter" /\ mem' = c /\ ~ PlannerStops(mem.active)
    BY <1>4 DEF CountJob, GoTo
  <2> HIDE DEF c
  <2>6. StatesAccount'
    BY <1>0, <2>1, <2>3, <2>5, JobsStay
  <2> QED
    BY <2>3, <2>4, <2>5, <2>6 DEF GoesOn
<1>5. CASE Enter
  <2>1. place = "enter" /\ jobs' = jobs /\ disk' = mem
    BY <1>5 DEF Enter, Saved
  <2>2. \/ place' = "off"
        \/ place' = "final" /\ mem' = Stopped
        \/ place' = "thaw" /\ mem' = mem /\ mem.status # "stopped"
    BY <1>5 DEF Enter, GoTo
  <2>3. StatesAccount'
    BY <1>0, <1>m, <1>e, <2>1, <2>2, JobsStay
  <2> QED
    BY <1>0, <1>e, <2>1, <2>2, <2>3 DEF GoesOn
<1>r. CASE ReadFreeze
  <2>1. /\ place = "thaw" /\ jobs' = jobs /\ disk' = disk
        /\ \/ place' = "loop" /\ mem' = mem
           \/ place' = "final" /\ mem' = FailedState
    BY <1>r DEF ReadFreeze, GoTo
  <2>2. StatesAccount'
    BY <1>0, <1>e, <2>1, JobsStay
  <2> QED
    BY <1>0, <1>e, <2>1, <2>2 DEF GoesOn
<1>6. CASE EndLoop
  <2>1. /\ place = "loop" /\ place' = "final" /\ jobs' = jobs /\ disk' = disk
        /\ mem' \in {[mem EXCEPT !.status = "completed"], Stopped, FailedState}
    BY <1>6 DEF EndLoop, GoTo
  <2>2. StatesAccount'
    BY <1>0, <1>e, <2>1, JobsStay
  <2> QED
    BY <1>e, <2>1, <2>2 DEF GoesOn
<1>7. CASE Observe
  <2>1. place = "loop" /\ jobs' = jobs /\ disk' = disk /\ mem.failures < MaxFailures
    <3>1. mem.failures \in Nat /\ MaxFailures \in Nat
      BY <1>7, <1>m, CampaignAssumption DEF Observe, Fits, Rows
    <3> QED
      BY <1>7, <3>1 DEF Observe, AtLimit
  <2>2. \/ place' = "submit" /\ mem' = mem
        \/ place' = "final" /\ mem' = FailedState
    BY <1>7 DEF Observe, GoTo
  <2>3. StatesAccount'
    BY <1>0, <1>e, <2>1, <2>2, JobsStay
  <2>4. ASSUME mem.next >= 1 PROVE jobs[1].status \in Proposals
    <3>1. Len(mem.results) >= 1 /\ mem.results[1] = 1 /\ mem.results \in Seq(Nat)
      BY <1>m, <2>1, <2>4 DEF Accounts, Fits, Rows
    <3>2. 1 \in DOMAIN mem.results
      BY <3>1
    <3>3. Valid(mem.results[1])
      BY <1>7, <3>2 DEF Observe, FirstValid
    <3> QED
      BY <3>1, <3>3 DEF Valid
  <2>5. mem.status = "running"
    BY <1>0, <2>1 DEF GoesOn
  <2> QED
    BY <1>e, <2>1, <2>2, <2>3, <2>4, <2>5 DEF GoesOn
<1>8. CASE Submit
  <2>1. place = "submit" /\ place' = "activate" /\ disk' = disk /\ mem.next = Len(jobs)
    BY <1>8, <1>0 DEF Submit, GoTo, IInv, Held
  <2> DEFINE row == [spec |-> mem.next + 1, status |-> "queued", infra |-> FALSE, sound |-> TRUE]
  <2>2. row \in Jobs
    <3>1. mem.next + 1 \in Specs
      BY <1>0, <1>n, <2>1, CampaignAssumption DEF IInv, Held, Specs
    <3> QED
      BY <3>1 DEF Jobs
  <2>3. jobs' = Append(jobs, row)
    BY <1>8 DEF Submit
  <2> HIDE DEF row
  <2>4. \A k \in 1 .. Len(jobs) : jobs'[k] = jobs[k]
    BY <1>0, <2>2, <2>3
  <2>5. Len(jobs) \in Nat
    BY <1>0
  <2>6. disk # Nil => Accounts(disk, jobs')
    <3>1. disk # Nil => Fits(disk, jobs) /\ Accounts(disk, jobs)
      BY <1>0 DEF IInv, StatesFit, StatesAccount
    <3> QED
      BY <3>1, <1>d, <2>4, <2>5, AccountsKept
  <2>7. Accounts(mem, jobs')
    BY <1>m, <1>n, <2>1, <2>4, <2>5, AccountsKept
  <2>8. /\ mem'.next = mem.next /\ mem'.failures = mem.failures /\ mem'.status = mem.status
        /\ mem'.results = mem.results
    BY <1>8, <1>m, <2>1 DEF Submit, Fits, Rows
  <2>9. Accounts(mem', jobs')
    BY <2>7, <2>8 DEF Accounts
  <2>10. mem.next >= 1 => jobs'[1].status = jobs[1].status
    BY <1>n, <2>1, <2>4
  <2>11. /\ mem.status = "running" /\ mem.failures < MaxFailures
         /\ mem.next >= 1 => jobs[1].status \in Proposals
    BY <1>0, <2>1 DEF GoesOn
  <2> QED
    BY <2>1, <2>6, <2>8, <2>9, <2>10, <2>11 DEF StatesAccount, GoesOn
<1>9. CASE Activate
  <2>1. place = "activate" /\ place' = "run" /\ mem' = mem /\ disk' = mem /\ jobs' = jobs
    BY <1>9 DEF Activate, Saved, GoTo
  <2>2. StatesAccount'
    BY <1>0, <1>m, <2>1, JobsStay
  <2> QED
    BY <1>0, <2>1, <2>2 DEF GoesOn
<1>10. CASE RunJob \/ JobEnds
  <2>1. /\ place \in {"run", "running"} /\ mem = disk /\ mem.active # Nil /\ mem.status = "running"
    <3>1. place \in {"run", "running"}
      BY <1>10 DEF RunJob, JobEnds
    <3> QED
      BY <3>1, <1>0 DEF IInv, Held, GoesOn
  <2>2. mem.active = mem.next + 1 /\ mem.active \in 1 .. Len(jobs) /\ mem.next \in Nat
    BY <1>m, <1>n, <1>0, <2>1 DEF Fits
  <2>3. disk' = disk /\ place' \in {"running", "record", "final"}
    BY <1>10 DEF RunJob, JobEnds, GoTo
  <2>4. \/ mem' = mem /\ \A k \in 1 .. mem.next : jobs'[k] = jobs[k]
        \/ /\ mem' = FailedState /\ place' = "final"
           /\ \A k \in 1 .. mem.next : jobs'[k] = jobs[k]
    <3>1. \A k \in 1 .. mem.next : k # mem.active /\ k \in DOMAIN jobs
      BY <1>0, <1>n, <2>1, <2>2
    <3>2. CASE RunJob
      BY <1>0, <2>2, <3>1, <3>2 DEF RunJob
    <3>3. CASE JobEnds
      BY <1>0, <2>2, <3>1, <3>3 DEF JobEnds, GoTo
    <3> QED
      BY <1>10, <3>2, <3>3
  <2>5. StatesAccount'
    <3>1. CASE mem' = mem /\ \A k \in 1 .. mem.next : jobs'[k] = jobs[k]
      BY <1>0, <2>1, <2>3, <3>1, EndsStay
    <3>2. CASE mem' = FailedState /\ \A k \in 1 .. mem.next : jobs'[k] = jobs[k]
      <4>1. disk # Nil => Accounts(disk, jobs')
        <5>1. disk # Nil => Fits(disk, jobs) /\ Accounts(disk, jobs)
          BY <1>0 DEF IInv, StatesFit, StatesAccount
        <5> QED
          BY <2>1, <3>2, <5>1, AccountsKept
      <4>2. Accounts(FailedState, jobs')
        <5>1. Fits(FailedState, jobs) /\ FailedState.next = mem.next
          BY <1>m, <2>1, StatusFits DEF FailedState
        <5> QED
          BY <1>e, <2>1, <3>2, <5>1, AccountsKept
      <4> QED
        BY <2>3, <3>2, <4>1, <4>2 DEF StatesAccount
    <3> QED
      BY <2>4, <3>1, <3>2
  <2>6. place' # "final" => place' \in {"running", "record"} /\ mem' = mem
    <3>1. place' = "final" \/ mem' = mem
      BY <2>4
    <3> QED
      BY <2>3, <3>1
  <2>7. place' = "final" => mem' = FailedState
    BY <1>10 DEF RunJob, JobEnds, GoTo
  <2> QED
    BY <1>e, <2>1, <2>3, <2>5, <2>6, <2>7 DEF GoesOn
<1>11. CASE Record
  <2>1. place = "record" /\ jobs' = jobs
    BY <1>11 DEF Record
  <2>2. /\ mem.status = "running" /\ mem.active # Nil /\ jobs[mem.active].status \in Settled
        /\ mem \in Rows /\ mem.active \in Nat /\ mem.results \in Seq(Nat)
    BY <1>0, <1>m, <2>1 DEF GoesOn, IInv, Held, Fits, Rows
  <2> DEFINE c == Counted(mem.active)
  <2> DEFINE f == [FailedState EXCEPT !.results = Append(@, mem.active)]
  <2>3. /\ Accounts([c EXCEPT !.status = "stopped"], jobs)
        /\ ~ PlannerStops(mem.active) => Accounts(c, jobs)
        /\ c.status = "running"
    BY <1>0, <1>m, <2>1, <2>2, CountedAccounts
  <2>4. [c EXCEPT !.status = "stopped"].status = "stopped"
    <3>1. c \in Rows
      BY <1>0, <2>1, <2>2, CountedFits DEF IInv, Fits
    <3> QED
      BY <3>1 DEF Rows
  <2>5. Accounts(f, jobs) /\ f.status = "failed"
    <3>1. /\ f.status = "failed" /\ f.next = mem.next /\ f.failures = mem.failures
          /\ f.results = Append(mem.results, mem.active)
      BY <2>2 DEF FailedState, Rows
    <3>2. Len(mem.results) >= 1 /\ mem.results[1] = 1 => Len(f.results) >= 1 /\ f.results[1] = 1
      BY <2>2, <3>1
    <3> HIDE DEF f
    <3> QED
      BY <1>m, <2>1, <3>1, <3>2 DEF Accounts
  <2>6. \/ place' = "decide" /\ mem' = disk' /\ disk' = [c EXCEPT !.status = "stopped"]
        \/ place' = "decide" /\ mem' = disk' /\ disk' = c /\ ~ PlannerStops(mem.active)
        \/ place' = "final" /\ mem' = f /\ disk' = disk
    BY <1>11 DEF Record, GoTo
  <2> HIDE DEF c, f
  <2>7. StatesAccount'
    BY <1>0, <2>1, <2>3, <2>5, <2>6, JobsStay
  <2> QED
    BY <2>3, <2>4, <2>5, <2>6, <2>7 DEF GoesOn
<1>12. CASE Decide
  <2>1. place = "decide" /\ jobs' = jobs /\ disk' = disk
    BY <1>12 DEF Decide
  <2>2. \/ place' = "final" /\ mem' = Stopped
        \/ place' = "loop" /\ mem' = mem /\ mem.status # "stopped"
    BY <1>12 DEF Decide, Due, GoTo
  <2>3. StatesAccount'
    BY <1>0, <1>e, <2>1, <2>2, JobsStay
  <2> QED
    BY <1>0, <1>e, <2>1, <2>2, <2>3 DEF GoesOn
<1>13. CASE Final \/ Dies
  <2>1. /\ jobs' = jobs /\ place' = "off" /\ place # "off" /\ (disk' = mem \/ disk' = disk)
    BY <1>13 DEF Final, Dies, Saved, GoTo
  <2>2. StatesAccount'
    BY <1>0, <1>m, <2>1, JobsStay
  <2> QED
    BY <2>1, <2>2 DEF GoesOn
<1>14. CASE StopAsked \/ Recapture \/ UNCHANGED campaignVars
  BY <1>14, <1>0 DEF StopAsked, Recapture, campaignVars, StatesAccount, GoesOn
<1>15. ASSUME NEW j \in DOMAIN jobs, Spoil(j) PROVE StatesAccount' /\ GoesOn'
  <2>1. UNCHANGED <<disk, mem, place>> /\ jobs' = [jobs EXCEPT ![j].sound = FALSE]
    BY <1>15 DEF Spoil
  <2>2. \A k \in 1 .. Len(jobs) : jobs'[k].status = jobs[k].status
    <3>1. ASSUME NEW k \in 1 .. Len(jobs) PROVE jobs'[k].status = jobs[k].status
      <4>1. k \in DOMAIN jobs /\ jobs[k] \in Jobs
        BY <1>0
      <4>2. jobs'[k] = IF k = j THEN [jobs[j] EXCEPT !.sound = FALSE] ELSE jobs[k]
        BY <1>0, <2>1, <4>1
      <4> QED
        BY <4>1, <4>2 DEF Jobs
    <3> QED
      BY <3>1
  <2>3. StatesAccount'
    BY <1>0, <1>d, <1>n, <2>1, <2>2, EndsStay
  <2>4. place # "off" /\ mem.next >= 1 => jobs'[1].status = jobs[1].status
    BY <1>0, <1>n, <2>2
  <2> QED
    BY <1>0, <2>1, <2>3, <2>4 DEF GoesOn
<1> QED
  BY <1>r, <1>1, <1>2, <1>3, <1>4, <1>5, <1>6, <1>7, <1>8, <1>9, <1>10, <1>11, <1>12, <1>13, <1>14,
     <1>15 DEF CampaignNext

-----------------------------------------------------------------------------
\* What a state that goes on says of infrastructure: a Strata job that failed by it was cut, or is
\* the last one counted and the stop that follows from it is not saved yet.
InfraKept ==
    /\ disk # Nil /\ disk.status = "running" =>
         \A k \in 1 .. disk.next : InfraStops(k) =>
            \/ k \in cut
            \/ place \in {"decide", "final"} /\ disk.active = Nil /\ k = disk.next
    /\ place # "off" /\ mem.status = "running" =>
         \A k \in 1 .. mem.next : InfraStops(k) => k \in cut \/ (place = "decide" /\ k = mem.next)
    /\ place = "decide" => LastJob = mem.next

LEMMA InitInfra == CampaignInit => InfraKept
  BY DEF CampaignInit, InfraKept

LEMMA StepInfra == Stops /\ InfraKept /\ [CampaignNext]_campaignVars => InfraKept'
<1> SUFFICES ASSUME Stops, InfraKept, [CampaignNext]_campaignVars PROVE InfraKept'
  OBVIOUS
<1>0. IInv /\ GoesOn /\ jobs \in Seq(Jobs) /\ Held /\ StatesFit /\ StatesAccount
  BY DEF Stops, IInv, JobsFit
<1>m. place # "off" => Fits(mem, jobs) /\ mem \in Rows /\ mem.next \in Nat /\ mem.next <= Len(jobs)
  BY <1>0 DEF StatesFit, Fits, Rows
<1>d. disk # Nil => Fits(disk, jobs) /\ disk.next \in Nat /\ disk.next <= Len(jobs)
  BY <1>0 DEF StatesFit, Fits, Rows
<1>s. place # "off" => /\ Stopped.status = "stopped" /\ FailedState.status = "failed"
                      /\ [mem EXCEPT !.status = "completed"].status = "completed"
  BY <1>m DEF Stopped, FailedState, Rows
<1>k. jobs' = jobs => \A k : InfraStops(k)' = InfraStops(k)
  BY DEF InfraStops
<1>a. ASSUME place # "off", mem.active # Nil
      PROVE  mem.active = mem.next + 1 /\ mem.active \in 1 .. Len(jobs)
  BY <1>0, <1>m, <1>a DEF Fits
<1>1. CASE Fresh
  <2>1. mem'.next = 0 /\ place' = "enter" /\ jobs' = jobs /\ disk' = disk /\ cut' = cut /\ place = "off"
    BY <1>1 DEF Fresh, GoTo
  <2> QED
    BY <1>k, <2>1 DEF InfraKept
<1>2. CASE Resume
  <2>1. /\ mem' = disk /\ disk' = disk /\ place' \in {"enter", "interrupted"} /\ place = "off"
        /\ jobs' = jobs /\ disk # Nil /\ cut' = cut
    BY <1>2 DEF Resume, GoTo
  <2> QED
    BY <1>k, <2>1 DEF InfraKept
<1>3. CASE CloseJob \/ RunJob \/ JobEnds
  <2>1. /\ place \in {"interrupted", "run", "running"} /\ UNCHANGED <<disk, cut>>
        /\ \/ mem' = mem /\ place' \in {"count", "running", "record"}
           \/ mem' = FailedState /\ place' = "final"
    BY <1>3 DEF CloseJob, RunJob, JobEnds, GoTo
  <2>2. mem = disk /\ mem.active # Nil
    BY <1>0, <2>1 DEF Held
  <2>3. mem.active = mem.next + 1 /\ mem.active \in 1 .. Len(jobs)
    BY <1>a, <2>1, <2>2
  <2>4. \A k \in 1 .. mem.next : jobs'[k] = jobs[k]
    <3>1. \A k \in 1 .. mem.next : k # mem.active /\ k \in DOMAIN jobs
      BY <1>0, <1>m, <2>1, <2>3
    <3>2. CASE CloseJob
      BY <1>0, <2>3, <3>1, <3>2 DEF CloseJob
    <3>3. CASE RunJob
      BY <1>0, <2>3, <3>1, <3>3 DEF RunJob
    <3>4. CASE JobEnds
      BY <1>0, <2>3, <3>1, <3>4 DEF JobEnds
    <3> QED
      BY <1>3, <3>2, <3>3, <3>4
  <2>5. \A k \in 1 .. mem.next : InfraStops(k)' = InfraStops(k)
    BY <2>4 DEF InfraStops
  <2> QED
    BY <1>s, <2>1, <2>2, <2>5 DEF InfraKept
<1>4. CASE CountJob
  <2>1. place = "count" /\ jobs' = jobs /\ disk' = disk /\ cut' = cut
    BY <1>4 DEF CountJob
  <2>2. mem.status = "running" /\ mem.active # Nil /\ jobs[mem.active].status \in Settled
    BY <1>0, <2>1 DEF GoesOn, Held
  <2> DEFINE c == Counted(mem.active)
  <2>3. c.next = mem.next + 1 /\ c \in Rows
    <3>1. c \in Rows
      BY <1>0, <2>1, <2>2, CountedFits DEF IInv, Fits
    <3> QED
      BY <1>m, <2>1, <3>1 DEF Counted, Rows
  <2>4. [c EXCEPT !.status = "stopped"].status = "stopped"
    BY <2>3 DEF Rows
  <2>5. \/ place' = "off"
        \/ place' = "enter" /\ mem' = [c EXCEPT !.status = "stopped"]
        \/ place' = "enter" /\ mem' = c /\ ~ InfraStops(mem.active)
    BY <1>4 DEF CountJob, GoTo
  <2> HIDE DEF c
  <2>6. \A k \in 1 .. c.next : k \in 1 .. mem.next \/ k = mem.active
    BY <1>a, <1>m, <2>1, <2>2, <2>3
  <2> QED
    BY <1>k, <2>1, <2>2, <2>4, <2>5, <2>6 DEF InfraKept
<1>5. CASE Enter
  <2>1. place = "enter" /\ jobs' = jobs /\ disk' = mem /\ cut' = cut
    BY <1>5 DEF Enter, Saved
  <2>2. \/ place' = "off"
        \/ place' = "final" /\ mem' = Stopped
        \/ place' = "thaw" /\ mem' = mem
    BY <1>5 DEF Enter, GoTo
  <2> QED
    BY <1>k, <1>s, <2>1, <2>2 DEF InfraKept
<1>6. CASE ReadFreeze \/ EndLoop \/ Observe
  <2>1. /\ place \in {"thaw", "loop"} /\ jobs' = jobs /\ disk' = disk /\ cut' = cut
        /\ \/ place' \in {"loop", "submit"} /\ mem' = mem
           \/ place' = "final" /\ mem' \in {[mem EXCEPT !.status = "completed"], Stopped, FailedState}
    BY <1>6 DEF ReadFreeze, EndLoop, Observe, GoTo
  <2> QED
    BY <1>k, <1>s, <2>1 DEF InfraKept
<1>7. CASE Submit
  <2>1. place = "submit" /\ place' = "activate" /\ disk' = disk /\ cut' = cut /\ mem.next = Len(jobs)
    BY <1>7, <1>0 DEF Submit, GoTo, Held
  <2> DEFINE row == [spec |-> mem.next + 1, status |-> "queued", infra |-> FALSE, sound |-> TRUE]
  <2>2. jobs' = Append(jobs, row)
    BY <1>7 DEF Submit
  <2> HIDE DEF row
  <2>3. \A k \in 1 .. Len(jobs) : jobs'[k] = jobs[k]
    BY <1>0, <2>2
  <2>4. \A k \in 1 .. Len(jobs) : InfraStops(k)' = InfraStops(k)
    BY <2>3 DEF InfraStops
  <2>5. mem'.next = mem.next /\ mem'.status = mem.status
    BY <1>7, <1>m, <2>1 DEF Submit, Rows
  <2>6. disk # Nil => \A k \in 1 .. disk.next : k \in 1 .. Len(jobs)
    BY <1>0, <1>d
  <2> QED
    BY <2>1, <2>4, <2>5, <2>6 DEF InfraKept
<1>8. CASE Activate
  <2>1. place = "activate" /\ place' = "run" /\ mem' = mem /\ disk' = mem /\ jobs' = jobs /\ cut' = cut
    BY <1>8 DEF Activate, Saved, GoTo
  <2> QED
    BY <1>k, <2>1 DEF InfraKept
<1>9. CASE Record
  <2>1. place = "record" /\ jobs' = jobs /\ cut' = cut
    BY <1>9 DEF Record
  <2>2. /\ mem.status = "running" /\ mem.active # Nil /\ jobs[mem.active].status \in Settled
        /\ mem \in Rows /\ mem.active \in Nat /\ mem.results \in Seq(Nat) /\ mem = disk
    BY <1>0, <1>m, <2>1 DEF GoesOn, Held, Fits, Rows
  <2> DEFINE c == Counted(mem.active)
  <2> DEFINE d == [c EXCEPT !.status = "stopped"]
  <2> DEFINE f == [FailedState EXCEPT !.results = Append(@, mem.active)]
  <2>3. /\ c \in Rows /\ c.next = mem.next + 1 /\ c.results = Append(mem.results, mem.active)
        /\ c.active = Nil
    <3>1. c \in Rows /\ c.active = Nil
      BY <1>0, <2>1, <2>2, CountedFits DEF IInv, Fits
    <3> QED
      BY <2>2, <3>1 DEF Counted, Rows
  <2>4. d.status = "stopped" /\ d.next = c.next /\ d.results = c.results /\ d.active = c.active
    BY <2>3 DEF Rows
  <2>5. f.status = "failed"
    BY <2>2 DEF FailedState, Rows
  <2>6. \/ place' = "decide" /\ mem' = disk' /\ disk' \in {c, d}
        \/ place' = "final" /\ mem' = f /\ disk' = disk
    BY <1>9 DEF Record, GoTo
  <2> HIDE DEF c, d, f
  <2>7. c.results[Len(c.results)] = mem.active /\ mem.active = c.next
    <3>1. Len(c.results) = Len(mem.results) + 1 /\ c.results[Len(mem.results) + 1] = mem.active
      BY <2>2, <2>3
    <3> QED
      BY <1>a, <2>1, <2>2, <2>3, <3>1
  <2>8. \A k \in 1 .. c.next : k \in 1 .. mem.next \/ k = c.next
    BY <1>m, <2>1, <2>3
  <2>9. CASE place' = "final"
    BY <1>k, <2>1, <2>2, <2>5, <2>6, <2>9 DEF InfraKept
  <2>10. CASE place' = "decide"
    <3>1. LastJob' = mem'.next
      BY <2>4, <2>6, <2>7, <2>10 DEF LastJob
    <3>2. \A k \in 1 .. mem.next : InfraStops(k)' => k \in cut'
      BY <1>k, <2>1, <2>2 DEF InfraKept
    <3> QED
      BY <2>3, <2>4, <2>6, <2>8, <2>10, <3>1, <3>2 DEF InfraKept
  <2> QED
    BY <2>6, <2>9, <2>10
<1>10. CASE Decide
  <2>1. place = "decide" /\ jobs' = jobs /\ disk' = disk /\ cut' = cut /\ mem = disk /\ mem.active = Nil
    BY <1>0, <1>10 DEF Decide, Held
  <2>2. \/ place' = "final" /\ mem' = Stopped
        \/ place' = "loop" /\ mem' = mem /\ ~ InfraStops(mem.next)
    BY <1>10, <2>1 DEF Decide, Due, GoTo, InfraKept
  <2> QED
    BY <1>k, <1>s, <2>1, <2>2 DEF InfraKept
<1>11. CASE Final
  <2>1. place = "final" /\ place' = "off" /\ disk' = mem /\ mem.status # "running"
    BY <1>0, <1>11 DEF Final, Saved, GoTo, GoesOn
  <2> QED
    BY <2>1 DEF InfraKept
<1>12. CASE Dies
  <2>1. /\ place # "off" /\ place' = "off" /\ jobs' = jobs /\ disk' = disk
        /\ cut' = IF place \in {"decide", "final"} /\ disk.active = Nil THEN cut \cup {disk.next} ELSE cut
    BY <1>12 DEF Dies, GoTo
  <2> QED
    BY <1>k, <2>1 DEF InfraKept
<1>13. CASE StopAsked \/ Recapture \/ UNCHANGED campaignVars
  <2>1. UNCHANGED <<jobs, disk, mem, place, cut>>
    BY <1>13 DEF StopAsked, Recapture, campaignVars
  <2> QED
    BY <1>k, <2>1 DEF InfraKept, LastJob
<1>14. ASSUME NEW j \in DOMAIN jobs, Spoil(j) PROVE InfraKept'
  <2>1. UNCHANGED <<disk, mem, place, cut>> /\ jobs' = [jobs EXCEPT ![j].sound = FALSE]
    BY <1>14 DEF Spoil
  <2>2. \A k \in 1 .. Len(jobs) : jobs'[k].spec = jobs[k].spec /\ jobs'[k].infra = jobs[k].infra
    <3>1. ASSUME NEW k \in 1 .. Len(jobs)
          PROVE  jobs'[k].spec = jobs[k].spec /\ jobs'[k].infra = jobs[k].infra
      <4>1. k \in DOMAIN jobs /\ jobs[k] \in Jobs
        BY <1>0
      <4>2. jobs'[k] = IF k = j THEN [jobs[j] EXCEPT !.sound = FALSE] ELSE jobs[k]
        BY <1>0, <2>1, <4>1
      <4> QED
        BY <4>1, <4>2 DEF Jobs
    <3> QED
      BY <3>1
  <2>3. \A k \in 1 .. Len(jobs) : InfraStops(k)' = InfraStops(k)
    BY <2>2 DEF InfraStops
  <2>4. /\ disk # Nil => \A k \in 1 .. disk.next : k \in 1 .. Len(jobs)
        /\ place # "off" => \A k \in 1 .. mem.next : k \in 1 .. Len(jobs)
    BY <1>0, <1>d, <1>m
  <2> QED
    BY <2>1, <2>3, <2>4 DEF InfraKept, LastJob
<1> QED
  BY <1>1, <1>2, <1>3, <1>4, <1>5, <1>6, <1>7, <1>8, <1>9, <1>10, <1>11, <1>12, <1>13, <1>14
  DEF CampaignNext

\* A job is run only while nothing before it says stop, over all processes and resumptions, save the
\* one stop that a death can lose: what the saved state counts is what the jobs themselves say
\* (formal_campaign.py, run_campaign).
THEOREM StopsAreKept == CampaignSpec => NothingRunsAfterAStop
<1> DEFINE Kept ==
      \A i \in Specs : runs'[i] > runs[i] =>
        LET earlier == {k \in DOMAIN jobs : jobs[k].spec < i}
            ok == {k \in earlier : jobs[k].status \in Proposals}
        IN /\ disk.status = "running"
           /\ {jobs[k].spec : k \in earlier} = 1 .. i - 1
           /\ i > 1 => \E k \in ok : jobs[k].spec = 1
           /\ \A k \in earlier : jobs[k].spec \notin PlannerOnly
           /\ \A k \in earlier : InfraStops(k) => jobs[k].spec \in cut
           /\ i > MaxFailures => \E k \in ok : jobs[k].spec >= i - MaxFailures
<1>1. Stops /\ InfraKept /\ [CampaignNext]_campaignVars => [Kept]_campaignVars
  <2> SUFFICES ASSUME Stops, InfraKept, CampaignNext, NEW i \in Specs, runs'[i] > runs[i]
               PROVE  LET earlier == {k \in DOMAIN jobs : jobs[k].spec < i}
                          ok == {k \in earlier : jobs[k].status \in Proposals}
                      IN /\ disk.status = "running"
                         /\ {jobs[k].spec : k \in earlier} = 1 .. i - 1
                         /\ i > 1 => \E k \in ok : jobs[k].spec = 1
                         /\ \A k \in earlier : jobs[k].spec \notin PlannerOnly
                         /\ \A k \in earlier : InfraStops(k) => jobs[k].spec \in cut
                         /\ i > MaxFailures => \E k \in ok : jobs[k].spec >= i - MaxFailures
    OBVIOUS
  <2>1. runs[i] \in Nat
    BY DEF Stops, IInv, RunsFit
  <2>2. RunJob
    <3>1. ~ UNCHANGED runs
      BY <2>1
    <3> QED
      BY <3>1 DEF CampaignNext, Fresh, Resume, CloseJob, CountJob, Enter, ReadFreeze, EndLoop, Observe, Submit,
                  Activate,
                  JobEnds, Record, Decide, Final, Dies, StopAsked, Recapture, Spoil
  <2>3. /\ mem = disk /\ mem.status = "running" /\ mem.active # Nil /\ mem.failures < MaxFailures
        /\ mem.next >= 1 => jobs[1].status \in Proposals
    BY <2>2 DEF RunJob, Stops, IInv, Held, GoesOn
  <2>4. /\ Fits(mem, jobs) /\ Accounts(mem, jobs) /\ mem.next \in Nat /\ mem.failures \in Nat
        /\ Len(jobs) = mem.next + 1 /\ DOMAIN jobs = 1 .. Len(jobs)
    BY <2>2, <2>3 DEF RunJob, Stops, IInv, StatesFit, JobsFit, StatesAccount, Fits, Rows
  <2>5. i = mem.next + 1
    BY <2>1, <2>2 DEF RunJob, Stops, IInv, RunsFit
  <2>6. \A k \in DOMAIN jobs : jobs[k].spec = k
    BY <2>4 DEF Stops, IInv, JobsFit
  <2>7. {k \in DOMAIN jobs : jobs[k].spec < i} = 1 .. mem.next
    BY <2>4, <2>5, <2>6
  <2>8. {jobs[k].spec : k \in 1 .. mem.next} = 1 .. i - 1
    <3>1. \A k \in 1 .. mem.next : jobs[k].spec = k
      BY <2>4, <2>6
    <3> QED
      BY <3>1, <2>4, <2>5
  <2>9. i > 1 => 1 \in 1 .. mem.next /\ jobs[1].status \in Proposals /\ jobs[1].spec = 1
    BY <2>3, <2>4, <2>5, <2>6
  <2>10. \A k \in 1 .. mem.next : jobs[k].spec \notin PlannerOnly
    BY <2>3, <2>4, <2>6 DEF Accounts
  <2>11. ASSUME i > MaxFailures
         PROVE  \E k \in 1 .. mem.next : jobs[k].status \in Proposals /\ jobs[k].spec >= i - MaxFailures
    <3> DEFINE k == mem.next - mem.failures
    <3>1. MaxFailures \in Nat
      BY CampaignAssumption
    <3>2. mem.failures < mem.next /\ k \in 1 .. mem.next /\ k >= i - MaxFailures
      BY <2>3, <2>4, <2>5, <2>11, <3>1
    <3>3. jobs[k].status \in Proposals /\ jobs[k].spec = k
      BY <2>4, <2>6, <3>2 DEF Accounts
    <3> QED
      BY <3>2, <3>3
  <2>12. \A k \in 1 .. mem.next : InfraStops(k) => jobs[k].spec \in cut
    <3>1. \A k \in 1 .. mem.next : jobs[k].spec = k
      BY <2>4, <2>6
    <3> QED
      BY <2>2, <2>3, <3>1 DEF RunJob, InfraKept
  <2> QED
    BY <2>3, <2>7, <2>8, <2>9, <2>10, <2>11, <2>12
<1> QED
  BY InitStops, StepStops, InitInfra, StepInfra, <1>1, PTL DEF CampaignSpec, NothingRunsAfterAStop
=============================================================================
