--------------------------- MODULE MCWorkerService ---------------------------
(***************************************************************************)
(* Small instances of WorkerService for TLC: one worker of one slot, jobs  *)
(* of either mode, at most one document per attempt.                       *)
(***************************************************************************)
EXTENDS WorkerService, TLC

MCModeOf == [i \in Inputs |-> i]
MCOneSlot == {[caps |-> {"web.collect"}, concurrency |-> 1]}
MCIds == Attempts \X Names
MCContents == {"body"} \cup StageStatuses \cup {"cancelled"}
MCUnitSize == [c \in Contents |-> 1]
MCAnyManifest == SUBSET Refs

Symmetry == Permutations(Jobs) \cup Permutations(Attempts)
=============================================================================
