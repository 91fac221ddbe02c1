-------------------------- MODULE ReleaseContract --------------------------
(***************************************************************************)
(* What the owner is promised about a repair, whatever fails on the way    *)
(* (docs/discord-owner-repair-execution.md, "継続指示とrelease認可"):       *)
(*   - it gets one answer, "completed" or "failed", which stays;           *)
(*   - it is authorized at most once, and never after it was answered;     *)
(*   - production gets only what was authorized and merged;                *)
(*   - "completed" is answered only when production has it.                *)
(***************************************************************************)
CONSTANTS Jobs, None

VARIABLES
    answer,         \* what the owner was told about each repair, None before
    authorization,  \* the record its release rests on, None before
    merged,         \* repairs that are on the main branch
    deployed        \* repairs that production was given

vars == <<answer, authorization, merged, deployed>>

Init ==
    /\ answer = [j \in Jobs |-> None]
    /\ authorization = [j \in Jobs |-> None]
    /\ merged = {} /\ deployed = {}

Authorize(j) ==
    /\ answer[j] = None /\ authorization[j] = None
    /\ authorization'[j] # None
    /\ authorization' = [authorization EXCEPT ![j] = authorization'[j]]
    /\ UNCHANGED <<answer, merged, deployed>>

\* By the controller or by a person; only what is authorized goes on to Deploy.
Merge(j) == merged' = merged \cup {j} /\ UNCHANGED <<answer, authorization, deployed>>

Deploy(j) ==
    /\ authorization[j] # None /\ j \in merged
    /\ deployed' = deployed \cup {j}
    /\ UNCHANGED <<answer, authorization, merged>>

Answer(j, outcome) ==
    /\ answer[j] = None
    /\ outcome = "completed" => j \in deployed
    /\ answer' = [answer EXCEPT ![j] = outcome]
    /\ UNCHANGED <<authorization, merged, deployed>>

Next == \E j \in Jobs :
    \/ Authorize(j) \/ Merge(j) \/ Deploy(j)
    \/ \E outcome \in {"completed", "failed"} : Answer(j, outcome)

Spec == Init /\ [][Next]_vars
=============================================================================
