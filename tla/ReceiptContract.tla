----------------------------- MODULE ReceiptContract -----------------------------
(***************************************************************************)
(* What docs/karte-experiment-consumer.md promises of the results that are *)
(* recorded for one job: a result that was reported is never taken back.   *)
(* A receipt, once there is one, stays, and so does a cancellation.        *)
(***************************************************************************)
CONSTANTS Payloads, Receipts, Terminal, Phases, None

VARIABLE told       \* the observation that was reported last

Observation == [payload : Payloads, phase : Phases, receipt : Receipts \cup {None}, cancelled : BOOLEAN]

Init == told = None

Keeps(before, after) ==
    /\ after.payload = before.payload
    /\ before.phase \in Terminal => after.phase = before.phase /\ after.receipt = before.receipt
    /\ before.cancelled => after.cancelled

Report(o) ==
    /\ told # None => Keeps(told, o)
    /\ told' = o

Next == \E o \in Observation : Report(o)

Spec == Init /\ [][Next]_told
=============================================================================
