----------------------------- MODULE MCFormalRun -----------------------------
(***************************************************************************)
(* A small instance of FormalRun for TLC: the base passes all checks but   *)
(* is no change, one content needs a repair, one is a fix and one is a fix *)
(* outside of the allowed files.                                           *)
(***************************************************************************)
EXTENDS FormalRun

CONSTANTS base, broken, fixed, wide
Formal == [plannerOnly |-> FALSE, repairs |-> 1, backend |-> "owned"]
MCContracts == {Formal, [Formal EXCEPT !.repairs = 0, !.backend = "strata"],
                [Formal EXCEPT !.backend = "llama"], [Formal EXCEPT !.repairs = 0, !.plannerOnly = TRUE]}
=============================================================================
