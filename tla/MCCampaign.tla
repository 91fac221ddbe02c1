------------------------------ MODULE MCCampaign ------------------------------
(***************************************************************************)
(* A plan of five specs for TLC: the second on Strata, the fourth          *)
(* planner-only, so that the fifth must never run, two failures in a row   *)
(* allowed for.                                                            *)
(***************************************************************************)
EXTENDS Campaign
=============================================================================
