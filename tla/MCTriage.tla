----------------------------- MODULE MCTriage -----------------------------
(***************************************************************************)
(* A small instance of Triage for TLC.                                     *)
(***************************************************************************)
EXTENDS Triage
=============================================================================
