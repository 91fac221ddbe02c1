-------------------------------- MODULE MCKarte --------------------------------
(***************************************************************************)
(* A small instance of Karte for TLC: metadata that are sound with the     *)
(* payload and others, two receipts, a job that is run again.              *)
(***************************************************************************)
EXTENDS Karte

MCSound == {<<"p1", "m1">>}
=============================================================================
