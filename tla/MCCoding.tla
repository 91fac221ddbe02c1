------------------------------- MODULE MCCoding -------------------------------
(***************************************************************************)
(* A small instance of Coding for TLC: an untouched, a good and a bad      *)
(* content, on a system with process groups.                               *)
(***************************************************************************)
EXTENDS Coding
=============================================================================
