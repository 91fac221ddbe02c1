------------------------------ MODULE MCResearch ------------------------------
(***************************************************************************)
(* A small instance of Research for TLC: two sources, the limits small   *)
(* enough that each of them is met.                                        *)
(***************************************************************************)
EXTENDS Research

CONSTANTS u1, u2, q1, q2, q3
=============================================================================
