--------------------------- MODULE MCOwnerRepair ---------------------------
(***************************************************************************)
(* A small instance of OwnerRepair for TLC: two repairs, and a review that *)
(* is ready in two ways that differ in a comment.                          *)
(***************************************************************************)
EXTENDS OwnerRepair, TLC

CONSTANTS ready, commented

\* Bound: everything may happen to the first repair and while the second one waits for
\* it; once the first has ended, grant and process last, and nobody pushes to, merges
\* or closes the pull request of the second.
FirstThenStraight ==
    stage[1] \in Terminal =>
        /\ UNCHANGED <<grant, crashes>>
        /\ remote'[2].by # "hand" /\ (remote'[2].head = "other" => remote[2].head = "other")
        /\ remote'[2].evidence \in {remote[2].evidence, ready, None}

MCSpec == Init /\ [][Next /\ FirstThenStraight]_vars /\ Fairness
=============================================================================
