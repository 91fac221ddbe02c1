--------------------------- MODULE MCDiscordBridge ---------------------------
(***************************************************************************)
(* A small instance of DiscordBridge for TLC: g and h are messages of      *)
(* guests, o is one of the owner.                                          *)
(***************************************************************************)
EXTENDS DiscordBridge, TLC

CONSTANTS p1, p2, g, h, o

\* The settings were changed before the second process started.
MCLessLater == [p \in Processes |-> IF p = p1 THEN Messages ELSE Messages \ {h}]

\* Bound: a drain meets the messages g and o only, so that h never comes with one or
\* after one.
Came(m) == InQueue(m) \/ intake[m].known \/ m \in requests
DrainWithoutThird ==
    /\ issued' # issued => ~Came(h)
    /\ Came(h)' => Came(h) \/ issued = 0

MCSpec == Init /\ [][Next /\ DrainWithoutThird]_vars /\ Fairness
=============================================================================
