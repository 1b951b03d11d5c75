--------------------------- MODULE MCServerSystem ---------------------------
(* Instances of ServerSystem for TLC. *)
EXTENDS ServerSystem, TLC

Symmetry ==
    Permutations(Servers) \cup Permutations(Names) \cup Permutations(IPs)
    \cup Permutations(Requests) \cup Permutations(Slots)

\* The behaviours in which no two operations on a server ever overlap and
\* none is cut short
QuietSpec == Init /\ [][Next /\ disturbed' = {}]_vars
=============================================================================
