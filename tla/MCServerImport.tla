--------------------------- MODULE MCServerImport ---------------------------
(* Instances of ServerImport for TLC. *)
EXTENDS ServerImport, TLC

\* The model values of each set are interchangeable.
Symmetry == Permutations(Servers) \cup Permutations(Names) \cup Permutations(IPs)
=============================================================================
