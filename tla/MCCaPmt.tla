------------------------------ MODULE MCCaPmt -------------------------------
(* CaPmt for TLC: programs and sessions are interchangeable.               *)
EXTENDS CaPmt, TLC

Symmetry == Permutations(Programs) \cup Permutations(Sessions)

=============================================================================
