--------------------------- MODULE MCOutputQueue ----------------------------
(* Small values for the constants of OutputQueue.                          *)
EXTENDS OutputQueue, TLC

\* Blocks are only told apart.
BlockSymmetry == Permutations(Blocks)

=============================================================================
