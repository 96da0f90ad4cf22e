-------------------------- MODULE MCKextdWatchVol --------------------------
(* Small instances of KextdWatchVol for TLC. *)
EXTENDS KextdWatchVol, TLC

CONSTANTS disk, data, h1, h2, h3, s1, s2

Symmetry == Permutations(Helpers) \cup Permutations(Rebooters)
=============================================================================
