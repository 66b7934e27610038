------------------------------- MODULE MCLog -------------------------------
(***************************************************************************)
(* SlayerLog with a few threads and a ring of a few entries.               *)
(***************************************************************************)
EXTENDS SlayerLog, TLC

Symmetry == Permutations(Threads) \cup Permutations(Entries)
============================================================================
