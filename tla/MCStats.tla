------------------------------ MODULE MCStats ------------------------------
(***************************************************************************)
(* SlayerStats on a small ring. Readers do not interact with each other:   *)
(* one is enough.                                                          *)
(***************************************************************************)
EXTENDS SlayerStats

Workers == {"w1"}
============================================================================
