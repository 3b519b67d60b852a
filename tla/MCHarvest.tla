------------------------------ MODULE MCHarvest ------------------------------
(* Instance of Harvest for TLC: every source, boards of up to three pages. *)
EXTENDS Harvest

MCCounts == 0..(MaxPages * MaxTerms)
=============================================================================
