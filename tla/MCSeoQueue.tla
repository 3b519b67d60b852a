------------------------------ MODULE MCSeoQueue ------------------------------
(***************************************************************************)
(* Instances of SeoQueue: two publishes a day, one URL per IndexNow batch  *)
(* and a single attempt per row.                                           *)
(***************************************************************************)
EXTENDS SeoQueue, TLC

=============================================================================
