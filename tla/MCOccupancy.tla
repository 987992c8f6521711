---------------------------- MODULE MCOccupancy ----------------------------
(* The accumulators on small instances; the constants are in the cfgs.     *)
EXTENDS Occupancy
=============================================================================
