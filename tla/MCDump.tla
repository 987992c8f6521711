------------------------------- MODULE MCDump -------------------------------
(* The dump path on small instances; the constants are in the cfg files.   *)
EXTENDS Dump
=============================================================================
