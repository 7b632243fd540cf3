-------------------------- MODULE MCSweepExecution --------------------------
(***************************************************************************)
(* Instances of SweepExecution for TLC: a token pairing, a native one, or  *)
(* both.  A deposit is two units and a native transfer costs one.          *)
(***************************************************************************)
EXTENDS SweepExecution

CONSTANTS token, native, k1, k2

MCVia == [p \in Pairing |-> IF p = native THEN "native" ELSE "eip3009"]

=============================================================================
