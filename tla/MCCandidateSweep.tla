-------------------------- MODULE MCCandidateSweep --------------------------
(* Instances of CandidateSweep for TLC. *)
EXTENDS CandidateSweep

TwoDays == <<0, 1>>
=============================================================================
