------------------------------ MODULE MCSampling ------------------------------
(* Small instances of DurableSampling for TLC.                                  *)
EXTENDS DurableSampling, TLC

SampleSymmetry == Permutations(Samples)
=============================================================================
