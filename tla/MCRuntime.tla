------------------------------ MODULE MCRuntime ------------------------------
(* A small instance of SamplingRuntime for TLC.                                 *)
EXTENDS SamplingRuntime, TLC

CONSTANTS q1, q2, b1, b2, b3, b4

\* Each of two questions has a branch that calls another one, which samples.
Calls == (b1 :> q1) @@ (b2 :> b1) @@ (b3 :> q2) @@ (b4 :> b3)
OneAndThree == (b1 :> 0) @@ (b2 :> 1) @@ (b3 :> 0) @@ (b4 :> 3)
=============================================================================
