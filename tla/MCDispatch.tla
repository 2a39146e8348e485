------------------------------ MODULE MCDispatch ------------------------------
(* Small instances of RequestDispatch for TLC.                                  *)
EXTENDS RequestDispatch, TLC

CONSTANTS r1, r2, r3, g1, g2

\* Two requests of one group, the second a retry, and one of another group.
TwoGroups == (r1 :> g1) @@ (r2 :> g1) @@ (r3 :> g2)
Retries == {r2}
=============================================================================
