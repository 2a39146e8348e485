----------------------------- MODULE VersionPort -----------------------------
(* What a version of a question promises the campaign that asks for it, with no  *)
(* process, round or request in sight: each mode gets one outcome, which stays,  *)
(* and the version is sealed once every mode has one.                            *)
CONSTANTS Modes, Outcomes

None == "none"

VARIABLES outcome,    \* per mode, its outcome, or None
          sealed      \* nothing is added any more

vars == <<outcome, sealed>>

Init == outcome = [m \in Modes |-> None] /\ sealed = FALSE

Decide(m) == /\ ~sealed /\ outcome[m] = None
             /\ \E o \in Outcomes : outcome' = [outcome EXCEPT ![m] = o]
             /\ UNCHANGED sealed

Seal == /\ ~sealed /\ \A m \in Modes : outcome[m] # None
        /\ sealed' = TRUE
        /\ UNCHANGED outcome

Next == Seal \/ \E m \in Modes : Decide(m)

Spec == Init /\ [][Next]_vars
=============================================================================
