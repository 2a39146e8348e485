----------------------------- MODULE RequestPort -----------------------------
(* What the request dispatcher promises to the threads and coroutines that wait  *)
(* on it, with no event loop, queue, task or callback in sight: an       *)
(* accepted request is settled exactly once, whether or not it was admitted;     *)
(* never more than Cap are admitted at a time; nothing is accepted once the port *)
(* stopped or closed; and it is shut only when nothing is outstanding.           *)
EXTENDS Integers, FiniteSets

CONSTANTS Requests, Cap

VARIABLES phase,     \* per request: "new", "accepted", "admitted", "settled"
          stopped,   \* the run's stop event
          port       \* "open", "closing" or "shut"

vars == <<phase, stopped, port>>

InPhase(p) == {r \in Requests : phase[r] = p}

Init == /\ phase = [r \in Requests |-> "new"]
        /\ stopped = FALSE
        /\ port = "open"

Accept(r) == /\ phase[r] = "new" /\ ~stopped /\ port = "open"
             /\ phase' = [phase EXCEPT ![r] = "accepted"]
             /\ UNCHANGED <<stopped, port>>

Admit(r) == /\ phase[r] = "accepted"
            /\ Cardinality(InPhase("admitted")) < Cap
            /\ phase' = [phase EXCEPT ![r] = "admitted"]
            /\ UNCHANGED <<stopped, port>>

\* One or more requests settle together; a fatal answer stops the port with it.
Settle(R) == /\ R \subseteq InPhase("accepted") \cup InPhase("admitted")
             /\ phase' = [r \in Requests |-> IF r \in R THEN "settled" ELSE phase[r]]
             /\ UNCHANGED port
             /\ stopped' \in {stopped, TRUE}

Stop == /\ stopped' = TRUE
        /\ UNCHANGED <<phase, port>>

Close == /\ port = "open"
         /\ port' = "closing"
         /\ UNCHANGED <<phase, stopped>>

Shut == /\ port = "closing"
        /\ InPhase("accepted") \cup InPhase("admitted") = {}
        /\ port' = "shut"
        /\ UNCHANGED <<phase, stopped>>

Next == \/ \E r \in Requests : Accept(r) \/ Admit(r)
        \/ \E R \in SUBSET Requests : Settle(R)
        \/ Stop \/ Close \/ Shut

\* What is accepted is settled in the end, and a closing port shuts.
Spec == Init /\ [][Next]_vars /\ WF_vars(Shut \/ \E R \in SUBSET Requests : R # {} /\ Settle(R))
=============================================================================
