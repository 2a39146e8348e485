---------------------------- MODULE SampleBudget ----------------------------
(* What durable sampling promises for every sample of a group, with no process,  *)
(* session or retry loop in sight: an external request is spent before it is     *)
(* made, never beyond the sample's limit and never after its success, and the    *)
(* limit only moves by an explicit grant on top of what was spent.               *)
EXTENDS Integers

CONSTANTS Samples, MaxAttempts, Renewal

VARIABLES spent,    \* requests a sample has used up
          limit,    \* requests it may use up
          made,     \* requests that have left for it
          won       \* it has a durable success

vars == <<spent, limit, made, won>>

Init == /\ spent = [s \in Samples |-> 0]
        /\ limit = [s \in Samples |-> MaxAttempts]
        /\ made = [s \in Samples |-> 0]
        /\ won = [s \in Samples |-> FALSE]

Spend(s) == /\ ~won[s]
            /\ spent[s] < limit[s]
            /\ spent' = [spent EXCEPT ![s] = @ + 1]
            /\ UNCHANGED <<limit, made, won>>

Request(s) == /\ ~won[s]
              /\ made[s] < spent[s]
              /\ made' = [made EXCEPT ![s] = @ + 1]
              /\ UNCHANGED <<spent, limit, won>>

Win(s) == /\ ~won[s]
          /\ made[s] > 0
          /\ won' = [won EXCEPT ![s] = TRUE]
          /\ UNCHANGED <<spent, limit, made>>

Grant(S) == /\ \A s \in S : ~won[s]
            /\ limit' = [s \in Samples |->
                            IF s \in S THEN spent[s] + Renewal ELSE limit[s]]
            /\ UNCHANGED <<spent, made, won>>

Next == \/ \E s \in Samples : Spend(s) \/ Request(s) \/ Win(s)
        \/ \E S \in SUBSET Samples : Grant(S)

Spec == Init /\ [][Next]_vars
=============================================================================
