--------------------------- MODULE QuestionLedger ---------------------------
(* What a native run that is always resumed with --unfinished-only promises a    *)
(* reader of its store, with no process, thread, slot or attempt in sight: the   *)
(* stages of a question are committed in order, each at most once; at most one   *)
(* stage fails and nothing follows it; and the question is then settled once,    *)
(* by what its stages say.                                                       *)
EXTENDS Integers

CONSTANTS NItems, NStages

Items == 1..NItems
Stages == 1..NStages

VARIABLES committed,    \* per item, the stages with a committed success
          failed,       \* per item, the stages with a committed failure
          outcome       \* per item, what its last master attempt says

vars == <<committed, failed, outcome>>

Init == /\ committed = [i \in Items |-> {}]
        /\ failed = [i \in Items |-> {}]
        /\ outcome = [i \in Items |-> "open"]

\* The next stage of a question that has neither failed nor been settled.
Due(i, k) == /\ outcome[i] = "open"
             /\ failed[i] = {}
             /\ committed[i] = 1..(k - 1)

Commit(i, k) == /\ Due(i, k)
                /\ committed' = [committed EXCEPT ![i] = @ \cup {k}]
                /\ UNCHANGED <<failed, outcome>>

Fail(i, k) == /\ Due(i, k)
              /\ failed' = [failed EXCEPT ![i] = {k}]
              /\ UNCHANGED <<committed, outcome>>

Settle(i) == /\ outcome[i] = "open"
             /\ \/ /\ committed[i] = Stages
                   /\ outcome' = [outcome EXCEPT ![i] = "succeeded"]
                \/ /\ failed[i] # {}
                   /\ outcome' = [outcome EXCEPT ![i] = "failed"]
             /\ UNCHANGED <<committed, failed>>

Question(i) == Settle(i) \/ \E k \in Stages : Commit(i, k) \/ Fail(i, k)

Next == \E i \in Items : Question(i)

Spec == Init /\ [][Next]_vars

\* Every question is carried to its settlement.
FairSpec == Spec /\ \A i \in Items : WF_vars(Question(i))
=============================================================================
