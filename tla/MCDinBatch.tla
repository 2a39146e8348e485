----------------------------- MODULE MCDinBatch -----------------------------
(* DinBatch on small groups.                                                    *)
EXTENDS DinBatch, TLC

CONSTANTS q1, q2

TwoGroups == <<{q1}, {q2}>>
NestedFirst == {q1}
TwoOutputs == {"generation_base", "revision_base"}

\* The second question was answered before, all but its revision.
Accepted == (q1 :> {}) @@ (q2 :> {"linking", "decomposition", "generation_base"})
=============================================================================
