--------------------------- MODULE PipelineProofs ---------------------------
(* Theorems about DeepEyePipeline for every number of questions, stages, slots    *)
(* and processes, and for either resume command.                                *)
EXTENDS DeepEyePipeline, FiniteSetTheorems, SequenceTheorems, WellFoundedInduction, TLAPS

------------------------------------------------------------------------------
(* The run store's writes only ever extend a question's log.                    *)

\* new keeps every row of old, and every row old had finished.
Extends(old, new) ==
    \A a \in DOMAIN old :
        /\ a \in DOMAIN new
        /\ new[a].stage = old[a].stage /\ new[a].input = old[a].input
        /\ old[a].status # "interrupted" => new[a].status = old[a].status

\* The same, and nothing was finished by the step.
Keeps(old, new) ==
    /\ Extends(old, new)
    /\ \A k, st : st # "interrupted" => Ended(new, k, st) = Ended(old, k, st)

\* Attempt a of old was finished with this status, and nothing else changed.
Finishes(old, new, a, status) ==
    /\ DOMAIN new = DOMAIN old /\ Extends(old, new)
    /\ \A b \in DOMAIN old \ {a} : new[b] = old[b]
    /\ new[a].stage = old[a].stage /\ new[a].input = old[a].input
    /\ new[a].status = status
    /\ \A b \in Ended(new, old[a].stage, status) :
          b = a \/ b \in Ended(old, old[a].stage, status)
    /\ \A k, st : st # "interrupted" /\ ~(k = old[a].stage /\ st = status) =>
          Ended(new, k, st) = Ended(old, k, st)

LEMMA BeginLemma ==
    ASSUME NEW rows \in Seq(Rows), NEW stage \in Stages \cup {Master},
           NEW input \in Seq(Nat)
    PROVE  LET new == begin_attempt(rows, stage, input) IN
           /\ new \in Seq(Rows)
           /\ Len(new) = Len(rows) + 1
           /\ new[Len(rows) + 1] = NewRow(stage, input)
           /\ \A a \in DOMAIN rows : new[a] = rows[a]
           /\ Keeps(rows, new)
<1> DEFINE new == begin_attempt(rows, stage, input)
<1>1. NewRow(stage, input) \in Rows
  BY DEF NewRow, Rows, Statuses
<1>2. /\ new \in Seq(Rows) /\ Len(new) = Len(rows) + 1
      /\ new[Len(rows) + 1] = NewRow(stage, input)
      /\ \A a \in DOMAIN rows : new[a] = rows[a]
  BY <1>1, AppendProperties DEF begin_attempt
<1>3. DOMAIN new = DOMAIN rows \cup {Len(rows) + 1}
  BY <1>2
<1>4. Extends(rows, new)
  BY <1>2, <1>3 DEF Extends
<1>5. \A k, st : st # "interrupted" => Ended(new, k, st) = Ended(rows, k, st)
  BY <1>2, <1>3 DEF Ended, NewRow
<1> QED BY <1>2, <1>4, <1>5 DEF Keeps

LEMMA EventLemma ==
    ASSUME NEW rows \in Seq(Rows), NEW a, Open(rows, a), NEW kind \in EventKinds
    PROVE  LET new == append_event(rows, a, kind) IN
           /\ new \in Seq(Rows)
           /\ DOMAIN new = DOMAIN rows
           /\ \A b \in DOMAIN rows : /\ new[b].stage = rows[b].stage
                                     /\ new[b].input = rows[b].input
                                     /\ new[b].status = rows[b].status
                                     /\ new[b].recorded = rows[b].recorded
                                     /\ new[b].links = rows[b].links
                                     /\ new[b].failedStage = rows[b].failedStage
           /\ Keeps(rows, new)
<1> DEFINE new == append_event(rows, a, kind)
<1>1. a \in 1..Len(rows) /\ rows[a] \in Rows
  BY DEF Open
<1>2. new = [rows EXCEPT ![a] = [rows[a] EXCEPT !.kinds = @ \cup {kind}]]
  BY DEF append_event
<1>3. [rows[a] EXCEPT !.kinds = @ \cup {kind}] \in Rows
  BY <1>1 DEF Rows
<1>4. new \in Seq(Rows) /\ DOMAIN new = DOMAIN rows
  BY <1>1, <1>2, <1>3, ExceptSeq
<1>5. \A b \in DOMAIN rows : /\ new[b].stage = rows[b].stage
                             /\ new[b].input = rows[b].input
                             /\ new[b].status = rows[b].status
                             /\ new[b].recorded = rows[b].recorded
                             /\ new[b].links = rows[b].links
                             /\ new[b].failedStage = rows[b].failedStage
  BY SMTT(40), <1>1, <1>2 DEF Rows
<1>6. Keeps(rows, new)
  BY <1>4, <1>5 DEF Keeps, Extends, Ended
<1> QED BY <1>4, <1>5, <1>6

LEMMA LinksLemma ==
    ASSUME NEW rows \in Seq(Rows), NEW a, Open(rows, a), NEW more \in Seq(Nat)
    PROVE  LET new == append_links(rows, a, more) IN
           /\ new \in Seq(Rows)
           /\ DOMAIN new = DOMAIN rows
           /\ \A b \in DOMAIN rows : /\ new[b].stage = rows[b].stage
                                     /\ new[b].input = rows[b].input
                                     /\ new[b].status = rows[b].status
                                     /\ new[b].links = rows[b].links
                                     /\ new[b].failedStage = rows[b].failedStage
           /\ Keeps(rows, new)
<1> DEFINE new == append_links(rows, a, more)
<1>1. a \in 1..Len(rows) /\ rows[a] \in Rows
  BY DEF Open
<1> DEFINE row == [rows[a] EXCEPT !.recorded = @ \o more]
<1>2. new = [rows EXCEPT ![a] = row]
  BY DEF append_links
<1>3. rows[a].recorded \o more \in Seq(Nat)
  BY <1>1, ConcatProperties DEF Rows
<1>4. row \in Rows
  BY <1>1, <1>3 DEF Rows
<1>5. /\ row.stage = rows[a].stage /\ row.input = rows[a].input
      /\ row.status = rows[a].status /\ row.links = rows[a].links
      /\ row.failedStage = rows[a].failedStage
  BY <1>1 DEF Rows
<1> HIDE DEF row
<1>6. new \in Seq(Rows) /\ DOMAIN new = DOMAIN rows
  BY <1>1, <1>2, <1>4, ExceptSeq
<1>7. new[a] = row /\ \A b \in DOMAIN rows \ {a} : new[b] = rows[b]
  BY <1>1, <1>2
<1>8. \A b \in DOMAIN rows : /\ new[b].stage = rows[b].stage
                             /\ new[b].input = rows[b].input
                             /\ new[b].status = rows[b].status
                             /\ new[b].links = rows[b].links
                             /\ new[b].failedStage = rows[b].failedStage
  BY <1>5, <1>7
<1>9. Keeps(rows, new)
  BY <1>6, <1>8 DEF Keeps, Extends, Ended
<1> QED BY <1>6, <1>8, <1>9

LEMMA FinishLemma ==
    ASSUME NEW rows \in Seq(Rows), NEW a, Open(rows, a),
           NEW status \in {"succeeded", "failed"}, NEW links \in Seq(Nat),
           NEW failedStage \in Stages \cup {0}
    PROVE  LET new == finish_attempt(rows, a, status, links, failedStage) IN
           /\ new \in Seq(Rows)
           /\ new[a].links = links /\ new[a].failedStage = failedStage
           /\ Finishes(rows, new, a, status)
<1> DEFINE new == finish_attempt(rows, a, status, links, failedStage)
<1> DEFINE row == [rows[a] EXCEPT !.status = status, !.links = links,
                                  !.failedStage = failedStage]
<1>1. a \in 1..Len(rows) /\ rows[a] \in Rows /\ rows[a].status = "interrupted"
  BY DEF Open
<1>2. row \in Rows
  BY <1>1 DEF Rows, Statuses
<1>3. /\ row.stage = rows[a].stage /\ row.input = rows[a].input
      /\ row.status = status /\ row.links = links /\ row.failedStage = failedStage
  BY <1>1 DEF Rows
<1>4. new = [rows EXCEPT ![a] = row]
  BY <1>1 DEF finish_attempt, Rows
<1> HIDE DEF row
<1>5. new \in Seq(Rows) /\ DOMAIN new = DOMAIN rows
  BY <1>1, <1>2, <1>4, ExceptSeq
<1>6. new[a] = row /\ \A b \in DOMAIN rows \ {a} : new[b] = rows[b]
  BY <1>1, <1>4
<1>7. Extends(rows, new)
  BY <1>1, <1>3, <1>5, <1>6 DEF Extends
<1>8. ASSUME NEW k, NEW st, st # "interrupted"
      PROVE  /\ \A b \in DOMAIN rows \ {a} :
                    b \in Ended(new, k, st) <=> b \in Ended(rows, k, st)
             /\ a \notin Ended(rows, k, st)
             /\ a \in Ended(new, k, st) <=> (k = rows[a].stage /\ st = status)
             /\ Ended(new, k, st) \subseteq DOMAIN rows
             /\ Ended(rows, k, st) \subseteq DOMAIN rows
  <2> HIDE DEF new
  <2> QED BY <1>1, <1>3, <1>5, <1>6, <1>8 DEF Ended
<1>9. \A b \in Ended(new, rows[a].stage, status) :
          b = a \/ b \in Ended(rows, rows[a].stage, status)
  BY <1>1, <1>8
<1>10. \A k, st : st # "interrupted" /\ ~(k = rows[a].stage /\ st = status) =>
          Ended(new, k, st) = Ended(rows, k, st)
  <2> HIDE DEF new
  <2> TAKE k, st
  <2> HAVE st # "interrupted" /\ ~(k = rows[a].stage /\ st = status)
  <2>1. \A b : b \in Ended(new, k, st) <=> b \in Ended(rows, k, st)
    BY <1>8
  <2> QED BY <2>1
<1>11. new \in Seq(Rows) /\ new[a].links = links /\ new[a].failedStage = failedStage
  BY <1>3, <1>5, <1>6
<1>12. Finishes(rows, new, a, status)
  <2> HIDE DEF new
  <2> QED BY <1>3, <1>5, <1>6, <1>7, <1>9, <1>10 DEF Finishes
<1> QED BY <1>11, <1>12

------------------------------------------------------------------------------
(* Chains of commits.                                                           *)

\* Once a chain of commits, always one: logs are only extended.
LEMMA ChainExtends ==
    ASSUME NEW old, NEW new, Extends(old, new), NEW c, IsCommitChain(old, c)
    PROVE  IsCommitChain(new, c)
BY DEF IsCommitChain, Extends, Ended

\* A commit that was given the whole chain makes it one stage longer.
LEMMA ChainAppend ==
    ASSUME NEW rows, NEW c \in Seq(Nat), IsCommitChain(rows, c), Len(c) < NStages,
           NEW a \in Ended(rows, Len(c) + 1, "succeeded"), a \in Nat,
           rows[a].input = c
    PROVE  IsCommitChain(rows, Append(c, a))
<1> DEFINE d == Append(c, a)
<1>1. d \in Seq(Nat) /\ Len(d) = Len(c) + 1 /\ d[Len(c) + 1] = a
      /\ \A k \in 1..Len(c) : d[k] = c[k]
  BY AppendProperties
<1>2. ASSUME NEW k \in 1..Len(d) PROVE SubSeq(d, 1, k - 1) = SubSeq(c, 1, k - 1)
  <2>1. d = c \o <<a>> /\ <<a>> \in Seq(Nat)
    BY AppendIsConcat
  <2>2. CASE k = 1
    BY <2>2, SubSeqEmpty
  <2>3. CASE k - 1 \in 1..Len(c)
    <3>1. 1 \in 1..Len(c)
      BY <2>3
    <3> QED BY <2>1, <2>3, <3>1, SubSeqOfConcat1
  <2> QED BY <1>1, <2>2, <2>3
<1>3. SubSeq(c, 1, Len(c)) = c
  BY SubSeqFull
<1>4. Len(d) <= NStages
  BY <1>1, NStagesAssumption
<1>5. ASSUME NEW k \in 1..Len(d)
      PROVE  d[k] \in Ended(rows, k, "succeeded") /\ rows[d[k]].input = SubSeq(d, 1, k - 1)
  <2>1. CASE k = Len(c) + 1
    <3>1. d[k] = a /\ SubSeq(d, 1, k - 1) = c
      BY <1>1, <1>2, <1>3, <2>1
    <3> QED BY <3>1, <2>1
  <2>2. CASE k \in 1..Len(c)
    <3>1. d[k] = c[k] /\ SubSeq(d, 1, k - 1) = SubSeq(c, 1, k - 1)
      BY <1>1, <1>2, <2>2
    <3> QED BY <3>1, <2>2 DEF IsCommitChain
  <2> QED BY <1>1, <2>1, <2>2
<1> QED BY <1>4, <1>5 DEF IsCommitChain
------------------------------------------------------------------------------
(* Maxima: the log is searched for its latest master and its latest failure.    *)

LEMMA HasLatest ==
    ASSUME NEW n \in Nat, NEW S \in SUBSET (1..n), S # {}
    PROVE  Latest(S) \in S /\ \A b \in S : b <= Latest(S)
<1> DEFINE Less == {p \in Nat \X Nat : p[1] < p[2]}
           Below == {n - a : a \in S}
<1>1. IsWellFoundedOn(Less, Nat)
  BY NatLessThanWellFounded DEF OpToRel
<1>2. Below \subseteq Nat
  <2>1. \A a \in S : n - a \in Nat
    OBVIOUS
  <2> QED BY <2>1
<1>3. Below # {}
  <2>1. PICK a \in S : TRUE
    OBVIOUS
  <2>2. n - a \in Below
    BY <2>1
  <2> QED BY <2>2
<1>4. PICK x \in Below : \A y \in Below : ~(<<y, x>> \in Less)
  <2> HIDE DEF Less, Below
  <2> QED BY <1>1, <1>2, <1>3, WFMin
<1>5. PICK a \in S : x = n - a
  OBVIOUS
<1>6. ASSUME NEW b \in S PROVE b <= a
  <2>1. n - b \in Below /\ n - b \in Nat /\ n - a \in Nat
    BY <1>2
  <2>2. ~(n - b < n - a)
    BY <1>4, <1>5, <2>1
  <2> QED BY <2>1, <2>2
<1> QED BY <1>6 DEF Latest

------------------------------------------------------------------------------
(* The three properties of a log, and what its extensions keep of them.         *)

LogSound(rows) ==
    OneCommit(rows) /\ InputsCommitted(rows) /\ MastersOwnLineage(rows)

\* The lineage a master stands for, once there, stays there.
LEMMA OwnsExtends ==
    ASSUME NEW old, NEW new, Extends(old, new),
           NEW status, NEW links, NEW failedStage,
           OwnsLineage(old, status, links, failedStage)
    PROVE  OwnsLineage(new, status, links, failedStage)
<1>1. CASE status = "succeeded"
  BY <1>1, ChainExtends DEF OwnsLineage
<1>2. CASE status # "succeeded"
  <2> DEFINE before == SubSeq(links, 1, failedStage - 1)
  <2>1. /\ failedStage \in Stages /\ Len(links) = failedStage
        /\ IsCommitChain(old, before)
        /\ links[failedStage] \in EndedOn(old, failedStage, before, "failed")
    BY <1>2 DEF OwnsLineage
  <2>2. IsCommitChain(new, before)
    BY <2>1, ChainExtends
  <2>3. links[failedStage] \in EndedOn(new, failedStage, before, "failed")
    <3> HIDE DEF before
    <3> QED BY <2>1 DEF EndedOn, Ended, Extends
  <2> QED BY <1>2, <2>1, <2>2, <2>3 DEF OwnsLineage
<1> QED BY <1>1, <1>2

\* The inputs and lineages of the rows a log already had.
LEMMA OldRowsSound ==
    ASSUME NEW old, NEW new, Extends(old, new), LogSound(old)
    PROVE  /\ \A a \in DOMAIN old : new[a].stage # Master =>
                 /\ IsCommitChain(new, new[a].input)
                 /\ Len(new[a].input) = new[a].stage - 1
           /\ \A a \in Masters(old) : old[a].status # "interrupted" =>
                 OwnsLineage(new, old[a].status, old[a].links, old[a].failedStage)
<1>1. ASSUME NEW a \in DOMAIN old, new[a].stage # Master
      PROVE  IsCommitChain(new, new[a].input) /\ Len(new[a].input) = new[a].stage - 1
  <2>1. new[a].stage = old[a].stage /\ new[a].input = old[a].input
    BY DEF Extends
  <2>2. IsCommitChain(old, old[a].input) /\ Len(old[a].input) = old[a].stage - 1
    BY <1>1, <2>1 DEF LogSound, InputsCommitted
  <2>3. IsCommitChain(new, old[a].input)
    BY <2>2, ChainExtends
  <2> QED BY <2>1, <2>2, <2>3
<1>2. ASSUME NEW a \in Masters(old), old[a].status # "interrupted"
      PROVE  OwnsLineage(new, old[a].status, old[a].links, old[a].failedStage)
  <2>1. OwnsLineage(old, old[a].status, old[a].links, old[a].failedStage)
    BY <1>2 DEF LogSound, MastersOwnLineage
  <2> QED BY <2>1, OwnsExtends
<1> QED BY <1>1, <1>2

\* An event changes nothing of this.
LEMMA EventSound ==
    ASSUME NEW old, NEW new, LogSound(old), Keeps(old, new), DOMAIN new = DOMAIN old,
           \A b \in DOMAIN old : /\ new[b].stage = old[b].stage
                                 /\ new[b].status = old[b].status
                                 /\ new[b].links = old[b].links
                                 /\ new[b].failedStage = old[b].failedStage
    PROVE  LogSound(new)
<1>1. Extends(old, new)
  BY DEF Keeps
<1>2. OneCommit(new)
  BY DEF LogSound, OneCommit, Keeps
<1>3. InputsCommitted(new)
  BY <1>1, OldRowsSound DEF InputsCommitted
<1>4. Masters(new) = Masters(old)
  BY DEF Masters
<1>5. MastersOwnLineage(new)
  <2>1. \A a \in Masters(old) : /\ new[a].status = old[a].status
                                /\ new[a].links = old[a].links
                                /\ new[a].failedStage = old[a].failedStage
    BY DEF Masters
  <2> QED BY <1>1, <1>4, <2>1, OldRowsSound DEF MastersOwnLineage
<1> QED BY <1>2, <1>3, <1>5 DEF LogSound
------------------------------------------------------------------------------
(* One question: its thread and its log.  There is one lemma per kind of step    *)
(* of the thread, about the values and without the state.                       *)

ItemSound(t, rows) ==
    /\ t \in Threads /\ rows \in Seq(Rows)
    /\ LogSound(rows)
    /\ Frontier(rows, t.chain)
    /\ HoldsItsWork(t, rows)

LEMMA WorkExtends ==
    ASSUME NEW old, NEW new, Extends(old, new), NEW t, HoldsItsWork(t, old)
    PROVE  HoldsItsWork(t, new)
<1>1. t.master \in Masters(old) => t.master \in Masters(new)
  BY DEF Masters, Extends
<1>2. OwnsLineage(old, t.status, t.links, t.failedStage) =>
          OwnsLineage(new, t.status, t.links, t.failedStage)
  BY OwnsExtends
<1>3. t.at \in DOMAIN old => /\ t.at \in DOMAIN new
                             /\ new[t.at].stage = old[t.at].stage
                             /\ new[t.at].input = old[t.at].input
  BY DEF Extends
<1> QED BY <1>1, <1>2, <1>3 DEF HoldsItsWork

LEMMA FrontierKeeps ==
    ASSUME NEW old, NEW new, Keeps(old, new), NEW c, Frontier(old, c)
    PROVE  Frontier(new, c)
<1>1. IsCommitChain(new, c)
  BY ChainExtends DEF Keeps, Frontier
<1>2. \A k \in (Len(c) + 1)..NStages : Ended(new, k, "succeeded") = {}
  BY DEF Keeps, Frontier
<1> QED BY <1>1, <1>2 DEF Frontier

\* A write that finishes nothing, while the thread stays where it is.
LEMMA KeepsSound ==
    ASSUME NEW old, NEW t, ItemSound(t, old), NEW new \in Seq(Rows), Keeps(old, new),
           DOMAIN new = DOMAIN old,
           \A b \in DOMAIN old : /\ new[b].stage = old[b].stage
                                 /\ new[b].status = old[b].status
                                 /\ new[b].links = old[b].links
                                 /\ new[b].failedStage = old[b].failedStage
    PROVE  ItemSound(t, new)
<1>1. LogSound(new)
  BY EventSound DEF ItemSound
<1>2. Frontier(new, t.chain)
  BY FrontierKeeps DEF ItemSound
<1>3. HoldsItsWork(t, new)
  BY WorkExtends DEF ItemSound, Keeps
<1> QED BY <1>1, <1>2, <1>3 DEF ItemSound

LEMMA EventItem ==
    ASSUME NEW rows, NEW t, ItemSound(t, rows), NEW a, Open(rows, a),
           NEW kind \in EventKinds
    PROVE  ItemSound(t, append_event(rows, a, kind))
<1> DEFINE new == append_event(rows, a, kind)
<1>1. rows \in Seq(Rows)
  BY DEF ItemSound
<1>2. /\ new \in Seq(Rows) /\ DOMAIN new = DOMAIN rows /\ Keeps(rows, new)
      /\ \A b \in DOMAIN rows : /\ new[b].stage = rows[b].stage
                                /\ new[b].status = rows[b].status
                                /\ new[b].links = rows[b].links
                                /\ new[b].failedStage = rows[b].failedStage
  BY <1>1, EventLemma
<1>3. ItemSound(t, new)
  <2> HIDE DEF new
  <2> QED BY <1>2, KeepsSound
<1> QED BY <1>3

LEMMA LinksItem ==
    ASSUME NEW rows, NEW t, ItemSound(t, rows), NEW a, Open(rows, a),
           NEW more \in Seq(Nat)
    PROVE  ItemSound(t, append_links(rows, a, more))
<1> DEFINE new == append_links(rows, a, more)
<1>1. rows \in Seq(Rows)
  BY DEF ItemSound
<1>2. /\ new \in Seq(Rows) /\ DOMAIN new = DOMAIN rows /\ Keeps(rows, new)
      /\ \A b \in DOMAIN rows : /\ new[b].stage = rows[b].stage
                                /\ new[b].status = rows[b].status
                                /\ new[b].links = rows[b].links
                                /\ new[b].failedStage = rows[b].failedStage
  BY <1>1, LinksLemma
<1>3. ItemSound(t, new)
  <2> HIDE DEF new
  <2> QED BY <1>2, KeepsSound
<1> QED BY <1>3

\* A new attempt, of the master or of the stage after the chain.
LEMMA BeginItem ==
    ASSUME NEW rows, NEW t, ItemSound(t, rows), NEW stage, NEW input,
           \/ stage = Master /\ input = <<>>
           \/ stage = Len(t.chain) + 1 /\ input = t.chain /\ Remaining(t.chain)
    PROVE  LET new == begin_attempt(rows, stage, input)
               n == Len(rows) + 1
           IN /\ ItemSound(t, new)
              /\ n \in DOMAIN new /\ n \in Nat
              /\ new[n].stage = stage /\ new[n].input = input
<1> DEFINE new == begin_attempt(rows, stage, input)
           n == Len(rows) + 1
<1>1. /\ rows \in Seq(Rows) /\ t.chain \in Seq(Nat)
      /\ stage \in Stages \cup {Master} /\ input \in Seq(Nat)
  <2>1. rows \in Seq(Rows) /\ t.chain \in Seq(Nat) /\ Len(t.chain) \in Nat
    BY DEF ItemSound, Threads
  <2>2. CASE stage = Master /\ input = <<>>
    BY <2>1, <2>2, EmptySeq
  <2>3. CASE stage = Len(t.chain) + 1 /\ input = t.chain /\ Remaining(t.chain)
    BY <2>1, <2>3, NStagesAssumption DEF Remaining, Stages
  <2> QED BY <2>1, <2>2, <2>3
<1>2. /\ new \in Seq(Rows) /\ Len(new) = n /\ new[n] = NewRow(stage, input)
      /\ \A a \in DOMAIN rows : new[a] = rows[a]
      /\ Keeps(rows, new)
  BY <1>1, BeginLemma
<1>3. DOMAIN new = DOMAIN rows \cup {n} /\ Extends(rows, new)
  BY <1>1, <1>2 DEF Keeps
<1>4. /\ new[n].stage = stage /\ new[n].input = input
      /\ new[n].status = "interrupted"
  BY <1>2 DEF NewRow
<1>5. Frontier(new, t.chain)
  BY <1>2, FrontierKeeps DEF ItemSound
<1> HIDE DEF new
<1>6. OneCommit(new)
  BY <1>2 DEF ItemSound, LogSound, OneCommit, Keeps
<1>7. InputsCommitted(new)
  <2>1. new[n].stage # Master =>
            IsCommitChain(new, new[n].input) /\ Len(new[n].input) = new[n].stage - 1
    BY <1>1, <1>4, <1>5 DEF Frontier
  <2> QED BY <1>3, <2>1, OldRowsSound DEF ItemSound, InputsCommitted
<1>8. MastersOwnLineage(new)
  <2>1. ASSUME NEW a \in Masters(new), new[a].status # "interrupted"
        PROVE  a \in Masters(rows) /\ new[a] = rows[a]
    BY <1>2, <1>3, <1>4, <2>1 DEF Masters
  <2> QED BY <1>3, <2>1, OldRowsSound DEF ItemSound, MastersOwnLineage
<1>9. HoldsItsWork(t, new)
  BY <1>3, WorkExtends DEF ItemSound
<1>10. ItemSound(t, new)
  BY <1>2, <1>5, <1>6, <1>7, <1>8, <1>9 DEF ItemSound, LogSound
<1>11. n \in DOMAIN new /\ n \in Nat
  BY <1>1, <1>3
<1> QED BY <1>4, <1>10, <1>11 DEF new

\* Finishing a stage attempt: what the log keeps whatever its status is.
LEMMA FinishStageLog ==
    ASSUME NEW rows, NEW t, ItemSound(t, rows), t.pc = "work", Open(rows, t.at),
           NEW status \in {"succeeded", "failed"}
    PROVE  LET new == finish_attempt(rows, t.at, status, <<>>, 0) IN
           /\ new \in Seq(Rows)
           /\ LogSound(new)
           /\ Extends(rows, new)
           /\ IsCommitChain(new, t.chain)
           /\ t.at \in EndedOn(new, Len(t.chain) + 1, t.chain, status)
           /\ \A k \in (Len(t.chain) + 2)..NStages : Ended(new, k, "succeeded") = {}
           /\ status = "failed" => Ended(new, Len(t.chain) + 1, "succeeded") = {}
<1> DEFINE new == finish_attempt(rows, t.at, status, <<>>, 0)
           next == Len(t.chain) + 1
<1>1. /\ rows \in Seq(Rows) /\ t.chain \in Seq(Nat) /\ Remaining(t.chain)
      /\ t.at \in DOMAIN rows /\ rows[t.at].stage = next /\ rows[t.at].input = t.chain
      /\ LogSound(rows)
  BY DEF ItemSound, HoldsItsWork, Threads
<1>2. next \in Stages /\ next # Master
  BY <1>1, NStagesAssumption DEF Remaining, Stages, Master
<1>3. /\ new \in Seq(Rows) /\ DOMAIN new = DOMAIN rows /\ Extends(rows, new)
      /\ \A b \in DOMAIN rows \ {t.at} : new[b] = rows[b]
      /\ new[t.at].stage = next /\ new[t.at].input = t.chain
      /\ new[t.at].status = status
      /\ \A b \in Ended(new, next, status) : b = t.at \/ b \in Ended(rows, next, status)
      /\ \A k, st : st # "interrupted" /\ ~(k = next /\ st = status) =>
           Ended(new, k, st) = Ended(rows, k, st)
  <2>1. PICK links \in Seq(Nat) : links = <<>>
    BY EmptySeq
  <2> DEFINE written == finish_attempt(rows, t.at, status, links, 0)
  <2>2. written \in Seq(Rows) /\ Finishes(rows, written, t.at, status)
    BY <1>1, FinishLemma
  <2>3. new = written
    BY <2>1
  <2>4. new \in Seq(Rows) /\ Finishes(rows, new, t.at, status)
    BY <2>2, <2>3
  <2> HIDE DEF new
  <2> QED BY <1>1, <2>4 DEF Finishes
<1> HIDE DEF new
<1>4. \A k \in next..NStages : Ended(rows, k, "succeeded") = {}
  BY DEF ItemSound, Frontier
<1>5. OneCommit(new)
  <2>1. next \in next..NStages
    BY <1>1, <1>2 DEF Stages
  <2>2. Ended(new, next, "succeeded") \subseteq {t.at}
    BY <1>3, <1>4, <2>1
  <2>3. \A k \in Stages \ {next} : Ended(new, k, "succeeded") = Ended(rows, k, "succeeded")
    BY <1>3
  <2> QED BY <1>1, <2>2, <2>3 DEF LogSound, OneCommit
<1>6. InputsCommitted(new)
  BY <1>1, <1>3, OldRowsSound DEF InputsCommitted
<1>7. MastersOwnLineage(new)
  <2>1. \A a \in Masters(new) : a \in Masters(rows) /\ new[a] = rows[a]
    BY <1>2, <1>3 DEF Masters
  <2> QED BY <1>1, <1>3, <2>1, OldRowsSound DEF MastersOwnLineage
<1>8. IsCommitChain(new, t.chain)
  BY <1>3, ChainExtends DEF ItemSound, Frontier
<1>9. t.at \in EndedOn(new, next, t.chain, status)
  BY <1>1, <1>3 DEF EndedOn, Ended
<1>10. \A k \in (Len(t.chain) + 2)..NStages : Ended(new, k, "succeeded") = {}
  <2>1. Len(t.chain) \in Nat
    BY <1>1
  <2>2. \A k \in (Len(t.chain) + 2)..NStages : k # next /\ k \in next..NStages
    BY <2>1, NStagesAssumption
  <2> QED BY <1>3, <1>4, <2>2
<1>11. status = "failed" => Ended(new, next, "succeeded") = {}
  <2>1. next \in next..NStages
    BY <1>1, <1>2 DEF Stages
  <2> QED BY <1>3, <1>4, <2>1
<1>12. /\ new \in Seq(Rows) /\ LogSound(new) /\ Extends(rows, new)
       /\ IsCommitChain(new, t.chain)
       /\ t.at \in EndedOn(new, next, t.chain, status)
       /\ \A k \in (Len(t.chain) + 2)..NStages : Ended(new, k, "succeeded") = {}
       /\ status = "failed" => Ended(new, next, "succeeded") = {}
  BY <1>3, <1>5, <1>6, <1>7, <1>8, <1>9, <1>10, <1>11 DEF LogSound
<1> QED BY <1>12 DEF new

\* The stage is committed and the chain is one stage longer.
LEMMA CommitItem ==
    ASSUME NEW rows, NEW t, ItemSound(t, rows), t.pc = "work", Open(rows, t.at)
    PROVE  ItemSound([t EXCEPT !.chain = Append(@, t.at),
                               !.pc = IF Len(t.chain) + 1 < NStages
                                      THEN "loop" ELSE "ending"],
                     finish_attempt(rows, t.at, "succeeded", <<>>, 0))
<1> DEFINE new == finish_attempt(rows, t.at, "succeeded", <<>>, 0)
           longer == Append(t.chain, t.at)
           t1 == [t EXCEPT !.chain = longer,
                           !.pc = IF Len(t.chain) + 1 < NStages
                                  THEN "loop" ELSE "ending"]
<1>1. /\ t \in Threads /\ t.chain \in Seq(Nat) /\ t.at \in Nat
      /\ Remaining(t.chain) /\ Len(t.chain) \in Nat
      /\ t.links = longer /\ t.status = "succeeded" /\ t.failedStage = 0
      /\ t.master \in Masters(rows)
  BY DEF ItemSound, HoldsItsWork, Threads, LivePCs
<1>2. /\ new \in Seq(Rows) /\ LogSound(new) /\ Extends(rows, new)
      /\ IsCommitChain(new, t.chain)
      /\ t.at \in EndedOn(new, Len(t.chain) + 1, t.chain, "succeeded")
      /\ \A k \in (Len(t.chain) + 2)..NStages : Ended(new, k, "succeeded") = {}
  BY FinishStageLog
<1> HIDE DEF new
<1>3. IsCommitChain(new, longer)
  BY <1>1, <1>2, ChainAppend DEF Remaining, EndedOn
<1>4. longer \in Seq(Nat) /\ Len(longer) = Len(t.chain) + 1
  BY <1>1, AppendProperties
<1>5. t1 \in Threads
  <2> HIDE DEF longer
  <2> QED BY <1>1, <1>4 DEF Threads, PCs, LivePCs
<1>6. /\ t1.chain = longer /\ t1.links = longer /\ t1.master = t.master
      /\ t1.status = "succeeded" /\ t1.failedStage = 0
      /\ t1.pc = IF Len(longer) < NStages THEN "loop" ELSE "ending"
  <2> HIDE DEF longer
  <2> QED BY <1>1, <1>4 DEF Threads
<1> HIDE DEF t1
<1>7. Frontier(new, longer)
  BY <1>1, <1>2, <1>3, <1>4 DEF Frontier
<1>8. t.master \in Masters(new)
  BY <1>1, <1>2 DEF Masters, Extends
<1>9. HoldsItsWork(t1, new)
  <2> HIDE DEF longer
  <2>1. CASE Len(longer) < NStages
    BY <1>6, <1>8, <2>1 DEF HoldsItsWork, SealPCs, LivePCs, Remaining
  <2>2. CASE ~(Len(longer) < NStages)
    <3>1. Len(longer) = NStages
      BY <1>1, <1>4, <2>2, NStagesAssumption DEF Remaining
    <3>2. OwnsLineage(new, t1.status, t1.links, t1.failedStage)
      BY <1>3, <1>6, <3>1 DEF OwnsLineage
    <3> QED BY <1>6, <1>8, <2>2, <3>2 DEF HoldsItsWork, SealPCs, LivePCs
  <2> QED BY <2>1, <2>2
<1>10. ItemSound(t1, new)
  BY <1>2, <1>5, <1>6, <1>7, <1>9 DEF ItemSound
<1> QED BY <1>10 DEF new, t1

\* A failure on top of a chain of commits is a lineage that ends with it.
LEMMA FailureLineage ==
    ASSUME NEW rows, NEW c \in Seq(Nat), IsCommitChain(rows, c), Len(c) + 1 \in Stages,
           NEW a \in Nat, a \in EndedOn(rows, Len(c) + 1, c, "failed")
    PROVE  OwnsLineage(rows, "failed", Append(c, a), Len(c) + 1)
<1> DEFINE links == Append(c, a)
           next == Len(c) + 1
<1>1. /\ links \in Seq(Nat) /\ Len(links) = next /\ links[next] = a
      /\ links = c \o <<a>> /\ <<a>> \in Seq(Nat) /\ Len(c) \in Nat
  BY AppendProperties, AppendIsConcat
<1>2. SubSeq(links, 1, next - 1) = c
  <2>1. CASE Len(c) = 0
    BY <1>1, <2>1, SubSeqEmpty, EmptySeq
  <2>2. CASE Len(c) # 0
    <3>1. 1 \in 1..Len(c) /\ Len(c) \in 1..Len(c)
      BY <1>1, <2>2
    <3>2. SubSeq(links, 1, Len(c)) = SubSeq(c, 1, Len(c))
      BY <1>1, <3>1, SubSeqOfConcat1
    <3> QED BY <1>1, <3>2, SubSeqFull
  <2> QED BY <2>1, <2>2
<1> HIDE DEF links
<1>3. OwnsLineage(rows, "failed", links, next)
  BY <1>1, <1>2 DEF OwnsLineage
<1> QED BY <1>3 DEF links

\* The stage failed: the failure ends the lineage.
LEMMA FailItem ==
    ASSUME NEW rows, NEW t, ItemSound(t, rows), t.pc = "work", Open(rows, t.at)
    PROVE  ItemSound([t EXCEPT !.pc = "ending", !.status = "failed",
                               !.failedStage = Len(t.chain) + 1],
                     finish_attempt(rows, t.at, "failed", <<>>, 0))
<1> DEFINE new == finish_attempt(rows, t.at, "failed", <<>>, 0)
           next == Len(t.chain) + 1
           t1 == [t EXCEPT !.pc = "ending", !.status = "failed", !.failedStage = next]
<1>1. /\ t \in Threads /\ t.chain \in Seq(Nat) /\ t.at \in Nat
      /\ Remaining(t.chain) /\ Len(t.chain) \in Nat
      /\ t.links = Append(t.chain, t.at)
      /\ t.master \in Masters(rows)
  BY DEF ItemSound, HoldsItsWork, Threads, LivePCs
<1>2. /\ new \in Seq(Rows) /\ LogSound(new) /\ Extends(rows, new)
      /\ IsCommitChain(new, t.chain)
      /\ t.at \in EndedOn(new, next, t.chain, "failed")
      /\ \A k \in (Len(t.chain) + 2)..NStages : Ended(new, k, "succeeded") = {}
      /\ Ended(new, next, "succeeded") = {}
  BY FinishStageLog
<1> HIDE DEF new
<1>3. next \in Stages
  BY <1>1, NStagesAssumption DEF Remaining, Stages
<1>4. t1 \in Threads
  BY <1>1, <1>3 DEF Threads, PCs, LivePCs
<1>5. /\ t1.chain = t.chain /\ t1.links = t.links /\ t1.master = t.master
      /\ t1.status = "failed" /\ t1.failedStage = next /\ t1.pc = "ending"
  BY <1>1 DEF Threads
<1> HIDE DEF t1
<1>6. Frontier(new, t.chain)
  <2>1. \A k \in next..NStages : k = next \/ k \in (Len(t.chain) + 2)..NStages
    BY <1>1, NStagesAssumption
  <2> QED BY <1>2, <2>1 DEF Frontier
<1>7. t.master \in Masters(new)
  BY <1>1, <1>2 DEF Masters, Extends
<1>8. OwnsLineage(new, "failed", t.links, next)
  BY <1>1, <1>2, <1>3, FailureLineage
<1>9. HoldsItsWork(t1, new)
  BY <1>5, <1>7, <1>8 DEF HoldsItsWork, SealPCs, LivePCs
<1>10. ItemSound(t1, new)
  BY <1>2, <1>4, <1>5, <1>6, <1>9 DEF ItemSound
<1> QED BY <1>10 DEF new, t1

\* Finishing a master on the lineage it owns.
LEMMA FinishMasterLog ==
    ASSUME NEW rows, NEW t, ItemSound(t, rows),
           NEW a \in Masters(rows), Open(rows, a),
           t.status \in {"succeeded", "failed"},
           OwnsLineage(rows, t.status, t.links, t.failedStage)
    PROVE  LET new == finish_attempt(rows, a, t.status, t.links, t.failedStage) IN
           /\ new \in Seq(Rows) /\ LogSound(new) /\ Frontier(new, t.chain)
<1> DEFINE new == finish_attempt(rows, a, t.status, t.links, t.failedStage)
<1>1. /\ rows \in Seq(Rows) /\ t.links \in Seq(Nat) /\ LogSound(rows)
      /\ t.failedStage \in Stages \cup {0} /\ rows[a].stage = Master
      /\ a \in DOMAIN rows
  BY DEF ItemSound, Threads, Masters
<1>2. /\ new \in Seq(Rows) /\ DOMAIN new = DOMAIN rows /\ Extends(rows, new)
      /\ \A b \in DOMAIN rows \ {a} : new[b] = rows[b]
      /\ new[a].stage = Master
      /\ new[a].status = t.status /\ new[a].links = t.links
      /\ new[a].failedStage = t.failedStage
      /\ \A k, st : st # "interrupted" /\ ~(k = Master /\ st = t.status) =>
           Ended(new, k, st) = Ended(rows, k, st)
  <2>1. /\ new \in Seq(Rows) /\ Finishes(rows, new, a, t.status)
        /\ new[a].links = t.links /\ new[a].failedStage = t.failedStage
    BY <1>1, FinishLemma
  <2> HIDE DEF new
  <2> QED BY <1>1, <2>1 DEF Finishes
<1> HIDE DEF new
<1>3. \A k \in Stages : Ended(new, k, "succeeded") = Ended(rows, k, "succeeded")
  <2>1. \A k \in Stages : k # Master
    BY DEF Stages, Master
  <2> QED BY <1>2, <2>1
<1>4. OneCommit(new)
  BY <1>1, <1>3 DEF LogSound, OneCommit
<1>5. InputsCommitted(new)
  BY <1>1, <1>2, OldRowsSound DEF InputsCommitted
<1>6. MastersOwnLineage(new)
  <2>1. OwnsLineage(new, t.status, t.links, t.failedStage)
    BY <1>2, OwnsExtends
  <2>2. \A b \in Masters(new) \ {a} : b \in Masters(rows) /\ new[b] = rows[b]
    BY <1>2 DEF Masters
  <2>3. \A b \in Masters(new) \ {a} : new[b].status # "interrupted" =>
            OwnsLineage(new, new[b].status, new[b].links, new[b].failedStage)
    BY <1>1, <1>2, <2>2, OldRowsSound
  <2> QED BY <1>2, <2>1, <2>3 DEF MastersOwnLineage
<1>7. Frontier(new, t.chain)
  <2>1. IsCommitChain(new, t.chain)
    BY <1>2, ChainExtends DEF ItemSound, Frontier
  <2>2. Len(t.chain) \in Nat
    BY DEF ItemSound, Threads
  <2>3. \A k \in (Len(t.chain) + 1)..NStages : k \in Stages
    BY <2>2, NStagesAssumption DEF Stages
  <2> QED BY <1>3, <2>1, <2>3 DEF ItemSound, Frontier
<1>8. new \in Seq(Rows) /\ LogSound(new) /\ Frontier(new, t.chain)
  BY <1>2, <1>4, <1>5, <1>6, <1>7 DEF LogSound
<1> QED BY <1>8 DEF new

------------------------------------------------------------------------------
(* The inductive invariant and its steps.                                       *)

IInv == /\ TypeOK
        /\ OneCommitPerStage
        /\ InputsAreCommitted
        /\ TerminalMastersOwnLineage
        /\ ThreadsConsistent

LEMMA IInvItem ==
    ASSUME IInv, NEW i \in Items, phase = "up"
    PROVE  ItemSound(work[i], attempts[i])
BY DEF IInv, TypeOK, OneCommitPerStage, InputsAreCommitted,
       TerminalMastersOwnLineage, ThreadsConsistent, ThreadConsistent,
       ItemSound, LogSound

\* A step that touches one question.
LEMMA ItemStep ==
    ASSUME IInv, phase = "up", phase' = "up",
           NEW i \in Items, i \notin pending', pending' \subseteq pending,
           attempts' = [attempts EXCEPT ![i] = attempts'[i]],
           work' = [work EXCEPT ![i] = work'[i]],
           ItemSound(work'[i], attempts'[i]),
           runs' = runs, report' = report,
           slot' \in [Items -> (0..(SlotLimit - 1)) \cup {NoSlot}],
           stop' \in BOOLEAN, halted' \in BOOLEAN
    PROVE  IInv'
<1>1. /\ work'[i] \in Threads /\ attempts'[i] \in Seq(Rows)
      /\ LogSound(attempts'[i]) /\ Frontier(attempts'[i], work'[i].chain)
      /\ HoldsItsWork(work'[i], attempts'[i])
  BY DEF ItemSound
<1>2. /\ \A j \in Items \ {i} : attempts'[j] = attempts[j] /\ work'[j] = work[j]
      /\ attempts' \in [Items -> Seq(Rows)] /\ work' \in [Items -> Threads]
  BY <1>1 DEF IInv, TypeOK
<1>3. TypeOK'
  BY <1>2 DEF IInv, TypeOK
<1>4. \A j \in Items : LogSound(attempts'[j])
  BY <1>1, <1>2 DEF IInv, OneCommitPerStage, InputsAreCommitted,
                    TerminalMastersOwnLineage, LogSound
<1>5. OneCommitPerStage' /\ InputsAreCommitted' /\ TerminalMastersOwnLineage'
  BY <1>4 DEF OneCommitPerStage, InputsAreCommitted, TerminalMastersOwnLineage,
              LogSound
<1>6. ASSUME NEW j \in Items PROVE ThreadConsistent(j)'
  <2>1. CASE j = i
    BY <1>1, <2>1 DEF ThreadConsistent
  <2>2. CASE j # i
    BY <1>2, <2>2 DEF IInv, ThreadsConsistent, ThreadConsistent
  <2> QED BY <2>1, <2>2
<1> QED BY <1>3, <1>5, <1>6 DEF IInv, ThreadsConsistent

\* A step of a question's own thread.
LEMMA ThreadStepSound ==
    ASSUME IInv, NEW i \in Items, ThreadStep(i), work[i].pc # "idle",
           attempts' = [attempts EXCEPT ![i] = attempts'[i]],
           work' = [work EXCEPT ![i] = work'[i]],
           ItemSound(work'[i], attempts'[i]),
           slot' \in [Items -> (0..(SlotLimit - 1)) \cup {NoSlot}],
           stop' \in BOOLEAN, halted' \in BOOLEAN
    PROVE  IInv'
<1>1. i \notin pending'
  BY DEF IInv, ThreadsConsistent, ThreadConsistent, ThreadStep
<1> QED BY <1>1, ItemStep DEF ThreadStep

\* A question's thread with the log it has, once its memory is right.
LEMMA Moves ==
    ASSUME NEW rows, NEW t, ItemSound(t, rows), NEW t1 \in Threads,
           t1.chain = t.chain, HoldsItsWork(t1, rows)
    PROVE  ItemSound(t1, rows)
BY DEF ItemSound

LEMMA BeginMasterSound ==
    ASSUME IInv, NEW i \in Items, BeginMaster(i) PROVE IInv'
<1> DEFINE t == work[i]
           rows == attempts[i]
           new == begin_attempt(rows, Master, <<>>)
           t1 == [t EXCEPT !.pc = "begun", !.master = Len(rows) + 1]
<1>1. ItemSound(t, rows) /\ t.pc = "queued" /\ ThreadStep(i)
  BY IInvItem DEF BeginMaster, ThreadStep
<1>2. /\ ItemSound(t, new) /\ Len(rows) + 1 \in Masters(new) /\ Len(rows) + 1 \in Nat
  BY <1>1, BeginItem DEF Masters
<1>3. t \in Threads /\ t.chain \in Seq(Nat)
  BY <1>1 DEF ItemSound, Threads
<1>4. t1 \in Threads /\ t1.chain = t.chain
  BY <1>2, <1>3 DEF Threads, PCs, LivePCs
<1>5. HoldsItsWork(t1, new)
  <2> HIDE DEF new
  <2>1. /\ t1.pc = "begun" /\ t1.master = Len(rows) + 1 /\ t1.links = t.links
        /\ t1.status = t.status /\ t1.failedStage = t.failedStage
    BY <1>3 DEF Threads
  <2>2. /\ Remaining(t.chain) /\ t.links = t.chain /\ t.status = "succeeded"
        /\ t.failedStage = 0
    BY <1>1 DEF ItemSound, HoldsItsWork
  <2> QED BY <1>2, <1>4, <2>1, <2>2 DEF HoldsItsWork, SealPCs, LivePCs
<1>6. ItemSound(t1, new)
  <2> HIDE DEF new, t1
  <2> QED BY <1>2, <1>4, <1>5, Moves
<1>7. attempts' = [attempts EXCEPT ![i] = new] /\ work' = [work EXCEPT ![i] = t1]
  BY DEF BeginMaster
<1>8. attempts'[i] = new /\ work'[i] = t1
  BY <1>7 DEF IInv, TypeOK
<1> HIDE DEF new, t1
<1> QED BY <1>1, <1>6, <1>7, <1>8, ThreadStepSound DEF BeginMaster, IInv, TypeOK

LEMMA RecordAdmissionSound ==
    ASSUME IInv, NEW i \in Items, RecordAdmission(i) PROVE IInv'
<1> DEFINE t == work[i]
           rows == attempts[i]
           noted == append_event(rows, t.master, "pipeline_admitted")
           new == append_links(noted, t.master, t.links)
           t1 == [t EXCEPT !.pc = "loop"]
<1>1. /\ ItemSound(t, rows) /\ t.pc = "begun" /\ ThreadStep(i)
      /\ Open(rows, t.master) /\ t \in Threads /\ rows \in Seq(Rows)
  BY IInvItem DEF RecordAdmission, ThreadStep, ItemSound
<1>2. ItemSound(t, noted) /\ Open(noted, t.master)
  <2>1. ItemSound(t, noted)
    BY <1>1, EventItem DEF EventKinds
  <2>2. DOMAIN noted = DOMAIN rows
        /\ \A b \in DOMAIN rows : noted[b].status = rows[b].status
    BY <1>1, EventLemma DEF EventKinds
  <2> HIDE DEF noted
  <2> QED BY <1>1, <2>1, <2>2 DEF Open
<1>3. ItemSound(t, new)
  <2> HIDE DEF noted
  <2>1. t.links \in Seq(Nat)
    BY <1>1 DEF Threads
  <2> QED BY <1>2, <2>1, LinksItem
<1>4. /\ t1 \in Threads /\ t1.chain = t.chain
      /\ t1.pc = "loop" /\ t1.master = t.master /\ t1.links = t.links
      /\ t1.status = t.status /\ t1.failedStage = t.failedStage
  BY <1>1 DEF Threads, PCs, LivePCs
<1>5. HoldsItsWork(t1, new)
  <2> HIDE DEF new, t1
  <2>1. HoldsItsWork(t, new)
    BY <1>3 DEF ItemSound
  <2> QED BY <1>1, <1>4, <2>1 DEF HoldsItsWork, SealPCs, LivePCs
<1>6. ItemSound(t1, new)
  <2> HIDE DEF new, t1
  <2> QED BY <1>3, <1>4, <1>5, Moves
<1>7. attempts' = [attempts EXCEPT ![i] = new] /\ work' = [work EXCEPT ![i] = t1]
  BY DEF RecordAdmission
<1>8. attempts'[i] = new /\ work'[i] = t1
  <2> HIDE DEF new, t1
  <2> QED BY <1>7 DEF IInv, TypeOK
<1> HIDE DEF new, t1
<1> QED BY <1>1, <1>6, <1>7, <1>8, ThreadStepSound DEF RecordAdmission, IInv, TypeOK

LEMMA PauseBeforeStageSound ==
    ASSUME IInv, NEW i \in Items, PauseBeforeStage(i) PROVE IInv'
<1> DEFINE t == work[i]
           rows == attempts[i]
           t1 == [t EXCEPT !.pc = "ending", !.status = "paused"]
<1>1. ItemSound(t, rows) /\ t.pc = "loop" /\ ThreadStep(i) /\ t \in Threads
  BY IInvItem DEF PauseBeforeStage, ThreadStep, ItemSound
<1>2. /\ t1 \in Threads /\ t1.chain = t.chain
      /\ t1.pc = "ending" /\ t1.status = "paused" /\ t1.master = t.master
  BY <1>1 DEF Threads, PCs, LivePCs
<1>3. HoldsItsWork(t1, rows)
  <2> HIDE DEF t1
  <2> QED BY <1>1, <1>2 DEF ItemSound, HoldsItsWork, SealPCs, LivePCs
<1>4. ItemSound(t1, rows)
  <2> HIDE DEF t1
  <2> QED BY <1>1, <1>2, <1>3, Moves
<1>5. attempts' = attempts /\ work' = [work EXCEPT ![i] = t1]
  BY DEF PauseBeforeStage
<1>6. /\ attempts'[i] = rows /\ work'[i] = t1
      /\ attempts' = [attempts EXCEPT ![i] = attempts'[i]]
  BY <1>5 DEF IInv, TypeOK
<1> HIDE DEF t1
<1> QED BY <1>1, <1>4, <1>5, <1>6, ThreadStepSound DEF PauseBeforeStage, IInv, TypeOK

\* A thread that raises keeps nothing it still has to record.
LEMMA RaiseSound ==
    ASSUME IInv, NEW i \in Items, Raise(i), ThreadStep(i), work[i].pc # "idle"
    PROVE  IInv'
<1> DEFINE t == work[i]
           rows == attempts[i]
           t1 == [t EXCEPT !.pc = "dead"]
<1>1. ItemSound(t, rows) /\ t \in Threads
  BY IInvItem DEF ThreadStep, ItemSound
<1>2. t1 \in Threads /\ t1.chain = t.chain /\ t1.pc = "dead"
  BY <1>1 DEF Threads, PCs
<1>3. ItemSound(t1, rows)
  <2> HIDE DEF t1
  <2>1. HoldsItsWork(t1, rows)
    BY <1>2 DEF HoldsItsWork, SealPCs, LivePCs
  <2> QED BY <1>1, <1>2, <2>1, Moves
<1>4. attempts' = attempts /\ work' = [work EXCEPT ![i] = t1]
  BY DEF Raise
<1>5. /\ attempts'[i] = rows /\ work'[i] = t1
      /\ attempts' = [attempts EXCEPT ![i] = attempts'[i]]
  BY <1>4 DEF IInv, TypeOK
<1> HIDE DEF t1
<1> QED BY <1>3, <1>4, <1>5, ThreadStepSound DEF Raise, IInv, TypeOK

LEMMA BeginStageSound ==
    ASSUME IInv, NEW i \in Items, BeginStage(i) PROVE IInv'
<1> DEFINE t == work[i]
           rows == attempts[i]
           n == Len(rows) + 1
           new == begin_attempt(rows, Len(t.chain) + 1, t.chain)
           more == Append(t.links, n)
           t1 == [t EXCEPT !.pc = "link", !.at = n, !.links = more]
<1>1. /\ ItemSound(t, rows) /\ t.pc = "loop" /\ ThreadStep(i) /\ t \in Threads
      /\ Remaining(t.chain) /\ t.links = t.chain /\ t.status = "succeeded"
      /\ t.failedStage = 0
  BY IInvItem DEF BeginStage, ThreadStep, ItemSound, HoldsItsWork
<1>2. /\ ItemSound(t, new) /\ n \in DOMAIN new /\ n \in Nat
      /\ new[n].stage = Len(t.chain) + 1 /\ new[n].input = t.chain
  BY <1>1, BeginItem
<1>3. more \in Seq(Nat)
  BY <1>1, <1>2, AppendProperties DEF Threads
<1>4. /\ t1 \in Threads /\ t1.chain = t.chain /\ t1.pc = "link" /\ t1.at = n
      /\ t1.links = more /\ t1.master = t.master
      /\ t1.status = t.status /\ t1.failedStage = t.failedStage
  <2> HIDE DEF more
  <2> QED BY <1>1, <1>2, <1>3 DEF Threads, PCs, LivePCs
<1>5. HoldsItsWork(t1, new)
  <2> HIDE DEF new, t1
  <2>1. t.master \in Masters(new)
    BY <1>1, <1>2 DEF ItemSound, HoldsItsWork, LivePCs
  <2> QED BY <1>1, <1>2, <1>4, <2>1 DEF HoldsItsWork, SealPCs, LivePCs
<1>6. ItemSound(t1, new)
  <2> HIDE DEF new, t1
  <2> QED BY <1>2, <1>4, <1>5, Moves
<1>7. attempts' = [attempts EXCEPT ![i] = new] /\ work' = [work EXCEPT ![i] = t1]
  BY DEF BeginStage
<1>8. attempts'[i] = new /\ work'[i] = t1
  <2> HIDE DEF new, t1
  <2> QED BY <1>7 DEF IInv, TypeOK
<1> HIDE DEF new, t1
<1> QED BY <1>1, <1>6, <1>7, <1>8, ThreadStepSound DEF BeginStage, IInv, TypeOK

LEMMA RecordLinkSound ==
    ASSUME IInv, NEW i \in Items, RecordLink(i) PROVE IInv'
<1> DEFINE t == work[i]
           rows == attempts[i]
           new == append_links(rows, t.master, <<t.at>>)
           t1 == [t EXCEPT !.pc = "work"]
<1>1. /\ ItemSound(t, rows) /\ t.pc = "link" /\ ThreadStep(i)
      /\ Open(rows, t.master) /\ t \in Threads
  BY IInvItem DEF RecordLink, ThreadStep, ItemSound
<1>2. ItemSound(t, new)
  <2>1. PICK more \in Seq(Nat) : more = <<t.at>>
    <3>1. PICK n \in Nat : n = t.at
      BY <1>1 DEF Threads
    <3>2. <<n>> \in Seq(Nat)
      OBVIOUS
    <3>3. \E more \in Seq(Nat) : more = <<n>>
      BY <3>2
    <3> QED BY <3>1, <3>3
  <2>2. ItemSound(t, append_links(rows, t.master, more))
    BY <1>1, LinksItem
  <2> QED BY <2>1, <2>2
<1>3. /\ t1 \in Threads /\ t1.chain = t.chain /\ t1.pc = "work" /\ t1.at = t.at
      /\ t1.links = t.links /\ t1.master = t.master
      /\ t1.status = t.status /\ t1.failedStage = t.failedStage
  BY <1>1 DEF Threads, PCs, LivePCs
<1>4. HoldsItsWork(t1, new)
  <2> HIDE DEF new, t1
  <2>1. HoldsItsWork(t, new)
    BY <1>2 DEF ItemSound
  <2> QED BY <1>1, <1>3, <2>1 DEF HoldsItsWork, SealPCs, LivePCs
<1>5. ItemSound(t1, new)
  <2> HIDE DEF new, t1
  <2> QED BY <1>2, <1>3, <1>4, Moves
<1>6. attempts' = [attempts EXCEPT ![i] = new] /\ work' = [work EXCEPT ![i] = t1]
  BY DEF RecordLink
<1>7. attempts'[i] = new /\ work'[i] = t1
  <2> HIDE DEF new, t1
  <2> QED BY <1>6 DEF IInv, TypeOK
<1> HIDE DEF new, t1
<1> QED BY <1>1, <1>5, <1>6, <1>7, ThreadStepSound DEF RecordLink, IInv, TypeOK

LEMMA CommitStageSound ==
    ASSUME IInv, NEW i \in Items, CommitStage(i) PROVE IInv'
<1> DEFINE t == work[i]
           rows == attempts[i]
           new == finish_attempt(rows, t.at, "succeeded", <<>>, 0)
           t1 == [t EXCEPT !.chain = Append(@, t.at),
                           !.pc = IF Len(t.chain) + 1 < NStages
                                  THEN "loop" ELSE "ending"]
<1>1. ItemSound(t, rows) /\ t.pc = "work" /\ ThreadStep(i) /\ Open(rows, t.at)
  BY IInvItem DEF CommitStage, ThreadStep
<1>2. ItemSound(t1, new)
  BY <1>1, CommitItem
<1>3. attempts' = [attempts EXCEPT ![i] = new] /\ work' = [work EXCEPT ![i] = t1]
  BY DEF CommitStage
<1>4. attempts'[i] = new /\ work'[i] = t1
  <2> HIDE DEF new, t1
  <2> QED BY <1>3 DEF IInv, TypeOK
<1> HIDE DEF new, t1
<1> QED BY <1>1, <1>2, <1>3, <1>4, ThreadStepSound DEF CommitStage, IInv, TypeOK

LEMMA FailStageSound ==
    ASSUME IInv, NEW i \in Items, FailStage(i) PROVE IInv'
<1> DEFINE t == work[i]
           rows == attempts[i]
           new == finish_attempt(rows, t.at, "failed", <<>>, 0)
           t1 == [t EXCEPT !.pc = "ending", !.status = "failed",
                           !.failedStage = Len(t.chain) + 1]
<1>1. ItemSound(t, rows) /\ t.pc = "work" /\ ThreadStep(i) /\ Open(rows, t.at)
  BY IInvItem DEF FailStage, ThreadStep
<1>2. ItemSound(t1, new)
  BY <1>1, FailItem
<1>3. attempts' = [attempts EXCEPT ![i] = new] /\ work' = [work EXCEPT ![i] = t1]
  BY DEF FailStage
<1>4. attempts'[i] = new /\ work'[i] = t1
  <2> HIDE DEF new, t1
  <2> QED BY <1>3 DEF IInv, TypeOK
<1> HIDE DEF new, t1
<1> QED BY <1>1, <1>2, <1>3, <1>4, ThreadStepSound DEF FailStage, IInv, TypeOK

LEMMA PauseStageSound ==
    ASSUME IInv, NEW i \in Items, PauseStage(i) PROVE IInv'
<1> DEFINE t == work[i]
           rows == attempts[i]
           new == append_event(rows, t.at, "stage_paused")
           t1 == [t EXCEPT !.pc = "ending", !.status = "paused"]
<1>1. /\ ItemSound(t, rows) /\ t.pc = "work" /\ ThreadStep(i)
      /\ Open(rows, t.at) /\ t \in Threads
  BY IInvItem DEF PauseStage, ThreadStep, ItemSound
<1>2. ItemSound(t, new)
  BY <1>1, EventItem DEF EventKinds
<1>3. /\ t1 \in Threads /\ t1.chain = t.chain
      /\ t1.pc = "ending" /\ t1.status = "paused" /\ t1.master = t.master
  BY <1>1 DEF Threads, PCs, LivePCs
<1>4. HoldsItsWork(t1, new)
  <2> HIDE DEF new, t1
  <2>1. HoldsItsWork(t, new)
    BY <1>2 DEF ItemSound
  <2> QED BY <1>1, <1>3, <2>1 DEF HoldsItsWork, SealPCs, LivePCs
<1>5. ItemSound(t1, new)
  <2> HIDE DEF new, t1
  <2> QED BY <1>2, <1>3, <1>4, Moves
<1>6. attempts' = [attempts EXCEPT ![i] = new] /\ work' = [work EXCEPT ![i] = t1]
  BY DEF PauseStage
<1>7. attempts'[i] = new /\ work'[i] = t1
  <2> HIDE DEF new, t1
  <2> QED BY <1>6 DEF IInv, TypeOK
<1> HIDE DEF new, t1
<1> QED BY <1>1, <1>5, <1>6, <1>7, ThreadStepSound DEF PauseStage, IInv, TypeOK

LEMMA ReleaseIntentSound ==
    ASSUME IInv, NEW i \in Items, ReleaseIntent(i) PROVE IInv'
<1> DEFINE t == work[i]
           rows == attempts[i]
           new == append_event(rows, t.master, "pipeline_release_intent")
           t1 == [t EXCEPT !.pc = "closing"]
<1>1. /\ ItemSound(t, rows) /\ t.pc = "ending" /\ ThreadStep(i)
      /\ Open(rows, t.master) /\ t \in Threads
  BY IInvItem DEF ReleaseIntent, ThreadStep, ItemSound
<1>2. ItemSound(t, new)
  BY <1>1, EventItem DEF EventKinds
<1>3. /\ t1 \in Threads /\ t1.chain = t.chain
      /\ t1.pc = "closing" /\ t1.status = t.status /\ t1.master = t.master
      /\ t1.links = t.links /\ t1.failedStage = t.failedStage
  BY <1>1 DEF Threads, PCs, LivePCs
<1>4. HoldsItsWork(t1, new)
  <2> HIDE DEF new, t1
  <2>1. HoldsItsWork(t, new)
    BY <1>2 DEF ItemSound
  <2> QED BY <1>1, <1>3, <2>1 DEF HoldsItsWork, SealPCs, LivePCs
<1>5. ItemSound(t1, new)
  <2> HIDE DEF new, t1
  <2> QED BY <1>2, <1>3, <1>4, Moves
<1>6. attempts' = [attempts EXCEPT ![i] = new] /\ work' = [work EXCEPT ![i] = t1]
  BY DEF ReleaseIntent
<1>7. attempts'[i] = new /\ work'[i] = t1
  <2> HIDE DEF new, t1
  <2> QED BY <1>6 DEF IInv, TypeOK
<1> HIDE DEF new, t1
<1> QED BY <1>1, <1>5, <1>6, <1>7, ThreadStepSound DEF ReleaseIntent, IInv, TypeOK

\* A thread past its outcome, or with nothing of its own left, on a sound log.
LEMMA RestsSound ==
    ASSUME NEW rows \in Seq(Rows), LogSound(rows), NEW t \in Threads,
           Frontier(rows, t.chain), t.pc \in {"release", "done", "dead"}
    PROVE  ItemSound(t, rows)
<1>1. HoldsItsWork(t, rows)
  BY DEF HoldsItsWork, SealPCs, LivePCs
<1> QED BY <1>1 DEF ItemSound

LEMMA CloseMasterSound ==
    ASSUME IInv, NEW i \in Items, CloseMaster(i) PROVE IInv'
<1> DEFINE t == work[i]
           rows == attempts[i]
           paused == append_event(rows, t.master, "pipeline_paused")
           finished == finish_attempt(rows, t.master, t.status, t.links, t.failedStage)
           new == IF t.status = "paused" THEN paused ELSE finished
           t1 == [t EXCEPT !.pc = "release"]
<1>1. /\ ItemSound(t, rows) /\ t.pc = "closing" /\ ThreadStep(i)
      /\ Open(rows, t.master) /\ t \in Threads /\ t.master \in Masters(rows)
  BY IInvItem DEF CloseMaster, ThreadStep, ItemSound, HoldsItsWork, LivePCs
<1>2. new \in Seq(Rows) /\ LogSound(new) /\ Frontier(new, t.chain)
  <2>1. CASE t.status = "paused"
    <3>1. ItemSound(t, paused)
      BY <1>1, EventItem DEF EventKinds
    <3> HIDE DEF paused, finished
    <3> QED BY <2>1, <3>1 DEF ItemSound
  <2>2. CASE t.status # "paused"
    <3>1. /\ t.status \in {"succeeded", "failed"}
          /\ OwnsLineage(rows, t.status, t.links, t.failedStage)
      BY <1>1, <2>2 DEF ItemSound, HoldsItsWork, Threads
    <3>2. finished \in Seq(Rows) /\ LogSound(finished) /\ Frontier(finished, t.chain)
      BY <1>1, <3>1, FinishMasterLog
    <3> HIDE DEF paused, finished
    <3> QED BY <2>2, <3>2
  <2> QED BY <2>1, <2>2
<1>3. t1 \in Threads /\ t1.chain = t.chain /\ t1.pc = "release"
  BY <1>1 DEF Threads, PCs
<1>4. ItemSound(t1, new)
  <2> HIDE DEF new, t1
  <2> QED BY <1>2, <1>3, RestsSound
<1>5. attempts' = [attempts EXCEPT ![i] = new] /\ work' = [work EXCEPT ![i] = t1]
  BY DEF CloseMaster
<1>6. attempts'[i] = new /\ work'[i] = t1
  <2> HIDE DEF new, t1
  <2> QED BY <1>5 DEF IInv, TypeOK
<1> HIDE DEF new, t1
<1> QED BY <1>1, <1>4, <1>5, <1>6, ThreadStepSound DEF CloseMaster, IInv, TypeOK

LEMMA ReleaseSlotSound ==
    ASSUME IInv, NEW i \in Items, ReleaseSlot(i) PROVE IInv'
<1> DEFINE t == work[i]
           rows == attempts[i]
           t1 == [t EXCEPT !.pc = "done"]
<1>1. ItemSound(t, rows) /\ t.pc = "release" /\ ThreadStep(i) /\ t \in Threads
  BY IInvItem DEF ReleaseSlot, ThreadStep, ItemSound
<1>2. t1 \in Threads /\ t1.chain = t.chain /\ t1.pc = "done"
  BY <1>1 DEF Threads, PCs
<1>3. ItemSound(t1, rows)
  <2> HIDE DEF t1
  <2> QED BY <1>1, <1>2, RestsSound DEF ItemSound
<1>4. attempts' = attempts /\ work' = [work EXCEPT ![i] = t1]
  BY DEF ReleaseSlot
<1>5. /\ attempts'[i] = rows /\ work'[i] = t1
      /\ attempts' = [attempts EXCEPT ![i] = attempts'[i]]
  BY <1>4 DEF IInv, TypeOK
<1>6. slot' \in [Items -> (0..(SlotLimit - 1)) \cup {NoSlot}]
  BY DEF ReleaseSlot, IInv, TypeOK
<1> HIDE DEF t1
<1> QED BY <1>1, <1>3, <1>4, <1>5, <1>6, ThreadStepSound DEF ReleaseSlot, IInv, TypeOK

\* An idle thread restored on a chain that is everything committed.
LEMMA IdleSound ==
    ASSUME NEW rows \in Seq(Rows), LogSound(rows), NEW c \in Seq(Nat), Frontier(rows, c)
    PROVE  ItemSound(Idle(c), rows)
<1>1. /\ Idle(c) \in Threads /\ Idle(c).pc = "idle" /\ Idle(c).chain = c
      /\ Idle(c).links = c /\ Idle(c).status = "succeeded" /\ Idle(c).failedStage = 0
  BY DEF Idle, Threads, PCs
<1>2. HoldsItsWork(Idle(c), rows)
  BY <1>1 DEF HoldsItsWork, SealPCs, LivePCs
<1> QED BY <1>1, <1>2 DEF ItemSound

LEMMA SealEventSound ==
    ASSUME IInv, NEW i \in Items, SealEvent(i) PROVE IInv'
<1> DEFINE t == work[i]
           rows == attempts[i]
           new == append_event(rows, t.master, "pipeline_recovery_seal")
           t1 == [t EXCEPT !.pc = "sealed"]
<1>1. phase = "up" /\ phase' = "up" /\ t.pc = "seal" /\ i \notin pending
  BY DEF SealEvent, IInv, TypeOK, ThreadsConsistent, ThreadConsistent
<1>2. ItemSound(t, rows) /\ Open(rows, t.master) /\ t \in Threads
  BY <1>1, IInvItem DEF SealEvent, ItemSound
<1>3. ItemSound(t, new)
  BY <1>2, EventItem DEF EventKinds
<1>4. /\ t1 \in Threads /\ t1.chain = t.chain
      /\ t1.pc = "sealed" /\ t1.status = t.status /\ t1.master = t.master
      /\ t1.links = t.links /\ t1.failedStage = t.failedStage
  BY <1>2 DEF Threads, PCs, SealPCs
<1>5. HoldsItsWork(t1, new)
  <2> HIDE DEF new, t1
  <2>1. HoldsItsWork(t, new)
    BY <1>3 DEF ItemSound
  <2> QED BY <1>1, <1>4, <2>1 DEF HoldsItsWork, SealPCs, LivePCs
<1>6. ItemSound(t1, new)
  <2> HIDE DEF new, t1
  <2> QED BY <1>3, <1>4, <1>5, Moves
<1>7. attempts' = [attempts EXCEPT ![i] = new] /\ work' = [work EXCEPT ![i] = t1]
  BY DEF SealEvent
<1>8. attempts'[i] = new /\ work'[i] = t1
  <2> HIDE DEF new, t1
  <2> QED BY <1>7 DEF IInv, TypeOK
<1> HIDE DEF new, t1
<1> QED BY <1>1, <1>6, <1>7, <1>8, ItemStep DEF SealEvent, IInv, TypeOK

LEMMA SealFinishSound ==
    ASSUME IInv, NEW i \in Items, SealFinish(i) PROVE IInv'
<1> DEFINE t == work[i]
           rows == attempts[i]
           new == finish_attempt(rows, t.master, t.status, t.links, t.failedStage)
           t1 == Idle(t.chain)
<1>1. phase = "up" /\ phase' = "up" /\ t.pc = "sealed" /\ i \notin pending
  BY DEF SealFinish, IInv, TypeOK, ThreadsConsistent, ThreadConsistent
<1>2. /\ ItemSound(t, rows) /\ Open(rows, t.master) /\ t \in Threads
      /\ t.chain \in Seq(Nat)
  BY <1>1, IInvItem DEF SealFinish, ItemSound, Threads
<1>3. /\ t.master \in Masters(rows) /\ t.status \in {"succeeded", "failed"}
      /\ OwnsLineage(rows, t.status, t.links, t.failedStage)
  BY <1>1, <1>2 DEF ItemSound, HoldsItsWork, SealPCs, Threads
<1>4. new \in Seq(Rows) /\ LogSound(new) /\ Frontier(new, t.chain)
  BY <1>2, <1>3, FinishMasterLog
<1>5. ItemSound(t1, new)
  <2> HIDE DEF new
  <2> QED BY <1>2, <1>4, IdleSound
<1>6. attempts' = [attempts EXCEPT ![i] = new] /\ work' = [work EXCEPT ![i] = t1]
  BY DEF SealFinish
<1>7. attempts'[i] = new /\ work'[i] = t1
  <2> HIDE DEF new, t1
  <2> QED BY <1>6 DEF IInv, TypeOK
<1> HIDE DEF new, t1
<1> QED BY <1>1, <1>5, <1>6, <1>7, ItemStep DEF SealFinish, IInv, TypeOK

LEMMA AdmitSound ==
    ASSUME IInv, NEW i \in Items, Admit(i) PROVE IInv'
<1> DEFINE t == work[i]
           rows == attempts[i]
           t1 == [t EXCEPT !.pc = "queued"]
<1>1. /\ phase = "up" /\ phase' = "up" /\ i \in pending /\ pending' = pending \ {i}
      /\ t.pc = "idle" /\ Remaining(t.chain)
  BY DEF Admit, IInv, ThreadsConsistent, ThreadConsistent
<1>2. ItemSound(t, rows) /\ t \in Threads
  BY <1>1, IInvItem DEF ItemSound
<1>3. /\ t1 \in Threads /\ t1.chain = t.chain
      /\ t1.pc = "queued" /\ t1.links = t.links
      /\ t1.status = t.status /\ t1.failedStage = t.failedStage
  BY <1>2 DEF Threads, PCs, LivePCs
<1>4. HoldsItsWork(t1, rows)
  <2> HIDE DEF t1
  <2> QED BY <1>1, <1>2, <1>3 DEF ItemSound, HoldsItsWork, SealPCs, LivePCs
<1>5. ItemSound(t1, rows)
  <2> HIDE DEF t1
  <2> QED BY <1>2, <1>3, <1>4, Moves
<1>6. attempts' = attempts /\ work' = [work EXCEPT ![i] = t1]
  BY DEF Admit
<1>7. /\ attempts'[i] = rows /\ work'[i] = t1
      /\ attempts' = [attempts EXCEPT ![i] = attempts'[i]]
  BY <1>6 DEF IInv, TypeOK
<1>8. slot' \in [Items -> (0..(SlotLimit - 1)) \cup {NoSlot}]
  <2>1. PICK n \in FreeSlots : slot' = [slot EXCEPT ![i] = n]
    BY DEF Admit
  <2>2. n \in 0..(SlotLimit - 1)
    BY DEF FreeSlots
  <2> QED BY <2>1, <2>2 DEF IInv, TypeOK
<1> HIDE DEF t1
<1> QED BY <1>1, <1>5, <1>6, <1>7, <1>8, ItemStep DEF Admit, IInv, TypeOK

LEMMA DropPendingSound ==
    ASSUME IInv, DropPending PROVE IInv'
<1>1. /\ phase = "up" /\ phase' = "up" /\ pending' = {} /\ attempts' = attempts
      /\ work' = [i \in Items |-> IF i \in pending
                   THEN [work[i] EXCEPT !.pc = "done", !.status = "paused"]
                   ELSE work[i]]
  BY DEF DropPending
<1>2. ASSUME NEW i \in Items PROVE ItemSound(work'[i], attempts[i])
  <2>1. ItemSound(work[i], attempts[i])
    BY <1>1, IInvItem
  <2>2. CASE i \in pending
    <3> DEFINE t1 == [work[i] EXCEPT !.pc = "done", !.status = "paused"]
    <3>1. /\ work[i] \in Threads /\ attempts[i] \in Seq(Rows)
          /\ LogSound(attempts[i]) /\ Frontier(attempts[i], work[i].chain)
      BY <2>1 DEF ItemSound
    <3>2. t1 \in Threads /\ t1.chain = work[i].chain /\ t1.pc = "done"
      BY <3>1 DEF Threads, PCs
    <3>3. work'[i] = t1
      BY <1>1, <2>2
    <3> HIDE DEF t1
    <3> QED BY <3>1, <3>2, <3>3, RestsSound
  <2>3. CASE i \notin pending
    BY <1>1, <2>1, <2>3
  <2> QED BY <2>2, <2>3
<1>3. TypeOK'
  <2>1. work' \in [Items -> Threads]
    BY <1>1, <1>2 DEF ItemSound
  <2> QED BY <2>1 DEF DropPending, IInv, TypeOK
<1>4. OneCommitPerStage' /\ InputsAreCommitted' /\ TerminalMastersOwnLineage'
  BY <1>1 DEF IInv, OneCommitPerStage, InputsAreCommitted, TerminalMastersOwnLineage
<1>5. ASSUME NEW i \in Items PROVE ThreadConsistent(i)'
  <2>1. ItemSound(work'[i], attempts'[i])
    BY <1>1, <1>2
  <2> QED BY <1>1, <2>1 DEF ThreadConsistent, ItemSound
<1> QED BY <1>3, <1>4, <1>5 DEF IInv, ThreadsConsistent

\* Steps that touch no question: the operator's, and stuttering.
LEMMA QuietSound ==
    ASSUME IInv, UNCHANGED <<attempts, work, phase, runs, slot, report>>,
           pending' = pending, stop' \in BOOLEAN, halted' \in BOOLEAN
    PROVE  IInv'
<1>1. TypeOK'
  BY DEF IInv, TypeOK
<1>2. OneCommitPerStage' /\ InputsAreCommitted' /\ TerminalMastersOwnLineage'
  BY DEF IInv, OneCommitPerStage, InputsAreCommitted, TerminalMastersOwnLineage
<1>3. ThreadsConsistent'
  BY DEF IInv, ThreadsConsistent, ThreadConsistent
<1> QED BY <1>1, <1>2, <1>3 DEF IInv

\* The process is gone: nothing is left in memory.
LEMMA DownSound ==
    ASSUME IInv, attempts' = attempts, runs' = runs, phase' = "down", pending' = {},
           slot' = [i \in Items |-> NoSlot], work' = [i \in Items |-> Idle(<<>>)],
           stop' = FALSE, halted' = FALSE,
           report' \in {"none", "complete", "partial"}
    PROVE  IInv'
<1>1. PICK c \in Seq(Nat) : c = <<>>
  BY EmptySeq
<1>2. /\ Idle(c) \in Threads /\ Idle(c).pc = "idle" /\ Idle(c).chain = c
      /\ Idle(c).links = c /\ Idle(c).status = "succeeded" /\ Idle(c).failedStage = 0
  BY DEF Idle, Threads, PCs
<1>3. \A i \in Items : work'[i] = Idle(c)
  BY <1>1
<1>4. TypeOK'
  <2>1. work' \in [Items -> Threads]
    BY <1>1, <1>2
  <2> QED BY <2>1 DEF IInv, TypeOK
<1>5. OneCommitPerStage' /\ InputsAreCommitted' /\ TerminalMastersOwnLineage'
  BY DEF IInv, OneCommitPerStage, InputsAreCommitted, TerminalMastersOwnLineage
<1>6. ASSUME NEW i \in Items PROVE ThreadConsistent(i)'
  <2>1. HoldsItsWork(work'[i], attempts'[i])
    BY <1>2, <1>3 DEF HoldsItsWork, SealPCs, LivePCs
  <2> QED BY <1>2, <1>3, <2>1 DEF ThreadConsistent
<1> QED BY <1>4, <1>5, <1>6 DEF IInv, ThreadsConsistent

------------------------------------------------------------------------------
(* A new process: what it restores is sound, and so is what it seals.           *)

LEMMA PrefixType ==
    ASSUME NEW rows \in Seq(Rows), NEW c \in Prefixes(rows)
    PROVE  c \in Seq(Nat) /\ Len(c) <= NStages
<1>1. PICK n \in 0..NStages : c \in [1..n -> Finished(rows)]
  BY DEF Prefixes
<1>2. Finished(rows) \subseteq Nat
  BY DEF Finished
<1>3. n \in Nat /\ n <= NStages
  BY <1>1, NStagesAssumption
<1>4. c \in [1..n -> Nat]
  BY <1>1, <1>2
<1>5. c \in Seq(Nat)
  BY <1>3, <1>4, SeqDef
<1>6. Len(c) = n
  <2>1. DOMAIN c = 1..n /\ DOMAIN c = 1..Len(c) /\ Len(c) \in Nat
    BY <1>4, <1>5, LenProperties
  <2> QED BY <1>3, <2>1
<1> QED BY <1>3, <1>5, <1>6

LEMMA AcceptsFrontier ==
    ASSUME NEW rows \in Seq(Rows), NEW c \in Prefixes(rows), Accepts(rows, c)
    PROVE  Frontier(rows, c)
<1>1. Len(c) <= NStages
  BY PrefixType
<1>2. \A k \in 1..Len(c) : /\ c[k] \in Ended(rows, k, "succeeded")
                           /\ rows[c[k]].input = SubSeq(c, 1, k - 1)
  BY DEF Accepts, Restores, EndedOn
<1>3. \A k \in (Len(c) + 1)..NStages : Ended(rows, k, "succeeded") = {}
  BY DEF Accepts
<1> QED BY <1>1, <1>2, <1>3 DEF Frontier, IsCommitChain

\* The master that is sealed owns the lineage it is sealed with.
LEMMA SealSound ==
    ASSUME NEW rows \in Seq(Rows), LogSound(rows),
           NEW c \in Seq(Nat), Frontier(rows, c),
           Outcome(rows, c) # "open", Selectable(rows, c)
    PROVE  ItemSound([pc |-> "seal", master |-> Latest(Masters(rows)), at |-> 0,
                      chain |-> c, links |-> CanonicalLinks(rows, c),
                      status |-> Outcome(rows, c),
                      failedStage |-> FailedStage(rows, c)], rows)
<1> DEFINE master == Latest(Masters(rows))
           links == CanonicalLinks(rows, c)
           status == Outcome(rows, c)
           failedStage == FailedStage(rows, c)
           t == [pc |-> "seal", master |-> master, at |-> 0, chain |-> c,
                 links |-> links, status |-> status, failedStage |-> failedStage]
<1>1. master \in Masters(rows) /\ master \in Nat
  <2>1. Masters(rows) # {}
    BY DEF Selectable, Sealable, Settled
  <2>2. Masters(rows) \in SUBSET (1..Len(rows)) /\ Len(rows) \in Nat
    BY DEF Masters
  <2>3. master \in Masters(rows)
    BY <2>1, <2>2, HasLatest
  <2> QED BY <2>2, <2>3
<1>2. /\ links \in Seq(Nat) /\ status \in {"succeeded", "failed"}
      /\ failedStage \in Stages \cup {0}
      /\ OwnsLineage(rows, status, links, failedStage)
  <2>1. IsCommitChain(rows, c) /\ Len(c) <= NStages /\ Len(c) \in Nat
    BY DEF Frontier, IsCommitChain
  <2>2. CASE ~Remaining(c)
    <3>1. status = "succeeded" /\ links = c /\ failedStage = 0
      BY <2>2 DEF Outcome, CanonicalLinks, FailedStage
    <3>2. Len(c) = NStages
      BY <2>1, <2>2, NStagesAssumption DEF Remaining
    <3> HIDE DEF status, links, failedStage
    <3> QED BY <2>1, <3>1, <3>2 DEF OwnsLineage
  <2>3. CASE Remaining(c)
    <3> DEFINE next == Len(c) + 1
               last == Latest(Failures(rows, c))
    <3>1. Failures(rows, c) # {} /\ status = "failed"
      BY <2>3 DEF Outcome
    <3>2. last \in Failures(rows, c)
      <4>1. Failures(rows, c) \in SUBSET (1..Len(rows)) /\ Len(rows) \in Nat
        BY DEF Failures, EndedOn, Ended
      <4> QED BY <3>1, <4>1, HasLatest
    <3>3. last \in Nat /\ last \in EndedOn(rows, next, c, "failed")
      BY <3>2 DEF Failures, EndedOn, Ended
    <3>4. links = Append(c, last) /\ failedStage = next
      BY <3>1 DEF CanonicalLinks, FailedStage
    <3>5. next \in Stages
      BY <2>1, <2>3, NStagesAssumption DEF Remaining, Stages
    <3> HIDE DEF status, links, failedStage, last
    <3>6. OwnsLineage(rows, "failed", Append(c, last), next)
      BY <2>1, <3>3, <3>5, FailureLineage
    <3>7. Append(c, last) \in Seq(Nat)
      BY <3>3, AppendProperties
    <3> QED BY <3>1, <3>4, <3>5, <3>6, <3>7
  <2> QED BY <2>2, <2>3
<1> HIDE DEF master, links, status, failedStage
<1>3. /\ t \in Threads /\ t.pc = "seal" /\ t.master = master /\ t.chain = c
      /\ t.links = links /\ t.status = status /\ t.failedStage = failedStage
  BY <1>1, <1>2 DEF Threads, PCs, SealPCs
<1>4. HoldsItsWork(t, rows)
  <2> HIDE DEF t
  <2> QED BY <1>1, <1>2, <1>3 DEF HoldsItsWork, SealPCs, LivePCs
<1>5. ItemSound(t, rows)
  <2> HIDE DEF t
  <2> QED BY <1>3, <1>4 DEF ItemSound
<1> QED BY <1>5 DEF t, master, links, status, failedStage

LEMMA ResumeSound ==
    ASSUME IInv, NEW mode \in Modes, Resume(mode) PROVE IInv'
<1> DEFINE c == [i \in Items |-> prepare_run(attempts[i])]
           only == mode = "unfinished_only"
           seals == IF only THEN SealSet(c) ELSE {}
<1>1. \A i \in Items : attempts[i] \in Seq(Rows) /\ LogSound(attempts[i])
  BY DEF IInv, TypeOK, OneCommitPerStage, InputsAreCommitted,
         TerminalMastersOwnLineage, LogSound
<1>2. ASSUME NEW i \in Items
      PROVE  c[i] \in Seq(Nat) /\ Frontier(attempts[i], c[i])
  <2>1. \E d \in Prefixes(attempts[i]) : Accepts(attempts[i], d)
    BY DEF Resume, Prepared
  <2>2. c[i] \in Prefixes(attempts[i]) /\ Accepts(attempts[i], c[i])
    BY <2>1 DEF prepare_run
  <2> HIDE DEF c
  <2> QED BY <1>1, <2>2, PrefixType, AcceptsFrontier
<1>3. /\ pending' = {i \in Tasks(mode, c) : Remaining(c[i])}
      /\ only => \A i \in Items : Selectable(attempts[i], c[i])
      /\ work' = [i \in Items |->
            IF i \in seals
            THEN [pc |-> "seal", master |-> Latest(Masters(attempts[i])), at |-> 0,
                  chain |-> c[i], links |-> CanonicalLinks(attempts[i], c[i]),
                  status |-> Outcome(attempts[i], c[i]),
                  failedStage |-> FailedStage(attempts[i], c[i])]
            ELSE Idle(c[i])]
  BY DEF Resume
<1> HIDE DEF c
<1>4. ASSUME NEW i \in Items
      PROVE  ItemSound(work'[i], attempts[i]) /\ work'[i].chain = c[i]
  <2>1. CASE i \in seals
    <3>1. Outcome(attempts[i], c[i]) # "open" /\ Selectable(attempts[i], c[i])
      BY <1>3, <2>1 DEF SealSet
    <3>2. work'[i] = [pc |-> "seal", master |-> Latest(Masters(attempts[i])), at |-> 0,
                      chain |-> c[i], links |-> CanonicalLinks(attempts[i], c[i]),
                      status |-> Outcome(attempts[i], c[i]),
                      failedStage |-> FailedStage(attempts[i], c[i])]
      BY <1>3, <2>1
    <3> QED BY <1>1, <1>2, <3>1, <3>2, SealSound
  <2>2. CASE i \notin seals
    <3>1. work'[i] = Idle(c[i])
      BY <1>3, <2>2
    <3>2. Idle(c[i]).chain = c[i]
      BY DEF Idle
    <3> QED BY <1>1, <1>2, <3>1, <3>2, IdleSound
  <2> QED BY <2>1, <2>2
<1>5. ASSUME NEW i \in Items, i \in pending'
      PROVE  work'[i].pc = "idle" /\ Remaining(work'[i].chain)
  <2>1. i \in Tasks(mode, c) /\ Remaining(c[i])
    BY <1>3, <1>5
  <2>2. i \notin seals
    BY <2>1 DEF Tasks, SealSet
  <2>3. work'[i] = Idle(c[i])
    BY <1>3, <2>2
  <2> QED BY <1>4, <2>1, <2>3 DEF Idle
<1>6. TypeOK'
  <2>1. work' \in [Items -> Threads]
    BY <1>3, <1>4 DEF ItemSound
  <2>2. pending' \subseteq Items
    BY <1>3 DEF Tasks
  <2>3. runs' \in 0..MaxRuns
    BY MaxRunsAssumption DEF Resume, IInv, TypeOK
  <2> QED BY <2>1, <2>2, <2>3 DEF Resume, IInv, TypeOK
<1>7. OneCommitPerStage' /\ InputsAreCommitted' /\ TerminalMastersOwnLineage'
  BY DEF Resume, IInv, OneCommitPerStage, InputsAreCommitted,
         TerminalMastersOwnLineage
<1>8. ASSUME NEW i \in Items PROVE ThreadConsistent(i)'
  <2>1. phase' = "up" /\ attempts' = attempts
    BY DEF Resume
  <2>2. ItemSound(work'[i], attempts'[i])
    BY <1>4, <2>1
  <2> QED BY <1>5, <2>1, <2>2 DEF ThreadConsistent, ItemSound
<1> QED BY <1>6, <1>7, <1>8 DEF IInv, ThreadsConsistent

------------------------------------------------------------------------------
(* The theorems.                                                                *)

LEMMA InitSound == Init => IInv
<1> SUFFICES ASSUME Init PROVE IInv
  OBVIOUS
<1>1. PICK c \in Seq(Nat) : c = <<>>
  BY EmptySeq
<1>2. PICK none \in Seq(Rows) : none = <<>>
  BY EmptySeq
<1>3. /\ Idle(c) \in Threads /\ Idle(c).pc = "idle" /\ Idle(c).chain = c
      /\ Idle(c).links = c /\ Idle(c).status = "succeeded" /\ Idle(c).failedStage = 0
  BY DEF Idle, Threads, PCs
<1>4. \A i \in Items : work[i] = Idle(c) /\ attempts[i] = none
  BY <1>1, <1>2 DEF Init
<1>5. DOMAIN none = {}
  BY <1>2
<1>6. TypeOK
  <2>1. attempts \in [Items -> Seq(Rows)]
    <3>1. attempts = [i \in Items |-> none]
      BY <1>2 DEF Init
    <3> QED BY <3>1
  <2>2. work \in [Items -> Threads]
    <3>1. work = [i \in Items |-> Idle(c)]
      BY <1>1 DEF Init
    <3> QED BY <1>3, <3>1
  <2>3. slot \in [Items -> (0..(SlotLimit - 1)) \cup {NoSlot}]
    BY DEF Init
  <2>4. /\ runs \in 0..MaxRuns /\ phase \in {"down", "up"} /\ pending \subseteq Items
        /\ stop \in BOOLEAN /\ halted \in BOOLEAN
        /\ report \in {"none", "complete", "partial"}
    <3>1. /\ runs = 0 /\ phase = "down" /\ pending = {}
          /\ stop = FALSE /\ halted = FALSE /\ report = "none"
      BY DEF Init
    <3>2. 0 \in 0..MaxRuns
      BY MaxRunsAssumption
    <3> QED BY <3>1, <3>2
  <2> QED BY <2>1, <2>2, <2>3, <2>4 DEF TypeOK
<1>7. OneCommitPerStage /\ InputsAreCommitted /\ TerminalMastersOwnLineage
  BY <1>4, <1>5 DEF OneCommitPerStage, InputsAreCommitted, TerminalMastersOwnLineage,
                    OneCommit, InputsCommitted, MastersOwnLineage, Ended, Masters
<1>8. ASSUME NEW i \in Items PROVE ThreadConsistent(i)
  <2>1. HoldsItsWork(work[i], attempts[i])
    BY <1>3, <1>4 DEF HoldsItsWork, SealPCs, LivePCs
  <2> QED BY <1>3, <1>4, <2>1 DEF ThreadConsistent, Init
<1> QED BY <1>6, <1>7, <1>8 DEF IInv, ThreadsConsistent

LEMMA NextSound == IInv /\ [Next]_vars => IInv'
<1> SUFFICES ASSUME IInv, [Next]_vars PROVE IInv'
  OBVIOUS
<1>1. CASE \E mode \in Modes : Resume(mode)
  BY <1>1, ResumeSound
<1>2. ASSUME NEW i \in Items, SealEvent(i) \/ SealFinish(i) \/ Admit(i) PROVE IInv'
  BY <1>2, SealEventSound, SealFinishSound, AdmitSound
<1>3. CASE DropPending
  BY <1>3, DropPendingSound
<1>4. CASE Exit
  BY <1>4, DownSound DEF Exit
<1>5. ASSUME NEW i \in Items, Execute(i) PROVE IInv'
  <2>1. ASSUME RaiseHalted(i) PROVE IInv'
    BY <2>1, RaiseSound DEF RaiseHalted
  <2> QED BY <1>5, <2>1, BeginMasterSound, RecordAdmissionSound,
             PauseBeforeStageSound, BeginStageSound, RecordLinkSound,
             CommitStageSound, FailStageSound, PauseStageSound,
             ReleaseIntentSound, CloseMasterSound, ReleaseSlotSound DEF Execute
<1>6. ASSUME NEW i \in Items, Break(i) PROVE IInv'
  BY <1>6, RaiseSound DEF Break, LivePCs
<1>7. CASE RequestStop
  BY <1>7, QuietSound DEF RequestStop, IInv, TypeOK
<1>8. CASE Crash
  BY <1>8, DownSound DEF Crash, IInv, TypeOK
<1>9. CASE UNCHANGED vars
  BY <1>9, QuietSound DEF vars, IInv, TypeOK
<1> QED BY <1>1, <1>2, <1>3, <1>4, <1>5, <1>6, <1>7, <1>8, <1>9 DEF Next, Process

LEMMA InvariantHolds == Spec => []IInv
BY InitSound, NextSound, PTL DEF Spec

\* Every variable keeps its type: in particular no master's payload, link list or
\* chain ever holds anything but attempt identifiers.
THEOREM TypeCorrect == Spec => []TypeOK
<1>1. IInv => TypeOK
  BY DEF IInv
<1> QED BY <1>1, InvariantHolds, PTL

\* run_pipeline.py over run_store.py commits each stage of a question at most
\* once, over any number of processes, crashes, pauses and threads, under either
\* resume command: committed work is never run again.
THEOREM StageCommittedOnce == Spec => []OneCommitPerStage
<1>1. IInv => OneCommitPerStage
  BY DEF IInv
<1> QED BY <1>1, InvariantHolds, PTL

\* The input identity of every stage attempt the store holds is a chain of
\* committed stages: the output of a failed, paused or interrupted attempt is
\* never fed forward.
THEOREM CommittedInputsOnly == Spec => []InputsAreCommitted
<1>1. IInv => InputsAreCommitted
  BY DEF IInv
<1> QED BY <1>1, InvariantHolds, PTL

\* A master attempt that is finished, by its own process or sealed by a later
\* one, carries exactly the lineage it stands for.
THEOREM MastersAreOwners == Spec => []TerminalMastersOwnLineage
<1>1. IInv => TerminalMastersOwnLineage
  BY DEF IInv
<1> QED BY <1>1, InvariantHolds, PTL

\* What a process holds in memory of a question agrees with its log.
THEOREM MemoryAgreesWithLog == Spec => []ThreadsConsistent
<1>1. IInv => ThreadsConsistent
  BY DEF IInv
<1> QED BY <1>1, InvariantHolds, PTL

------------------------------------------------------------------------------
(* The master a thread owns, under either resume command.                       *)

\* The master a thread writes to is the last one and has no finish record; a thread
\* that gives its slot back has left an outcome or a pause behind.
MasterHeld(t, rows) ==
    /\ t.pc \in SealPCs \cup (LivePCs \ {"queued"}) =>
          t.master = Latest(Masters(rows)) /\ rows[t.master].status = "interrupted"
    /\ t.pc = "release" =>
          Terminal(rows) \/ "pipeline_paused" \in LastMaster(rows).kinds

HInv == phase = "up" => \A i \in Items : MasterHeld(work[i], attempts[i])

------------------------------------------------------------------------------
(* Where only nonterminal questions are resumed, as the campaign does.          *)

OnlyUnfinished == Modes \subseteq {"unfinished_only"}

\* Stages fail only at the end of the chain, and selection accepts the question.
CampaignLog(rows, c) ==
    /\ \A k \in Stages : Ended(rows, k, "failed") =
                         IF k = Len(c) + 1 THEN Failures(rows, c) ELSE {}
    /\ Selectable(rows, c)

\* A thread runs an open question, and the events of its master own the lineage it
\* will finish it with.
CampaignThread(t, rows) ==
    /\ t.pc \in {"queued", "begun", "loop", "link", "work"} => Outcome(rows, t.chain) = "open"
    /\ t.pc = "begun" => rows[t.master].recorded = <<>>
    /\ t.pc \in {"loop", "link"} => rows[t.master].recorded = t.chain
    /\ t.pc = "work" => rows[t.master].recorded = t.links
    /\ t.pc \in SealPCs \cup {"ending", "closing"} =>
          IF t.status = "paused" THEN Outcome(rows, t.chain) = "open"
          ELSE /\ t.status = Outcome(rows, t.chain)
               /\ t.links = CanonicalLinks(rows, t.chain)
               /\ t.failedStage = FailedStage(rows, t.chain)
               /\ rows[t.master].recorded = t.links

CampaignItem(t, rows) == CampaignLog(rows, t.chain) /\ CampaignThread(t, rows)

CInv ==
    /\ \A i \in Items : \E c \in Seq(Nat) : Frontier(attempts[i], c) /\ CampaignLog(attempts[i], c)
    /\ phase = "up" => \A i \in Items :
          /\ CampaignItem(work[i], attempts[i])
          /\ i \in pending => Outcome(attempts[i], work[i].chain) = "open"

------------------------------------------------------------------------------
(* What a write leaves of the last master and of the outcome.                   *)

LEMMA LatestIs ==
    ASSUME NEW S \in SUBSET Nat, NEW a \in S, \A b \in S : b <= a
    PROVE  Latest(S) = a
<1>1. Latest(S) \in S /\ \A b \in S : b <= Latest(S)
  BY DEF Latest
<1>2. Latest(S) \in Nat /\ a \in Nat /\ a <= Latest(S) /\ Latest(S) <= a
  BY <1>1
<1> QED BY <1>2

\* The stages ended as before.
SameStages(old, new) ==
    /\ Extends(old, new)
    /\ \A k \in Nat \ {0} : \A st \in {"succeeded", "failed"} :
          Ended(new, k, st) = Ended(old, k, st)

\* The masters say the same as before.
SameMasters(old, new) ==
    /\ Masters(new) = Masters(old)
    /\ \A m \in Masters(old) : /\ new[m].status = old[m].status
                               /\ new[m].recorded = old[m].recorded
                               /\ new[m].links = old[m].links
                               /\ new[m].failedStage = old[m].failedStage

\* Thread t holds its master.
Holds(t, rows) ==
    /\ t.master \in Masters(rows) /\ t.master = Latest(Masters(rows))
    /\ rows[t.master].status = "interrupted"

LEMMA OutcomeKept ==
    ASSUME NEW old, NEW new, SameStages(old, new), NEW c \in Seq(Nat)
    PROVE  /\ Failures(new, c) = Failures(old, c) /\ Outcome(new, c) = Outcome(old, c)
           /\ CanonicalLinks(new, c) = CanonicalLinks(old, c)
           /\ FailedStage(new, c) = FailedStage(old, c)
<1>1. Len(c) + 1 \in Nat \ {0}
  OBVIOUS
<1>2. Ended(new, Len(c) + 1, "failed") = Ended(old, Len(c) + 1, "failed")
  BY <1>1 DEF SameStages
<1>3. \A a \in Ended(old, Len(c) + 1, "failed") : new[a].input = old[a].input
  BY DEF SameStages, Extends, Ended
<1>4. Failures(new, c) = Failures(old, c)
  BY <1>2, <1>3 DEF Failures, EndedOn
<1>5. Outcome(new, c) = Outcome(old, c)
  BY <1>4 DEF Outcome
<1> QED BY <1>4, <1>5 DEF CanonicalLinks, FailedStage

LEMMA LastMasterIn ==
    ASSUME NEW rows \in Seq(Rows), Masters(rows) # {}
    PROVE  Latest(Masters(rows)) \in Masters(rows)
<1>1. Masters(rows) \in SUBSET (1..Len(rows)) /\ Len(rows) \in Nat
  BY DEF Masters
<1> QED BY <1>1, HasLatest

LEMMA LogKept ==
    ASSUME NEW old \in Seq(Rows), NEW new, SameStages(old, new), SameMasters(old, new), NEW c \in Seq(Nat),
           CampaignLog(old, c)
    PROVE  CampaignLog(new, c)
<1>1. /\ Failures(new, c) = Failures(old, c) /\ Outcome(new, c) = Outcome(old, c)
      /\ CanonicalLinks(new, c) = CanonicalLinks(old, c)
      /\ FailedStage(new, c) = FailedStage(old, c)
  BY OutcomeKept
<1>2. \A k \in Stages : Ended(new, k, "failed") = Ended(old, k, "failed")
  BY DEF SameStages, Stages
<1>3. Selectable(new, c)
  <2>1. Masters(new) = Masters(old) /\ Selectable(old, c)
    BY DEF SameMasters, CampaignLog
  <2>2. CASE Outcome(old, c) = "open"
    BY <1>1, <2>1, <2>2 DEF Selectable, SameMasters
  <2>3. CASE Outcome(old, c) # "open"
    <3>1. Masters(old) # {} /\ (Sealable(old, c) \/ Settled(old, c))
      BY <2>1, <2>3 DEF Selectable, Sealable, Settled
    <3>2. PICK m \in Masters(old) : m = Latest(Masters(old))
      BY <3>1, LastMasterIn
    <3>3. Sealable(old, c) => Sealable(new, c)
      BY <1>1, <2>1, <3>2 DEF Sealable, SameMasters
    <3>4. Settled(old, c) => Settled(new, c)
      BY <1>1, <2>1, <3>2 DEF Settled, SameMasters
    <3> QED BY <1>1, <2>3, <3>1, <3>3, <3>4 DEF Selectable
  <2> QED BY <2>2, <2>3
<1> QED BY <1>1, <1>2, <1>3 DEF CampaignLog

LEMMA HoldsKept ==
    ASSUME NEW old, NEW new, SameMasters(old, new), NEW t, Holds(t, old)
    PROVE  Holds(t, new) /\ new[t.master].recorded = old[t.master].recorded
  BY DEF Holds, SameMasters

\* An event, and the beginning of a stage, leave stages and masters as they were.
LEMMA EventView ==
    ASSUME NEW rows \in Seq(Rows), NEW a, Open(rows, a), NEW kind \in EventKinds,
           NEW new, new = append_event(rows, a, kind)
    PROVE  SameStages(rows, new) /\ SameMasters(rows, new)
<1>1. /\ DOMAIN new = DOMAIN rows /\ Keeps(rows, new)
      /\ \A b \in DOMAIN rows : /\ new[b].stage = rows[b].stage
                                /\ new[b].status = rows[b].status
                                /\ new[b].recorded = rows[b].recorded
                                /\ new[b].links = rows[b].links
                                /\ new[b].failedStage = rows[b].failedStage
  BY EventLemma
<1> QED BY <1>1 DEF SameStages, SameMasters, Keeps, Masters

LEMMA StageView ==
    ASSUME NEW rows \in Seq(Rows), NEW stage \in Stages, NEW input \in Seq(Nat),
           NEW new, new = begin_attempt(rows, stage, input)
    PROVE  SameStages(rows, new) /\ SameMasters(rows, new)
<1>1. /\ new \in Seq(Rows) /\ Len(new) = Len(rows) + 1 /\ new[Len(rows) + 1] = NewRow(stage, input)
      /\ \A a \in DOMAIN rows : new[a] = rows[a]
      /\ Keeps(rows, new)
  BY BeginLemma
<1>2. DOMAIN new = DOMAIN rows \cup {Len(rows) + 1}
  BY <1>1
<1>3. new[Len(rows) + 1].stage # Master
  BY <1>1 DEF NewRow, Stages, Master
<1> QED BY <1>1, <1>2, <1>3 DEF SameStages, SameMasters, Keeps, Masters

\* Links are recorded in one master.
LEMMA LinksView ==
    ASSUME NEW rows \in Seq(Rows), NEW a, Open(rows, a), NEW more \in Seq(Nat),
           NEW new, new = append_links(rows, a, more)
    PROVE  /\ SameStages(rows, new) /\ Masters(new) = Masters(rows)
           /\ \A m \in Masters(rows) : new[m].status = rows[m].status
           /\ new[a].recorded = rows[a].recorded \o more
<1>1. /\ DOMAIN new = DOMAIN rows /\ Keeps(rows, new)
      /\ \A b \in DOMAIN rows : /\ new[b].stage = rows[b].stage
                                /\ new[b].status = rows[b].status
  BY LinksLemma
<1>2. new[a].recorded = rows[a].recorded \o more
  <2>1. a \in 1..Len(rows) /\ rows[a] \in Rows
    BY DEF Open
  <2>2. PICK row : row = [rows[a] EXCEPT !.recorded = rows[a].recorded \o more]
    OBVIOUS
  <2>3. row.recorded = rows[a].recorded \o more
    BY <2>1, <2>2 DEF Rows
  <2>4. new = [rows EXCEPT ![a] = row]
    BY <2>2 DEF append_links
  <2> QED BY <2>1, <2>3, <2>4
<1> QED BY <1>1, <1>2 DEF SameStages, Keeps, Masters

\* The master attempt of a question begins.
LEMMA MasterView ==
    ASSUME NEW rows \in Seq(Rows), NEW new, new = begin_attempt(rows, Master, <<>>)
    PROVE  /\ SameStages(rows, new) /\ Masters(new) = Masters(rows) \cup {Len(rows) + 1}
           /\ Latest(Masters(new)) = Len(rows) + 1
           /\ new[Len(rows) + 1] = NewRow(Master, <<>>)
<1>1. PICK input \in Seq(Nat) : input = <<>>
  BY EmptySeq
<1>2. /\ new \in Seq(Rows) /\ Len(new) = Len(rows) + 1 /\ new[Len(rows) + 1] = NewRow(Master, input)
      /\ \A a \in DOMAIN rows : new[a] = rows[a]
      /\ Keeps(rows, new)
  BY ZenonT(40), <1>1, BeginLemma
<1>3. DOMAIN new = DOMAIN rows \cup {Len(rows) + 1} /\ new[Len(rows) + 1].stage = Master
  <2>1. DOMAIN new = DOMAIN rows \cup {Len(rows) + 1}
    <3>1. /\ DOMAIN new = 1..(Len(rows) + 1) /\ DOMAIN rows = 1..Len(rows)
          /\ Len(rows) \in Nat
      BY <1>2, LenProperties
    <3>2. \A n \in Nat : 1..(n + 1) = 1..n \cup {n + 1}
      OBVIOUS
    <3> QED BY <3>1, <3>2
  <2>2. NewRow(Master, input).stage = Master
    BY DEF NewRow
  <2> QED BY <1>2, <2>1, <2>2
<1>4. Masters(new) = Masters(rows) \cup {Len(rows) + 1}
  BY <1>2, <1>3 DEF Masters
<1>5. Latest(Masters(new)) = Len(rows) + 1
  <2>1. Masters(new) \subseteq Nat /\ \A b \in Masters(new) : b <= Len(rows) + 1
    BY <1>2, <1>3 DEF Masters
  <2> QED BY <1>4, <2>1, LatestIs
<1> QED BY <1>1, <1>2, <1>4, <1>5 DEF SameStages, Keeps

\* An attempt is finished; the others are left alone.
LEMMA FinishView ==
    ASSUME NEW rows \in Seq(Rows), NEW a, Open(rows, a),
           NEW status \in {"succeeded", "failed"}, NEW links \in Seq(Nat),
           NEW failedStage \in Stages \cup {0},
           NEW new, new = finish_attempt(rows, a, status, links, failedStage)
    PROVE  /\ new \in Seq(Rows) /\ Finishes(rows, new, a, status)
           /\ new[a].links = links /\ new[a].failedStage = failedStage
           /\ Masters(new) = Masters(rows)
           /\ rows[a].stage # Master => SameMasters(rows, new)
           /\ rows[a].stage = Master => SameStages(rows, new)
<1>1. /\ new \in Seq(Rows) /\ Finishes(rows, new, a, status)
      /\ new[a].links = links /\ new[a].failedStage = failedStage
  BY FinishLemma
<1>2. a \in DOMAIN rows
  BY DEF Open
<1>3. Masters(new) = Masters(rows)
  BY <1>1, <1>2 DEF Finishes, Masters
<1>4. rows[a].stage # Master => SameMasters(rows, new)
  BY <1>1, <1>3 DEF Finishes, Masters, SameMasters
<1>5. rows[a].stage = Master => SameStages(rows, new)
  BY <1>1 DEF Finishes, SameStages, Master
<1> QED BY <1>1, <1>3, <1>4, <1>5

------------------------------------------------------------------------------
(* What the ledger sees of a log.                                               *)

CommittedOf(rows) == {k \in Stages : Ended(rows, k, "succeeded") # {}}
FailedOf(rows) == {k \in Stages : Ended(rows, k, "failed") # {}}
OutcomeOf(rows) == IF Terminal(rows) THEN LastMaster(rows).status ELSE "open"

Unseen(old, new) ==
    /\ CommittedOf(new) = CommittedOf(old) /\ FailedOf(new) = FailedOf(old)
    /\ OutcomeOf(new) = OutcomeOf(old)

StageDue(rows, k) ==
    OutcomeOf(rows) = "open" /\ FailedOf(rows) = {} /\ CommittedOf(rows) = 1..(k - 1)

Commits(old, new) ==
    \E k \in Stages : /\ StageDue(old, k) /\ CommittedOf(new) = CommittedOf(old) \cup {k}
                      /\ FailedOf(new) = FailedOf(old) /\ OutcomeOf(new) = OutcomeOf(old)

Fails(old, new) ==
    \E k \in Stages : /\ StageDue(old, k) /\ FailedOf(new) = {k}
                      /\ CommittedOf(new) = CommittedOf(old) /\ OutcomeOf(new) = OutcomeOf(old)

Settles(old, new) ==
    /\ OutcomeOf(old) = "open"
    /\ \/ CommittedOf(old) = Stages /\ OutcomeOf(new) = "succeeded"
       \/ FailedOf(old) # {} /\ OutcomeOf(new) = "failed"
    /\ CommittedOf(new) = CommittedOf(old) /\ FailedOf(new) = FailedOf(old)

LedgerStep(old, new) ==
    Unseen(old, new) \/ Commits(old, new) \/ Fails(old, new) \/ Settles(old, new)

LEMMA StagesUnseen ==
    ASSUME NEW old, NEW new, SameStages(old, new)
    PROVE  CommittedOf(new) = CommittedOf(old) /\ FailedOf(new) = FailedOf(old)
<1>1. \A k \in Stages : k \in Nat \ {0}
  BY DEF Stages
<1> QED BY <1>1 DEF SameStages, CommittedOf, FailedOf

LEMMA MastersUnseen ==
    ASSUME NEW old \in Seq(Rows), NEW new, SameMasters(old, new)
    PROVE  OutcomeOf(new) = OutcomeOf(old)
<1>1. CASE Masters(old) = {}
  BY <1>1 DEF SameMasters, OutcomeOf, Terminal
<1>2. CASE Masters(old) # {}
  BY <1>2, LastMasterIn DEF SameMasters, OutcomeOf, Terminal, LastMaster
<1> QED BY <1>1, <1>2

\* While a thread holds its master the question is open.
LEMMA HeldIsOpen ==
    ASSUME NEW rows, NEW t, Holds(t, rows)
    PROVE  OutcomeOf(rows) = "open"
  BY DEF Holds, OutcomeOf, Terminal, LastMaster

------------------------------------------------------------------------------
(* One question: its thread, its log and the ledger, step by step.              *)

\* A step of a question keeps its master held; where only nonterminal questions are
\* resumed it also keeps the log selectable, and the ledger sees a step of its own.
Kept(t, rows, t1, new) ==
    MasterHeld(t, rows) =>
        /\ MasterHeld(t1, new)
        /\ CampaignItem(t, rows) => CampaignItem(t1, new) /\ LedgerStep(rows, new)

HoldingPCs == SealPCs \cup (LivePCs \ {"queued"})

LEMMA ItemHolds ==
    ASSUME NEW t, NEW rows, ItemSound(t, rows), MasterHeld(t, rows), t.pc \in HoldingPCs
    PROVE  Holds(t, rows)
  BY DEF ItemSound, HoldsItsWork, MasterHeld, Holds, HoldingPCs

\* A thread that holds its master moves to another place where it does.
LEMMA HoldsMaster ==
    ASSUME NEW t, NEW rows, Holds(t, rows), t.pc \in HoldingPCs
    PROVE  MasterHeld(t, rows)
  BY DEF Holds, MasterHeld, HoldingPCs, SealPCs, LivePCs

\* A question without a failure is not terminal before its last stage.
LEMMA OpenLog ==
    ASSUME NEW rows, NEW c \in Seq(Nat), CampaignLog(rows, c), Outcome(rows, c) = "open"
    PROVE  /\ \A k \in Stages : Ended(rows, k, "failed") = {}
           /\ FailedOf(rows) = {} /\ Failures(rows, c) = {} /\ Remaining(c)
<1>1. Failures(rows, c) = {} /\ Remaining(c)
  BY DEF Outcome
<1>2. \A k \in Stages : Ended(rows, k, "failed") = {}
  BY <1>1 DEF CampaignLog
<1> QED BY <1>1, <1>2 DEF FailedOf

LEMMA BeginMasterKept ==
    ASSUME NEW rows, NEW t, ItemSound(t, rows), t.pc = "queued",
           NEW new, new = begin_attempt(rows, Master, <<>>),
           NEW t1, t1 = [t EXCEPT !.pc = "begun", !.master = Len(rows) + 1]
    PROVE  Kept(t, rows, t1, new)
<1>1. rows \in Seq(Rows) /\ t \in Threads /\ t.chain \in Seq(Nat)
  BY DEF ItemSound, Threads
<1>2. /\ SameStages(rows, new) /\ Masters(new) = Masters(rows) \cup {Len(rows) + 1}
      /\ Latest(Masters(new)) = Len(rows) + 1
      /\ new[Len(rows) + 1].status = "interrupted" /\ new[Len(rows) + 1].recorded = <<>>
  BY <1>1, MasterView DEF NewRow
<1>3. t1.pc = "begun" /\ t1.master = Len(rows) + 1 /\ t1.chain = t.chain
  BY <1>1 DEF Threads
<1>4. Holds(t1, new)
  BY <1>2, <1>3 DEF Holds
<1>5. MasterHeld(t1, new)
  BY <1>3, <1>4, HoldsMaster DEF HoldingPCs, LivePCs
<1>6. ASSUME CampaignItem(t, rows)
      PROVE  CampaignItem(t1, new) /\ LedgerStep(rows, new)
  <2>1. CampaignLog(rows, t.chain) /\ Outcome(rows, t.chain) = "open"
    BY <1>6 DEF CampaignItem, CampaignThread
  <2>2. Outcome(new, t.chain) = "open" /\ Failures(new, t.chain) = Failures(rows, t.chain)
    BY <1>1, <1>2, <2>1, OutcomeKept
  <2>3. CampaignLog(new, t.chain)
    <3>1. \A k \in Stages : Ended(new, k, "failed") = Ended(rows, k, "failed")
      BY <1>2 DEF SameStages, Stages
    <3>2. Selectable(new, t.chain)
      BY <1>2, <2>2 DEF Selectable
    <3> QED BY <2>1, <2>2, <3>1, <3>2 DEF CampaignLog
  <2>4. CampaignThread(t1, new)
    BY <1>2, <1>3, <2>2 DEF CampaignThread, SealPCs
  <2>5. OutcomeOf(rows) = "open"
    BY <1>1, <2>1, LastMasterIn DEF CampaignLog, Selectable, OutcomeOf, Terminal, LastMaster
  <2>6. Unseen(rows, new)
    BY <1>2, <1>4, <2>5, HeldIsOpen, StagesUnseen DEF Unseen
  <2> QED BY <1>3, <2>3, <2>4, <2>6 DEF CampaignItem, LedgerStep
<1> QED BY <1>5, <1>6 DEF Kept

LEMMA RecordAdmissionKept ==
    ASSUME NEW rows, NEW t, ItemSound(t, rows), t.pc = "begun", Open(rows, t.master),
           NEW new, new = append_links(append_event(rows, t.master, "pipeline_admitted"),
                                       t.master, t.links),
           NEW t1, t1 = [t EXCEPT !.pc = "loop"]
    PROVE  Kept(t, rows, t1, new)
<1> SUFFICES ASSUME MasterHeld(t, rows)
             PROVE  /\ MasterHeld(t1, new)
                    /\ CampaignItem(t, rows) => CampaignItem(t1, new) /\ LedgerStep(rows, new)
  BY DEF Kept
<1>1. /\ rows \in Seq(Rows) /\ t \in Threads /\ t.chain \in Seq(Nat) /\ t.links = t.chain
      /\ Holds(t, rows)
  BY ItemHolds DEF ItemSound, Threads, HoldsItsWork, HoldingPCs, LivePCs
<1>2. PICK mid : mid = append_event(rows, t.master, "pipeline_admitted")
  OBVIOUS
<1>3. /\ SameStages(rows, mid) /\ SameMasters(rows, mid) /\ mid \in Seq(Rows)
      /\ Open(mid, t.master)
  <2>1. "pipeline_admitted" \in EventKinds
    BY DEF EventKinds
  <2>2. SameStages(rows, mid) /\ SameMasters(rows, mid)
    BY <1>1, <1>2, <2>1, EventView
  <2>3. /\ mid \in Seq(Rows) /\ DOMAIN mid = DOMAIN rows
        /\ \A b \in DOMAIN rows : mid[b].status = rows[b].status
    BY <1>1, <1>2, <2>1, EventLemma
  <2> QED BY <2>2, <2>3 DEF Open
<1>4. /\ SameStages(mid, new) /\ Masters(new) = Masters(mid)
      /\ \A m \in Masters(mid) : new[m].status = mid[m].status
      /\ new[t.master].recorded = mid[t.master].recorded \o t.links
  <2>1. PICK more \in Seq(Nat) : more = t.links
    BY <1>1
  <2>2. PICK a : a = t.master
    OBVIOUS
  <2>3. new = append_links(mid, a, more) /\ Open(mid, a)
    BY <1>2, <1>3, <2>1, <2>2
  <2>4. /\ SameStages(mid, new) /\ Masters(new) = Masters(mid)
        /\ \A m \in Masters(mid) : new[m].status = mid[m].status
        /\ new[a].recorded = mid[a].recorded \o more
    BY SMTT(40), <1>3, <2>3, LinksView
  <2> QED BY <2>1, <2>2, <2>4
<1>5. t1.pc = "loop" /\ t1.master = t.master /\ t1.chain = t.chain
  BY <1>1 DEF Threads
<1>6. Holds(t1, new) /\ Holds(t, mid) /\ mid[t.master].recorded = rows[t.master].recorded
  BY <1>1, <1>3, <1>4, <1>5, HoldsKept DEF Holds
<1>7. MasterHeld(t1, new)
  BY <1>5, <1>6, HoldsMaster DEF HoldingPCs, LivePCs
<1>8. ASSUME CampaignItem(t, rows)
      PROVE  CampaignItem(t1, new) /\ LedgerStep(rows, new)
  <2>1. /\ CampaignLog(rows, t.chain) /\ Outcome(rows, t.chain) = "open"
        /\ rows[t.master].recorded = <<>>
    BY <1>8 DEF CampaignItem, CampaignThread
  <2>2. CampaignLog(mid, t.chain)
    BY <1>1, <1>3, <2>1, LogKept
  <2>3. Outcome(new, t.chain) = "open" /\ Failures(new, t.chain) = Failures(mid, t.chain)
    BY SMTT(40), <1>1, <1>3, <1>4, <2>1, OutcomeKept
  <2>4. CampaignLog(new, t.chain)
    <3>1. \A k \in Stages : Ended(new, k, "failed") = Ended(mid, k, "failed")
      BY SMTT(40), <1>4 DEF SameStages, Stages
    <3>2. Selectable(new, t.chain)
      BY <1>5, <1>6, <2>3 DEF Selectable, Holds
    <3> QED BY <2>2, <2>3, <3>1, <3>2 DEF CampaignLog
  <2>5. new[t.master].recorded = t.chain
    BY <1>1, <1>4, <1>6, <2>1, ConcatEmptySeq
  <2>6. CampaignThread(t1, new)
    BY <1>5, <2>3, <2>5 DEF CampaignThread, SealPCs
  <2>7. Unseen(rows, new)
    BY <1>1, <1>3, <1>4, <1>6, StagesUnseen, HeldIsOpen DEF Unseen
  <2> QED BY <1>5, <2>4, <2>6, <2>7 DEF CampaignItem, LedgerStep
<1> QED BY <1>7, <1>8

\* A thread stops before its next stage, or raises.
LEMMA MoveKept ==
    ASSUME NEW rows, NEW t, ItemSound(t, rows), NEW t1 \in Threads,
           \/ /\ t.pc = "loop" /\ t1.pc = "ending" /\ t1.status = "paused"
              /\ t1.master = t.master
           \/ t1.pc \in {"dead", "done", "idle"},
           t1.chain = t.chain
    PROVE  Kept(t, rows, t1, rows)
<1> SUFFICES ASSUME MasterHeld(t, rows)
             PROVE  /\ MasterHeld(t1, rows)
                    /\ CampaignItem(t, rows) => CampaignItem(t1, rows) /\ LedgerStep(rows, rows)
  BY DEF Kept
<1>1. MasterHeld(t1, rows)
  BY DEF MasterHeld, SealPCs, LivePCs
<1>2. ASSUME CampaignItem(t, rows) PROVE CampaignItem(t1, rows)
  BY <1>2 DEF CampaignItem, CampaignThread, SealPCs
<1>3. LedgerStep(rows, rows)
  BY DEF LedgerStep, Unseen
<1> QED BY <1>1, <1>2, <1>3

LEMMA BeginStageKept ==
    ASSUME NEW rows, NEW t, ItemSound(t, rows), t.pc = "loop",
           NEW new, new = begin_attempt(rows, Len(t.chain) + 1, t.chain),
           NEW t1, t1 = [t EXCEPT !.pc = "link", !.at = Len(rows) + 1,
                                  !.links = Append(@, Len(rows) + 1)]
    PROVE  Kept(t, rows, t1, new)
<1> SUFFICES ASSUME MasterHeld(t, rows)
             PROVE  /\ MasterHeld(t1, new)
                    /\ CampaignItem(t, rows) => CampaignItem(t1, new) /\ LedgerStep(rows, new)
  BY DEF Kept
<1>1. /\ rows \in Seq(Rows) /\ t \in Threads /\ t.chain \in Seq(Nat) /\ Remaining(t.chain)
      /\ Holds(t, rows)
  BY ItemHolds DEF ItemSound, Threads, HoldsItsWork, HoldingPCs, LivePCs
<1>2. Len(t.chain) + 1 \in Stages
  BY <1>1, NStagesAssumption DEF Remaining, Stages
<1>3. SameStages(rows, new) /\ SameMasters(rows, new)
  BY <1>1, <1>2, StageView
<1>4. t1.pc = "link" /\ t1.master = t.master /\ t1.chain = t.chain
  BY <1>1 DEF Threads
<1>5. Holds(t, new) /\ new[t.master].recorded = rows[t.master].recorded
  BY <1>1, <1>3, HoldsKept
<1>6. Holds(t1, new)
  BY <1>4, <1>5 DEF Holds
<1>7. MasterHeld(t1, new)
  BY <1>4, <1>6, HoldsMaster DEF HoldingPCs, LivePCs
<1>8. ASSUME CampaignItem(t, rows) PROVE CampaignItem(t1, new)
  <2>1. /\ CampaignLog(rows, t.chain) /\ Outcome(rows, t.chain) = "open"
        /\ rows[t.master].recorded = t.chain
    BY <1>8 DEF CampaignItem, CampaignThread
  <2>2. CampaignLog(new, t.chain) /\ Outcome(new, t.chain) = "open"
    BY <1>1, <1>3, <2>1, LogKept, OutcomeKept
  <2> QED BY <1>4, <1>5, <2>1, <2>2 DEF CampaignItem, CampaignThread, SealPCs
<1>9. LedgerStep(rows, new)
  BY <1>1, <1>3, StagesUnseen, MastersUnseen DEF LedgerStep, Unseen
<1> QED BY <1>7, <1>8, <1>9

LEMMA RecordLinkKept ==
    ASSUME NEW rows, NEW t, ItemSound(t, rows), t.pc = "link", Open(rows, t.master),
           NEW link, link = <<t.at>>, NEW new, new = append_links(rows, t.master, link),
           NEW t1, t1 = [t EXCEPT !.pc = "work"]
    PROVE  Kept(t, rows, t1, new)
<1> SUFFICES ASSUME MasterHeld(t, rows)
             PROVE  /\ MasterHeld(t1, new)
                    /\ CampaignItem(t, rows) => CampaignItem(t1, new) /\ LedgerStep(rows, new)
  BY DEF Kept
<1>1. /\ rows \in Seq(Rows) /\ t \in Threads /\ t.chain \in Seq(Nat) /\ t.at \in Nat
      /\ t.links = Append(t.chain, t.at) /\ Holds(t, rows)
  BY ItemHolds DEF ItemSound, Threads, HoldsItsWork, HoldingPCs, LivePCs
<1>2. link \in Seq(Nat) /\ t.links = t.chain \o link
  <2>1. PICK at \in Nat, chain \in Seq(Nat) : at = t.at /\ chain = t.chain
    BY <1>1
  <2>2. <<at>> \in Seq(Nat) /\ Append(chain, at) = chain \o <<at>>
    BY AppendIsConcat
  <2> QED BY <1>1, <2>1, <2>2
<1>3. /\ SameStages(rows, new) /\ Masters(new) = Masters(rows)
      /\ \A m \in Masters(rows) : new[m].status = rows[m].status
      /\ new[t.master].recorded = rows[t.master].recorded \o link
  <2>1. PICK a : a = t.master
    OBVIOUS
  <2>2. new = append_links(rows, a, link) /\ Open(rows, a)
    BY <1>2, <2>1
  <2>3. rows \in Seq(Rows)
    BY <1>1
  <2>4. PICK more \in Seq(Nat) : more = link
    BY <1>2
  <2>5. new = append_links(rows, a, more)
    BY <2>2, <2>4
  <2>6. /\ SameStages(rows, new) /\ Masters(new) = Masters(rows)
        /\ \A m \in Masters(rows) : new[m].status = rows[m].status
        /\ new[a].recorded = rows[a].recorded \o more
    BY ZenonT(40), <2>2, <2>3, <2>5, LinksView
  <2> QED BY <2>1, <2>4, <2>6
<1>4. /\ t1.pc = "work" /\ t1.master = t.master /\ t1.chain = t.chain
      /\ t1.links = t.links
  BY <1>1 DEF Threads
<1>5. Holds(t1, new)
  BY <1>1, <1>3, <1>4 DEF Holds
<1>6. MasterHeld(t1, new)
  BY <1>4, <1>5, HoldsMaster DEF HoldingPCs, LivePCs
<1>7. ASSUME CampaignItem(t, rows) PROVE CampaignItem(t1, new)
  <2>1. /\ CampaignLog(rows, t.chain) /\ Outcome(rows, t.chain) = "open"
        /\ rows[t.master].recorded = t.chain
    BY <1>7 DEF CampaignItem, CampaignThread
  <2>2. Outcome(new, t.chain) = "open" /\ Failures(new, t.chain) = Failures(rows, t.chain)
    BY <1>1, <1>3, <2>1, OutcomeKept
  <2>3. CampaignLog(new, t.chain)
    <3>1. \A k \in Stages : Ended(new, k, "failed") = Ended(rows, k, "failed")
      BY SMTT(40), <1>3 DEF SameStages, Stages
    <3>2. Selectable(new, t.chain)
      BY <1>4, <1>5, <2>2 DEF Selectable, Holds
    <3> QED BY <2>1, <2>2, <3>1, <3>2 DEF CampaignLog
  <2>4. new[t.master].recorded = t.links
    BY <1>2, <1>3, <2>1
  <2> QED BY <1>4, <2>2, <2>3, <2>4 DEF CampaignItem, CampaignThread, SealPCs
<1>8. LedgerStep(rows, new)
  BY <1>1, <1>3, <1>5, StagesUnseen, HeldIsOpen DEF LedgerStep, Unseen
<1> QED BY <1>6, <1>7, <1>8

\* What finishing the attempt of a stage does to the stages.
StageEnded(rows, t, new, status) ==
    /\ SameMasters(rows, new) /\ Holds(t, new)
    /\ new[t.master].recorded = rows[t.master].recorded
    /\ t.at \in EndedOn(new, Len(t.chain) + 1, t.chain, status)
    /\ \A b \in Ended(new, Len(t.chain) + 1, status) :
          b = t.at \/ b \in Ended(rows, Len(t.chain) + 1, status)
    /\ \A k, st : st # "interrupted" /\ ~(k = Len(t.chain) + 1 /\ st = status) =>
          Ended(new, k, st) = Ended(rows, k, st)
    /\ CommittedOf(rows) = 1..Len(t.chain) /\ Len(t.chain) + 1 \in Stages

LEMMA StageEnds ==
    ASSUME NEW rows, NEW t, ItemSound(t, rows), t.pc = "work", Open(rows, t.at),
           Holds(t, rows), NEW status \in {"succeeded", "failed"},
           NEW new, new = finish_attempt(rows, t.at, status, <<>>, 0)
    PROVE  StageEnded(rows, t, new, status)
<1>1. /\ rows \in Seq(Rows) /\ t.chain \in Seq(Nat) /\ Remaining(t.chain)
      /\ t.at \in DOMAIN rows /\ rows[t.at].stage = Len(t.chain) + 1
      /\ rows[t.at].input = t.chain /\ Frontier(rows, t.chain)
  BY DEF ItemSound, HoldsItsWork, Threads
<1>2. Len(t.chain) + 1 \in Stages /\ Len(t.chain) + 1 # Master /\ Len(t.chain) \in Nat
  BY <1>1, NStagesAssumption DEF Remaining, Stages, Master
<1>3. PICK links \in Seq(Nat) : links = <<>>
  BY EmptySeq
<1>4. Finishes(rows, new, t.at, status) /\ SameMasters(rows, new)
  <2>1. PICK a : a = t.at
    OBVIOUS
  <2>2. new = finish_attempt(rows, a, status, links, 0) /\ Open(rows, a)
    BY <1>3, <2>1
  <2>3. Finishes(rows, new, a, status) /\ (rows[a].stage # Master => SameMasters(rows, new))
    BY <1>1, <2>2, FinishView
  <2> QED BY <1>1, <1>2, <2>1, <2>3
<1>5. Holds(t, new) /\ new[t.master].recorded = rows[t.master].recorded
  BY <1>4, HoldsKept
<1>6. t.at \in EndedOn(new, Len(t.chain) + 1, t.chain, status)
  BY <1>1, <1>4 DEF Finishes, EndedOn, Ended
<1>7. CommittedOf(rows) = 1..Len(t.chain)
  <2>1. \A k \in 1..Len(t.chain) : k \in Stages /\ Ended(rows, k, "succeeded") # {}
    <3>1. \A k \in 1..Len(t.chain) : k \in Stages
      BY <1>2, NStagesAssumption DEF Stages
    <3>2. \A k \in 1..Len(t.chain) : t.chain[k] \in Ended(rows, k, "succeeded")
      BY <1>1 DEF Frontier, IsCommitChain
    <3> QED BY <3>1, <3>2
  <2>2. \A k \in Stages : k \notin 1..Len(t.chain) => Ended(rows, k, "succeeded") = {}
    BY SMTT(40), <1>1, <1>2, NStagesAssumption DEF Frontier, Stages
  <2> QED BY <2>1, <2>2 DEF CommittedOf
<1> QED BY <1>1, <1>2, <1>4, <1>5, <1>6, <1>7 DEF Finishes, StageEnded

\* The stage is committed: the question goes on, or is about to succeed.
LEMMA CommitKept ==
    ASSUME NEW rows, NEW t, ItemSound(t, rows), t.pc = "work", Open(rows, t.at),
           NEW new, new = finish_attempt(rows, t.at, "succeeded", <<>>, 0),
           NEW t1, t1 = [t EXCEPT !.chain = Append(@, t.at),
                                  !.pc = IF Len(t.chain) + 1 < NStages
                                         THEN "loop" ELSE "ending"]
    PROVE  Kept(t, rows, t1, new)
<1> SUFFICES ASSUME MasterHeld(t, rows)
             PROVE  /\ MasterHeld(t1, new)
                    /\ CampaignItem(t, rows) => CampaignItem(t1, new) /\ LedgerStep(rows, new)
  BY DEF Kept
<1>1. /\ rows \in Seq(Rows) /\ t \in Threads /\ t.chain \in Seq(Nat) /\ t.at \in Nat
      /\ t.links = Append(t.chain, t.at) /\ Holds(t, rows)
      /\ t.status = "succeeded" /\ t.failedStage = 0
  BY ItemHolds DEF ItemSound, Threads, HoldsItsWork, HoldingPCs, LivePCs
<1>2. PICK next \in Nat : next = Len(t.chain) + 1
  BY <1>1
<1>3. /\ SameMasters(rows, new) /\ Holds(t, new)
      /\ new[t.master].recorded = rows[t.master].recorded
      /\ t.at \in EndedOn(new, next, t.chain, "succeeded")
      /\ \A k, st : st # "interrupted" /\ ~(k = next /\ st = "succeeded") =>
            Ended(new, k, st) = Ended(rows, k, st)
      /\ CommittedOf(rows) = 1..Len(t.chain) /\ next \in Stages
  <2>1. StageEnded(rows, t, new, "succeeded")
    BY <1>1, StageEnds
  <2> QED BY <1>2, <2>1 DEF StageEnded
<1>4. PICK longer \in Seq(Nat) : longer = Append(t.chain, t.at) /\ Len(longer) = next
  <2>1. PICK at \in Nat, chain \in Seq(Nat) : at = t.at /\ chain = t.chain
    BY <1>1
  <2>2. Append(chain, at) \in Seq(Nat) /\ Len(Append(chain, at)) = Len(chain) + 1
    BY AppendProperties
  <2> QED BY <1>2, <2>1, <2>2
<1>5. /\ t1.pc = (IF next < NStages THEN "loop" ELSE "ending") /\ t1.master = t.master
      /\ t1.chain = longer /\ t1.links = longer
      /\ t1.status = "succeeded" /\ t1.failedStage = 0
  BY <1>1, <1>2, <1>4 DEF Threads
<1>6. Holds(t1, new)
  BY <1>3, <1>5 DEF Holds
<1>7. MasterHeld(t1, new)
  <2>1. t1.pc \in {"loop", "ending"}
    BY <1>5
  <2> QED BY <1>6, <2>1, HoldsMaster DEF HoldingPCs, LivePCs
<1>8. ASSUME CampaignItem(t, rows)
      PROVE  CampaignItem(t1, new) /\ LedgerStep(rows, new)
  <2>1. /\ CampaignLog(rows, t.chain) /\ Outcome(rows, t.chain) = "open"
        /\ rows[t.master].recorded = longer
    BY <1>1, <1>4, <1>8 DEF CampaignItem, CampaignThread
  <2>2. (\A k \in Stages : Ended(rows, k, "failed") = {}) /\ FailedOf(rows) = {}
    BY <1>1, <2>1, OpenLog
  <2>3. \A k \in Stages : Ended(new, k, "failed") = {}
    BY <1>3, <2>2
  <2>4. next + 1 \in Stages => Failures(new, longer) = {}
    BY <1>4, <2>3 DEF Failures, EndedOn
  <2>5. Remaining(longer) => next + 1 \in Stages
    BY <1>2, <1>4, NStagesAssumption DEF Remaining, Stages
  <2>6. Outcome(new, longer) = IF next < NStages THEN "open" ELSE "succeeded"
    BY <1>4, <2>4, <2>5 DEF Outcome, Remaining
  <2>7. CanonicalLinks(new, longer) = longer /\ FailedStage(new, longer) = 0
    BY <2>6 DEF CanonicalLinks, FailedStage
  <2>8. new[t1.master].recorded = longer
    BY <1>3, <1>5, <2>1
  <2>9. Selectable(new, longer)
    <3>1. CASE next < NStages
      BY <1>6, <2>6, <3>1 DEF Selectable, Holds
    <3>2. CASE ~(next < NStages)
      <4>1. Sealable(new, longer)
        BY <1>6, <2>7, <2>8 DEF Sealable, Holds
      <4> QED BY <2>6, <3>2, <4>1 DEF Selectable
    <3> QED BY <3>1, <3>2
  <2>10. CampaignLog(new, longer)
    <3>1. \A k \in Stages : k = Len(longer) + 1 => Failures(new, longer) = {}
      BY <1>4, <2>4
    <3> QED BY <2>3, <2>9, <3>1 DEF CampaignLog
  <2>11. CampaignThread(t1, new)
    <3>1. CASE next < NStages
      <4>1. t1.pc = "loop" /\ t1.chain = longer /\ Outcome(new, t1.chain) = "open"
        BY <1>5, <2>6, <3>1
      <4>2. new[t1.master].recorded = t1.chain
        BY <2>8, <4>1
      <4> QED BY <4>1, <4>2 DEF CampaignThread, SealPCs
    <3>2. CASE ~(next < NStages)
      <4>1. t1.pc = "ending" /\ t1.status = Outcome(new, t1.chain)
        BY <1>5, <2>6, <3>2
      <4>2. /\ t1.links = CanonicalLinks(new, t1.chain)
            /\ t1.failedStage = FailedStage(new, t1.chain)
            /\ new[t1.master].recorded = t1.links
        BY <1>5, <2>7, <2>8
      <4>3. t1.status # "paused"
        BY <1>5
      <4> QED BY <4>1, <4>2, <4>3 DEF CampaignThread, SealPCs
    <3> QED BY <3>1, <3>2
  <2>12. Commits(rows, new)
    <3>1. OutcomeOf(rows) = "open" /\ OutcomeOf(new) = "open"
      BY <1>1, <1>6, HeldIsOpen
    <3>2. StageDue(rows, next)
      BY <1>1, <1>2, <1>3, <2>2, <3>1 DEF StageDue
    <3>3. Ended(new, next, "succeeded") # {}
      BY <1>3 DEF EndedOn
    <3>4. \A k \in Stages : k # next => Ended(new, k, "succeeded") = Ended(rows, k, "succeeded")
      BY <1>3
    <3>5. CommittedOf(new) = CommittedOf(rows) \cup {next}
      BY <1>3, <3>3, <3>4 DEF CommittedOf
    <3>6. FailedOf(new) = FailedOf(rows)
      BY <2>2, <2>3 DEF FailedOf
    <3> QED BY <1>3, <3>1, <3>2, <3>5, <3>6 DEF Commits
  <2> QED BY <1>5, <2>10, <2>11, <2>12 DEF CampaignItem, LedgerStep
<1> QED BY <1>7, <1>8

\* The stage failed: the events of the master own the lineage that ends with it.
LEMMA FailKept ==
    ASSUME NEW rows, NEW t, ItemSound(t, rows), t.pc = "work", Open(rows, t.at),
           NEW new, new = finish_attempt(rows, t.at, "failed", <<>>, 0),
           NEW t1, t1 = [t EXCEPT !.pc = "ending", !.status = "failed",
                                  !.failedStage = Len(t.chain) + 1]
    PROVE  Kept(t, rows, t1, new)
<1> SUFFICES ASSUME MasterHeld(t, rows)
             PROVE  /\ MasterHeld(t1, new)
                    /\ CampaignItem(t, rows) => CampaignItem(t1, new) /\ LedgerStep(rows, new)
  BY DEF Kept
<1>1. /\ rows \in Seq(Rows) /\ t \in Threads /\ t.chain \in Seq(Nat) /\ t.at \in Nat
      /\ t.links = Append(t.chain, t.at) /\ Holds(t, rows)
  BY ItemHolds DEF ItemSound, Threads, HoldsItsWork, HoldingPCs, LivePCs
<1>2. PICK next \in Nat : next = Len(t.chain) + 1
  BY <1>1
<1>3. /\ SameMasters(rows, new) /\ Holds(t, new)
      /\ new[t.master].recorded = rows[t.master].recorded
      /\ t.at \in EndedOn(new, next, t.chain, "failed")
      /\ \A b \in Ended(new, next, "failed") : b = t.at \/ b \in Ended(rows, next, "failed")
      /\ \A k, st : st # "interrupted" /\ ~(k = next /\ st = "failed") =>
            Ended(new, k, st) = Ended(rows, k, st)
      /\ CommittedOf(rows) = 1..Len(t.chain) /\ next \in Stages
  <2>1. StageEnded(rows, t, new, "failed")
    BY <1>1, StageEnds
  <2> QED BY <1>2, <2>1 DEF StageEnded
<1>4. /\ t1.pc = "ending" /\ t1.master = t.master /\ t1.chain = t.chain
      /\ t1.links = t.links /\ t1.status = "failed" /\ t1.failedStage = next
  BY <1>1, <1>2 DEF Threads
<1>5. Holds(t1, new)
  BY <1>3, <1>4 DEF Holds
<1>6. MasterHeld(t1, new)
  BY <1>4, <1>5, HoldsMaster DEF HoldingPCs, LivePCs
<1>7. ASSUME CampaignItem(t, rows)
      PROVE  CampaignItem(t1, new) /\ LedgerStep(rows, new)
  <2>1. /\ CampaignLog(rows, t.chain) /\ Outcome(rows, t.chain) = "open"
        /\ rows[t.master].recorded = t.links
    BY <1>7 DEF CampaignItem, CampaignThread
  <2>2. /\ \A k \in Stages : Ended(rows, k, "failed") = {}
        /\ FailedOf(rows) = {} /\ Remaining(t.chain)
    BY <1>1, <2>1, OpenLog
  <2>3. Ended(new, next, "failed") = {t.at} /\ Failures(new, t.chain) = {t.at}
    BY <1>2, <1>3, <2>2 DEF EndedOn, Failures
  <2>4. \A k \in Stages : k # next => Ended(new, k, "failed") = {}
    BY <1>3, <2>2
  <2>5. Outcome(new, t.chain) = "failed" /\ FailedStage(new, t.chain) = next
    BY <1>2, <2>2, <2>3 DEF Outcome, FailedStage
  <2>6. CanonicalLinks(new, t.chain) = t.links
    <3>1. PICK at \in Nat : at = t.at
      BY <1>1
    <3>2. {at} \in SUBSET Nat /\ at \in {at} /\ \A b \in {at} : b <= at
      OBVIOUS
    <3>3. Latest({t.at}) = t.at
      BY <3>1, <3>2, LatestIs
    <3> QED BY <1>1, <2>3, <2>5, <3>3 DEF CanonicalLinks
  <2>7. new[t1.master].recorded = t.links
    BY <1>3, <1>4, <2>1
  <2>8. Sealable(new, t.chain)
    BY <1>5, <2>6, <2>7 DEF Sealable, Holds
  <2>9. CampaignLog(new, t.chain)
    BY <1>2, <2>3, <2>4, <2>5, <2>8 DEF CampaignLog, Selectable
  <2>10. CampaignThread(t1, new)
    BY <1>4, <2>5, <2>6, <2>7 DEF CampaignThread, SealPCs
  <2>11. Fails(rows, new)
    <3>1. OutcomeOf(rows) = "open" /\ OutcomeOf(new) = "open"
      BY <1>1, <1>5, HeldIsOpen
    <3>2. StageDue(rows, next)
      BY <1>1, <1>2, <1>3, <2>2, <3>1 DEF StageDue
    <3>3. FailedOf(new) = {next}
      BY <1>3, <2>3, <2>4 DEF FailedOf
    <3>4. CommittedOf(new) = CommittedOf(rows)
      BY <1>3 DEF CommittedOf
    <3> QED BY <1>3, <3>1, <3>2, <3>3, <3>4 DEF Fails
  <2> QED BY <1>4, <2>9, <2>10, <2>11 DEF CampaignItem, LedgerStep
<1> QED BY <1>6, <1>7

\* An event while the thread holds its master: a paused stage, the intent to release
\* the slot, the seal of a recovered master.
LEMMA EventKept ==
    ASSUME NEW rows, NEW t, ItemSound(t, rows), NEW a, Open(rows, a), NEW kind \in EventKinds,
           NEW new, new = append_event(rows, a, kind),
           NEW t1, t1.chain = t.chain, t1.master = t.master,
           \/ t.pc = "work" /\ t1.pc = "ending" /\ t1.status = "paused"
           \/ /\ \/ t.pc = "ending" /\ t1.pc = "closing"
                 \/ t.pc = "seal" /\ t1.pc = "sealed"
              /\ t1.links = t.links /\ t1.status = t.status /\ t1.failedStage = t.failedStage
    PROVE  Kept(t, rows, t1, new)
<1> SUFFICES ASSUME MasterHeld(t, rows)
             PROVE  /\ MasterHeld(t1, new)
                    /\ CampaignItem(t, rows) => CampaignItem(t1, new) /\ LedgerStep(rows, new)
  BY DEF Kept
<1>1. rows \in Seq(Rows) /\ t.chain \in Seq(Nat) /\ Holds(t, rows)
  BY ItemHolds DEF ItemSound, Threads, HoldingPCs, LivePCs, SealPCs
<1>2. SameStages(rows, new) /\ SameMasters(rows, new)
  BY <1>1, EventView
<1>3. Holds(t, new) /\ new[t.master].recorded = rows[t.master].recorded
  BY <1>1, <1>2, HoldsKept
<1>4. Holds(t1, new)
  BY <1>3 DEF Holds
<1>5. MasterHeld(t1, new)
  BY <1>4, HoldsMaster DEF HoldingPCs, LivePCs, SealPCs
<1>6. ASSUME CampaignItem(t, rows) PROVE CampaignItem(t1, new)
  <2>1. CampaignLog(new, t.chain)
    BY <1>1, <1>2, <1>6, LogKept DEF CampaignItem
  <2>2. /\ Outcome(new, t.chain) = Outcome(rows, t.chain)
        /\ CanonicalLinks(new, t.chain) = CanonicalLinks(rows, t.chain)
        /\ FailedStage(new, t.chain) = FailedStage(rows, t.chain)
    BY <1>1, <1>2, OutcomeKept
  <2>3. CampaignThread(t1, new)
    BY <1>3, <1>6, <2>2 DEF CampaignItem, CampaignThread, SealPCs
  <2> QED BY <2>1, <2>3 DEF CampaignItem
<1>7. LedgerStep(rows, new)
  BY <1>1, <1>2, StagesUnseen, MastersUnseen DEF LedgerStep, Unseen
<1> QED BY <1>5, <1>6, <1>7

\* A master that held the lineage says what it stands for once it is finished: the
\* question is settled, and selection recognises it.
LEMMA MasterEnds ==
    ASSUME NEW rows, NEW t, ItemSound(t, rows), Holds(t, rows), Open(rows, t.master),
           t.pc \in {"closing", "sealed"}, t.status # "paused",
           NEW new, new = finish_attempt(rows, t.master, t.status, t.links, t.failedStage)
    PROVE  /\ Terminal(new)
           /\ CampaignItem(t, rows) => CampaignLog(new, t.chain) /\ Settles(rows, new)
<1>1. /\ rows \in Seq(Rows) /\ t.chain \in Seq(Nat) /\ t.links \in Seq(Nat)
      /\ t.status \in {"succeeded", "failed"} /\ t.failedStage \in Stages \cup {0}
      /\ Frontier(rows, t.chain)
  BY DEF ItemSound, Threads
<1>2. PICK a : a = t.master
  OBVIOUS
<1>3. a \in Masters(rows) /\ a = Latest(Masters(rows)) /\ rows[a].stage = Master
  BY <1>2 DEF Holds, Masters
<1>4. /\ Finishes(rows, new, a, t.status) /\ Masters(new) = Masters(rows)
      /\ SameStages(rows, new)
      /\ new[a].links = t.links /\ new[a].failedStage = t.failedStage
  <2>1. PICK status \in {"succeeded", "failed"}, links \in Seq(Nat), failedStage \in Stages \cup {0} :
           status = t.status /\ links = t.links /\ failedStage = t.failedStage
    BY <1>1
  <2>2. new = finish_attempt(rows, a, status, links, failedStage) /\ Open(rows, a)
    BY <1>2, <2>1
  <2>3. rows \in Seq(Rows)
    BY <1>1
  <2>4. /\ Finishes(rows, new, a, status) /\ Masters(new) = Masters(rows)
        /\ rows[a].stage = Master => SameStages(rows, new)
        /\ new[a].links = links /\ new[a].failedStage = failedStage
    BY <2>2, <2>3, FinishView
  <2> QED BY <1>3, <2>1, <2>4
<1>5. LastMaster(new) = new[a] /\ new[a].status = t.status /\ Masters(new) # {}
  BY <1>3, <1>4 DEF LastMaster, Finishes
<1>6. Terminal(new) /\ OutcomeOf(new) = t.status
  BY <1>1, <1>5 DEF Terminal, OutcomeOf
<1>7. ASSUME CampaignItem(t, rows)
      PROVE  CampaignLog(new, t.chain) /\ Settles(rows, new)
  <2>1. /\ CampaignLog(rows, t.chain) /\ t.status = Outcome(rows, t.chain)
        /\ t.links = CanonicalLinks(rows, t.chain)
        /\ t.failedStage = FailedStage(rows, t.chain)
    BY <1>7 DEF CampaignItem, CampaignThread, SealPCs
  <2>2. /\ Failures(new, t.chain) = Failures(rows, t.chain)
        /\ Outcome(new, t.chain) = Outcome(rows, t.chain)
        /\ CanonicalLinks(new, t.chain) = CanonicalLinks(rows, t.chain)
        /\ FailedStage(new, t.chain) = FailedStage(rows, t.chain)
    BY <1>1, <1>4, OutcomeKept
  <2>3. Settled(new, t.chain)
    BY <1>3, <1>4, <1>5, <2>1, <2>2 DEF Settled
  <2>4. CampaignLog(new, t.chain)
    <3>1. \A k \in Stages : Ended(new, k, "failed") = Ended(rows, k, "failed")
      BY <1>4 DEF SameStages, Stages
    <3>2. Selectable(new, t.chain)
      BY <1>1, <2>1, <2>2, <2>3 DEF Selectable
    <3> QED BY <2>1, <2>2, <3>1, <3>2 DEF CampaignLog
  <2>5. t.status = "succeeded" => CommittedOf(rows) = Stages
    <3> SUFFICES ASSUME t.status = "succeeded" PROVE CommittedOf(rows) = Stages
      OBVIOUS
    <3>1. ~Remaining(t.chain)
      BY <2>1 DEF Outcome
    <3>2. Len(t.chain) \in Nat /\ NStages \in Nat /\ ~(Len(t.chain) < NStages)
      BY <1>1, <3>1, NStagesAssumption DEF Remaining
    <3>3. \A k \in Stages : k \in 1..Len(t.chain)
      BY <3>2 DEF Stages
    <3>4. \A k \in Stages : Ended(rows, k, "succeeded") # {}
      BY <1>1, <3>3 DEF Frontier, IsCommitChain
    <3> QED BY <3>4 DEF CommittedOf
  <2>6. t.status = "failed" => FailedOf(rows) # {}
    <3> SUFFICES ASSUME t.status = "failed" PROVE FailedOf(rows) # {}
      OBVIOUS
    <3>1. Remaining(t.chain) /\ Failures(rows, t.chain) # {}
      BY <2>1 DEF Outcome
    <3>2. Len(t.chain) + 1 \in Stages
      BY <1>1, <3>1, NStagesAssumption DEF Remaining, Stages
    <3>3. Ended(rows, Len(t.chain) + 1, "failed") # {}
      BY <3>1 DEF Failures, EndedOn
    <3> QED BY <3>2, <3>3 DEF FailedOf
  <2>7. OutcomeOf(rows) = "open"
    BY HeldIsOpen
  <2>8. CommittedOf(new) = CommittedOf(rows) /\ FailedOf(new) = FailedOf(rows)
    BY <1>4, StagesUnseen
  <2> QED BY <1>1, <1>6, <2>4, <2>5, <2>6, <2>7, <2>8 DEF Settles
<1> QED BY <1>6, <1>7

\* A paused master says so in its last event.
LEMMA PauseNoted ==
    ASSUME NEW rows \in Seq(Rows), NEW a, Open(rows, a), a = Latest(Masters(rows)),
           NEW new, new = append_event(rows, a, "pipeline_paused")
    PROVE  "pipeline_paused" \in LastMaster(new).kinds
<1>1. a \in 1..Len(rows) /\ rows[a] \in Rows
  BY DEF Open
<1>2. "pipeline_paused" \in EventKinds
  BY DEF EventKinds
<1>3. Masters(new) = Masters(rows)
  BY <1>2, EventView DEF SameMasters
<1>4. PICK row : row = [rows[a] EXCEPT !.kinds = rows[a].kinds \cup {"pipeline_paused"}]
  OBVIOUS
<1>5. "pipeline_paused" \in row.kinds
  BY <1>1, <1>4 DEF Rows
<1>6. new = [rows EXCEPT ![a] = row]
  BY <1>4 DEF append_event
<1> QED BY <1>1, <1>3, <1>5, <1>6 DEF LastMaster

LEMMA CloseMasterKept ==
    ASSUME NEW rows, NEW t, ItemSound(t, rows), t.pc = "closing", Open(rows, t.master),
           NEW new, new = IF t.status = "paused"
                          THEN append_event(rows, t.master, "pipeline_paused")
                          ELSE finish_attempt(rows, t.master, t.status, t.links, t.failedStage),
           NEW t1, t1 = [t EXCEPT !.pc = "release"]
    PROVE  Kept(t, rows, t1, new)
<1> SUFFICES ASSUME MasterHeld(t, rows)
             PROVE  /\ MasterHeld(t1, new)
                    /\ CampaignItem(t, rows) => CampaignItem(t1, new) /\ LedgerStep(rows, new)
  BY DEF Kept
<1>1. /\ rows \in Seq(Rows) /\ t \in Threads /\ t.chain \in Seq(Nat)
      /\ Holds(t, rows)
  BY ItemHolds DEF ItemSound, Threads, HoldingPCs, LivePCs
<1>2. t1.pc = "release" /\ t1.chain = t.chain
  BY <1>1 DEF Threads
<1>3. /\ Terminal(new) \/ "pipeline_paused" \in LastMaster(new).kinds
      /\ CampaignItem(t, rows) => CampaignLog(new, t.chain) /\ LedgerStep(rows, new)
  <2>1. CASE t.status = "paused"
    <3>1. PICK a : a = t.master
      OBVIOUS
    <3>2. new = append_event(rows, a, "pipeline_paused") /\ Open(rows, a)
      BY <2>1, <3>1
    <3>3. "pipeline_paused" \in EventKinds
      BY DEF EventKinds
    <3>4. SameStages(rows, new) /\ SameMasters(rows, new)
      BY <1>1, <3>2, <3>3, EventView
    <3>5. "pipeline_paused" \in LastMaster(new).kinds
      BY <1>1, <3>1, <3>2, PauseNoted DEF Holds
    <3>6. CampaignItem(t, rows) => CampaignLog(new, t.chain)
      BY <1>1, <3>4, LogKept DEF CampaignItem
    <3>7. LedgerStep(rows, new)
      BY <1>1, <3>4, StagesUnseen, MastersUnseen DEF LedgerStep, Unseen
    <3> QED BY <3>5, <3>6, <3>7
  <2>2. CASE t.status # "paused"
    <3>1. new = finish_attempt(rows, t.master, t.status, t.links, t.failedStage)
      BY <2>2
    <3> QED BY <1>1, <2>2, <3>1, MasterEnds DEF LedgerStep
  <2> QED BY <2>1, <2>2
<1>4. MasterHeld(t1, new)
  BY <1>2, <1>3 DEF MasterHeld, SealPCs, LivePCs
<1>5. CampaignThread(t1, new)
  BY <1>2 DEF CampaignThread, SealPCs
<1> QED BY <1>2, <1>3, <1>4, <1>5 DEF CampaignItem

LEMMA SealFinishKept ==
    ASSUME NEW rows, NEW t, ItemSound(t, rows), t.pc = "sealed", Open(rows, t.master),
           NEW new, new = finish_attempt(rows, t.master, t.status, t.links, t.failedStage),
           NEW t1, t1 = Idle(t.chain)
    PROVE  Kept(t, rows, t1, new)
<1> SUFFICES ASSUME MasterHeld(t, rows)
             PROVE  /\ MasterHeld(t1, new)
                    /\ CampaignItem(t, rows) => CampaignItem(t1, new) /\ LedgerStep(rows, new)
  BY DEF Kept
<1>1. Holds(t, rows) /\ t.status # "paused"
  BY ItemHolds DEF ItemSound, HoldsItsWork, HoldingPCs, SealPCs
<1>2. t1.pc = "idle" /\ t1.chain = t.chain
  BY DEF Idle
<1>3. CampaignItem(t, rows) => CampaignLog(new, t.chain) /\ LedgerStep(rows, new)
  BY <1>1, MasterEnds DEF LedgerStep
<1>4. MasterHeld(t1, new) /\ CampaignThread(t1, new)
  BY <1>2 DEF MasterHeld, CampaignThread, SealPCs, LivePCs
<1> QED BY <1>2, <1>3, <1>4 DEF CampaignItem

------------------------------------------------------------------------------
(* The steps of a question, in the state.                                       *)

\* The step is question i's own, it keeps its master held and, where only nonterminal
\* questions are resumed, its log selectable.
QuestionKept(i) ==
    /\ attempts' = [attempts EXCEPT ![i] = attempts'[i]]
    /\ work' = [work EXCEPT ![i] = work'[i]]
    /\ MasterHeld(work'[i], attempts'[i])
    /\ CInv => CampaignItem(work'[i], attempts'[i]) /\ LedgerStep(attempts[i], attempts'[i])

\* The ledger sees a step of one question, or nothing.
LedgerMoves ==
    \/ attempts' = attempts
    \/ \E i \in Items : /\ \A j \in Items \ {i} : attempts'[j] = attempts[j]
                        /\ LedgerStep(attempts[i], attempts'[i])

Advances == HInv' /\ (CInv => CInv' /\ LedgerMoves)

LEMMA KeptQuestion ==
    ASSUME HInv, phase = "up", NEW i \in Items,
           attempts' = [attempts EXCEPT ![i] = attempts'[i]],
           work' = [work EXCEPT ![i] = work'[i]],
           Kept(work[i], attempts[i], work'[i], attempts'[i])
    PROVE  QuestionKept(i)
<1>1. MasterHeld(work[i], attempts[i])
  BY DEF HInv
<1>2. CInv => CampaignItem(work[i], attempts[i])
  BY DEF CInv
<1> QED BY <1>1, <1>2 DEF Kept, QuestionKept

LEMMA QuestionAdvances ==
    ASSUME IInv, IInv', HInv, phase = "up", phase' = "up", NEW i \in Items,
           i \notin pending', pending' \subseteq pending, QuestionKept(i)
    PROVE  Advances
<1>1. \A j \in Items \ {i} : attempts'[j] = attempts[j] /\ work'[j] = work[j]
  BY DEF QuestionKept, IInv, TypeOK
<1>2. HInv'
  <2>1. ASSUME NEW j \in Items PROVE MasterHeld(work'[j], attempts'[j])
    BY <1>1 DEF QuestionKept, HInv
  <2> QED BY <2>1 DEF HInv
<1>3. ASSUME CInv PROVE CInv' /\ LedgerMoves
  <2>1. ASSUME NEW j \in Items
        PROVE  /\ CampaignItem(work'[j], attempts'[j])
               /\ j \in pending' => Outcome(attempts'[j], work'[j].chain) = "open"
    BY <1>1, <1>3 DEF QuestionKept, CInv
  <2>2. ASSUME NEW j \in Items
        PROVE  \E c \in Seq(Nat) : Frontier(attempts'[j], c) /\ CampaignLog(attempts'[j], c)
    <3>1. work'[j].chain \in Seq(Nat) /\ Frontier(attempts'[j], work'[j].chain)
      BY DEF IInv, TypeOK, Threads, ThreadsConsistent, ThreadConsistent
    <3> QED BY <2>1, <3>1 DEF CampaignItem
  <2>3. CInv'
    BY <2>1, <2>2 DEF CInv
  <2>4. LedgerMoves
    BY <1>1, <1>3 DEF QuestionKept, LedgerMoves
  <2> QED BY <2>3, <2>4
<1> QED BY <1>2, <1>3 DEF Advances

LEMMA ThreadAdvances ==
    ASSUME IInv, IInv', HInv, NEW i \in Items, ThreadStep(i), work[i].pc # "idle",
           QuestionKept(i)
    PROVE  Advances
<1>1. i \notin pending'
  BY DEF IInv, ThreadsConsistent, ThreadConsistent, ThreadStep
<1> QED BY <1>1, QuestionAdvances DEF ThreadStep

\* What an action that writes one question's thread leaves, read back.
LEMMA WrittenBack ==
    ASSUME IInv, NEW i \in Items, NEW t1, NEW new,
           attempts' = [attempts EXCEPT ![i] = new], work' = [work EXCEPT ![i] = t1]
    PROVE  /\ attempts'[i] = new /\ work'[i] = t1
           /\ attempts' = [attempts EXCEPT ![i] = attempts'[i]]
           /\ work' = [work EXCEPT ![i] = work'[i]]
  BY DEF IInv, TypeOK

LEMMA BeginMasterAdvances ==
    ASSUME IInv, IInv', HInv, NEW i \in Items, BeginMaster(i) PROVE Advances
<1>1. ItemSound(work[i], attempts[i]) /\ work[i].pc = "queued" /\ ThreadStep(i)
  BY IInvItem DEF BeginMaster, ThreadStep
<1>2. PICK new : new = begin_attempt(attempts[i], Master, <<>>)
  OBVIOUS
<1>3. PICK t1 : t1 = [work[i] EXCEPT !.pc = "begun", !.master = Len(attempts[i]) + 1]
  OBVIOUS
<1>4. attempts' = [attempts EXCEPT ![i] = new] /\ work' = [work EXCEPT ![i] = t1]
  BY <1>2, <1>3 DEF BeginMaster
<1>5. Kept(work[i], attempts[i], t1, new)
  BY <1>1, <1>2, <1>3, BeginMasterKept
<1> QED BY <1>1, <1>4, <1>5, WrittenBack, KeptQuestion, ThreadAdvances DEF ThreadStep

LEMMA RecordAdmissionAdvances ==
    ASSUME IInv, IInv', HInv, NEW i \in Items, RecordAdmission(i) PROVE Advances
<1>1. /\ ItemSound(work[i], attempts[i]) /\ work[i].pc = "begun" /\ ThreadStep(i)
      /\ Open(attempts[i], work[i].master)
  BY IInvItem DEF RecordAdmission, ThreadStep
<1>2. PICK new : new = append_links(append_event(attempts[i], work[i].master, "pipeline_admitted"),
                                  work[i].master, work[i].links)
  OBVIOUS
<1>3. PICK t1 : t1 = [work[i] EXCEPT !.pc = "loop"]
  OBVIOUS
<1>4. attempts' = [attempts EXCEPT ![i] = new] /\ work' = [work EXCEPT ![i] = t1]
  BY <1>2, <1>3 DEF RecordAdmission
<1>5. Kept(work[i], attempts[i], t1, new)
  BY <1>1, <1>2, <1>3, RecordAdmissionKept
<1> QED BY <1>1, <1>4, <1>5, WrittenBack, KeptQuestion, ThreadAdvances DEF ThreadStep

LEMMA BeginStageAdvances ==
    ASSUME IInv, IInv', HInv, NEW i \in Items, BeginStage(i) PROVE Advances
<1>1. /\ ItemSound(work[i], attempts[i]) /\ work[i].pc = "loop" /\ ThreadStep(i)
  BY IInvItem DEF BeginStage, ThreadStep
<1>2. PICK new : new = begin_attempt(attempts[i], Len(work[i].chain) + 1, work[i].chain)
  OBVIOUS
<1>3. PICK t1 : t1 = [work[i] EXCEPT !.pc = "link", !.at = Len(attempts[i]) + 1,
                               !.links = Append(@, Len(attempts[i]) + 1)]
  OBVIOUS
<1>4. attempts' = [attempts EXCEPT ![i] = new] /\ work' = [work EXCEPT ![i] = t1]
  BY <1>2, <1>3 DEF BeginStage
<1>5. Kept(work[i], attempts[i], t1, new)
  BY <1>1, <1>2, <1>3, BeginStageKept
<1> QED BY <1>1, <1>4, <1>5, WrittenBack, KeptQuestion, ThreadAdvances DEF ThreadStep

LEMMA RecordLinkAdvances ==
    ASSUME IInv, IInv', HInv, NEW i \in Items, RecordLink(i) PROVE Advances
<1>1. /\ ItemSound(work[i], attempts[i]) /\ work[i].pc = "link" /\ ThreadStep(i)
      /\ Open(attempts[i], work[i].master)
  BY IInvItem DEF RecordLink, ThreadStep
<1>2. PICK new : new = append_links(attempts[i], work[i].master, <<work[i].at>>)
  OBVIOUS
<1>3. PICK t1 : t1 = [work[i] EXCEPT !.pc = "work"]
  OBVIOUS
<1>4. attempts' = [attempts EXCEPT ![i] = new] /\ work' = [work EXCEPT ![i] = t1]
  BY <1>2, <1>3 DEF RecordLink
<1>5. Kept(work[i], attempts[i], t1, new)
  <2>1. PICK link : link = <<work[i].at>>
    OBVIOUS
  <2> QED BY <1>1, <1>2, <1>3, <2>1, RecordLinkKept
<1> QED BY <1>1, <1>4, <1>5, WrittenBack, KeptQuestion, ThreadAdvances DEF ThreadStep

LEMMA CommitStageAdvances ==
    ASSUME IInv, IInv', HInv, NEW i \in Items, CommitStage(i) PROVE Advances
<1>1. /\ ItemSound(work[i], attempts[i]) /\ work[i].pc = "work" /\ ThreadStep(i)
      /\ Open(attempts[i], work[i].at)
  BY IInvItem DEF CommitStage, ThreadStep
<1>2. PICK new : new = finish_attempt(attempts[i], work[i].at, "succeeded", <<>>, 0)
  OBVIOUS
<1>3. PICK t1 : t1 = [work[i] EXCEPT !.chain = Append(@, work[i].at),
                               !.pc = IF Len(work[i].chain) + 1 < NStages
                                      THEN "loop" ELSE "ending"]
  OBVIOUS
<1>4. attempts' = [attempts EXCEPT ![i] = new] /\ work' = [work EXCEPT ![i] = t1]
  BY <1>2, <1>3 DEF CommitStage
<1>5. Kept(work[i], attempts[i], t1, new)
  BY <1>1, <1>2, <1>3, CommitKept
<1> QED BY <1>1, <1>4, <1>5, WrittenBack, KeptQuestion, ThreadAdvances DEF ThreadStep

LEMMA FailStageAdvances ==
    ASSUME IInv, IInv', HInv, NEW i \in Items, FailStage(i) PROVE Advances
<1>1. /\ ItemSound(work[i], attempts[i]) /\ work[i].pc = "work" /\ ThreadStep(i)
      /\ Open(attempts[i], work[i].at)
  BY IInvItem DEF FailStage, ThreadStep
<1>2. PICK new : new = finish_attempt(attempts[i], work[i].at, "failed", <<>>, 0)
  OBVIOUS
<1>3. PICK t1 : t1 = [work[i] EXCEPT !.pc = "ending", !.status = "failed",
                               !.failedStage = Len(work[i].chain) + 1]
  OBVIOUS
<1>4. attempts' = [attempts EXCEPT ![i] = new] /\ work' = [work EXCEPT ![i] = t1]
  BY <1>2, <1>3 DEF FailStage
<1>5. Kept(work[i], attempts[i], t1, new)
  BY <1>1, <1>2, <1>3, FailKept
<1> QED BY <1>1, <1>4, <1>5, WrittenBack, KeptQuestion, ThreadAdvances DEF ThreadStep

LEMMA PauseStageAdvances ==
    ASSUME IInv, IInv', HInv, NEW i \in Items, PauseStage(i) PROVE Advances
<1>1. /\ ItemSound(work[i], attempts[i]) /\ work[i].pc = "work" /\ ThreadStep(i)
      /\ Open(attempts[i], work[i].at)
  BY IInvItem DEF PauseStage, ThreadStep
<1>2. PICK new : new = append_event(attempts[i], work[i].at, "stage_paused")
  OBVIOUS
<1>3. PICK t1 : t1 = [work[i] EXCEPT !.pc = "ending", !.status = "paused"]
  OBVIOUS
<1>4. attempts' = [attempts EXCEPT ![i] = new] /\ work' = [work EXCEPT ![i] = t1]
  BY <1>2, <1>3 DEF PauseStage
<1>5. Kept(work[i], attempts[i], t1, new)
  <2>1. /\ t1.chain = work[i].chain /\ t1.master = work[i].master
        /\ t1.pc = "ending" /\ t1.status = "paused"
    BY <1>1, <1>3 DEF ItemSound, Threads
  <2>2. "stage_paused" \in EventKinds
    BY DEF EventKinds
  <2> QED BY <1>1, <1>2, <2>1, <2>2, EventKept
<1> QED BY <1>1, <1>4, <1>5, WrittenBack, KeptQuestion, ThreadAdvances DEF ThreadStep

LEMMA ReleaseIntentAdvances ==
    ASSUME IInv, IInv', HInv, NEW i \in Items, ReleaseIntent(i) PROVE Advances
<1>1. /\ ItemSound(work[i], attempts[i]) /\ work[i].pc = "ending" /\ ThreadStep(i)
      /\ Open(attempts[i], work[i].master)
  BY IInvItem DEF ReleaseIntent, ThreadStep
<1>2. PICK new : new = append_event(attempts[i], work[i].master, "pipeline_release_intent")
  OBVIOUS
<1>3. PICK t1 : t1 = [work[i] EXCEPT !.pc = "closing"]
  OBVIOUS
<1>4. attempts' = [attempts EXCEPT ![i] = new] /\ work' = [work EXCEPT ![i] = t1]
  BY <1>2, <1>3 DEF ReleaseIntent
<1>5. Kept(work[i], attempts[i], t1, new)
  <2>1. /\ t1.chain = work[i].chain /\ t1.master = work[i].master
        /\ t1.pc = "closing" /\ t1.links = work[i].links
        /\ t1.status = work[i].status /\ t1.failedStage = work[i].failedStage
    BY <1>1, <1>3 DEF ItemSound, Threads
  <2>2. "pipeline_release_intent" \in EventKinds
    BY DEF EventKinds
  <2> QED BY <1>1, <1>2, <2>1, <2>2, EventKept
<1> QED BY <1>1, <1>4, <1>5, WrittenBack, KeptQuestion, ThreadAdvances DEF ThreadStep

LEMMA CloseMasterAdvances ==
    ASSUME IInv, IInv', HInv, NEW i \in Items, CloseMaster(i) PROVE Advances
<1>1. /\ ItemSound(work[i], attempts[i]) /\ work[i].pc = "closing" /\ ThreadStep(i)
      /\ Open(attempts[i], work[i].master)
  BY IInvItem DEF CloseMaster, ThreadStep
<1>2. PICK new : new = IF work[i].status = "paused"
                    THEN append_event(attempts[i], work[i].master, "pipeline_paused")
                    ELSE finish_attempt(attempts[i], work[i].master, work[i].status,
                                        work[i].links, work[i].failedStage)
  OBVIOUS
<1>3. PICK t1 : t1 = [work[i] EXCEPT !.pc = "release"]
  OBVIOUS
<1>4. attempts' = [attempts EXCEPT ![i] = new] /\ work' = [work EXCEPT ![i] = t1]
  BY <1>2, <1>3 DEF CloseMaster
<1>5. Kept(work[i], attempts[i], t1, new)
  BY <1>1, <1>2, <1>3, CloseMasterKept
<1> QED BY <1>1, <1>4, <1>5, WrittenBack, KeptQuestion, ThreadAdvances DEF ThreadStep

\* A thread that moves without a write.
LEMMA MoveAdvances ==
    ASSUME IInv, IInv', HInv, NEW i \in Items, ThreadStep(i), work[i].pc # "idle",
           NEW t1 \in Threads, t1.chain = work[i].chain,
           \/ /\ work[i].pc = "loop" /\ t1.pc = "ending" /\ t1.status = "paused"
              /\ t1.master = work[i].master
           \/ t1.pc \in {"dead", "done", "idle"},
           attempts' = attempts, work' = [work EXCEPT ![i] = t1]
    PROVE  Advances
<1>1. ItemSound(work[i], attempts[i])
  BY IInvItem DEF ThreadStep
<1>2. Kept(work[i], attempts[i], t1, attempts[i])
  BY <1>1, MoveKept
<1>3. PICK new : new = attempts[i]
  OBVIOUS
<1>4. attempts' = [attempts EXCEPT ![i] = new]
  BY <1>3 DEF IInv, TypeOK
<1>5. /\ attempts'[i] = new /\ work'[i] = t1
      /\ attempts' = [attempts EXCEPT ![i] = attempts'[i]]
      /\ work' = [work EXCEPT ![i] = work'[i]]
  BY <1>4, WrittenBack
<1>6. QuestionKept(i)
  BY <1>2, <1>3, <1>5, KeptQuestion DEF ThreadStep
<1> QED BY <1>6, ThreadAdvances

LEMMA PauseBeforeStageAdvances ==
    ASSUME IInv, IInv', HInv, NEW i \in Items, PauseBeforeStage(i) PROVE Advances
<1>1. work[i] \in Threads /\ work[i].pc = "loop" /\ ThreadStep(i)
  BY DEF PauseBeforeStage, IInv, TypeOK
<1>2. PICK t1 : t1 = [work[i] EXCEPT !.pc = "ending", !.status = "paused"]
  OBVIOUS
<1>3. /\ t1 \in Threads /\ t1.chain = work[i].chain /\ t1.master = work[i].master
      /\ t1.pc = "ending" /\ t1.status = "paused"
  BY <1>1, <1>2 DEF Threads, PCs, LivePCs
<1>4. attempts' = attempts /\ work' = [work EXCEPT ![i] = t1]
  BY <1>2 DEF PauseBeforeStage
<1> QED BY <1>1, <1>3, <1>4, MoveAdvances

LEMMA RaiseAdvances ==
    ASSUME IInv, IInv', HInv, NEW i \in Items, Raise(i), ThreadStep(i), work[i].pc # "idle"
    PROVE  Advances
<1>1. PICK t1 : t1 = [work[i] EXCEPT !.pc = "dead"]
  OBVIOUS
<1>2. t1 \in Threads /\ t1.chain = work[i].chain /\ t1.pc = "dead"
  BY ZenonT(40), <1>1 DEF Threads, PCs, IInv, TypeOK
<1>3. attempts' = attempts /\ work' = [work EXCEPT ![i] = t1]
  BY <1>1 DEF Raise
<1> QED BY <1>2, <1>3, MoveAdvances

LEMMA ReleaseSlotAdvances ==
    ASSUME IInv, IInv', HInv, NEW i \in Items, ReleaseSlot(i) PROVE Advances
<1>1. PICK t1 : t1 = [work[i] EXCEPT !.pc = "done"]
  OBVIOUS
<1>2. t1 \in Threads /\ t1.chain = work[i].chain /\ t1.pc = "done"
  BY ZenonT(40), <1>1 DEF Threads, PCs, IInv, TypeOK
<1>3. /\ attempts' = attempts /\ work' = [work EXCEPT ![i] = t1]
      /\ work[i].pc = "release" /\ ThreadStep(i)
  BY <1>1 DEF ReleaseSlot
<1> QED BY <1>2, <1>3, MoveAdvances

LEMMA SealEventAdvances ==
    ASSUME IInv, IInv', HInv, NEW i \in Items, SealEvent(i) PROVE Advances
<1>1. /\ phase = "up" /\ phase' = "up" /\ work[i].pc = "seal" /\ i \notin pending
      /\ pending' = pending /\ Open(attempts[i], work[i].master)
  BY DEF SealEvent, IInv, TypeOK, ThreadsConsistent, ThreadConsistent
<1>2. ItemSound(work[i], attempts[i])
  BY <1>1, IInvItem
<1>3. PICK new : new = append_event(attempts[i], work[i].master, "pipeline_recovery_seal")
  OBVIOUS
<1>4. PICK t1 : t1 = [work[i] EXCEPT !.pc = "sealed"]
  OBVIOUS
<1>5. attempts' = [attempts EXCEPT ![i] = new] /\ work' = [work EXCEPT ![i] = t1]
  BY <1>3, <1>4 DEF SealEvent
<1>6. Kept(work[i], attempts[i], t1, new)
  <2>1. /\ t1.chain = work[i].chain /\ t1.master = work[i].master
        /\ t1.pc = "sealed" /\ t1.links = work[i].links
        /\ t1.status = work[i].status /\ t1.failedStage = work[i].failedStage
    BY <1>2, <1>4 DEF ItemSound, Threads
  <2>2. "pipeline_recovery_seal" \in EventKinds
    BY DEF EventKinds
  <2> QED BY <1>1, <1>2, <1>3, <2>1, <2>2, EventKept
<1> QED BY <1>1, <1>5, <1>6, WrittenBack, KeptQuestion, QuestionAdvances

LEMMA SealFinishAdvances ==
    ASSUME IInv, IInv', HInv, NEW i \in Items, SealFinish(i) PROVE Advances
<1>1. /\ phase = "up" /\ phase' = "up" /\ work[i].pc = "sealed" /\ i \notin pending
      /\ pending' = pending /\ Open(attempts[i], work[i].master)
  BY DEF SealFinish, IInv, TypeOK, ThreadsConsistent, ThreadConsistent
<1>2. ItemSound(work[i], attempts[i])
  BY <1>1, IInvItem
<1>3. PICK new : new = finish_attempt(attempts[i], work[i].master, work[i].status,
                                      work[i].links, work[i].failedStage)
  OBVIOUS
<1>4. PICK t1 : t1 = Idle(work[i].chain)
  OBVIOUS
<1>5. attempts' = [attempts EXCEPT ![i] = new] /\ work' = [work EXCEPT ![i] = t1]
  BY <1>3, <1>4 DEF SealFinish
<1>6. Kept(work[i], attempts[i], t1, new)
  BY <1>1, <1>2, <1>3, <1>4, SealFinishKept
<1> QED BY <1>1, <1>5, <1>6, WrittenBack, KeptQuestion, QuestionAdvances

LEMMA AdmitAdvances ==
    ASSUME IInv, IInv', HInv, NEW i \in Items, Admit(i) PROVE Advances
<1>1. /\ phase = "up" /\ phase' = "up" /\ i \in pending /\ pending' = pending \ {i}
      /\ work[i] \in Threads
  BY DEF Admit, IInv, TypeOK
<1>2. PICK t1 : t1 = [work[i] EXCEPT !.pc = "queued"]
  OBVIOUS
<1>3. t1.pc = "queued" /\ t1.chain = work[i].chain
  BY <1>1, <1>2 DEF Threads
<1>4. attempts' = [attempts EXCEPT ![i] = attempts[i]] /\ work' = [work EXCEPT ![i] = t1]
  BY <1>2 DEF Admit, IInv, TypeOK
<1>5. /\ attempts'[i] = attempts[i] /\ work'[i] = t1
      /\ attempts' = [attempts EXCEPT ![i] = attempts'[i]]
      /\ work' = [work EXCEPT ![i] = work'[i]]
  BY <1>4 DEF IInv, TypeOK
<1>6. MasterHeld(t1, attempts[i])
  BY <1>3 DEF MasterHeld, SealPCs, LivePCs
<1>7. ASSUME CInv PROVE CampaignItem(t1, attempts[i])
  <2>1. CampaignLog(attempts[i], t1.chain) /\ Outcome(attempts[i], t1.chain) = "open"
    BY <1>1, <1>3, <1>7 DEF CInv, CampaignItem
  <2>2. CampaignThread(t1, attempts[i])
    BY <1>3, <2>1 DEF CampaignThread, SealPCs
  <2> QED BY <2>1, <2>2 DEF CampaignItem
<1>8. LedgerStep(attempts[i], attempts[i])
  BY DEF LedgerStep, Unseen
<1>9. QuestionKept(i)
  BY <1>5, <1>6, <1>7, <1>8 DEF QuestionKept
<1> QED BY <1>1, <1>9, QuestionAdvances

LEMMA DropPendingAdvances ==
    ASSUME IInv, IInv', HInv, DropPending PROVE Advances
<1>1. /\ phase = "up" /\ phase' = "up" /\ pending' = {} /\ attempts' = attempts
      /\ work' = [i \in Items |-> IF i \in pending
                   THEN [work[i] EXCEPT !.pc = "done", !.status = "paused"]
                   ELSE work[i]]
  BY DEF DropPending
<1>2. ASSUME NEW i \in Items
      PROVE  \/ work'[i] = work[i]
             \/ work'[i].pc = "done" /\ work'[i].chain = work[i].chain
  <2>1. work[i] \in Threads
    BY DEF IInv, TypeOK
  <2>2. CASE i \in pending
    <3>1. PICK t1 : t1 = [work[i] EXCEPT !.pc = "done", !.status = "paused"]
      OBVIOUS
    <3>2. work'[i] = t1 /\ t1.pc = "done" /\ t1.chain = work[i].chain
      BY <1>1, <2>1, <2>2, <3>1 DEF Threads
    <3> QED BY <3>2
  <2>3. CASE i \notin pending
    BY <1>1, <2>3
  <2> QED BY <2>2, <2>3
<1>3. HInv'
  <2>1. ASSUME NEW i \in Items PROVE MasterHeld(work'[i], attempts'[i])
    <3>1. MasterHeld(work[i], attempts[i])
      BY <1>1 DEF HInv
    <3>2. work'[i].pc = "done" => MasterHeld(work'[i], attempts'[i])
      BY DEF MasterHeld, SealPCs, LivePCs
    <3> QED BY <1>1, <1>2, <3>1, <3>2
  <2> QED BY <2>1 DEF HInv
<1>4. ASSUME CInv PROVE CInv'
  <2>1. ASSUME NEW i \in Items PROVE CampaignItem(work'[i], attempts'[i])
    <3>1. CampaignItem(work[i], attempts[i])
      BY <1>1, <1>4 DEF CInv
    <3>2. ASSUME work'[i].pc = "done", work'[i].chain = work[i].chain
          PROVE  CampaignItem(work'[i], attempts'[i])
      <4>1. CampaignLog(attempts'[i], work'[i].chain)
        BY <1>1, <3>1, <3>2 DEF CampaignItem
      <4>2. CampaignThread(work'[i], attempts'[i])
        BY <3>2 DEF CampaignThread, SealPCs
      <4> QED BY <4>1, <4>2 DEF CampaignItem
    <3> QED BY <1>1, <1>2, <3>1, <3>2
  <2> QED BY <1>1, <1>4, <2>1 DEF CInv
<1> QED BY <1>1, <1>3, <1>4 DEF Advances, LedgerMoves

\* Steps that touch no question.
LEMMA QuietAdvances ==
    ASSUME HInv, UNCHANGED <<attempts, work, phase>>, pending' = pending
    PROVE  Advances
<1>1. HInv'
  BY DEF HInv
<1>2. CInv => CInv'
  BY DEF CInv
<1> QED BY <1>1, <1>2 DEF Advances, LedgerMoves

\* The process is gone: the log is all there is.
LEMMA DownAdvances ==
    ASSUME attempts' = attempts, phase' = "down" PROVE Advances
<1>1. HInv'
  BY DEF HInv
<1>2. CInv => CInv'
  BY DEF CInv
<1> QED BY <1>1, <1>2 DEF Advances, LedgerMoves

------------------------------------------------------------------------------
(* What a log restores.                                                         *)

\* There is one chain that is everything committed.
LEMMA FrontierUnique ==
    ASSUME NEW rows, OneCommit(rows), NEW c \in Seq(Nat), NEW d \in Seq(Nat),
           Frontier(rows, c), Frontier(rows, d)
    PROVE  c = d
<1>1. /\ \A k \in 1..Len(c) : c[k] \in Ended(rows, k, "succeeded")
      /\ \A k \in 1..Len(d) : d[k] \in Ended(rows, k, "succeeded")
      /\ \A k \in (Len(c) + 1)..NStages : Ended(rows, k, "succeeded") = {}
      /\ \A k \in (Len(d) + 1)..NStages : Ended(rows, k, "succeeded") = {}
      /\ Len(c) \in Nat /\ Len(d) \in Nat /\ Len(c) <= NStages /\ Len(d) <= NStages
  BY DEF Frontier, IsCommitChain
<1>2. Len(c) = Len(d)
  <2>1. ASSUME Len(c) < Len(d) PROVE FALSE
    <3>1. Len(c) + 1 \in 1..Len(d) /\ Len(c) + 1 \in (Len(c) + 1)..NStages
      BY <1>1, <2>1, NStagesAssumption
    <3> QED BY <1>1, <3>1
  <2>2. ASSUME Len(d) < Len(c) PROVE FALSE
    <3>1. Len(d) + 1 \in 1..Len(c) /\ Len(d) + 1 \in (Len(d) + 1)..NStages
      BY <1>1, <2>2, NStagesAssumption
    <3> QED BY <1>1, <3>1
  <2> QED BY <1>1, <2>1, <2>2
<1>3. ASSUME NEW k \in 1..Len(c) PROVE c[k] = d[k]
  <2>1. k \in Stages
    BY <1>1, NStagesAssumption DEF Stages
  <2> QED BY <1>1, <1>2, <2>1 DEF OneCommit
<1> QED BY <1>2, <1>3, SeqEqual

\* Preparation accepts it.
LEMMA FrontierAccepted ==
    ASSUME NEW rows \in Seq(Rows), OneCommit(rows), NEW c \in Seq(Nat), Frontier(rows, c)
    PROVE  c \in Prefixes(rows) /\ Accepts(rows, c)
<1>1. /\ \A k \in 1..Len(c) : /\ c[k] \in Ended(rows, k, "succeeded")
                              /\ rows[c[k]].input = SubSeq(c, 1, k - 1)
                              /\ c[k] \in Nat
      /\ \A k \in (Len(c) + 1)..NStages : Ended(rows, k, "succeeded") = {}
      /\ Len(c) \in Nat /\ Len(c) <= NStages
  BY DEF Frontier, IsCommitChain
<1>2. \A k \in 1..Len(c) : k \in Stages /\ k # Master
  BY <1>1, NStagesAssumption DEF Stages, Master
<1>3. \A k \in 1..Len(c) : \A a \in Ended(rows, k, "succeeded") : a = c[k]
  BY <1>1, <1>2 DEF OneCommit
<1>4. Restores(rows, c)
  <2> SUFFICES ASSUME NEW k \in 1..Len(c)
               PROVE  /\ c[k] \in EndedOn(rows, k, SubSeq(c, 1, k - 1), "succeeded")
                      /\ \A b \in EndedOn(rows, k, SubSeq(c, 1, k - 1), "succeeded") : b <= c[k]
    BY DEF Restores
  <2>1. PICK before : before = SubSeq(c, 1, k - 1)
    OBVIOUS
  <2>2. PICK a \in Nat : a = c[k]
    BY <1>1
  <2>3. a \in EndedOn(rows, k, before, "succeeded")
    BY <1>1, <2>1, <2>2 DEF EndedOn
  <2>4. \A b \in EndedOn(rows, k, before, "succeeded") : b = a
    BY <1>3, <2>2 DEF EndedOn
  <2>5. \A b \in EndedOn(rows, k, before, "succeeded") : b <= a
    BY <2>4
  <2> QED BY <2>1, <2>2, <2>3, <2>5
<1>5. Accepts(rows, c)
  BY <1>1, <1>3, <1>4 DEF Accepts
<1>6. c \in [1..Len(c) -> Finished(rows)]
  <2>1. \A k \in 1..Len(c) : c[k] \in Finished(rows)
    BY <1>1, <1>2 DEF Ended, Finished
  <2>2. DOMAIN c = 1..Len(c) /\ c = [k \in DOMAIN c |-> c[k]]
    BY SeqDef
  <2> QED BY <2>1, <2>2
<1>7. Len(c) \in 0..NStages
  BY <1>1, NStagesAssumption
<1> QED BY <1>5, <1>6, <1>7 DEF Prefixes

\* ... and restores nothing else.
LEMMA FrontierRestored ==
    ASSUME NEW rows \in Seq(Rows), OneCommit(rows), NEW c \in Seq(Nat), Frontier(rows, c)
    PROVE  Prepared(rows) /\ prepare_run(rows) = c
<1>1. Prepared(rows)
  BY FrontierAccepted DEF Prepared
<1>2. PICK d : d = prepare_run(rows)
  OBVIOUS
<1>3. d \in Prefixes(rows) /\ Accepts(rows, d)
  BY <1>1, <1>2 DEF Prepared, prepare_run
<1>4. d \in Seq(Nat) /\ Frontier(rows, d)
  BY <1>3, PrefixType, AcceptsFrontier
<1> QED BY <1>1, <1>2, <1>4, FrontierUnique

------------------------------------------------------------------------------
(* A new process holds the masters it seals, and the log they are sealed from.  *)

\* A terminal question whose master was cut short owns its lineage by its events.
LEMMA CutShortIsSealable ==
    ASSUME NEW rows, NEW c, Outcome(rows, c) # "open", Selectable(rows, c),
           rows[Latest(Masters(rows))].status = "interrupted"
    PROVE  Sealable(rows, c)
  BY DEF Selectable, Settled, Outcome

LEMMA ResumeHolds ==
    ASSUME IInv, NEW mode \in Modes, Resume(mode)
    PROVE  /\ HInv'
           /\ OnlyUnfinished /\ CInv => CInv'
<1>1. PICK c : c = [i \in Items |-> prepare_run(attempts[i])]
  OBVIOUS
<1>2. PICK seals : seals = IF mode = "unfinished_only" THEN SealSet(c) ELSE {}
  OBVIOUS
<1>3. /\ pending' = {i \in Tasks(mode, c) : Remaining(c[i])}
      /\ mode = "unfinished_only" => \A i \in Items : Selectable(attempts[i], c[i])
      /\ attempts' = attempts /\ phase' = "up"
  BY <1>1, <1>2 DEF Resume
<1>4. ASSUME NEW i \in Items, i \in seals
      PROVE  /\ work'[i].pc = "seal" /\ work'[i].chain = c[i]
             /\ work'[i].master = Latest(Masters(attempts[i]))
             /\ work'[i].links = CanonicalLinks(attempts[i], c[i])
             /\ work'[i].status = Outcome(attempts[i], c[i])
             /\ work'[i].failedStage = FailedStage(attempts[i], c[i])
  <2>1. work'[i] = [pc |-> "seal", master |-> Latest(Masters(attempts[i])),
                    at |-> 0, chain |-> c[i],
                    links |-> CanonicalLinks(attempts[i], c[i]),
                    status |-> Outcome(attempts[i], c[i]),
                    failedStage |-> FailedStage(attempts[i], c[i])]
    BY <1>1, <1>2, <1>4 DEF Resume
  <2> QED BY <2>1
<1>5. ASSUME NEW i \in Items, i \notin seals
      PROVE  work'[i].pc = "idle" /\ work'[i].chain = c[i]
  <2>1. work'[i] = Idle(c[i])
    BY <1>1, <1>2, <1>5 DEF Resume
  <2> QED BY <2>1 DEF Idle
<1>6. \A i \in seals : /\ i \in Items /\ mode = "unfinished_only"
                       /\ Outcome(attempts[i], c[i]) # "open"
                       /\ attempts[i][Latest(Masters(attempts[i]))].status = "interrupted"
  BY <1>2 DEF SealSet
<1>7. HInv'
  <2>1. ASSUME NEW i \in Items PROVE MasterHeld(work'[i], attempts[i])
    <3>1. CASE i \in seals
      BY <1>4, <1>6, <3>1 DEF MasterHeld
    <3>2. CASE i \notin seals
      <4>1. work'[i].pc = "idle"
        BY <1>5, <3>2
      <4> QED BY <4>1 DEF MasterHeld, SealPCs, LivePCs
    <3> QED BY <3>1, <3>2
  <2> QED BY <1>3, <2>1 DEF HInv
<1>8. ASSUME OnlyUnfinished, CInv PROVE CInv'
  <2>1. mode = "unfinished_only"
    BY <1>8 DEF OnlyUnfinished
  <2>2. ASSUME NEW i \in Items PROVE CampaignLog(attempts[i], c[i])
    <3>1. PICK d \in Seq(Nat) : Frontier(attempts[i], d) /\ CampaignLog(attempts[i], d)
      BY <1>8 DEF CInv
    <3>2. attempts[i] \in Seq(Rows) /\ OneCommit(attempts[i])
      BY DEF IInv, TypeOK, OneCommitPerStage
    <3>3. prepare_run(attempts[i]) = d
      BY <3>1, <3>2, FrontierRestored
    <3>4. c[i] = prepare_run(attempts[i])
      BY <1>1
    <3> QED BY <3>1, <3>3, <3>4
  <2>3. ASSUME NEW i \in Items PROVE CampaignItem(work'[i], attempts[i])
    <3>1. CASE i \in seals
      <4>1. /\ work'[i].pc = "seal" /\ work'[i].chain = c[i]
            /\ work'[i].master = Latest(Masters(attempts[i]))
            /\ work'[i].links = CanonicalLinks(attempts[i], c[i])
            /\ work'[i].status = Outcome(attempts[i], c[i])
            /\ work'[i].failedStage = FailedStage(attempts[i], c[i])
        BY <1>4, <3>1
      <4>2. Sealable(attempts[i], c[i])
        BY <1>6, <2>2, <3>1, CutShortIsSealable DEF CampaignLog
      <4>3. work'[i].status # "paused"
        BY <4>1 DEF Outcome
      <4>4. CampaignThread(work'[i], attempts[i])
        BY <4>1, <4>2, <4>3 DEF CampaignThread, SealPCs, Sealable
      <4> QED BY <2>2, <4>1, <4>4 DEF CampaignItem
    <3>2. CASE i \notin seals
      <4>1. work'[i].pc = "idle" /\ work'[i].chain = c[i]
        BY <1>5, <3>2
      <4>2. CampaignThread(work'[i], attempts[i])
        BY <4>1 DEF CampaignThread, SealPCs
      <4> QED BY <2>2, <4>1, <4>2 DEF CampaignItem
    <3> QED BY <3>1, <3>2
  <2>4. ASSUME NEW i \in Items, i \in pending'
        PROVE  Outcome(attempts[i], work'[i].chain) = "open"
    <3>1. Outcome(attempts[i], c[i]) = "open"
      BY <1>3, <2>1, <2>4 DEF Tasks
    <3>2. i \notin seals
      BY <1>6, <3>1
    <3> QED BY <1>5, <3>1, <3>2
  <2> QED BY <1>3, <1>8, <2>3, <2>4 DEF CInv
<1> QED BY <1>7, <1>8

------------------------------------------------------------------------------
(* The master held, the question selectable, the ledger implemented.            *)

LEMMA StepAdvances ==
    ASSUME IInv, IInv', HInv, Next
    PROVE  HInv' /\ (OnlyUnfinished /\ CInv => CInv' /\ LedgerMoves)
<1>1. ASSUME NEW mode \in Modes, Resume(mode)
      PROVE  HInv' /\ (OnlyUnfinished /\ CInv => CInv' /\ LedgerMoves)
  <2>1. LedgerMoves
    BY <1>1 DEF Resume, LedgerMoves
  <2> QED BY <1>1, <2>1, ResumeHolds
<1>2. ASSUME NEW i \in Items, SealEvent(i) \/ SealFinish(i) \/ Admit(i) PROVE Advances
  BY <1>2, SealEventAdvances, SealFinishAdvances, AdmitAdvances
<1>3. CASE DropPending
  BY <1>3, DropPendingAdvances DEF Advances
<1>4. CASE Exit
  BY <1>4, DownAdvances DEF Exit, Advances
<1>5. ASSUME NEW i \in Items, Execute(i) PROVE Advances
  <2>1. ASSUME RaiseHalted(i) PROVE Advances
    BY <2>1, RaiseAdvances DEF RaiseHalted
  <2> QED BY <1>5, <2>1, BeginMasterAdvances, RecordAdmissionAdvances,
             PauseBeforeStageAdvances, BeginStageAdvances, RecordLinkAdvances,
             CommitStageAdvances, FailStageAdvances, PauseStageAdvances,
             ReleaseIntentAdvances, CloseMasterAdvances, ReleaseSlotAdvances DEF Execute
<1>6. ASSUME NEW i \in Items, Break(i) PROVE Advances
  BY <1>6, RaiseAdvances DEF Break, LivePCs
<1>7. CASE RequestStop
  BY <1>7, QuietAdvances DEF RequestStop, Advances
<1>8. CASE Crash
  BY <1>8, DownAdvances DEF Crash, Advances
<1> QED BY <1>1, <1>2, <1>3, <1>4, <1>5, <1>6, <1>7, <1>8 DEF Next, Process, Advances

LEMMA HeldInvariant == Spec => [](IInv /\ HInv)
<1>1. Init => HInv
  BY DEF Init, HInv
<1>2. IInv /\ IInv' /\ HInv /\ [Next]_vars => HInv'
  <2> SUFFICES ASSUME IInv, IInv', HInv, [Next]_vars PROVE HInv'
    OBVIOUS
  <2>1. CASE Next
    BY <2>1, StepAdvances
  <2>2. CASE UNCHANGED vars
    BY <2>2, QuietAdvances DEF vars, Advances
  <2> QED BY <2>1, <2>2
<1> QED BY <1>1, <1>2, InvariantHolds, PTL DEF Spec

LEMMA CampaignInit == Init => CInv
<1> SUFFICES ASSUME Init PROVE CInv
  OBVIOUS
<1>1. PICK c \in Seq(Nat) : c = <<>>
  BY EmptySeq
<1>2. PICK none \in Seq(Rows) : none = <<>>
  BY EmptySeq
<1>3. DOMAIN none = {} /\ Len(c) = 0
  BY <1>1, <1>2
<1>4. (\A k, st : Ended(none, k, st) = {}) /\ Masters(none) = {}
  BY <1>3 DEF Ended, Masters
<1>5. Frontier(none, c)
  BY <1>3, <1>4, NStagesAssumption DEF Frontier, IsCommitChain
<1>6. Failures(none, c) = {} /\ Remaining(c)
  BY <1>3, <1>4, NStagesAssumption DEF Failures, EndedOn, Remaining
<1>7. CampaignLog(none, c)
  BY <1>4, <1>6 DEF CampaignLog, Selectable, Outcome
<1>8. \A i \in Items : attempts[i] = none
  BY <1>2 DEF Init
<1> QED BY <1>5, <1>7, <1>8 DEF Init, CInv

LEMMA CampaignInvariant ==
    ASSUME OnlyUnfinished PROVE Spec => [](IInv /\ HInv /\ CInv)
<1>1. Init => CInv
  BY CampaignInit
<1>2. IInv /\ IInv' /\ HInv /\ CInv /\ [Next]_vars => CInv'
  <2> SUFFICES ASSUME IInv, IInv', HInv, CInv, [Next]_vars PROVE CInv'
    OBVIOUS
  <2>1. CASE Next
    BY <2>1, StepAdvances
  <2>2. CASE UNCHANGED vars
    BY <2>2, QuietAdvances DEF vars, Advances
  <2> QED BY <2>1, <2>2
<1> QED BY <1>1, <1>2, HeldInvariant, PTL DEF Spec

\* Where only nonterminal questions are resumed, as the campaign does, whatever a
\* crash, a pause or a failure leaves in the store is accepted by the next process:
\* the prefix of every question is restored and selection raises for none of them
\* (run_pipeline.py:85-109, :150-180).
THEOREM CohortNeverRefused ==
    ASSUME OnlyUnfinished PROVE Spec => []SelectionNeverRefused
<1>1. IInv /\ CInv => SelectionNeverRefused
  <2> SUFFICES ASSUME IInv, CInv, NEW i \in Items
               PROVE  /\ Prepared(attempts[i])
                      /\ Selectable(attempts[i], prepare_run(attempts[i]))
    BY DEF SelectionNeverRefused
  <2>1. PICK c \in Seq(Nat) : Frontier(attempts[i], c) /\ CampaignLog(attempts[i], c)
    BY DEF CInv
  <2>2. attempts[i] \in Seq(Rows) /\ OneCommit(attempts[i])
    BY DEF IInv, TypeOK, OneCommitPerStage
  <2>3. Prepared(attempts[i]) /\ prepare_run(attempts[i]) = c
    BY <2>1, <2>2, FrontierRestored
  <2> QED BY <2>1, <2>3 DEF CampaignLog
<1> QED BY <1>1, CampaignInvariant, PTL

------------------------------------------------------------------------------
(* The ledger, read off the store.                                              *)

CommittedSeen == [i \in Items |-> CommittedOf(attempts[i])]
FailedSeen == [i \in Items |-> FailedOf(attempts[i])]
OutcomeSeen == [i \in Items |-> OutcomeOf(attempts[i])]

LEMMA LedgerInit == Init => Ledger!Init
<1> SUFFICES ASSUME Init PROVE Ledger!Init
  OBVIOUS
<1>1. PICK none : none = <<>>
  OBVIOUS
<1>2. (\A k, st : Ended(none, k, st) = {}) /\ Masters(none) = {}
  BY <1>1 DEF Ended, Masters
<1>3. \A i \in Items : attempts[i] = none
  BY <1>1 DEF Init
<1> QED BY <1>2, <1>3 DEF Ledger!Init, Ledger!Items, Items, Terminal

LEMMA LedgerSees ==
    ASSUME NEW i \in Items, \A j \in Items \ {i} : attempts'[j] = attempts[j]
    PROVE  /\ CommittedSeen' = [CommittedSeen EXCEPT ![i] = CommittedOf(attempts'[i])]
           /\ FailedSeen' = [FailedSeen EXCEPT ![i] = FailedOf(attempts'[i])]
           /\ OutcomeSeen' = [OutcomeSeen EXCEPT ![i] = OutcomeOf(attempts'[i])]
<1>1. \A j \in Items \ {i} : /\ CommittedOf(attempts'[j]) = CommittedOf(attempts[j])
                             /\ FailedOf(attempts'[j]) = FailedOf(attempts[j])
                             /\ OutcomeOf(attempts'[j]) = OutcomeOf(attempts[j])
  OBVIOUS
<1>2. /\ CommittedSeen' = [j \in Items |-> CommittedOf(attempts'[j])]
      /\ FailedSeen' = [j \in Items |-> FailedOf(attempts'[j])]
      /\ OutcomeSeen' = [j \in Items |-> OutcomeOf(attempts'[j])]
  BY DEF CommittedSeen, FailedSeen, OutcomeSeen, CommittedOf, FailedOf, OutcomeOf
<1> QED BY <1>1, <1>2 DEF CommittedSeen, FailedSeen, OutcomeSeen

\* A step of a question's log is a step of the ledger, or nothing to it.
LEMMA QuestionMoves ==
    ASSUME NEW i \in Items, \A j \in Items \ {i} : attempts'[j] = attempts[j],
           LedgerStep(attempts[i], attempts'[i])
    PROVE  Ledger!Next \/ UNCHANGED Ledger!vars
<1>1. /\ CommittedSeen' = [CommittedSeen EXCEPT ![i] = CommittedOf(attempts'[i])]
      /\ FailedSeen' = [FailedSeen EXCEPT ![i] = FailedOf(attempts'[i])]
      /\ OutcomeSeen' = [OutcomeSeen EXCEPT ![i] = OutcomeOf(attempts'[i])]
  BY LedgerSees
<1>2. /\ CommittedSeen[i] = CommittedOf(attempts[i])
      /\ FailedSeen[i] = FailedOf(attempts[i])
      /\ OutcomeSeen[i] = OutcomeOf(attempts[i])
  BY DEF CommittedSeen, FailedSeen, OutcomeSeen
<1>3. /\ CommittedSeen = [CommittedSeen EXCEPT ![i] = CommittedOf(attempts[i])]
      /\ FailedSeen = [FailedSeen EXCEPT ![i] = FailedOf(attempts[i])]
      /\ OutcomeSeen = [OutcomeSeen EXCEPT ![i] = OutcomeOf(attempts[i])]
  BY DEF CommittedSeen, FailedSeen, OutcomeSeen
<1>4. i \in Ledger!Items /\ Ledger!Stages = Stages
  BY DEF Ledger!Items, Items, Ledger!Stages, Stages
<1>5. ASSUME NEW k \in Stages, StageDue(attempts[i], k) PROVE Ledger!Due(i, k)
  <2>1. OutcomeSeen[i] = "open" /\ FailedSeen[i] = {} /\ CommittedSeen[i] = 1..(k - 1)
    BY <1>2, <1>5 DEF StageDue
  <2> QED BY <2>1 DEF Ledger!Due, CommittedSeen, FailedSeen, OutcomeSeen,
                      CommittedOf, FailedOf, OutcomeOf
<1>6. ASSUME Unseen(attempts[i], attempts'[i]) PROVE UNCHANGED Ledger!vars
  <2>1. CommittedSeen' = CommittedSeen /\ FailedSeen' = FailedSeen /\ OutcomeSeen' = OutcomeSeen
    BY <1>1, <1>3, <1>6 DEF Unseen
  <2> QED BY <2>1 DEF Ledger!vars, CommittedSeen, FailedSeen, OutcomeSeen,
                      CommittedOf, FailedOf, OutcomeOf
<1>7. ASSUME Commits(attempts[i], attempts'[i]) PROVE Ledger!Next
  <2>1. PICK k \in Stages :
           /\ StageDue(attempts[i], k)
           /\ CommittedOf(attempts'[i]) = CommittedOf(attempts[i]) \cup {k}
           /\ FailedOf(attempts'[i]) = FailedOf(attempts[i])
           /\ OutcomeOf(attempts'[i]) = OutcomeOf(attempts[i])
    BY <1>7 DEF Commits
  <2>2. /\ CommittedSeen' = [CommittedSeen EXCEPT ![i] = CommittedSeen[i] \cup {k}]
        /\ FailedSeen' = FailedSeen /\ OutcomeSeen' = OutcomeSeen
    BY <1>1, <1>2, <1>3, <2>1
  <2>3. Ledger!Commit(i, k)
    BY <1>5, <2>1, <2>2 DEF Ledger!Commit, CommittedSeen, FailedSeen, OutcomeSeen,
                            CommittedOf, FailedOf, OutcomeOf
  <2> QED BY <1>4, <2>3 DEF Ledger!Next, Ledger!Question
<1>8. ASSUME Fails(attempts[i], attempts'[i]) PROVE Ledger!Next
  <2>1. PICK k \in Stages :
           /\ StageDue(attempts[i], k) /\ FailedOf(attempts'[i]) = {k}
           /\ CommittedOf(attempts'[i]) = CommittedOf(attempts[i])
           /\ OutcomeOf(attempts'[i]) = OutcomeOf(attempts[i])
    BY <1>8 DEF Fails
  <2>2. /\ FailedSeen' = [FailedSeen EXCEPT ![i] = {k}]
        /\ CommittedSeen' = CommittedSeen /\ OutcomeSeen' = OutcomeSeen
    BY <1>1, <1>3, <2>1
  <2>3. Ledger!Fail(i, k)
    BY <1>5, <2>1, <2>2 DEF Ledger!Fail, CommittedSeen, FailedSeen, OutcomeSeen,
                            CommittedOf, FailedOf, OutcomeOf
  <2> QED BY <1>4, <2>3 DEF Ledger!Next, Ledger!Question
<1>9. ASSUME Settles(attempts[i], attempts'[i]) PROVE Ledger!Next
  <2>1. CommittedSeen' = CommittedSeen /\ FailedSeen' = FailedSeen /\ OutcomeSeen[i] = "open"
    BY <1>1, <1>2, <1>3, <1>9 DEF Settles
  <2>2. \/ CommittedSeen[i] = Stages /\ OutcomeSeen' = [OutcomeSeen EXCEPT ![i] = "succeeded"]
        \/ FailedSeen[i] # {} /\ OutcomeSeen' = [OutcomeSeen EXCEPT ![i] = "failed"]
    BY <1>1, <1>2, <1>9 DEF Settles
  <2>3. Ledger!Settle(i)
    BY <1>4, <2>1, <2>2 DEF Ledger!Settle, CommittedSeen, FailedSeen, OutcomeSeen,
                            CommittedOf, FailedOf, OutcomeOf
  <2> QED BY <1>4, <2>3 DEF Ledger!Next, Ledger!Question
<1> QED BY <1>6, <1>7, <1>8, <1>9 DEF LedgerStep

LEMMA LedgerMoved == LedgerMoves => [Ledger!Next]_(Ledger!vars)
<1> SUFFICES ASSUME LedgerMoves PROVE Ledger!Next \/ UNCHANGED Ledger!vars
  OBVIOUS
<1>1. CASE attempts' = attempts
  BY <1>1 DEF Ledger!vars, Terminal, LastMaster
<1>2. ASSUME NEW i \in Items, \A j \in Items \ {i} : attempts'[j] = attempts[j],
             LedgerStep(attempts[i], attempts'[i])
      PROVE  Ledger!Next \/ UNCHANGED Ledger!vars
  BY <1>2, QuestionMoves
<1> QED BY <1>1, <1>2 DEF LedgerMoves

\* Read off its store, a campaign's native run is the ledger, over any number of
\* processes: every step, a crash included, commits the stage that is due, fails it,
\* settles the question by what its stages say, or shows the reader nothing.
THEOREM CampaignIsALedger ==
    ASSUME OnlyUnfinished PROVE Spec => Ledger!Spec
<1>1. Init => Ledger!Init
  BY LedgerInit
<1>2. IInv /\ IInv' /\ HInv /\ CInv /\ [Next]_vars => [Ledger!Next]_(Ledger!vars)
  <2> SUFFICES ASSUME IInv, IInv', HInv, CInv, [Next]_vars PROVE [Ledger!Next]_(Ledger!vars)
    OBVIOUS
  <2>1. CASE Next
    BY <2>1, StepAdvances, LedgerMoved
  <2>2. CASE UNCHANGED vars
    BY <2>2, LedgerMoved DEF vars, LedgerMoves
  <2> QED BY <2>1, <2>2
<1> QED BY <1>1, <1>2, CampaignInvariant, PTL DEF Spec, Ledger!Spec

------------------------------------------------------------------------------
(* The slots, under either resume command.                                      *)

\* What a step that gives no slot away keeps: no new thread runs, no slot moves.
LEMMA SlotsKept ==
    ASSUME SlotsExclusive, slot' = slot,
           \A i \in Items : work'[i].pc \in LivePCs \cup {"release"} =>
                            work[i].pc \in LivePCs \cup {"release"}
    PROVE  SlotsExclusive'
<1>1. Holders' = Holders
  BY DEF Holders
<1> QED BY <1>1 DEF SlotsExclusive

LEMMA HoldersFinite == IsFiniteSet(Holders)
<1>1. IsFiniteSet(Items)
  BY FS_Interval, NItemsAssumption DEF Items
<1>2. Holders \in SUBSET Items
  BY DEF Holders
<1> QED BY <1>1, <1>2, FS_Subset

\* Admission takes the lowest free number, below the limit.
LEMMA AdmitSlots ==
    ASSUME TypeOK, SlotsExclusive, NEW i \in Items, Admit(i) PROVE SlotsExclusive'
<1>1. PICK n \in FreeSlots : slot' = [slot EXCEPT ![i] = n]
  BY DEF Admit
<1>2. /\ Cardinality(Holders) < SlotLimit
      /\ \A j \in Items \ {i} : work'[j] = work[j] /\ slot'[j] = slot[j]
      /\ slot'[i] = n
  BY <1>1 DEF Admit, TypeOK
<1>3. n \in Nat /\ n # NoSlot /\ \A j \in Holders : slot[j] # n
  BY <1>1, SlotLimitAssumption DEF FreeSlots, NoSlot
<1>4. Holders' = Holders \cup {i}
  BY <1>2, <1>3 DEF Holders
<1>5. Cardinality(Holders') <= SlotLimit
  <2>1. /\ Cardinality(Holders) \in Nat
        /\ \/ Cardinality(Holders \cup {i}) = Cardinality(Holders)
           \/ Cardinality(Holders \cup {i}) = Cardinality(Holders) + 1
    BY HoldersFinite, FS_CardinalityType, FS_AddElement
  <2> QED BY <1>2, <1>4, <2>1, SlotLimitAssumption
<1>6. \A j, k \in Holders' : slot'[j] = slot'[k] => j = k
  <2> SUFFICES ASSUME NEW j \in Holders', NEW k \in Holders', slot'[j] = slot'[k]
               PROVE  j = k
    OBVIOUS
  <2>1. \A h \in Holders' : h # i => h \in Holders /\ slot'[h] = slot[h]
    BY <1>2, <1>4 DEF Holders
  <2> QED BY <1>2, <1>3, <2>1 DEF SlotsExclusive
<1>7. \A j \in Items : work'[j].pc \in LivePCs \cup {"release"} => j \in Holders'
  BY <1>2, <1>4 DEF SlotsExclusive
<1> QED BY <1>5, <1>6, <1>7 DEF SlotsExclusive

LEMMA ReleaseSlots ==
    ASSUME TypeOK, SlotsExclusive, NEW i \in Items, ReleaseSlot(i) PROVE SlotsExclusive'
<1>1. /\ slot' = [slot EXCEPT ![i] = NoSlot] /\ work' = [work EXCEPT ![i].pc = "done"]
  BY DEF ReleaseSlot
<1>2. /\ \A j \in Items \ {i} : work'[j] = work[j] /\ slot'[j] = slot[j]
      /\ slot'[i] = NoSlot /\ work'[i].pc = "done"
  BY <1>1 DEF TypeOK, Threads
<1>3. Holders' = Holders \ {i}
  BY <1>2 DEF Holders
<1>4. Cardinality(Holders') <= SlotLimit
  <2>1. /\ Cardinality(Holders) \in Nat
        /\ \/ Cardinality(Holders \ {i}) = Cardinality(Holders)
           \/ Cardinality(Holders \ {i}) = Cardinality(Holders) - 1
    BY HoldersFinite, FS_CardinalityType, FS_RemoveElement
  <2> QED BY <1>3, <2>1, SlotLimitAssumption DEF SlotsExclusive
<1>5. \A j, k \in Holders' : slot'[j] = slot'[k] => j = k
  BY <1>2, <1>3 DEF SlotsExclusive, Holders
<1>6. \A j \in Items : work'[j].pc \in LivePCs \cup {"release"} => j \in Holders'
  BY <1>2, <1>3 DEF SlotsExclusive, LivePCs
<1> QED BY <1>4, <1>5, <1>6 DEF SlotsExclusive

\* No process, no slot.
LEMMA DownSlots ==
    ASSUME slot' = [i \in Items |-> NoSlot], work' = [i \in Items |-> Idle(<<>>)]
    PROVE  SlotsExclusive'
<1>1. Holders' = {}
  BY DEF Holders
<1>2. \A i \in Items : work'[i].pc = "idle"
  BY DEF Idle
<1> QED BY <1>1, <1>2, FS_EmptySet, SlotLimitAssumption DEF SlotsExclusive, LivePCs

\* A thread that executes stays the one it was, or leaves.
LEMMA ThreadSlots ==
    ASSUME TypeOK, SlotsExclusive, NEW i \in Items, slot' = slot,
           work[i].pc \in LivePCs \/ work'[i].pc \notin LivePCs \cup {"release"},
           \A j \in Items \ {i} : work'[j] = work[j]
    PROVE  SlotsExclusive'
  BY SlotsKept

LEMMA ExecuteSlots ==
    ASSUME TypeOK, SlotsExclusive, NEW i \in Items, Execute(i) \/ Break(i)
    PROVE  SlotsExclusive'
<1>1. CASE ReleaseSlot(i)
  BY <1>1, ReleaseSlots
<1>2. ASSUME slot' = slot, work[i].pc \in LivePCs, \A j \in Items \ {i} : work'[j] = work[j]
      PROVE  SlotsExclusive'
  BY <1>2, ThreadSlots
<1>3. ASSUME Raise(i), work[i].pc \in LivePCs PROVE SlotsExclusive'
  BY <1>2, <1>3 DEF Raise, TypeOK
<1>4. CASE BeginMaster(i) \/ RecordAdmission(i) \/ PauseBeforeStage(i)
  <2>1. slot' = slot /\ work[i].pc \in LivePCs /\ \A j \in Items \ {i} : work'[j] = work[j]
    BY <1>4 DEF BeginMaster, RecordAdmission, PauseBeforeStage, TypeOK, LivePCs
  <2> QED BY <1>2, <2>1
<1>5. CASE BeginStage(i) \/ RecordLink(i) \/ CommitStage(i)
  <2>1. slot' = slot /\ work[i].pc \in LivePCs /\ \A j \in Items \ {i} : work'[j] = work[j]
    BY <1>5 DEF BeginStage, RecordLink, CommitStage, TypeOK, LivePCs
  <2> QED BY <1>2, <2>1
<1>6. CASE FailStage(i) \/ PauseStage(i) \/ ReleaseIntent(i) \/ CloseMaster(i)
  <2>1. slot' = slot /\ work[i].pc \in LivePCs /\ \A j \in Items \ {i} : work'[j] = work[j]
    BY <1>6 DEF FailStage, PauseStage, ReleaseIntent, CloseMaster, TypeOK, LivePCs
  <2> QED BY <1>2, <2>1
<1>7. CASE RaiseHalted(i)
  BY <1>3, <1>7 DEF RaiseHalted, LivePCs
<1>8. CASE Break(i)
  BY <1>3, <1>8 DEF Break
<1> QED BY <1>1, <1>4, <1>5, <1>6, <1>7, <1>8 DEF Execute

LEMMA SlotsSound == TypeOK /\ SlotsExclusive /\ [Next]_vars => SlotsExclusive'
<1> SUFFICES ASSUME TypeOK, SlotsExclusive, [Next]_vars PROVE SlotsExclusive'
  OBVIOUS
<1>1. ASSUME NEW mode \in Modes, Resume(mode) PROVE SlotsExclusive'
  <2>1. \A i \in Items : work'[i].pc \in {"seal", "idle"}
    BY <1>1 DEF Resume, Idle
  <2>2. slot' = slot
    BY <1>1 DEF Resume
  <2> QED BY <2>1, <2>2, SlotsKept DEF LivePCs
<1>2. ASSUME NEW i \in Items, SealEvent(i) \/ SealFinish(i) PROVE SlotsExclusive'
  <2>1. /\ slot' = slot /\ work'[i].pc \in {"sealed", "idle"}
        /\ \A j \in Items \ {i} : work'[j] = work[j]
    BY <1>2 DEF SealEvent, SealFinish, Idle, TypeOK, Threads
  <2>2. work'[i].pc \notin LivePCs \cup {"release"}
    BY <2>1 DEF LivePCs
  <2> QED BY <2>1, <2>2, ThreadSlots
<1>3. ASSUME NEW i \in Items, Admit(i) PROVE SlotsExclusive'
  BY <1>3, AdmitSlots
<1>4. CASE DropPending
  <2>1. slot' = slot /\ \A i \in Items : work'[i] = work[i] \/ work'[i].pc = "done"
    BY <1>4 DEF DropPending, TypeOK, Threads
  <2> QED BY <2>1, SlotsKept DEF LivePCs
<1>5. CASE Exit
  BY <1>5, DownSlots DEF Exit
<1>6. ASSUME NEW i \in Items, Execute(i) \/ Break(i) PROVE SlotsExclusive'
  BY <1>6, ExecuteSlots
<1>7. CASE RequestStop
  BY <1>7, SlotsKept DEF RequestStop
<1>8. CASE Crash
  BY <1>8, DownSlots DEF Crash
<1>9. CASE UNCHANGED vars
  BY <1>9, SlotsKept DEF vars
<1> QED BY <1>1, <1>2, <1>3, <1>4, <1>5, <1>6, <1>7, <1>8, <1>9 DEF Next, Process

\* The one step that gives a slot back while the process lives follows the outcome.
LEMMA ReleaseFollows == TypeOK /\ HInv /\ [Next]_vars => ReleasedAfterOutcome
<1> SUFFICES ASSUME TypeOK, HInv, [Next]_vars,
                    NEW i \in Items, slot[i] # NoSlot, slot'[i] = NoSlot, phase' = "up"
             PROVE  \/ Terminal(attempts[i])
                    \/ "pipeline_paused" \in LastMaster(attempts[i]).kinds
  BY DEF ReleasedAfterOutcome
<1>1. slot' # slot
  OBVIOUS
<1>2. ~Exit /\ ~Crash
  BY DEF Exit, Crash
<1>3. ASSUME NEW j \in Items PROVE ~Admit(j)
  <2> SUFFICES ASSUME Admit(j) PROVE FALSE
    OBVIOUS
  <2>1. PICK n \in FreeSlots : slot' = [slot EXCEPT ![j] = n]
    BY DEF Admit
  <2>2. n # NoSlot
    BY SlotLimitAssumption DEF FreeSlots, NoSlot
  <2> QED BY <2>1, <2>2 DEF TypeOK
<1>4. ASSUME NEW j \in Items, Execute(j) PROVE ReleaseSlot(j)
  <2>1. ~RaiseHalted(j)
    BY <1>1 DEF RaiseHalted, Raise
  <2>2. ~BeginMaster(j) /\ ~RecordAdmission(j) /\ ~PauseBeforeStage(j)
    BY <1>1 DEF BeginMaster, RecordAdmission, PauseBeforeStage
  <2>3. ~BeginStage(j) /\ ~RecordLink(j) /\ ~CommitStage(j) /\ ~FailStage(j)
    BY <1>1 DEF BeginStage, RecordLink, CommitStage, FailStage
  <2>4. ~PauseStage(j) /\ ~ReleaseIntent(j) /\ ~CloseMaster(j)
    BY <1>1 DEF PauseStage, ReleaseIntent, CloseMaster
  <2> QED BY <1>4, <2>1, <2>2, <2>3, <2>4 DEF Execute
<1>5. ASSUME NEW j \in Items PROVE ~SealEvent(j) /\ ~SealFinish(j) /\ ~Break(j)
  BY <1>1 DEF SealEvent, SealFinish, Break, Raise
<1>6. /\ ~DropPending /\ ~RequestStop /\ ~UNCHANGED vars
      /\ \A mode \in Modes : ~Resume(mode)
  BY <1>1 DEF DropPending, RequestStop, vars, Resume
<1>7. PICK j \in Items : ReleaseSlot(j)
  BY <1>2, <1>3, <1>4, <1>5, <1>6 DEF Next, Process
<1>8. j = i
  BY <1>7 DEF ReleaseSlot, TypeOK
<1>9. MasterHeld(work[i], attempts[i]) /\ work[i].pc = "release"
  BY <1>7, <1>8 DEF ReleaseSlot, ThreadStep, HInv
<1> QED BY <1>9 DEF MasterHeld

\* Under either resume command, a question has a slot of its own from its admission
\* until its outcome, or its pause, is durable, and the slots in use never exceed the
\* limit (run_slots.py:102, run_pipeline.py:397).
THEOREM SlotsAreHeld == Spec => SlotsOutlastWork
<1>1. Init => SlotsExclusive
  <2> SUFFICES ASSUME Init PROVE SlotsExclusive
    OBVIOUS
  <2>1. Holders = {}
    BY DEF Init, Holders
  <2>2. \A i \in Items : work[i].pc = "idle"
    BY DEF Init, Idle
  <2> QED BY <2>1, <2>2, FS_EmptySet, SlotLimitAssumption DEF SlotsExclusive, LivePCs
<1>2. IInv => TypeOK
  BY DEF IInv
<1> QED BY <1>1, <1>2, SlotsSound, ReleaseFollows, HeldInvariant, PTL
      DEF Spec, SlotsOutlastWork
=============================================================================
