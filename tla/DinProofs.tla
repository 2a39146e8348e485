------------------------------ MODULE DinProofs ------------------------------
(* Theorems about the DIN batch (DinBatch): for every set of groups, every output *)
(* set and every bound, the versions of a question form one line of earned,       *)
(* accepted records, the loop admits groups by what the records say, and nothing  *)
(* that is on record or could be taken over is paid for again.                    *)
(*                                                                                *)
(* The invariant speaks of one question at a time: of its line of versions alone  *)
(* (Line), of the scope its launch gave it (Scoped) and of its task (TaskHolds);  *)
(* only the counts of the loop relate several questions.                          *)
EXTENDS DinBatch, FiniteSetTheorems, SequenceTheorems, TLAPS

Statuses == {"idle", "sent", "answered", "refused", "saved", "done"}
Tasks == {"none", "queued", "begun", "running", "done"}

BatchTypeOK ==
    /\ rows \in [Questions -> Seq(RowType)]
    /\ launch \in [launched : BOOLEAN, targets : SUBSET Questions,
                   parents : [Questions -> {NoVersion} \cup Versions]]
    /\ phase \in {"off", "setup", "on"} /\ next \in 1..(Len(Members) + 1)
    /\ counts \in [Groups -> [Outputs -> Nat]]
    /\ run \in [Questions -> Tasks] /\ at \in [Questions -> [Nodes -> Statuses]]
    /\ asked \in [Questions -> 0..MaxReruns] /\ refused = FALSE
    /\ promised \in [Questions -> {NoVersion} \cup Versions]
    /\ reruns \in 0..MaxReruns /\ faults \in 0..MaxFaults

------------------------------------------------------------------------------
(* The line of versions of one question                                         *)

Rests(q, row, n) == \A p \in Dependencies(q, n) : row.node[p] = "succeeded"

\* What ResultsAreEarned says of one node of one version.
Earned(q, row, n) ==
    /\ row.node[n] = "succeeded" =>
           /\ Rests(q, row, n)
           /\ n \in row.given \/ row.answer[n] = "good" \/ ~Asked(q, n)
    /\ row.node[n] = "failed" =>
           /\ Rests(q, row, n)
           /\ row.answer[n] \in {"bad", "refused"} \/ row.tries[n] = MaxAttempts
    /\ row.node[n] = "skipped" => ~Rests(q, row, n)

\* A node has a result only after all it is computed from, a sealed version has all.
Closed(q, row, n) ==
    /\ row.node[n] # "none" => \A p \in Dependencies(q, n) : row.node[p] # "none"
    /\ row.state # "open" => row.node[n] # "none"

RowHolds(q, row) ==
    row \in RowType /\ \A n \in Nodes : Earned(q, row, n) /\ Closed(q, row, n)

\* What the parent had succeeded in and the version has a result for was taken over.
Follows(old, row) ==
    \A n \in Nodes : old.node[n] = "succeeded" /\ row.node[n] # "none" =>
        row.node[n] = "succeeded" /\ n \in row.given

Placed(line, v) ==
    \/ line[v].parent = v - 1
    \/ line[v].parent = Unstarted /\ v = Len(line) /\ line[v].state = "open"

Line(q, line) ==
    /\ line \in Seq(RowType)
    /\ \A v \in 1..Len(line) : RowHolds(q, line[v]) /\ Placed(line, v)
    /\ \A v \in 1..(Len(line) - 1) :
           line[v].state # "open" /\ Follows(line[v], line[v + 1])

------------------------------------------------------------------------------
(* Scope and task of one question                                               *)

\* A named question has the version it was named at, sealed, or its successor.
Scoped(q) ==
    /\ asked[q] <= reruns /\ Len(rows[q]) <= 1 + asked[q]
    /\ launch.parents[q] <= asked[q]
    /\ Named(q) => /\ q \in launch.targets
                   /\ \/ Len(rows[q]) = launch.parents[q] /\ ~Unfinished(q)
                      \/ Len(rows[q]) = launch.parents[q] + 1

\* What is in scope was started and filled before the loop, or is its task's to start.
Ready(q) ==
    q \in launch.targets /\ Unfinished(q) =>
        /\ run[q] # "begun" => Row(q).parent # Unstarted
        /\ \A n \in Nodes :
               Len(rows[q]) > 1 /\ rows[q][Len(rows[q]) - 1].node[n] = "succeeded" =>
                   Terminal(q, n)

NodeHolds(q, n) ==
    /\ at[q][n] \in {"sent", "answered", "refused"} =>
           /\ run[q] = "running" /\ ~Terminal(q, n) /\ Asked(q, n)
           /\ Rests(q, Row(q), n)
    /\ at[q][n] = "answered" => Row(q).answer[n] \in {"good", "bad"}
    /\ at[q][n] = "refused" => \/ Row(q).answer[n] = "refused"
                               \/ Row(q).tries[n] = MaxAttempts
    /\ at[q][n] \in {"saved", "done"} => Terminal(q, n)
    /\ at[q][n] = "saved" => run[q] = "running"
    /\ run[q] \in {"none", "queued", "begun"} => at[q][n] = "idle"

TaskHolds(q) ==
    /\ run[q] # "none" =>
           q \in launch.targets /\ \E g \in Groups : g < next /\ q \in Members[g]
    /\ run[q] = "queued" => rows[q] = <<>> \/ Unfinished(q)
    /\ run[q] = "begun" => Unfinished(q) /\ Len(rows[q]) = 1 /\ Row(q).parent = Unstarted
    /\ run[q] = "running" => Unfinished(q)
    /\ \A n \in Nodes : NodeHolds(q, n)

Holds(q) ==
    /\ Line(q, rows[q]) /\ Scoped(q)
    /\ phase = "on" => Ready(q) /\ TaskHolds(q)

\* Outside the loop nothing of the process is left.
Quiet == phase # "on" => /\ run = NoTasks /\ at = AllIdle
                         /\ counts = NoCounts /\ next = 1

------------------------------------------------------------------------------
(* The counts of the loop                                                       *)

Ended(g, n) == {q \in Selected(g) : Terminal(q, n)}
Returning(g, n) == {q \in Selected(g) : at[q][n] = "saved"}

Tally(g, n) == counts[g][n] + Cardinality(Returning(g, n)) = Cardinality(Ended(g, n))

Gate(g, n) == Whole * Cardinality(Ended(g, n)) >= Part * Cardinality(Selected(g))

Loop == phase = "on" =>
    \A g \in Groups : \A n \in Outputs : Tally(g, n) /\ (g + 1 < next => Gate(g, n))

IInv == BatchTypeOK /\ Quiet /\ (\A q \in Questions : Holds(q)) /\ Loop

------------------------------------------------------------------------------
(* The constants                                                                *)

\* What a node is computed from, by the table of dependencies.
LEMMA DependenciesFacts ==
    ASSUME NEW q \in Questions
    PROVE  /\ \A n \in Nodes : Dependencies(q, n) \subseteq Nodes
           /\ Dependencies(q, "linking") = {}
           /\ Dependencies(q, "decomposition") \subseteq {"linking"}
           /\ \A n \in Outputs : Dependencies(q, n) \subseteq {"linking", "decomposition"}
                                 \/ Dependencies(q, n) = {"generation_base"}
           /\ Dependencies(q, "generation_base") \subseteq {"linking", "decomposition"}
BY BatchAssumption DEF Dependencies, Nodes

LEMMA GroupFacts ==
    /\ Len(Members) \in Nat /\ Groups = 1..Len(Members)
    /\ \A g \in Groups : Members[g] \subseteq Questions /\ IsFiniteSet(Members[g])
BY BatchAssumption DEF Groups

\* In a version whose successes rest on successes, all that succeeded is reused.
LEMMA ReusedFacts ==
    ASSUME NEW q \in Questions, NEW old, old = rows[q][Row(q).parent],
           \A n \in Nodes : old.node[n] = "succeeded" => Rests(q, old, n)
    PROVE  Reused(q) = {n \in Nodes : old.node[n] = "succeeded"}
<1> DEFINE F(f) == f = [n \in Nodes |-> /\ old.node[n] = "succeeded" /\ \A p \in Dependencies(q, n) : f[p]]
           g == [n \in Nodes |-> old.node[n] = "succeeded"]
           r == CHOOSE f : F(f)
<1>1. F(g)
  <2>1. ASSUME NEW n \in Nodes PROVE g[n] = (old.node[n] = "succeeded" /\ \A p \in Dependencies(q, n) : g[p])
    BY DependenciesFacts DEF Rests
  <2> QED BY <2>1
<1>2. F(r)
  BY <1>1
<1>3. Reused(q) = {n \in Nodes : r[n]}
  BY DEF Reused
<1>4. \A n \in Nodes : r[n] = (old.node[n] = "succeeded" /\ \A p \in Dependencies(q, n) : r[p])
  BY <1>2
<1> HIDE DEF r
<1> DEFINE Right(n) == r[n] = (old.node[n] = "succeeded")
<1>5. ASSUME NEW n \in Nodes, \A p \in Dependencies(q, n) : Right(p) PROVE Right(n)
  <2>1. r[n] = (old.node[n] = "succeeded" /\ \A p \in Dependencies(q, n) : r[p])
    BY <1>4
  <2>2. old.node[n] = "succeeded" => \A p \in Dependencies(q, n) : old.node[p] = "succeeded"
    BY DEF Rests
  <2>3. old.node[n] = "succeeded" => \A p \in Dependencies(q, n) : r[p]
    BY <1>5, <2>2
  <2> QED BY <2>1, <2>3
<1>6. Right("linking") /\ Right("decomposition")
  <2>1. {"linking", "decomposition"} \subseteq Nodes
    BY DEF Nodes
  <2>2. Right("linking")
    BY <1>5, <2>1, DependenciesFacts
  <2> QED BY <1>5, <2>1, <2>2, DependenciesFacts
<1>7. "generation_base" \in Nodes /\ Right("generation_base")
  <2>1. "generation_base" \in Nodes
    BY BatchAssumption DEF Nodes
  <2> QED BY <1>5, <1>6, <2>1, DependenciesFacts
<1>8. ASSUME NEW n \in Nodes PROVE Right(n)
  <2>1. CASE n \in {"linking", "decomposition"}
    BY <1>6, <2>1
  <2>2. CASE n \in Outputs
    <3>1. \A p \in Dependencies(q, n) : Right(p)
      BY <1>6, <1>7, <2>2, DependenciesFacts
    <3> QED BY <1>5, <3>1
  <2> QED BY <2>1, <2>2 DEF Nodes
<1> QED BY <1>3, <1>8

LEMMA NewRowFacts ==
    /\ NewRow \in RowType /\ NewRow.state = "open" /\ NewRow.parent = Unstarted
    /\ \A n \in Nodes : NewRow.node[n] = "none" /\ NewRow.answer[n] = "none"
    /\ \A q \in Questions : RowHolds(q, NewRow)
<1>1. NewRow \in RowType
  BY BatchAssumption DEF NewRow, RowType, None, Unstarted
<1>2. NewRow.state = "open" /\ NewRow.parent = Unstarted
  BY DEF NewRow
<1>3. \A n \in Nodes : NewRow.node[n] = "none" /\ NewRow.answer[n] = "none"
  BY DEF NewRow, None
<1> QED BY <1>1, <1>2, <1>3 DEF RowHolds, Earned, Closed

------------------------------------------------------------------------------
(* What is done to a line of versions                                           *)

\* A version is begun after a sealed one.
LEMMA LineAppend ==
    ASSUME NEW q \in Questions, NEW line, Line(q, line),
           line # <<>> => line[Len(line)].state # "open"
    PROVE  Line(q, Append(line, NewRow))
<1>1. PICK l \in Seq(RowType) : l = Append(line, NewRow)
  <2>1. line \in Seq(RowType) /\ NewRow \in RowType
    BY NewRowFacts DEF Line
  <2>2. Append(line, NewRow) \in Seq(RowType)
    BY <2>1
  <2> QED BY <2>2, Zenon
<1>2. line \in Seq(RowType) /\ Len(l) = Len(line) + 1 /\ Len(line) \in Nat
      /\ l[Len(l)] = NewRow /\ \A v \in 1..Len(line) : l[v] = line[v]
  BY <1>1, NewRowFacts DEF Line
<1>3. ASSUME NEW v \in 1..Len(l) PROVE RowHolds(q, l[v]) /\ Placed(l, v)
  BY <1>2, NewRowFacts DEF Line, Placed
<1>4. ASSUME NEW v \in 1..(Len(l) - 1) PROVE l[v].state # "open" /\ Follows(l[v], l[v + 1])
  BY <1>2, NewRowFacts DEF Line, Follows
<1> QED BY <1>1, <1>3, <1>4 DEF Line

\* The newest version is replaced by one as good.
LEMMA LineReplace ==
    ASSUME NEW q \in Questions, NEW line, Line(q, line), line # <<>>,
           NEW row, RowHolds(q, row),
           \/ row.parent = Len(line) - 1
           \/ row.parent = Unstarted /\ row.state = "open",
           Len(line) > 1 => Follows(line[Len(line) - 1], row)
    PROVE  Line(q, [line EXCEPT ![Len(line)] = row])
<1>1. row \in RowType /\ line \in Seq(RowType) /\ Len(line) \in Nat \ {0}
  BY DEF RowHolds, Line
<1>2. PICK l \in Seq(RowType) : l = [line EXCEPT ![Len(line)] = row]
  <2>1. Len(line) \in 1..Len(line)
    BY <1>1
  <2>2. [line EXCEPT ![Len(line)] = row] \in Seq(RowType)
    BY <1>1, <2>1, ExceptSeq
  <2> QED BY <2>2, Zenon
<1>3. Len(l) = Len(line) /\ l[Len(l)] = row
      /\ \A v \in 1..(Len(line) - 1) : l[v] = line[v]
  BY <1>1, <1>2
<1>4. ASSUME NEW v \in 1..Len(l) PROVE RowHolds(q, l[v]) /\ Placed(l, v)
  BY <1>1, <1>3 DEF Line, Placed
<1>5. ASSUME NEW v \in 1..(Len(l) - 1) PROVE l[v].state # "open" /\ Follows(l[v], l[v + 1])
  <2>1. CASE v = Len(line) - 1
    BY <1>1, <1>3, <2>1 DEF Line
  <2>2. CASE v # Len(line) - 1
    BY <1>1, <1>3, <2>2 DEF Line
  <2> QED BY <2>1, <2>2
<1> QED BY <1>2, <1>4, <1>5 DEF Line

\* An open version and the one before it.
LEMMA OpenFacts ==
    ASSUME NEW q \in Questions, Line(q, rows[q]), Unfinished(q)
    PROVE  /\ rows[q] \in Seq(RowType) /\ Len(rows[q]) \in Nat \ {0} /\ rows[q] # <<>>
           /\ Row(q) = rows[q][Len(rows[q])] /\ Row(q).state = "open" /\ RowHolds(q, Row(q))
           /\ Row(q).parent \in {Unstarted, Len(rows[q]) - 1}
           /\ Len(rows[q]) > 1 => /\ Len(rows[q]) - 1 \in 1..Len(rows[q])
                                  /\ RowHolds(q, rows[q][Len(rows[q]) - 1])
                                  /\ Follows(rows[q][Len(rows[q]) - 1], Row(q))
<1>1. rows[q] \in Seq(RowType) /\ Len(rows[q]) \in Nat \ {0} /\ rows[q] # <<>>
      /\ Row(q) = rows[q][Len(rows[q])] /\ Row(q).state = "open"
  BY DEF Line, Unfinished, Row
<1>2. RowHolds(q, Row(q)) /\ Row(q).parent \in {Unstarted, Len(rows[q]) - 1}
  BY <1>1 DEF Line, Placed
<1>3. ASSUME Len(rows[q]) > 1
      PROVE  /\ Len(rows[q]) - 1 \in 1..Len(rows[q])
             /\ RowHolds(q, rows[q][Len(rows[q]) - 1])
             /\ Follows(rows[q][Len(rows[q]) - 1], Row(q))
  <2>3. Len(rows[q]) - 1 \in 1..(Len(rows[q]) - 1)
    BY <1>1, <1>3
  <2>1. PICK k \in 1..(Len(rows[q]) - 1) : k = Len(rows[q]) - 1
    BY <2>3, Zenon
  <2>2. RowHolds(q, rows[q][k]) /\ Follows(rows[q][k], rows[q][k + 1]) /\ k + 1 = Len(rows[q])
         /\ k \in 1..Len(rows[q])
    BY <1>1, <2>1 DEF Line
  <2> QED BY <2>1, <2>2, <1>1
<1> QED BY <1>1, <1>2, <1>3

\* A version is started, or sealed with all its results.
LEMMA RowMoves ==
    ASSUME NEW q \in Questions, NEW row, RowHolds(q, row), NEW other \in RowType,
           other.node = row.node, other.given = row.given,
           other.answer = row.answer, other.tries = row.tries,
           other.state = "open" \/ \A n \in Nodes : row.node[n] # "none"
    PROVE  RowHolds(q, other)
BY DEF RowHolds, Earned, Closed, Rests

\* A node gets its result.
LEMMA RowGains ==
    ASSUME NEW q \in Questions, NEW row, RowHolds(q, row),
           NEW n \in Nodes, row.node[n] = "none",
           \A p \in Dependencies(q, n) : row.node[p] # "none",
           NEW other \in RowType, other.state = "open",
           \A m \in Nodes \ {n} : other.node[m] = row.node[m],
           row.given \subseteq other.given,
           other.answer = row.answer, other.tries = row.tries, Earned(q, other, n)
    PROVE  RowHolds(q, other)
<1>1. n \notin Dependencies(q, n) /\ Dependencies(q, n) \subseteq Nodes
  BY DependenciesFacts
<1>2. Closed(q, other, n)
  BY <1>1 DEF Closed
<1>3. ASSUME NEW m \in Nodes \ {n} PROVE Earned(q, other, m) /\ Closed(q, other, m)
  <2>1. CASE row.node[m] = "none"
    BY <2>1 DEF Earned, Closed
  <2>2. CASE row.node[m] # "none"
    <3>1. Earned(q, row, m) /\ Closed(q, row, m)
      BY DEF RowHolds
    <3>2. n \notin Dependencies(q, m) /\ Dependencies(q, m) \subseteq Nodes
      BY <3>1, <2>2, DependenciesFacts DEF Closed
    <3>3. \A p \in Dependencies(q, m) : other.node[p] = row.node[p]
      BY <3>2
    <3>4. Rests(q, other, m) <=> Rests(q, row, m)
      BY <3>3 DEF Rests
    <3>5. Earned(q, other, m)
      BY <3>1, <3>4 DEF Earned
    <3>6. Closed(q, other, m)
      BY <3>1, <3>3 DEF Closed
    <3> QED BY <3>5, <3>6
  <2> QED BY <2>1, <2>2
<1> QED BY <1>2, <1>3 DEF RowHolds

\* A node without a result is asked for, or its request ends.
LEMMA RowAsks ==
    ASSUME NEW q \in Questions, NEW row, RowHolds(q, row),
           NEW n \in Nodes, row.node[n] = "none",
           NEW other \in RowType, other.state = row.state,
           other.node = row.node, other.given = row.given,
           \A m \in Nodes \ {n} : other.answer[m] = row.answer[m] /\ other.tries[m] = row.tries[m]
    PROVE  RowHolds(q, other)
<1>1. ASSUME NEW m \in Nodes PROVE Earned(q, other, m) /\ Closed(q, other, m)
  <2>1. CASE m = n
    BY <2>1 DEF Earned, Closed, RowHolds
  <2>2. CASE m # n
    BY <2>2 DEF Earned, Closed, RowHolds, Rests
  <2> QED BY <2>1, <2>2
<1> QED BY <1>1 DEF RowHolds

\* The newest version of a question is written.
LEMMA SetRowFacts ==
    ASSUME BatchTypeOK, NEW q \in Questions, Line(q, rows[q]), Unfinished(q),
           NEW row, RowHolds(q, row), SetRow(q, row),
           \/ row.parent = Len(rows[q]) - 1
           \/ row.parent = Unstarted /\ row.state = "open",
           Len(rows[q]) > 1 => Follows(rows[q][Len(rows[q]) - 1], row)
    PROVE  /\ rows' \in [Questions -> Seq(RowType)]
           /\ \A p \in Questions \ {q} : rows'[p] = rows[p]
           /\ Line(q, rows[q])' /\ Len(rows'[q]) = Len(rows[q]) /\ rows'[q] # <<>>
           /\ Row(q)' = row
           /\ Len(rows[q]) > 1 =>
                  rows'[q][Len(rows[q]) - 1] = rows[q][Len(rows[q]) - 1]
<1>1. rows \in [Questions -> Seq(RowType)]
  BY DEF BatchTypeOK
<1>2. rows[q] \in Seq(RowType) /\ Len(rows[q]) \in Nat \ {0} /\ rows[q] # <<>>
  BY <1>1 DEF Unfinished
<1>3. PICK line : line = [rows[q] EXCEPT ![Len(rows[q])] = row]
  OBVIOUS
<1>4. Line(q, line)
  BY <1>2, <1>3, LineReplace
<1>5. rows' = [rows EXCEPT ![q] = line]
  BY <1>3 DEF SetRow
<1>6. line \in Seq(RowType)
  BY <1>4 DEF Line
<1>7. rows' \in [Questions -> Seq(RowType)] /\ rows'[q] = line
      /\ \A p \in Questions \ {q} : rows'[p] = rows[p]
  BY <1>1, <1>5, <1>6
<1>8. Len(line) = Len(rows[q]) /\ line[Len(line)] = row /\ line # <<>>
      /\ (Len(rows[q]) > 1 => line[Len(rows[q]) - 1] = rows[q][Len(rows[q]) - 1])
  BY <1>2, <1>3
<1>9. Row(q)' = row
  BY <1>7, <1>8 DEF Row
<1>10. Line(q, rows[q])'
  <2>1. Line(q, rows'[q])
    BY <1>4, <1>7
  <2> QED BY <2>1 DEF Line, RowHolds, Placed, Earned, Closed, Rests, Follows
<1> QED BY <1>7, <1>8, <1>9, <1>10

\* What is said of a question's versions depends on them alone.
LEMMA SameRows ==
    ASSUME NEW q \in Questions, rows'[q] = rows[q]
    PROVE  /\ Row(q)' = Row(q) /\ Unfinished(q)' = Unfinished(q)
           /\ Current(q)' = Current(q) /\ Finished(q)' = Finished(q)
           /\ \A n \in Nodes : Terminal(q, n)' = Terminal(q, n)
           /\ Line(q, rows[q]) => Line(q, rows[q])'
<1>1. Line(q, rows[q]) => Line(q, rows[q])'
  BY SMTT(40) DEF Line, RowHolds, Placed, Earned, Closed, Rests, Follows
<1> QED BY <1>1 DEF Row, Unfinished, Current, Finished, Terminal

------------------------------------------------------------------------------
(* What a step does to the questions                                            *)

\* A question whose versions and task a step leaves alone.
LEMMA OtherHolds ==
    ASSUME NEW q \in Questions, Holds(q), rows'[q] = rows[q], run'[q] = run[q],
           at'[q] = at[q], asked'[q] = asked[q],
           UNCHANGED <<launch, phase, next, reruns>>
    PROVE  Holds(q)'
<1>1. /\ Row(q)' = Row(q) /\ Unfinished(q)' = Unfinished(q)
      /\ \A n \in Nodes : Terminal(q, n)' = Terminal(q, n)
      /\ Line(q, rows[q])'
  BY SameRows DEF Holds
<1>2. Scoped(q)'
  BY <1>1 DEF Holds, Scoped, Named
<1>3. Ready(q) => Ready(q)'
  BY <1>1 DEF Ready
<1>4. ASSUME NEW n \in Nodes, NodeHolds(q, n) PROVE NodeHolds(q, n)'
  BY <1>1, <1>4 DEF NodeHolds, Rests
<1>5. TaskHolds(q) => TaskHolds(q)'
  BY <1>1, <1>4 DEF TaskHolds
<1> QED BY <1>1, <1>2, <1>3, <1>5 DEF Holds

\* A step of the set-up: no task exists.
LEMMA SetupHolds ==
    ASSUME NEW q \in Questions, Line(q, rows[q])', Scoped(q)', phase' # "on"
    PROVE  Holds(q)'
BY DEF Holds

\* The scope of a question whose versions stay as many and as open.
LEMMA ScopeKept ==
    ASSUME NEW q \in Questions, Scoped(q), Len(rows'[q]) = Len(rows[q]),
           Unfinished(q)' => Unfinished(q),
           UNCHANGED <<launch, asked, reruns>>
    PROVE  Scoped(q)'
BY DEF Scoped, Named

\* A step of a node's task.
LEMMA NodeStep ==
    ASSUME NEW q \in Questions, NEW n \in Nodes, Holds(q), phase = "on",
           run[q] = "running", UNCHANGED <<launch, phase, next, asked, reruns, run>>,
           Line(q, rows[q])', rows'[q] # <<>>, Len(rows'[q]) = Len(rows[q]),
           Len(rows[q]) > 1 => rows'[q][Len(rows[q]) - 1] = rows[q][Len(rows[q]) - 1],
           NEW row, row = Row(q)', row.state = "open", row.parent = Row(q).parent,
           \A m \in Nodes \ {n} : /\ row.node[m] = Row(q).node[m]
                                  /\ row.answer[m] = Row(q).answer[m]
                                  /\ row.tries[m] = Row(q).tries[m],
           Terminal(q, n) => row.node[n] = Row(q).node[n],
           NEW pc \in Statuses, at \in [Questions -> [Nodes -> Statuses]],
           at' = [at EXCEPT ![q][n] = pc],
           NodeHolds(q, n)'
    PROVE  Holds(q)'
<1>1. Unfinished(q) /\ Unfinished(q)' /\ rows[q] # <<>>
  BY DEF Holds, TaskHolds, Unfinished
<1>2. Scoped(q)'
  BY <1>1, ScopeKept DEF Holds
<1>3. \A m \in Nodes : Row(q).node[m] # "none" => row.node[m] = Row(q).node[m]
  BY <1>1 DEF Terminal
<1>4. \A m \in Nodes : Terminal(q, m) => Terminal(q, m)'
  BY <1>1, <1>3 DEF Terminal
<1>5. \A m \in Nodes \ {n} : Terminal(q, m)' = Terminal(q, m)
  BY <1>1 DEF Terminal
<1>6. Ready(q)'
  BY <1>1, <1>4 DEF Ready, Holds
<1>7. \A m \in Nodes \ {n} : at'[q][m] = at[q][m]
  OBVIOUS
<1>8. ASSUME NEW m \in Nodes, Rests(q, Row(q), m) PROVE Rests(q, row, m)
  BY <1>3, <1>8, DependenciesFacts DEF Rests
<1>9. ASSUME NEW m \in Nodes \ {n} PROVE NodeHolds(q, m)'
  <2>1. NodeHolds(q, m)
    BY DEF Holds, TaskHolds
  <2>2. Rests(q, Row(q), m) => Rests(q, Row(q), m)'
    <3>1. Rests(q, Row(q), m) => Rests(q, row, m)
      BY <1>8
    <3> QED BY <3>1 DEF Rests
  <2> QED BY <2>1, <2>2, <1>5, <1>7 DEF NodeHolds
<1>10. TaskHolds(q)'
  BY <1>1, <1>9 DEF TaskHolds, Holds
<1> QED BY <1>2, <1>6, <1>10 DEF Holds

\* A step that concerns one question.
LEMMA OneQuestion ==
    ASSUME \A p \in Questions : Holds(p), NEW q \in Questions, Holds(q)',
           \A p \in Questions \ {q} : /\ rows'[p] = rows[p] /\ run'[p] = run[p]
                                      /\ at'[p] = at[p] /\ asked'[p] = asked[p],
           UNCHANGED <<launch, phase, next, reruns>>
    PROVE  \A p \in Questions : Holds(p)'
<1>1. ASSUME NEW p \in Questions \ {q} PROVE Holds(p)'
  BY OtherHolds
<1> QED BY <1>1

------------------------------------------------------------------------------
(* What a step does to the counts                                               *)

LEMMA SelectedFacts ==
    ASSUME NEW g \in Groups
    PROVE  /\ Selected(g) \subseteq Questions /\ IsFiniteSet(Selected(g))
           /\ \A n \in Outputs :
                  /\ IsFiniteSet(Ended(g, n)) /\ IsFiniteSet(Returning(g, n))
                  /\ Cardinality(Ended(g, n)) \in 0..Cardinality(Selected(g))
                  /\ Cardinality(Returning(g, n)) \in Nat
                  /\ Cardinality(Selected(g)) \in Nat
<1>1. Selected(g) \subseteq Questions /\ IsFiniteSet(Selected(g))
  <2>1. Selected(g) \subseteq Members[g]
    BY DEF Selected
  <2>2. IsFiniteSet(Members[g]) /\ Members[g] \subseteq Questions
    BY GroupFacts
  <2> QED BY <2>1, <2>2, FS_Subset
<1>2. ASSUME NEW n \in Outputs
      PROVE  /\ IsFiniteSet(Ended(g, n)) /\ IsFiniteSet(Returning(g, n))
             /\ Cardinality(Ended(g, n)) \in 0..Cardinality(Selected(g))
             /\ Cardinality(Returning(g, n)) \in Nat
             /\ Cardinality(Selected(g)) \in Nat
  <2>1. Ended(g, n) \subseteq Selected(g) /\ Returning(g, n) \subseteq Selected(g)
    BY DEF Ended, Returning
  <2>2. IsFiniteSet(Ended(g, n)) /\ IsFiniteSet(Returning(g, n))
        /\ Cardinality(Ended(g, n)) <= Cardinality(Selected(g))
    BY <1>1, <2>1, FS_Subset
  <2>3. Cardinality(Ended(g, n)) \in Nat /\ Cardinality(Returning(g, n)) \in Nat
        /\ Cardinality(Selected(g)) \in Nat
    BY <1>1, <2>2, FS_CardinalityType
  <2> QED BY <2>2, <2>3
<1> QED BY <1>1, <1>2

\* No result appears, none is on its way and none comes back.
LEMMA LoopSame ==
    ASSUME Loop, UNCHANGED <<launch, phase, next, counts>>,
           \A q \in Questions : \A n \in Outputs :
               Terminal(q, n)' = Terminal(q, n) /\ ((at'[q][n] = "saved") = (at[q][n] = "saved"))
    PROVE  Loop'
<1>1. ASSUME NEW g \in Groups, NEW n \in Outputs
      PROVE  Ended(g, n)' = Ended(g, n) /\ Returning(g, n)' = Returning(g, n)
             /\ Selected(g)' = Selected(g)
  <2>1. Selected(g)' = Selected(g) /\ Selected(g) \subseteq Questions
    BY SelectedFacts DEF Selected
  <2>2. Ended(g, n)' = Ended(g, n)
    BY <2>1 DEF Ended
  <2>3. Returning(g, n)' = Returning(g, n)
    BY <2>1 DEF Returning
  <2> QED BY <2>1, <2>2, <2>3
<1>2. ASSUME NEW g \in Groups, NEW n \in Outputs
      PROVE  (Tally(g, n) => Tally(g, n)') /\ (Gate(g, n) => Gate(g, n)')
  BY <1>1 DEF Tally, Gate
<1> QED BY <1>2 DEF Loop

\* The share of results a gate asks for only grows.
LEMMA GateKept ==
    ASSUME NEW g \in Groups, NEW n \in Outputs, Gate(g, n), launch' = launch,
           IsFiniteSet(Ended(g, n)'), Ended(g, n) \subseteq Ended(g, n)'
    PROVE  Gate(g, n)'
<1>1. Selected(g)' = Selected(g)
  BY DEF Selected
<1>2. PICK a, b, t : a = Cardinality(Ended(g, n)) /\ b = Cardinality(Ended(g, n)')
                     /\ t = Cardinality(Selected(g))
  OBVIOUS
<1>3. a \in Nat /\ b \in Nat /\ a <= b /\ t \in Nat
  <2>1. a <= b
    BY <1>2, FS_Subset
  <2>2. a \in Nat /\ b \in Nat /\ t \in Nat
    BY <1>2, SelectedFacts, FS_CardinalityType
  <2> QED BY <2>1, <2>2
<1>4. Whole \in Nat /\ Part \in Nat
  BY BatchAssumption
<1>5. Whole * a >= Part * t => Whole * b >= Part * t
  <2>1. Whole * b = Whole * a + Whole * (b - a) /\ Whole * (b - a) \in Nat
    BY <1>3, <1>4
  <2>2. Whole * a \in Nat /\ Part * t \in Nat
    BY <1>3, <1>4
  <2> QED BY <2>1, <2>2, <1>3, <1>4
<1> QED BY <1>1, <1>2, <1>5 DEF Gate

\* A result is saved and its task is on its way back.
LEMMA LoopSaved ==
    ASSUME Loop, BatchTypeOK, UNCHANGED <<launch, phase, next, counts>>,
           NEW q \in Questions, NEW n \in Nodes,
           ~Terminal(q, n), Terminal(q, n)', at[q][n] # "saved", at'[q][n] = "saved",
           \A p \in Questions : \A m \in Nodes : p # q \/ m # n =>
               Terminal(p, m)' = Terminal(p, m) /\ at'[p][m] = at[p][m]
    PROVE  Loop'
<1> SUFFICES ASSUME phase = "on", NEW g \in Groups, NEW m \in Outputs
             PROVE  Tally(g, m)' /\ (g + 1 < next => Gate(g, m)')
  BY DEF Loop
<1>1. Tally(g, m) /\ (g + 1 < next => Gate(g, m))
  BY DEF Loop
<1>2. Selected(g)' = Selected(g) /\ Selected(g) \subseteq Questions /\ m \in Nodes
      /\ IsFiniteSet(Ended(g, m)) /\ IsFiniteSet(Returning(g, m))
  BY SelectedFacts DEF Selected, Nodes
<1>3. CASE m = n /\ q \in Selected(g)
  <2>1. Ended(g, m)' = Ended(g, m) \cup {q} /\ q \notin Ended(g, m)
    BY <1>2, <1>3 DEF Ended
  <2>2. Returning(g, m)' = Returning(g, m) \cup {q} /\ q \notin Returning(g, m)
    BY <1>2, <1>3 DEF Returning
  <2>3. IsFiniteSet(Ended(g, m)')
        /\ Cardinality(Ended(g, m)') = Cardinality(Ended(g, m)) + 1
        /\ Cardinality(Returning(g, m)') = Cardinality(Returning(g, m)) + 1
    BY ZenonT(40), <1>2, <2>1, <2>2, FS_AddElement
  <2>4. counts[g][m] \in Nat /\ Cardinality(Ended(g, m)) \in Nat
        /\ Cardinality(Returning(g, m)) \in Nat
    BY SelectedFacts DEF BatchTypeOK
  <2>5. Tally(g, m)'
    BY <1>1, <2>3, <2>4 DEF Tally
  <2>6. Gate(g, m) => Gate(g, m)'
    BY <2>1, <2>3, GateKept
  <2> QED BY <1>1, <2>5, <2>6
<1>4. CASE ~(m = n /\ q \in Selected(g))
  <2>1. \A p \in Selected(g) : Terminal(p, m)' = Terminal(p, m) /\ at'[p][m] = at[p][m]
    BY <1>2, <1>4
  <2>2. Ended(g, m)' = Ended(g, m) /\ Returning(g, m)' = Returning(g, m)
    BY <1>2, <2>1 DEF Ended, Returning
  <2> QED BY <1>1, <1>2, <2>2 DEF Tally, Gate
<1> QED BY <1>3, <1>4

\* A task comes back and what it saved is counted.
LEMMA LoopNotified ==
    ASSUME Loop, BatchTypeOK, UNCHANGED <<rows, launch, phase, next>>,
           NEW q \in Questions, NEW n \in Nodes, q \in launch.targets,
           at[q][n] = "saved", at'[q][n] = "done",
           \A p \in Questions : \A m \in Nodes : p # q \/ m # n => at'[p][m] = at[p][m],
           counts' = IF n \in Outputs THEN [counts EXCEPT ![GroupOf(q)][n] = @ + 1]
                     ELSE counts
    PROVE  Loop' /\ counts' \in [Groups -> [Outputs -> Nat]]
<1>1. counts \in [Groups -> [Outputs -> Nat]]
  BY DEF BatchTypeOK
<1>2. PICK h \in Groups : h = GroupOf(q) /\ q \in Members[h]
  BY DEF GroupOf, Questions
<1>3. \A g \in Groups : q \in Members[g] => g = h
  BY <1>2, BatchAssumption
<1>4. counts' \in [Groups -> [Outputs -> Nat]]
  BY <1>1, <1>2
<1>5. ASSUME phase = "on", NEW g \in Groups, NEW m \in Outputs
      PROVE  Tally(g, m)' /\ (g + 1 < next => Gate(g, m)')
  <2>1. Tally(g, m) /\ (g + 1 < next => Gate(g, m))
    BY <1>5 DEF Loop
  <2>2. Selected(g)' = Selected(g) /\ Selected(g) \subseteq Questions /\ m \in Nodes
        /\ IsFiniteSet(Ended(g, m)) /\ IsFiniteSet(Returning(g, m))
    BY SelectedFacts DEF Selected, Nodes
  <2>3. Ended(g, m)' = Ended(g, m)
    BY <2>2 DEF Ended, Terminal, Row
  <2>4. Gate(g, m) => Gate(g, m)'
    BY <2>2, <2>3 DEF Gate
  <2>5. CASE m = n /\ g = h
    <3>1. q \in Selected(g)
      BY <1>2, <2>5 DEF Selected
    <3>2. Returning(g, m)' = Returning(g, m) \ {q} /\ q \in Returning(g, m)
      BY <2>2, <2>5, <3>1 DEF Returning
    <3>3. Cardinality(Returning(g, m)') = Cardinality(Returning(g, m)) - 1
      BY ZenonT(40), <2>2, <3>2, FS_RemoveElement
    <3>4. counts[g][m] \in Nat /\ Cardinality(Returning(g, m)) \in Nat
      BY SelectedFacts DEF BatchTypeOK
    <3>5. counts'[g][m] = counts[g][m] + 1
      BY <1>1, <1>2, <2>5
    <3>6. Tally(g, m)'
      BY <2>1, <2>3, <3>3, <3>4, <3>5 DEF Tally
    <3> QED BY <2>1, <2>4, <3>6
  <2>6. CASE ~(m = n /\ g = h)
    <3>1. \A p \in Selected(g) : p # q \/ m # n
      BY <1>3, <2>6 DEF Selected
    <3>2. Returning(g, m)' = Returning(g, m)
      BY <2>2, <3>1 DEF Returning
    <3>3. counts'[g][m] = counts[g][m]
      BY <1>1, <1>2, <2>6
    <3>4. Tally(g, m)'
      BY <2>1, <2>3, <3>2, <3>3 DEF Tally
    <3> QED BY <2>1, <2>4, <3>4
  <2> QED BY <2>5, <2>6
<1> QED BY <1>4, <1>5 DEF Loop

------------------------------------------------------------------------------
(* The initial states and the commands                                          *)

\* What an import brought is a version, the first of its line.
LEMMA ImportedFacts ==
    ASSUME NEW q \in Questions
    PROVE  Line(q, <<Imported(q)>>)
<1> DEFINE node == [n \in Nodes |-> IF n \in Legacy[q] THEN "succeeded" ELSE "none"]
           state == IF Outputs \subseteq Legacy[q] THEN "succeeded" ELSE "open"
<1>1. PICK row : row = Imported(q)
  OBVIOUS
<1>2. /\ row.state = state /\ row.parent = NoVersion /\ row.node = node
      /\ row.given = Legacy[q] /\ row.tries = None(Nodes, 0)
      /\ row.answer = None(Nodes, "none")
      /\ row = [state |-> state, parent |-> NoVersion, node |-> node, given |-> Legacy[q],
                tries |-> None(Nodes, 0), answer |-> None(Nodes, "none")]
  BY <1>1 DEF Imported, NewRow
<1>3. Legacy[q] \subseteq Nodes /\ \A n \in Legacy[q] : Dependencies(q, n) \subseteq Legacy[q]
  BY BatchAssumption
<1>4. row \in RowType
  BY <1>2, <1>3, BatchAssumption DEF RowType, None, NoVersion
<1>5. row.state # "open" => Nodes \subseteq Legacy[q]
  <2>1. Outputs \subseteq Legacy[q] => Nodes \subseteq Legacy[q]
    <3>1. Outputs \subseteq Legacy[q] => "generation_base" \in Legacy[q]
      BY BatchAssumption
    <3>2. Dependencies(q, "generation_base") = {"linking", "decomposition"}
      BY DEF Dependencies
    <3> QED BY <3>1, <3>2, <1>3 DEF Nodes
  <2> QED BY <1>2, <2>1
<1>6. ASSUME NEW n \in Nodes PROVE Earned(q, row, n) /\ Closed(q, row, n)
  <2>1. row.node[n] = IF n \in Legacy[q] THEN "succeeded" ELSE "none"
    BY <1>2
  <2>2. n \in Legacy[q] => \A p \in Dependencies(q, n) : row.node[p] = "succeeded"
    BY <1>2, <1>3
  <2>3. Earned(q, row, n)
    BY <1>2, <2>1, <2>2 DEF Earned, Rests
  <2>4. Closed(q, row, n)
    BY <1>5, <2>1, <2>2 DEF Closed
  <2> QED BY <2>3, <2>4
<1>7. RowHolds(q, row)
  BY <1>4, <1>6 DEF RowHolds
<1>8. <<row>> \in Seq(RowType) /\ Len(<<row>>) = 1 /\ <<row>>[1] = row
  BY <1>4
<1>9. Placed(<<row>>, 1)
  BY <1>2, <1>8 DEF Placed, NoVersion
<1>10. Line(q, <<row>>)
  BY <1>7, <1>8, <1>9 DEF Line
<1> QED BY <1>1, <1>10

LEMMA InitHolds ==
    ASSUME Init
    PROVE  IInv
<1>1. PICK hydrated \in SUBSET Questions :
          rows = [q \in Questions |-> IF q \in hydrated THEN <<Imported(q)>> ELSE <<>>]
  BY DEF Init
<1>2. \A q \in Questions : Line(q, <<>>)
  BY DEF Line
<1>3. ASSUME NEW q \in Questions
      PROVE  /\ Line(q, rows[q]) /\ rows[q] \in Seq(RowType)
             /\ Len(rows[q]) <= 1
  <2>1. CASE q \in hydrated
    BY <1>1, <2>1, ImportedFacts DEF Line
  <2>2. CASE q \notin hydrated
    BY <1>1, <1>2, <2>2 DEF Line
  <2> QED BY <2>1, <2>2
<1>4. rows \in [Questions -> Seq(RowType)]
  BY <1>1, <1>3
<1>5. phase = "off" /\ next = 1 /\ counts = NoCounts /\ run = NoTasks /\ at = AllIdle
      /\ refused = FALSE /\ reruns = 0 /\ faults = 0
  BY DEF Init
<1>6. asked = [q \in Questions |-> 0] /\ promised = [q \in Questions |-> 0]
      /\ launch = [launched |-> FALSE, targets |-> Questions,
                   parents |-> [q \in Questions |-> 0]]
  BY DEF Init, None, NoParents, NoVersion
<1>7. BatchTypeOK
  BY <1>4, <1>5, <1>6, BatchAssumption, GroupFacts
  DEF BatchTypeOK, NoCounts, NoTasks, AllIdle, None, Tasks, Statuses, NoVersion
<1>8. ASSUME NEW q \in Questions PROVE Scoped(q)
  <2>1. asked[q] = 0 /\ launch.parents[q] = 0
    BY <1>6
  <2> QED BY <1>3, <1>5, <2>1 DEF Scoped, Named, NoVersion
<1> QED BY <1>3, <1>5, <1>7, <1>8 DEF IInv, Quiet, Holds, Loop

\* A command keeps the versions and gives the questions their scope.
LEMMA LaunchHolds ==
    ASSUME IInv, NEW targets \in SUBSET Questions,
           NEW parents \in [Questions -> {NoVersion} \cup Versions],
           Launch(targets, parents),
           asked' \in [Questions -> 0..MaxReruns],
           promised' \in [Questions -> {NoVersion} \cup Versions],
           reruns' \in 0..MaxReruns,
           \A q \in Questions : Scoped(q)'
    PROVE  IInv'
<1>1. phase' = "setup" /\ UNCHANGED <<rows, next, counts, run, at, refused, faults>>
      /\ launch' = [launched |-> TRUE, targets |-> targets, parents |-> parents]
      /\ phase = "off"
  BY DEF Launch
<1>2. BatchTypeOK'
  BY <1>1 DEF IInv, BatchTypeOK
<1>3. Quiet' /\ Loop'
  BY <1>1 DEF IInv, Quiet, Loop
<1>4. ASSUME NEW q \in Questions PROVE Holds(q)'
  <2>1. Line(q, rows[q])'
    BY <1>1, SameRows DEF IInv, Holds
  <2> QED BY <1>1, <2>1, SetupHolds
<1> QED BY <1>2, <1>3, <1>4 DEF IInv

LEMMA NoParentsFacts ==
    /\ NoParents \in [Questions -> {NoVersion} \cup Versions]
    /\ \A q \in Questions : NoParents[q] = NoVersion
BY DEF NoParents, None

LEMMA RunStep ==
    ASSUME IInv, Run \/ ResumeAllPending
    PROVE  IInv'
<1>1. Launch(Questions, NoParents) /\ UNCHANGED <<asked, reruns>>
      /\ promised' \in [Questions -> {NoVersion} \cup Versions]
  BY NoParentsFacts DEF Run, ResumeAllPending, IInv, BatchTypeOK
<1>2. launch'.parents = NoParents /\ rows' = rows
  BY <1>1 DEF Launch
<1>3. ASSUME NEW q \in Questions PROVE Scoped(q)'
  <2>1. Scoped(q) /\ asked[q] \in Nat
    BY DEF IInv, Holds, BatchTypeOK
  <2>2. launch'.parents[q] = 0
    BY <1>2, NoParentsFacts DEF NoVersion
  <2> QED BY <1>1, <1>2, <2>1, <2>2 DEF Scoped, Named, NoVersion
<1>4. asked' \in [Questions -> 0..MaxReruns] /\ reruns' \in 0..MaxReruns
  BY <1>1 DEF IInv, BatchTypeOK
<1> QED BY <1>1, <1>3, <1>4, NoParentsFacts, LaunchHolds

LEMMA ResumeStep ==
    ASSUME IInv, Resume
    PROVE  IInv'
<1>1. Launch(launch.targets, launch.parents) /\ UNCHANGED <<asked, promised, reruns>>
  BY DEF Resume, Kept
<1>2. launch'.parents = launch.parents /\ launch'.targets = launch.targets /\ rows' = rows
  BY <1>1 DEF Launch
<1>3. ASSUME NEW q \in Questions PROVE Scoped(q)'
  <2>1. Scoped(q) /\ Unfinished(q)' = Unfinished(q)
    BY <1>2, SameRows DEF IInv, Holds
  <2> QED BY <1>1, <1>2, <2>1 DEF Scoped, Named
<1>4. /\ asked' \in [Questions -> 0..MaxReruns] /\ reruns' \in 0..MaxReruns
      /\ promised' \in [Questions -> {NoVersion} \cup Versions]
      /\ launch.targets \in SUBSET Questions
      /\ launch.parents \in [Questions -> {NoVersion} \cup Versions]
  BY <1>1 DEF IInv, BatchTypeOK
<1> QED BY <1>1, <1>3, <1>4, LaunchHolds

\* A rerun freezes finished versions, and asks for one more of each.
LEMMA RerunStep ==
    ASSUME IInv, Rerun
    PROVE  IInv'
<1>1. PICK targets \in (SUBSET Questions) \ {{}} :
          /\ \A q \in targets : Rerunnable(q)
          /\ promised' = [q \in Questions |-> IF q \in targets THEN Current(q)
                                              ELSE NoVersion]
          /\ Launch(targets, promised')
          /\ asked' = [q \in Questions |-> asked[q] + (IF q \in targets THEN 1 ELSE 0)]
  BY DEF Rerun
<1>2. reruns < MaxReruns /\ reruns' = reruns + 1 /\ reruns \in Nat /\ MaxReruns \in Nat
      /\ asked \in [Questions -> 0..MaxReruns] /\ rows \in [Questions -> Seq(RowType)]
  BY BatchAssumption DEF Rerun, IInv, BatchTypeOK
<1>3. launch'.parents = promised' /\ launch'.targets = targets /\ rows' = rows
  BY <1>1 DEF Launch
<1>4. ASSUME NEW q \in Questions
      PROVE  /\ Scoped(q) /\ Unfinished(q)' = Unfinished(q)
             /\ asked[q] \in Nat /\ Len(rows[q]) \in Nat
  BY <1>2, <1>3, SameRows DEF IInv, Holds
<1>5. ASSUME NEW q \in targets
      PROVE  /\ ~Unfinished(q) /\ Current(q) = Len(rows[q]) /\ Len(rows[q]) # 0
             /\ promised'[q] = Len(rows[q])
  <2>1. ~Unfinished(q) /\ Current(q) # NoVersion
    BY <1>1 DEF Rerunnable, Finished
  <2> QED BY <1>1, <2>1 DEF Current, NoVersion
<1>6. ASSUME NEW q \in Questions
      PROVE  /\ Scoped(q)' /\ asked'[q] \in 0..MaxReruns
             /\ promised'[q] \in {NoVersion} \cup Versions
  <2>1. CASE q \in targets
    <3>1. asked'[q] = asked[q] + 1 /\ asked[q] <= reruns /\ Len(rows[q]) <= 1 + asked[q]
      BY <1>1, <1>4, <2>1 DEF Scoped
    <3>2. asked'[q] \in 0..MaxReruns /\ promised'[q] \in {NoVersion} \cup Versions
      BY <1>2, <1>4, <1>5, <2>1, <3>1 DEF Versions
    <3>3. Scoped(q)'
      BY <1>2, <1>3, <1>4, <1>5, <2>1, <3>1 DEF Scoped, Named
    <3> QED BY <3>2, <3>3
  <2>2. CASE q \notin targets
    <3>1. asked'[q] = asked[q] /\ promised'[q] = NoVersion
      BY <1>1, <1>2, <2>2
    <3>2. Scoped(q)'
      BY <1>2, <1>3, <1>4, <3>1 DEF Scoped, Named, NoVersion
    <3> QED BY <1>2, <3>1, <3>2
  <2> QED BY <2>1, <2>2
<1>7. promised' \in [Questions -> {NoVersion} \cup Versions]
  BY <1>1, <1>6
<1>8. asked' \in [Questions -> 0..MaxReruns]
  BY <1>1, <1>6
<1>9. reruns' \in 0..MaxReruns /\ targets \in SUBSET Questions
  BY <1>2
<1> QED BY <1>1, <1>6, <1>7, <1>8, <1>9, LaunchHolds

------------------------------------------------------------------------------
(* The set-up                                                                   *)

\* A step of the set-up that writes the versions of one question.
LEMMA SetupStep ==
    ASSUME IInv, NEW q \in Questions, phase = "setup", SetupFrame, refused' = FALSE,
           rows' \in [Questions -> Seq(RowType)],
           \A p \in Questions \ {q} : rows'[p] = rows[p],
           Line(q, rows[q])', Scoped(q)'
    PROVE  IInv'
<1>1. UNCHANGED <<launch, phase, next, asked, promised, reruns, counts, run, at, faults>>
  BY DEF SetupFrame, Frame
<1>2. BatchTypeOK'
  BY <1>1 DEF IInv, BatchTypeOK
<1>3. Quiet' /\ Loop'
  BY <1>1 DEF IInv, Quiet, Loop
<1>4. Holds(q)'
  BY <1>1, SetupHolds
<1>5. \A p \in Questions : Holds(p)'
  BY <1>1, <1>4, OneQuestion DEF IInv
<1> QED BY <1>2, <1>3, <1>5 DEF IInv

LEMMA BeginRerunStep ==
    ASSUME IInv, NEW q \in Questions, BeginRerun(q)
    PROVE  IInv'
<1>1. phase = "setup" /\ Owed(q) /\ rows' = [rows EXCEPT ![q] = Append(rows[q], NewRow)]
      /\ refused' = refused /\ SetupFrame
  BY DEF BeginRerun
<1>2. rows \in [Questions -> Seq(RowType)] /\ refused = FALSE /\ Line(q, rows[q]) /\ Scoped(q)
      /\ asked[q] \in Nat /\ launch.parents[q] \in Nat
  BY BatchAssumption DEF IInv, BatchTypeOK, Holds, Versions, NoVersion
<1>3. Named(q) /\ ~Unfinished(q) /\ Len(rows[q]) = launch.parents[q]
  BY <1>1 DEF Owed, Current
<1>4. PICK line : line = Append(rows[q], NewRow)
  OBVIOUS
<1>5. Line(q, line)
  <2>1. rows[q] # <<>> => rows[q][Len(rows[q])].state # "open"
    BY <1>3 DEF Unfinished, Row
  <2> QED BY <1>2, <1>4, <2>1, LineAppend
<1>6. Len(line) = Len(rows[q]) + 1 /\ Len(rows[q]) \in Nat
  BY <1>2, <1>4
<1>7. rows' \in [Questions -> Seq(RowType)] /\ rows'[q] = line
      /\ \A p \in Questions \ {q} : rows'[p] = rows[p]
  <2>1. line \in Seq(RowType)
    BY <1>5 DEF Line
  <2> QED BY <1>1, <1>2, <1>4, <2>1
<1>8. Line(q, rows[q])'
  <2>1. Line(q, rows'[q])
    BY <1>5, <1>7
  <2> QED BY <2>1 DEF Line, RowHolds, Placed, Earned, Closed, Rests, Follows
<1>9. Scoped(q)'
  <2>1. launch' = launch /\ asked' = asked /\ reruns' = reruns
    BY <1>1 DEF SetupFrame, Frame
  <2>2. Len(rows'[q]) = launch.parents[q] + 1 /\ Len(rows'[q]) <= 1 + asked[q]
    BY <1>2, <1>3, <1>6, <1>7 DEF Scoped
  <2> QED BY <1>2, <1>3, <2>1, <2>2 DEF Scoped, Named
<1> QED BY <1>1, <1>2, <1>7, <1>8, <1>9, SetupStep

LEMMA RecoverStep ==
    ASSUME IInv, NEW q \in Questions, Recover(q)
    PROVE  IInv'
<1>1. phase = "setup" /\ Unfinished(q) /\ Row(q).parent = Unstarted
      /\ SetRow(q, [Row(q) EXCEPT !.parent = StartParent(q)])
      /\ Refuse(Len(rows[q]) = 1 \/ Current(q) # NoVersion) /\ SetupFrame
  BY DEF Recover
<1>2. BatchTypeOK /\ refused = FALSE /\ Line(q, rows[q]) /\ Scoped(q)
      /\ asked[q] \in 0..MaxReruns
  BY DEF IInv, BatchTypeOK, Holds
<1>3. /\ rows[q] \in Seq(RowType) /\ Len(rows[q]) \in Nat \ {0}
      /\ Row(q).state = "open" /\ RowHolds(q, Row(q))
      /\ Len(rows[q]) > 1 => Follows(rows[q][Len(rows[q]) - 1], Row(q))
  BY <1>1, <1>2, OpenFacts
<1>4. StartParent(q) = Len(rows[q]) - 1
  <2>1. Named(q) => Len(rows[q]) = launch.parents[q] + 1
    BY <1>1, <1>2 DEF Scoped
  <2>2. launch.parents[q] \in Nat
    BY <1>2, BatchAssumption DEF BatchTypeOK, Versions, NoVersion
  <2> QED BY <1>1, <1>3, <2>1, <2>2 DEF StartParent, Current
<1>5. PICK row : row = [Row(q) EXCEPT !.parent = Len(rows[q]) - 1]
  OBVIOUS
<1>6. /\ row \in RowType /\ row.state = "open" /\ row.parent = Len(rows[q]) - 1
      /\ row.node = Row(q).node /\ row.given = Row(q).given
      /\ row.answer = Row(q).answer /\ row.tries = Row(q).tries
  <2>1. Row(q) \in RowType
    BY <1>3 DEF RowHolds
  <2>2. Len(rows[q]) - 1 \in {NoVersion} \cup Versions
    <3>1. Len(rows[q]) <= 1 + asked[q] /\ MaxReruns \in Nat
      BY <1>2, BatchAssumption DEF Scoped
    <3>4. Len(rows[q]) - 1 \in 0..MaxReruns
      BY <1>2, <1>3, <3>1
    <3>2. PICK k \in 0..MaxReruns : k = Len(rows[q]) - 1
      BY <3>4, Zenon
    <3>3. k = 0 \/ k \in 1..(1 + MaxReruns)
      BY <3>1
    <3> QED BY <3>2, <3>3 DEF Versions, NoVersion
  <2>3. row \in RowType
    BY <1>5, <2>1, <2>2 DEF RowType
  <2> QED BY <1>3, <1>5, <2>1, <2>3 DEF RowType
<1>7. RowHolds(q, row)
  BY <1>3, <1>6, RowMoves
<1>8. Len(rows[q]) > 1 => Follows(rows[q][Len(rows[q]) - 1], row)
  BY <1>3, <1>6 DEF Follows
<1>9. SetRow(q, row)
  BY <1>1, <1>4, <1>5
<1>10. /\ rows' \in [Questions -> Seq(RowType)]
       /\ \A p \in Questions \ {q} : rows'[p] = rows[p]
       /\ Line(q, rows[q])' /\ Len(rows'[q]) = Len(rows[q])
  BY <1>1, <1>2, <1>6, <1>7, <1>8, <1>9, SetRowFacts
<1>11. Scoped(q)'
  BY <1>1, <1>2, <1>10, ScopeKept DEF SetupFrame, Frame
<1>12. refused' = FALSE
  <2>1. Len(rows[q]) = 1 \/ Current(q) # NoVersion
    BY <1>1, <1>3 DEF Current, NoVersion
  <2> QED BY <1>1, <1>2, <2>1 DEF Refuse
<1> QED BY <1>1, <1>10, <1>11, <1>12, SetupStep

\* What a version takes over is what its parent succeeded in.
LEMMA CopyingFacts ==
    ASSUME NEW q \in Questions, Line(q, rows[q]), Copying(q)
    PROVE  /\ Unfinished(q) /\ Row(q).parent = Len(rows[q]) - 1 /\ Len(rows[q]) > 1
           /\ Reused(q) = {n \in Nodes : rows[q][Len(rows[q]) - 1].node[n] = "succeeded"}
<1>1. Unfinished(q) /\ Row(q).parent \notin {Unstarted, NoVersion}
  BY DEF Copying
<1>2. /\ Row(q).parent = Len(rows[q]) - 1 /\ Len(rows[q]) > 1
      /\ RowHolds(q, rows[q][Len(rows[q]) - 1])
  BY <1>1, OpenFacts DEF NoVersion
<1>3. PICK old : old = rows[q][Len(rows[q]) - 1]
  OBVIOUS
<1>4. \A n \in Nodes : old.node[n] = "succeeded" => Rests(q, old, n)
  BY <1>2, <1>3 DEF RowHolds, Earned
<1>5. Reused(q) = {n \in Nodes : old.node[n] = "succeeded"}
  BY <1>2, <1>3, <1>4, ReusedFacts
<1> QED BY <1>1, <1>2, <1>3, <1>5

LEMMA CopyStep ==
    ASSUME IInv, NEW q \in Questions, NEW n \in Nodes, Copy(q, n)
    PROVE  IInv'
<1>1. phase = "setup" /\ Copying(q) /\ n \in Missing(q)
      /\ (\A p \in Dependencies(q, n) : Terminal(q, p))
      /\ SetRow(q, [Row(q) EXCEPT !.node[n] = "succeeded", !.given = @ \cup {n}])
      /\ refused' = refused /\ SetupFrame
  BY DEF Copy
<1>2. BatchTypeOK /\ refused = FALSE /\ Line(q, rows[q]) /\ Scoped(q)
  BY DEF IInv, BatchTypeOK, Holds
<1>3. /\ Unfinished(q) /\ Row(q).parent = Len(rows[q]) - 1 /\ Len(rows[q]) > 1
      /\ Reused(q) = {m \in Nodes : rows[q][Len(rows[q]) - 1].node[m] = "succeeded"}
  BY <1>1, <1>2, CopyingFacts
<1>4. PICK old : old = rows[q][Len(rows[q]) - 1]
  OBVIOUS
<1>5. /\ rows[q] # <<>> /\ Row(q).state = "open"
      /\ RowHolds(q, Row(q)) /\ RowHolds(q, old) /\ Follows(old, Row(q))
  BY <1>2, <1>3, <1>4, OpenFacts
<1>6. old.node[n] = "succeeded" /\ Row(q).node[n] = "none"
  BY <1>1, <1>3, <1>4, <1>5 DEF Missing, Terminal
<1>7. PICK row : row = [Row(q) EXCEPT !.node[n] = "succeeded", !.given = @ \cup {n}]
  OBVIOUS
<1>8. Row(q) \in RowType
  BY <1>5 DEF RowHolds
<1>9. /\ row \in RowType /\ row.state = "open" /\ row.parent = Row(q).parent
      /\ row.node = [Row(q).node EXCEPT ![n] = "succeeded"]
      /\ row.given = Row(q).given \cup {n}
      /\ row.answer = Row(q).answer /\ row.tries = Row(q).tries
      /\ row.node[n] = "succeeded"
      /\ \A m \in Nodes \ {n} : row.node[m] = Row(q).node[m]
  BY <1>5, <1>7, <1>8 DEF RowType
<1>10. \A p \in Dependencies(q, n) : Row(q).node[p] # "none"
  BY <1>1 DEF Terminal
<1>11. \A p \in Dependencies(q, n) : p \in Nodes /\ Row(q).node[p] = "succeeded" /\ p # n
  <2>1. \A p \in Dependencies(q, n) : p \in Nodes /\ old.node[p] = "succeeded"
    BY <1>5, <1>6, DependenciesFacts DEF RowHolds, Earned, Rests
  <2> QED BY <1>5, <1>6, <1>10, <2>1 DEF Follows
<1>12. Earned(q, row, n)
  BY <1>9, <1>11 DEF Earned, Rests
<1>13. RowHolds(q, row)
  BY <1>5, <1>6, <1>9, <1>10, <1>12, RowGains
<1>14. Follows(old, row)
  BY <1>5, <1>9 DEF Follows
<1>15. /\ rows' \in [Questions -> Seq(RowType)]
       /\ \A p \in Questions \ {q} : rows'[p] = rows[p]
       /\ Line(q, rows[q])' /\ Len(rows'[q]) = Len(rows[q])
  <2>1. SetRow(q, row) /\ row.parent = Len(rows[q]) - 1
    BY <1>1, <1>3, <1>7, <1>9
  <2> QED BY <1>2, <1>3, <1>4, <1>13, <1>14, <2>1, SetRowFacts
<1>16. Scoped(q)'
  BY <1>1, <1>2, <1>3, <1>15, ScopeKept DEF SetupFrame, Frame
<1> QED BY <1>1, <1>2, <1>15, <1>16, SetupStep

\* The loop starts with every version in scope started and filled, and counts them.
LEMMA SetupDoneStep ==
    ASSUME IInv, SetupDone
    PROVE  IInv'
<1>1. /\ phase = "setup" /\ phase' = "on"
      /\ \A q \in launch.targets :
            /\ ~Owed(q)
            /\ Unfinished(q) => Row(q).parent # Unstarted
            /\ Copying(q) => Missing(q) = {}
      /\ Refuse(\A q \in launch.targets : Matches(q)) /\ counts' = Recorded
      /\ UNCHANGED <<rows, launch, next, run, at, asked, promised, reruns, faults>>
  BY DEF SetupDone, Counted
<1>2. BatchTypeOK /\ run = NoTasks /\ at = AllIdle /\ next = 1
  BY <1>1 DEF IInv, Quiet
<1>3. launch.targets \subseteq Questions
      /\ \A q \in Questions : launch.parents[q] \in Nat
  BY <1>2, BatchAssumption DEF BatchTypeOK, Versions, NoVersion
<1>4. ASSUME NEW q \in launch.targets PROVE Matches(q)
  <2>1. Line(q, rows[q]) /\ Scoped(q) /\ q \in Questions
    BY <1>3 DEF IInv, Holds
  <2>2. ASSUME Named(q), Unfinished(q) PROVE Row(q).parent = launch.parents[q]
    <3>1. Row(q).parent = Len(rows[q]) - 1 /\ Len(rows[q]) \in Nat
      BY <1>1, <2>1, <2>2, OpenFacts
    <3>2. Len(rows[q]) = launch.parents[q] + 1
      BY <2>1, <2>2 DEF Scoped
    <3> QED BY <1>3, <2>1, <3>1, <3>2
  <2> QED BY <2>2 DEF Matches
<1>5. refused' = FALSE
  BY <1>1, <1>2, <1>4 DEF Refuse, BatchTypeOK
<1>6. \A g \in Groups : \A n \in Outputs :
          counts'[g][n] = Cardinality(Ended(g, n)) /\ counts'[g][n] \in Nat
  <2>1. counts' = [g \in Groups |-> [n \in Outputs |-> Cardinality(Ended(g, n))]]
    BY <1>1 DEF Recorded, Ended
  <2>2. \A g \in Groups : \A n \in Outputs : Cardinality(Ended(g, n)) \in Nat
    BY SelectedFacts, FS_CardinalityType
  <2> QED BY <2>1, <2>2
<1>7. counts' \in [Groups -> [Outputs -> Nat]]
  BY <1>1, <1>6 DEF Recorded
<1>8. BatchTypeOK'
  BY <1>1, <1>2, <1>5, <1>7 DEF BatchTypeOK
<1>9. ASSUME NEW q \in Questions PROVE Holds(q)'
  <2>1. Line(q, rows[q]) /\ Scoped(q)
    BY DEF IInv, Holds
  <2>2. /\ Row(q)' = Row(q) /\ Unfinished(q)' = Unfinished(q)
        /\ \A n \in Nodes : Terminal(q, n)' = Terminal(q, n)
        /\ Line(q, rows[q])'
    BY <1>1, <2>1, SameRows
  <2>3. Scoped(q)'
    BY <1>1, <2>1, <2>2, ScopeKept
  <2>4. ASSUME q \in launch.targets, Unfinished(q), NEW n \in Nodes,
               Len(rows[q]) > 1, rows[q][Len(rows[q]) - 1].node[n] = "succeeded"
        PROVE  Terminal(q, n)
    <3>1. Row(q).parent = Len(rows[q]) - 1 /\ Len(rows[q]) \in Nat
      BY <1>1, <2>1, <2>4, OpenFacts
    <3>2. Copying(q)
      <4>1. PICK k \in Nat : k = Len(rows[q])
        BY <3>1
      <4>2. k > 1
        BY <2>4, <4>1
      <4>3. k - 1 \notin {Unstarted, NoVersion}
        BY <4>2 DEF NoVersion, Unstarted
      <4> QED BY <2>4, <3>1, <4>1, <4>3 DEF Copying
    <3>3. n \in Reused(q)
      BY <2>1, <2>4, <3>2, CopyingFacts
    <3> QED BY <1>1, <2>4, <3>2, <3>3 DEF Missing
  <2>5. Ready(q)'
    <3>1. launch' = launch /\ rows' = rows
      BY <1>1
    <3>2. q \in launch.targets /\ Unfinished(q) => Row(q).parent # Unstarted
      BY <1>1
    <3> QED BY <2>2, <2>4, <3>1, <3>2 DEF Ready
  <2>6. run'[q] = "none" /\ \A n \in Nodes : at'[q][n] = "idle"
    BY <1>1, <1>2 DEF NoTasks, AllIdle, None
  <2>7. TaskHolds(q)'
    BY <2>6 DEF TaskHolds, NodeHolds
  <2> QED BY <2>2, <2>3, <2>5, <2>7 DEF Holds
<1>10. ASSUME NEW g \in Groups, NEW n \in Outputs PROVE Tally(g, n)' /\ ~(g + 1 < next')
  <2>1. Ended(g, n)' = Ended(g, n)
    BY <1>1 DEF Ended, Selected, Terminal, Row
  <2>2. Returning(g, n)' = {}
    <3>1. ASSUME NEW q \in Questions PROVE at'[q][n] = "idle"
      BY <1>1, <1>2 DEF AllIdle, None, Nodes
    <3>2. \A q \in Selected(g)' : q \in Questions
      BY <1>1, SelectedFacts DEF Selected
    <3> QED BY <3>1, <3>2 DEF Returning
  <2>3. Tally(g, n)'
    BY <1>6, <2>1, <2>2, FS_EmptySet DEF Tally
  <2>4. ~(g + 1 < next')
    BY <1>1, <1>2, GroupFacts
  <2> QED BY <2>3, <2>4
<1>11. Loop'
  BY <1>10 DEF Loop
<1>12. Quiet'
  BY <1>1 DEF Quiet
<1> QED BY <1>8, <1>9, <1>11, <1>12 DEF IInv

------------------------------------------------------------------------------
(* The loop                                                                     *)

\* A step of a question's task that gives none of its nodes a result.
LEMMA TaskStep ==
    ASSUME IInv, NEW q \in Questions, run[q] # "none", TaskFrame,
           NEW task \in Tasks, run' = [run EXCEPT ![q] = task],
           rows' \in [Questions -> Seq(RowType)],
           \A p \in Questions \ {q} : rows'[p] = rows[p],
           \A n \in Nodes : Terminal(q, n)' = Terminal(q, n),
           Line(q, rows[q])', Scoped(q)', Ready(q)', TaskHolds(q)'
    PROVE  IInv'
<1>1. UNCHANGED <<launch, phase, next, asked, promised, reruns, counts, at, refused, faults>>
  BY DEF TaskFrame, Frame
<1>2. BatchTypeOK /\ phase = "on"
  BY DEF IInv, Quiet, NoTasks, None
<1>3. run' \in [Questions -> Tasks] /\ \A p \in Questions \ {q} : run'[p] = run[p]
  BY <1>2 DEF BatchTypeOK
<1>4. BatchTypeOK'
  BY <1>1, <1>2, <1>3 DEF BatchTypeOK
<1>5. Quiet'
  BY <1>1, <1>2 DEF Quiet
<1>6. Holds(q)'
  BY DEF Holds
<1>7. \A p \in Questions : Holds(p)'
  BY <1>1, <1>3, <1>6, OneQuestion DEF IInv
<1>8. \A p \in Questions : \A n \in Nodes : Terminal(p, n)' = Terminal(p, n)
  BY SameRows
<1>9. Loop'
  BY <1>1, <1>8, LoopSame DEF IInv, Nodes
<1> QED BY <1>4, <1>5, <1>7, <1>9 DEF IInv

\* A queued question without an open version has none at all, and no rerun named it.
LEMMA BeginVersionStep ==
    ASSUME IInv, NEW q \in Questions, BeginVersion(q)
    PROVE  IInv'
<1>1. run[q] = "queued" /\ ~Unfinished(q) /\ TaskFrame
      /\ rows' = [rows EXCEPT ![q] = Append(rows[q], NewRow)]
      /\ run' = [run EXCEPT ![q] = "begun"]
  BY DEF BeginVersion
<1>2. BatchTypeOK /\ phase = "on" /\ Line(q, rows[q]) /\ Scoped(q) /\ TaskHolds(q)
  BY <1>1 DEF IInv, Quiet, NoTasks, None, Holds
<1>3. rows[q] = <<>> /\ q \in launch.targets
      /\ (\E g \in Groups : g < next /\ q \in Members[g])
      /\ \A n \in Nodes : at[q][n] = "idle"
  BY <1>1, <1>2 DEF TaskHolds, NodeHolds
<1>4. rows \in [Questions -> Seq(RowType)] /\ asked[q] \in Nat
      /\ launch.parents[q] \in Nat /\ run \in [Questions -> Tasks]
  BY <1>2, BatchAssumption DEF BatchTypeOK, Versions, NoVersion
<1>5. ~Named(q)
  BY <1>1, <1>2, <1>3, <1>4 DEF Scoped, Named, NoVersion
<1>6. PICK line : line = Append(rows[q], NewRow)
  OBVIOUS
<1>7. Line(q, line)
  BY <1>2, <1>3, <1>6, LineAppend
<1>8. Len(line) = 1 /\ line[1] = NewRow /\ line # <<>> /\ line \in Seq(RowType)
  <2>1. line \in Seq(RowType)
    BY <1>7 DEF Line
  <2> QED BY <1>3, <1>6, <2>1
<1>9. rows' \in [Questions -> Seq(RowType)] /\ rows'[q] = line
      /\ \A p \in Questions \ {q} : rows'[p] = rows[p]
  BY <1>1, <1>4, <1>6, <1>8
<1>10. Line(q, rows[q])'
  <2>1. Line(q, rows'[q])
    BY <1>7, <1>9
  <2> QED BY <2>1 DEF Line, RowHolds, Placed, Earned, Closed, Rests, Follows
<1>11. UNCHANGED <<launch, phase, next, asked, reruns, at>> /\ run'[q] = "begun"
  BY <1>1, <1>4 DEF TaskFrame, Frame
<1>12. Row(q)' = NewRow /\ Unfinished(q)'
  BY <1>8, <1>9, NewRowFacts DEF Row, Unfinished
<1>13. Len(rows'[q]) = 1 /\ ~Named(q)' /\ asked' = asked /\ reruns' = reruns
      /\ launch' = launch
  BY <1>5, <1>8, <1>9, <1>11 DEF Named
<1>18. Scoped(q)'
  BY <1>2, <1>4, <1>13 DEF Scoped
<1>14. \A n \in Nodes : Terminal(q, n)' = Terminal(q, n)
  BY <1>3, <1>12, NewRowFacts DEF Terminal
<1>15. Ready(q)'
  BY <1>11, <1>13 DEF Ready
<1>16. ASSUME NEW n \in Nodes PROVE NodeHolds(q, n)'
  <2>1. at'[q][n] = "idle"
    BY <1>3, <1>11
  <2> QED BY <2>1 DEF NodeHolds
<1>17. TaskHolds(q)'
  BY <1>3, <1>8, <1>9, <1>11, <1>12, <1>16, NewRowFacts DEF TaskHolds
<1>19. "begun" \in Tasks
  BY DEF Tasks
<1> QED BY <1>1, <1>9, <1>10, <1>14, <1>15, <1>17, <1>18, <1>19, TaskStep

LEMMA StartVersionStep ==
    ASSUME IInv, NEW q \in Questions, StartVersion(q)
    PROVE  IInv'
<1>1. run[q] = "begun" /\ SetRow(q, [Row(q) EXCEPT !.parent = NoVersion])
      /\ run' = [run EXCEPT ![q] = "running"] /\ TaskFrame
  BY DEF StartVersion
<1>2. BatchTypeOK /\ phase = "on" /\ Line(q, rows[q]) /\ Scoped(q) /\ Ready(q) /\ TaskHolds(q)
  BY <1>1 DEF IInv, Quiet, NoTasks, None, Holds
<1>3. Unfinished(q) /\ Len(rows[q]) = 1 /\ q \in launch.targets
      /\ (\E g \in Groups : g < next /\ q \in Members[g])
      /\ \A n \in Nodes : at[q][n] = "idle"
  BY <1>1, <1>2 DEF TaskHolds, NodeHolds
<1>4. Row(q).state = "open" /\ RowHolds(q, Row(q)) /\ Row(q) \in RowType /\ rows[q] # <<>>
  BY <1>2, <1>3, OpenFacts DEF RowHolds
<1>5. PICK row : row = [Row(q) EXCEPT !.parent = NoVersion]
  OBVIOUS
<1>6. /\ row \in RowType /\ row.state = "open" /\ row.parent = NoVersion
      /\ row.node = Row(q).node /\ row.given = Row(q).given
      /\ row.answer = Row(q).answer /\ row.tries = Row(q).tries
  BY <1>4, <1>5 DEF RowType
<1>7. RowHolds(q, row)
  BY <1>4, <1>6, RowMoves
<1>8. /\ rows' \in [Questions -> Seq(RowType)]
      /\ \A p \in Questions \ {q} : rows'[p] = rows[p]
      /\ Line(q, rows[q])' /\ Len(rows'[q]) = Len(rows[q]) /\ rows'[q] # <<>>
      /\ Row(q)' = row
  <2>1. SetRow(q, row) /\ row.parent = Len(rows[q]) - 1 /\ ~(Len(rows[q]) > 1)
    BY <1>1, <1>3, <1>5, <1>6 DEF NoVersion
  <2> QED BY <1>2, <1>3, <1>7, <2>1, SetRowFacts
<1>9. UNCHANGED <<launch, phase, next, asked, reruns, at>> /\ run'[q] = "running"
  BY <1>1, <1>2 DEF TaskFrame, Frame, BatchTypeOK
<1>10. Unfinished(q)'
  BY <1>6, <1>8 DEF Unfinished
<1>11. Scoped(q)'
  BY <1>2, <1>3, <1>8, <1>9, ScopeKept
<1>12. \A n \in Nodes : Terminal(q, n)' = Terminal(q, n)
  BY <1>4, <1>6, <1>8 DEF Terminal
<1>13. Ready(q)'
  BY <1>3, <1>6, <1>8 DEF Ready, NoVersion, Unstarted
<1>14. ASSUME NEW n \in Nodes PROVE NodeHolds(q, n)'
  <2>1. at'[q][n] = "idle"
    BY <1>3, <1>9
  <2> QED BY <2>1 DEF NodeHolds
<1>15. TaskHolds(q)'
  BY <1>3, <1>9, <1>10, <1>14 DEF TaskHolds
<1> QED BY <1>1, <1>8, <1>11, <1>12, <1>13, <1>15, TaskStep DEF Tasks

LEMMA ContinueVersionStep ==
    ASSUME IInv, NEW q \in Questions, ContinueVersion(q)
    PROVE  IInv'
<1>1. run[q] = "queued" /\ Unfinished(q) /\ run' = [run EXCEPT ![q] = "running"]
      /\ rows' = rows /\ TaskFrame
  BY DEF ContinueVersion
<1>2. BatchTypeOK /\ phase = "on" /\ Line(q, rows[q]) /\ Scoped(q) /\ Ready(q) /\ TaskHolds(q)
  BY <1>1 DEF IInv, Quiet, NoTasks, None, Holds
<1>3. q \in launch.targets /\ (\E g \in Groups : g < next /\ q \in Members[g])
      /\ \A n \in Nodes : at[q][n] = "idle"
  BY <1>1, <1>2 DEF TaskHolds, NodeHolds
<1>4. UNCHANGED <<launch, phase, next, asked, reruns, at>> /\ run'[q] = "running"
  BY <1>1, <1>2 DEF TaskFrame, Frame, BatchTypeOK
<1>5. /\ Row(q)' = Row(q) /\ Unfinished(q)' = Unfinished(q)
      /\ \A n \in Nodes : Terminal(q, n)' = Terminal(q, n)
      /\ Line(q, rows[q])'
  BY <1>1, <1>2, SameRows
<1>6. Scoped(q)'
  BY <1>1, <1>2, <1>4, <1>5, ScopeKept
<1>7. Ready(q)'
  BY <1>1, <1>2, <1>4, <1>5 DEF Ready
<1>8. ASSUME NEW n \in Nodes PROVE NodeHolds(q, n)'
  <2>1. at'[q][n] = "idle"
    BY <1>3, <1>4
  <2> QED BY <2>1, <1>4 DEF NodeHolds
<1>9. TaskHolds(q)'
  BY <1>1, <1>3, <1>4, <1>5, <1>8 DEF TaskHolds
<1>10. rows' \in [Questions -> Seq(RowType)]
  BY <1>1, <1>2 DEF BatchTypeOK
<1> QED BY <1>1, <1>5, <1>6, <1>7, <1>9, <1>10, TaskStep DEF Tasks

\* A version is sealed when each of its nodes has a result and its task is back.
LEMMA SealStep ==
    ASSUME IInv, NEW q \in Questions, Seal(q)
    PROVE  IInv'
<1> DEFINE sealed == IF \A n \in Outputs : Row(q).node[n] = "succeeded" THEN "succeeded"
                     ELSE "failed"
<1>1. run[q] = "running" /\ (\A n \in Nodes : Terminal(q, n) /\ at[q][n] # "saved")
      /\ SetRow(q, [Row(q) EXCEPT !.state = sealed])
      /\ run' = [run EXCEPT ![q] = "done"] /\ TaskFrame
  BY DEF Seal
<1>2. BatchTypeOK /\ phase = "on" /\ Line(q, rows[q]) /\ Scoped(q) /\ Ready(q) /\ TaskHolds(q)
  BY <1>1 DEF IInv, Quiet, NoTasks, None, Holds
<1>3. Unfinished(q) /\ q \in launch.targets
      /\ (\E g \in Groups : g < next /\ q \in Members[g])
      /\ \A n \in Nodes : at[q][n] \in {"idle", "done"}
  <2>1. ASSUME NEW n \in Nodes PROVE at[q][n] \in {"idle", "done"}
    <3>1. NodeHolds(q, n) /\ at[q][n] \in Statuses
      BY <1>2 DEF TaskHolds, BatchTypeOK
    <3> QED BY <1>1, <3>1 DEF NodeHolds, Statuses
  <2> QED BY <1>1, <1>2, <2>1 DEF TaskHolds
<1>4. Row(q).state = "open" /\ RowHolds(q, Row(q)) /\ Row(q) \in RowType /\ rows[q] # <<>>
      /\ Row(q).parent = Len(rows[q]) - 1
      /\ (Len(rows[q]) > 1 => Follows(rows[q][Len(rows[q]) - 1], Row(q)))
  <2>1. Row(q).parent # Unstarted
    BY <1>1, <1>2, <1>3 DEF Ready
  <2> QED BY <1>2, <1>3, <2>1, OpenFacts DEF RowHolds
<1>5. PICK row : row = [Row(q) EXCEPT !.state = sealed]
  OBVIOUS
<1>6. /\ row \in RowType /\ row.state # "open" /\ row.parent = Row(q).parent
      /\ row.node = Row(q).node /\ row.given = Row(q).given
      /\ row.answer = Row(q).answer /\ row.tries = Row(q).tries
  BY <1>4, <1>5 DEF RowType
<1>7. RowHolds(q, row)
  <2>1. \A n \in Nodes : Row(q).node[n] # "none"
    BY <1>1 DEF Terminal
  <2> QED BY <1>4, <1>6, <2>1, RowMoves
<1>8. Len(rows[q]) > 1 => Follows(rows[q][Len(rows[q]) - 1], row)
  BY <1>4, <1>6 DEF Follows
<1>9. /\ rows' \in [Questions -> Seq(RowType)]
      /\ \A p \in Questions \ {q} : rows'[p] = rows[p]
      /\ Line(q, rows[q])' /\ Len(rows'[q]) = Len(rows[q]) /\ rows'[q] # <<>>
      /\ Row(q)' = row
  <2>1. SetRow(q, row) /\ row.parent = Len(rows[q]) - 1
    BY <1>1, <1>4, <1>5, <1>6
  <2> QED BY <1>2, <1>3, <1>7, <1>8, <2>1, SetRowFacts
<1>10. UNCHANGED <<launch, phase, next, asked, reruns, at>> /\ run'[q] = "done"
  BY <1>1, <1>2 DEF TaskFrame, Frame, BatchTypeOK
<1>11. ~Unfinished(q)'
  BY <1>6, <1>9 DEF Unfinished
<1>12. Scoped(q)'
  BY <1>2, <1>3, <1>9, <1>10, ScopeKept
<1>13. \A n \in Nodes : Terminal(q, n)' = Terminal(q, n)
  BY <1>4, <1>6, <1>9 DEF Terminal
<1>14. Ready(q)'
  BY <1>11 DEF Ready
<1>15. ASSUME NEW n \in Nodes PROVE NodeHolds(q, n)'
  <2>1. at'[q][n] \in {"idle", "done"} /\ Terminal(q, n)'
    BY <1>1, <1>3, <1>10, <1>13
  <2> QED BY <2>1, <1>10 DEF NodeHolds
<1>16. TaskHolds(q)'
  BY <1>3, <1>10, <1>15 DEF TaskHolds
<1> QED BY <1>1, <1>9, <1>12, <1>13, <1>14, <1>16, TaskStep DEF Tasks

\* The threshold, rounded up, is the share the gate asks for.
LEMMA ThresholdFacts ==
    ASSUME NEW t \in Nat, NEW c \in Nat, c >= Threshold(t)
    PROVE  Whole * c >= Part * t
<1>1. Part \in Nat /\ Whole \in Nat /\ Whole > 0
  BY BatchAssumption
<1>2. PICK a \in Nat : a = Part * t
  <2>1. Part * t \in Nat
    BY <1>1
  <2> QED BY <2>1
<1>3. PICK d \in Int, r \in Int :
          d = (a + Whole - 1) \div Whole /\ a + Whole - 1 = Whole * d + r /\ r < Whole
  <2>1. PICK e \in Int : e = a + Whole - 1
    BY <1>1, <1>2
  <2>2. /\ e \div Whole \in Int /\ (e % Whole) \in Int /\ (e % Whole) < Whole
        /\ e = Whole * (e \div Whole) + (e % Whole)
    BY <1>1, <2>1
  <2> QED BY <2>1, <2>2
<1>4. Whole * d >= a /\ c >= d
  <2>1. Whole * d \in Int
    BY <1>1, <1>3
  <2> QED BY <1>1, <1>2, <1>3, <2>1 DEF Threshold
<1>5. Whole * c = Whole * d + Whole * (c - d) /\ Whole * (c - d) >= 0
  BY <1>1, <1>3, <1>4
<1>6. Whole * c \in Int /\ Whole * d \in Int /\ Whole * (c - d) \in Int
  BY <1>1, <1>3
<1> QED BY <1>2, <1>4, <1>5, <1>6

\* The next group is entered when the records of the one before it say so.
LEMMA EnterGroupStep ==
    ASSUME IInv, EnterGroup
    PROVE  IInv'
<1>1. /\ phase = "on" /\ next \in Groups
      /\ \A q \in Questions : run[q] \notin {"queued", "begun"}
      /\ next > 1 => ReadyForNext(next - 1, counts)
      /\ next' = next + 1
      /\ run' = [q \in Questions |-> IF q \in Selected(next) /\ ~Finished(q) THEN "queued"
                                     ELSE run[q]]
      /\ UNCHANGED <<rows, launch, phase, counts, at, asked, promised, refused, reruns, faults>>
  BY DEF EnterGroup, book
<1>2. BatchTypeOK
  BY DEF IInv
<1>3. next \in Nat /\ next <= Len(Members) /\ Len(Members) \in Nat
  BY <1>1, GroupFacts
<1>4. BatchTypeOK'
  <2>1. next' \in 1..(Len(Members) + 1)
    BY <1>1, <1>2, <1>3 DEF BatchTypeOK
  <2>2. run' \in [Questions -> Tasks]
    BY <1>1, <1>2 DEF BatchTypeOK, Tasks
  <2> QED BY <1>1, <1>2, <2>1, <2>2 DEF BatchTypeOK
<1>5. ASSUME NEW q \in Questions PROVE Holds(q)'
  <2>1. Line(q, rows[q]) /\ Scoped(q) /\ Ready(q) /\ TaskHolds(q)
    BY <1>1 DEF IInv, Holds
  <2>2. /\ Row(q)' = Row(q) /\ Unfinished(q)' = Unfinished(q)
        /\ \A n \in Nodes : Terminal(q, n)' = Terminal(q, n)
        /\ Line(q, rows[q])'
    BY <1>1, <2>1, SameRows
  <2>3. Scoped(q)'
    BY <1>1, <2>1, <2>2, ScopeKept
  <2>4. Ready(q)'
    <3>1. run[q] # "begun" /\ run'[q] # "begun"
      BY <1>1
    <3> QED BY <1>1, <2>1, <2>2, <3>1 DEF Ready
  <2>5. CASE q \in Selected(next) /\ ~Finished(q)
    <3>1. run'[q] = "queued" /\ q \in launch.targets /\ q \in Members[next]
      BY <1>1, <2>5 DEF Selected
    <3>2. run[q] = "none"
      <4>1. ASSUME run[q] # "none" PROVE FALSE
        <5>1. PICK g \in Groups : g < next /\ q \in Members[g]
          BY <2>1, <4>1 DEF TaskHolds
        <5>2. g = next
          BY <1>1, <3>1, <5>1, BatchAssumption
        <5> QED BY <1>3, <5>1, <5>2
      <4> QED BY <4>1
    <3>3. \A n \in Nodes : at'[q][n] = "idle"
      BY <1>1, <2>1, <3>2 DEF TaskHolds, NodeHolds
    <3>4. rows[q] = <<>> \/ Unfinished(q)
      BY <1>2, <2>5 DEF Finished, Current, NoVersion, BatchTypeOK
    <3>5. next < next' /\ next \in Groups
      BY <1>1, <1>3
    <3>6. TaskHolds(q)'
      BY <1>1, <2>2, <3>1, <3>3, <3>4, <3>5 DEF TaskHolds, NodeHolds
    <3> QED BY <2>2, <2>3, <2>4, <3>6 DEF Holds
  <2>6. CASE ~(q \in Selected(next) /\ ~Finished(q))
    <3>1. run'[q] = run[q] /\ at' = at /\ rows' = rows /\ launch' = launch
      BY <1>1, <2>6
    <3>2. ASSUME NEW n \in Nodes PROVE NodeHolds(q, n)'
      <4>1. NodeHolds(q, n)
        BY <2>1 DEF TaskHolds
      <4> QED BY <2>2, <3>1, <4>1 DEF NodeHolds, Rests
    <3>3. \A g \in Groups : g < next => g < next'
      BY <1>1, <1>3, GroupFacts
    <3>4. TaskHolds(q)'
      BY <2>1, <2>2, <3>1, <3>2, <3>3 DEF TaskHolds
    <3> QED BY <2>2, <2>3, <2>4, <3>4 DEF Holds
  <2> QED BY <2>5, <2>6
<1>6. ASSUME NEW g \in Groups, NEW n \in Outputs
      PROVE  Tally(g, n)' /\ (g + 1 < next' => Gate(g, n)')
  <2>1. Tally(g, n) /\ (g + 1 < next => Gate(g, n))
    BY <1>1 DEF IInv, Loop
  <2>2. Tally(g, n)' = Tally(g, n) /\ Gate(g, n)' = Gate(g, n)
    BY <1>1 DEF Tally, Gate, Ended, Returning, Selected, Terminal, Row
  <2>3. g \in Nat
    BY GroupFacts
  <2>4. ASSUME g + 1 = next PROVE Gate(g, n)
    <3>1. g = next - 1 /\ next > 1
      BY <1>3, <2>3, <2>4, GroupFacts
    <3>2. PICK t \in Nat, c \in Nat, e \in Nat, s \in Nat :
              /\ t = Cardinality(Selected(g)) /\ c = counts[g][n]
              /\ e = Cardinality(Ended(g, n)) /\ s = Cardinality(Returning(g, n))
      <4>1. counts[g][n] \in Nat
        BY <1>2 DEF BatchTypeOK
      <4>2. /\ Cardinality(Selected(g)) \in Nat /\ Cardinality(Ended(g, n)) \in Nat
            /\ Cardinality(Returning(g, n)) \in Nat
        BY SelectedFacts, FS_CardinalityType
      <4> QED BY <4>1, <4>2
    <3>3. c >= Threshold(t)
      BY <1>1, <3>1, <3>2 DEF ReadyForNext
    <3>4. c + s = e
      BY <2>1, <3>2 DEF Tally
    <3>5. e >= Threshold(t)
      <4>1. Threshold(t) \in Int
        BY BatchAssumption DEF Threshold
      <4> QED BY <3>2, <3>3, <3>4, <4>1
    <3>6. Whole * e >= Part * t
      BY <3>5, ThresholdFacts
    <3> QED BY <3>2, <3>6 DEF Gate
  <2>5. g + 1 < next' => g + 1 < next \/ g + 1 = next
    BY <1>1, <1>3, <2>3
  <2> QED BY <2>1, <2>2, <2>4, <2>5
<1>7. Quiet' /\ Loop'
  BY <1>1, <1>6 DEF Quiet, Loop
<1> QED BY <1>4, <1>5, <1>7 DEF IInv

\* A batch that ends, by itself or not, leaves the records as they are.
LEMMA EndStep ==
    ASSUME IInv, Complete \/ Stop
    PROVE  IInv'
<1>1. /\ phase' = "off" /\ next' = 1 /\ counts' = NoCounts /\ run' = NoTasks /\ at' = AllIdle
      /\ UNCHANGED <<rows, launch, asked, promised, refused, reruns>>
      /\ faults' \in 0..MaxFaults
  BY BatchAssumption DEF Complete, Stop, Fault, book, IInv, BatchTypeOK
<1>2. BatchTypeOK'
  <2>1. counts' \in [Groups -> [Outputs -> Nat]] /\ run' \in [Questions -> Tasks]
        /\ at' \in [Questions -> [Nodes -> Statuses]]
    BY <1>1 DEF NoCounts, NoTasks, AllIdle, None, Tasks, Statuses
  <2>2. next' \in 1..(Len(Members) + 1)
    BY <1>1, GroupFacts
  <2> QED BY <1>1, <2>1, <2>2 DEF IInv, BatchTypeOK
<1>3. ASSUME NEW q \in Questions PROVE Holds(q)'
  <2>1. Line(q, rows[q])' /\ Unfinished(q)' = Unfinished(q) /\ Scoped(q)
    BY <1>1, SameRows DEF IInv, Holds
  <2>2. Scoped(q)'
    BY <1>1, <2>1, ScopeKept
  <2> QED BY <1>1, <2>1, <2>2, SetupHolds
<1>4. Quiet' /\ Loop'
  BY <1>1 DEF Quiet, Loop
<1> QED BY <1>2, <1>3, <1>4 DEF IInv

------------------------------------------------------------------------------
(* The nodes of a question                                                      *)

LEMMA RunningFacts ==
    ASSUME IInv, NEW q \in Questions, run[q] = "running"
    PROVE  /\ BatchTypeOK /\ phase = "on" /\ Holds(q) /\ Loop
           /\ Line(q, rows[q]) /\ Unfinished(q) /\ q \in launch.targets
           /\ rows[q] # <<>> /\ Row(q) \in RowType /\ Row(q).state = "open"
           /\ RowHolds(q, Row(q)) /\ Row(q).parent = Len(rows[q]) - 1
           /\ Len(rows[q]) > 1 => Follows(rows[q][Len(rows[q]) - 1], Row(q))
           /\ \A n \in Nodes : /\ NodeHolds(q, n)
                               /\ Terminal(q, n) = (Row(q).node[n] # "none")
                               /\ Len(rows[q]) > 1 /\ ~Terminal(q, n) =>
                                      rows[q][Len(rows[q]) - 1].node[n] # "succeeded"
<1>1. BatchTypeOK /\ phase = "on" /\ Holds(q) /\ Loop
  BY DEF IInv, Quiet, NoTasks, None
<1>2. Line(q, rows[q]) /\ Ready(q) /\ TaskHolds(q)
  BY <1>1 DEF Holds
<1>3. Unfinished(q) /\ q \in launch.targets /\ \A n \in Nodes : NodeHolds(q, n)
  BY <1>2 DEF TaskHolds
<1>4. Row(q).parent # Unstarted
      /\ \A n \in Nodes : Len(rows[q]) > 1 /\ ~Terminal(q, n) =>
             rows[q][Len(rows[q]) - 1].node[n] # "succeeded"
  BY <1>2, <1>3 DEF Ready
<1>5. /\ rows[q] # <<>> /\ Row(q).state = "open"
      /\ RowHolds(q, Row(q)) /\ Row(q).parent = Len(rows[q]) - 1
      /\ Len(rows[q]) > 1 => Follows(rows[q][Len(rows[q]) - 1], Row(q))
  BY <1>2, <1>3, <1>4, OpenFacts
<1>6. Row(q) \in RowType /\ \A n \in Nodes : Terminal(q, n) = (Row(q).node[n] # "none")
  BY <1>5 DEF RowHolds, Terminal
<1> QED BY <1>1, <1>2, <1>3, <1>4, <1>5, <1>6

\* A step leaves a question as many versions, in line, and the other questions theirs.
Rewritten(q) ==
    /\ rows' \in [Questions -> Seq(RowType)]
    /\ \A p \in Questions \ {q} : rows'[p] = rows[p]
    /\ Line(q, rows[q])' /\ Len(rows'[q]) = Len(rows[q]) /\ rows'[q] # <<>>
    /\ Len(rows[q]) > 1 => rows'[q][Len(rows[q]) - 1] = rows[q][Len(rows[q]) - 1]

\* A row is the newest one but for one node, whose result it keeps.
Elsewhere(q, n, row) ==
    /\ row.state = "open" /\ row.parent = Row(q).parent
    /\ \A m \in Nodes \ {n} : /\ row.node[m] = Row(q).node[m]
                              /\ row.answer[m] = Row(q).answer[m]
                              /\ row.tries[m] = Row(q).tries[m]
    /\ Terminal(q, n) => row.node[n] = Row(q).node[n]

\* What all steps of a node's task have in common.
LEMMA NodeEffect ==
    ASSUME IInv, NEW q \in Questions, NEW n \in Nodes, run[q] = "running",
           NodeFrame, refused' = FALSE, faults' \in 0..MaxFaults,
           Rewritten(q), Elsewhere(q, n, Row(q)'),
           NEW pc \in Statuses, Goto(q, n, pc), NodeHolds(q, n)',
           counts' \in [Groups -> [Outputs -> Nat]], Loop'
    PROVE  IInv'
<1>1. UNCHANGED <<launch, phase, next, asked, promised, reruns, run>>
      /\ at' = [at EXCEPT ![q][n] = pc]
  BY DEF NodeFrame, Frame, Goto
<1>2. BatchTypeOK /\ phase = "on" /\ Holds(q)
  BY RunningFacts
<1>3. at \in [Questions -> [Nodes -> Statuses]]
  BY <1>2 DEF BatchTypeOK
<1>4. at' \in [Questions -> [Nodes -> Statuses]]
      /\ \A p \in Questions \ {q} : at'[p] = at[p]
  BY <1>1, <1>3
<1>5. BatchTypeOK'
  BY <1>1, <1>2, <1>4 DEF BatchTypeOK, Rewritten
<1>6. Quiet'
  BY <1>1, <1>2 DEF Quiet
<1>7. Holds(q)'
  <2>1. PICK row : row = Row(q)'
    OBVIOUS
  <2>2. /\ row.state = "open" /\ row.parent = Row(q).parent
        /\ \A m \in Nodes \ {n} : /\ row.node[m] = Row(q).node[m]
                                  /\ row.answer[m] = Row(q).answer[m]
                                  /\ row.tries[m] = Row(q).tries[m]
        /\ Terminal(q, n) => row.node[n] = Row(q).node[n]
    BY <2>1 DEF Elsewhere
  <2>3. /\ Line(q, rows[q])' /\ Len(rows'[q]) = Len(rows[q]) /\ rows'[q] # <<>>
        /\ Len(rows[q]) > 1 => rows'[q][Len(rows[q]) - 1] = rows[q][Len(rows[q]) - 1]
    BY DEF Rewritten
  <2> QED BY ZenonT(40), <1>1, <1>2, <1>3, <2>1, <2>2, <2>3, NodeStep
<1>8. \A p \in Questions : Holds(p)'
  <2>1. \A p \in Questions \ {q} : /\ rows'[p] = rows[p] /\ run'[p] = run[p]
                                   /\ at'[p] = at[p] /\ asked'[p] = asked[p]
    BY <1>1, <1>4 DEF Rewritten
  <2> QED BY <1>1, <1>7, <2>1, OneQuestion DEF IInv
<1> QED BY <1>5, <1>6, <1>8 DEF IInv

\* The other nodes, whose tasks stand where they stood.
LEMMA GotoFacts ==
    ASSUME BatchTypeOK, NEW q \in Questions, NEW n \in Nodes, NEW pc, Goto(q, n, pc)
    PROVE  /\ at'[q][n] = pc
           /\ \A p \in Questions : \A m \in Nodes : p # q \/ m # n => at'[p][m] = at[p][m]
BY DEF BatchTypeOK, Goto

\* A node with its dependencies' results gets its own.
LEMMA SaveStep ==
    ASSUME IInv, NEW q \in Questions, NEW n \in Nodes, run[q] = "running",
           ~Terminal(q, n), \A p \in Dependencies(q, n) : Terminal(q, p),
           NEW status, Save(q, n, status),
           \/ status = "skipped" /\ ~Rests(q, Row(q), n)
           \/ /\ status = "succeeded" /\ Rests(q, Row(q), n)
              /\ Row(q).answer[n] = "good" \/ ~Asked(q, n)
           \/ /\ status = "failed" /\ Rests(q, Row(q), n)
              /\ Row(q).answer[n] \in {"bad", "refused"} \/ Row(q).tries[n] = MaxAttempts
    PROVE  IInv'
<1>1. /\ SetRow(q, [Row(q) EXCEPT !.node[n] = status]) /\ Refuse(~Terminal(q, n))
      /\ Goto(q, n, "saved") /\ UNCHANGED <<counts, faults>> /\ NodeFrame
  BY DEF Save
<1>2. /\ BatchTypeOK /\ phase = "on" /\ Loop /\ Line(q, rows[q]) /\ Unfinished(q)
      /\ rows[q] # <<>> /\ Row(q) \in RowType /\ Row(q).state = "open"
      /\ RowHolds(q, Row(q)) /\ Row(q).parent = Len(rows[q]) - 1
      /\ Len(rows[q]) > 1 => Follows(rows[q][Len(rows[q]) - 1], Row(q))
      /\ NodeHolds(q, n) /\ Row(q).node[n] = "none"
      /\ Len(rows[q]) > 1 => rows[q][Len(rows[q]) - 1].node[n] # "succeeded"
  BY RunningFacts
<1>3. refused' = FALSE /\ faults' \in 0..MaxFaults /\ counts' \in [Groups -> [Outputs -> Nat]]
  BY <1>1, <1>2 DEF Refuse, BatchTypeOK
<1>4. PICK row : row = [Row(q) EXCEPT !.node[n] = status]
  OBVIOUS
<1>5. /\ row \in RowType /\ row.state = "open" /\ row.parent = Row(q).parent
      /\ row.given = Row(q).given /\ row.answer = Row(q).answer /\ row.tries = Row(q).tries
      /\ row.node[n] = status /\ \A m \in Nodes \ {n} : row.node[m] = Row(q).node[m]
  BY <1>2, <1>4 DEF RowType
<1>6. \A p \in Dependencies(q, n) : p \in Nodes /\ Row(q).node[p] # "none" /\ p # n
  BY <1>2, DependenciesFacts DEF Terminal
<1>7. Rests(q, row, n) <=> Rests(q, Row(q), n)
  BY <1>5, <1>6 DEF Rests
<1>8. Earned(q, row, n)
  BY <1>5, <1>7 DEF Earned
<1>9. RowHolds(q, row)
  BY <1>2, <1>5, <1>6, <1>8, RowGains
<1>10. Len(rows[q]) > 1 => Follows(rows[q][Len(rows[q]) - 1], row)
  <2>1. ASSUME NEW old, Follows(old, Row(q)), old.node[n] # "succeeded"
        PROVE  Follows(old, row)
    BY <1>5, <2>1 DEF Follows
  <2> QED BY <1>2, <2>1
<1>11. /\ rows' \in [Questions -> Seq(RowType)]
       /\ \A p \in Questions \ {q} : rows'[p] = rows[p]
       /\ Line(q, rows[q])' /\ Len(rows'[q]) = Len(rows[q]) /\ rows'[q] # <<>>
       /\ Row(q)' = row
       /\ Len(rows[q]) > 1 => rows'[q][Len(rows[q]) - 1] = rows[q][Len(rows[q]) - 1]
  <2>1. SetRow(q, row) /\ row.parent = Len(rows[q]) - 1
    BY <1>1, <1>2, <1>4, <1>5
  <2> QED BY <1>2, <1>9, <1>10, <2>1, SetRowFacts
<1>12. Terminal(q, n)' /\ status # "none"
  BY <1>5, <1>11 DEF Terminal
<1>13. /\ at'[q][n] = "saved"
       /\ \A p \in Questions : \A m \in Nodes : p # q \/ m # n => at'[p][m] = at[p][m]
  BY <1>1, <1>2, GotoFacts
<1>14. NodeHolds(q, n)'
  <2>1. run'[q] = "running"
    BY <1>1 DEF NodeFrame
  <2> QED BY <1>12, <1>13, <2>1 DEF NodeHolds
<1>15. Loop'
  <2>1. at[q][n] # "saved"
    BY <1>2 DEF NodeHolds
  <2>2. ASSUME NEW p \in Questions, NEW m \in Nodes, p # q \/ m # n
        PROVE  Terminal(p, m)' = Terminal(p, m)
    <3>1. CASE p # q
      BY <1>11, <3>1, SameRows
    <3>2. CASE p = q /\ m # n
      BY <1>2, <1>5, <1>11, <3>2 DEF Terminal
    <3> QED BY <2>2, <3>1, <3>2
  <2>3. UNCHANGED <<launch, phase, next, counts>>
    BY <1>1 DEF NodeFrame, Frame
  <2> QED BY <1>2, <1>12, <1>13, <2>1, <2>2, <2>3, LoopSaved
<1>16. "saved" \in Statuses
  BY DEF Statuses
<1>17. Rewritten(q)
  BY <1>11 DEF Rewritten
<1>18. Elsewhere(q, n, Row(q)')
  BY <1>5, <1>11 DEF Elsewhere
<1> QED BY <1>1, <1>3, <1>14, <1>15, <1>16, <1>17, <1>18, NodeEffect

\* A request is made or ends: no node has a result for it yet.
LEMMA AskStep ==
    ASSUME IInv, NEW q \in Questions, NEW n \in Nodes, run[q] = "running",
           ~Terminal(q, n), Asked(q, n), Rests(q, Row(q), n),
           NEW row \in RowType, SetRow(q, row) \/ (row = Row(q) /\ rows' = rows),
           row.state = Row(q).state, row.parent = Row(q).parent,
           row.node = Row(q).node, row.given = Row(q).given,
           \A m \in Nodes \ {n} : /\ row.answer[m] = Row(q).answer[m]
                                  /\ row.tries[m] = Row(q).tries[m],
           NEW pc \in {"idle", "sent", "answered", "refused"}, Goto(q, n, pc),
           pc = "answered" => row.answer[n] \in {"good", "bad"},
           pc = "refused" => row.answer[n] = "refused" \/ row.tries[n] = MaxAttempts,
           UNCHANGED <<counts, refused>>, faults' \in 0..MaxFaults, NodeFrame
    PROVE  IInv'
<1>2. /\ BatchTypeOK /\ phase = "on" /\ Loop /\ Line(q, rows[q]) /\ Unfinished(q)
      /\ rows[q] # <<>> /\ Row(q) \in RowType /\ Row(q).state = "open"
      /\ RowHolds(q, Row(q)) /\ Row(q).parent = Len(rows[q]) - 1
      /\ Len(rows[q]) > 1 => Follows(rows[q][Len(rows[q]) - 1], Row(q))
      /\ NodeHolds(q, n) /\ Row(q).node[n] = "none"
  BY RunningFacts
<1>3. refused' = FALSE /\ counts' \in [Groups -> [Outputs -> Nat]]
  BY <1>2 DEF BatchTypeOK
<1>4. /\ rows' \in [Questions -> Seq(RowType)]
      /\ \A p \in Questions \ {q} : rows'[p] = rows[p]
      /\ Line(q, rows[q])' /\ Len(rows'[q]) = Len(rows[q]) /\ rows'[q] # <<>>
      /\ Row(q)' = row
      /\ Len(rows[q]) > 1 => rows'[q][Len(rows[q]) - 1] = rows[q][Len(rows[q]) - 1]
  <2>1. CASE SetRow(q, row)
    <3>1. RowHolds(q, row)
      BY <1>2, RowAsks
    <3>2. Len(rows[q]) > 1 => Follows(rows[q][Len(rows[q]) - 1], row)
      BY <1>2 DEF Follows
    <3> QED BY <1>2, <2>1, <3>1, <3>2, SetRowFacts
  <2>2. CASE row = Row(q) /\ rows' = rows
    BY <1>2, <2>2, SameRows DEF BatchTypeOK
  <2> QED BY <2>1, <2>2
<1>5. ~Terminal(q, n)' /\ \A m \in Nodes : Terminal(q, m)' = Terminal(q, m)
  BY <1>2, <1>4 DEF Terminal
<1>6. /\ at'[q][n] = pc
      /\ \A p \in Questions : \A m \in Nodes : p # q \/ m # n => at'[p][m] = at[p][m]
  BY <1>2, GotoFacts
<1>7. NodeHolds(q, n)'
  <2>1. run'[q] = "running"
    BY DEF NodeFrame
  <2>2. Rests(q, Row(q), n)'
    BY <1>4 DEF Rests
  <2>3. Asked(q, n)'
    BY DEF Asked
  <2> QED BY <1>4, <1>5, <1>6, <2>1, <2>2, <2>3 DEF NodeHolds
<1>8. Loop'
  <2>1. at[q][n] # "saved"
    BY <1>2 DEF NodeHolds
  <2>2. ASSUME NEW p \in Questions, NEW m \in Nodes
        PROVE  /\ Terminal(p, m)' = Terminal(p, m)
               /\ (at'[p][m] = "saved") = (at[p][m] = "saved")
    <3>1. CASE p # q
      BY <1>4, <1>6, <3>1, SameRows
    <3>2. CASE p = q
      BY <1>5, <1>6, <2>1, <3>2
    <3> QED BY <3>1, <3>2
  <2>3. UNCHANGED <<launch, phase, next, counts>>
    BY DEF NodeFrame, Frame
  <2> QED BY <1>2, <2>2, <2>3, LoopSame DEF Nodes
<1>9. pc \in Statuses
  BY DEF Statuses
<1>10. Rewritten(q)
  BY <1>4 DEF Rewritten
<1>11. Elsewhere(q, n, Row(q)')
  <2>1. Elsewhere(q, n, row)
    BY <1>2 DEF Elsewhere
  <2> QED BY <1>4, <2>1
<1> QED BY <1>3, <1>7, <1>8, <1>9, <1>10, <1>11, NodeEffect

LEMMA AwaitedFacts ==
    ASSUME NEW q \in Questions, NEW n \in Nodes, Awaited(q, n)
    PROVE  /\ run[q] = "running" /\ ~Terminal(q, n)
           /\ \A p \in Dependencies(q, n) : Terminal(q, p)
           /\ Failing(q, n) = {} <=> Rests(q, Row(q), n)
BY DEF Awaited, Existing, Failing, Rests

LEMMA DependencyFailedStep ==
    ASSUME IInv, NEW q \in Questions, NEW n \in Nodes, DependencyFailed(q, n)
    PROVE  IInv'
<1>1. Awaited(q, n) /\ Failing(q, n) # {} /\ Save(q, n, "skipped")
  BY DEF DependencyFailed
<1> QED BY <1>1, AwaitedFacts, SaveStep

LEMMA SoundFacts ==
    ASSUME NEW q \in Questions, NEW n \in Nodes, Sound(q, n)
    PROVE  /\ run[q] = "running" /\ ~Terminal(q, n) /\ Rests(q, Row(q), n)
           /\ \A p \in Dependencies(q, n) : Terminal(q, p)
BY AwaitedFacts DEF Sound

LEMMA DeterministicStep ==
    ASSUME IInv, NEW q \in Questions, NEW n \in Nodes, Deterministic(q, n)
    PROVE  IInv'
<1>1. Sound(q, n) /\ ~Asked(q, n) /\ Save(q, n, "succeeded")
  BY DEF Deterministic
<1> QED BY <1>1, SoundFacts, SaveStep

LEMMA RecallStep ==
    ASSUME IInv, NEW q \in Questions, NEW n \in Nodes, Recall(q, n) \/ GiveUp(q, n)
    PROVE  IInv'
<1>1. PICK pc \in {"answered", "refused"} :
          /\ Sound(q, n) /\ Asked(q, n) /\ Goto(q, n, pc)
          /\ UNCHANGED <<rows, counts, refused, faults>> /\ NodeFrame
          /\ pc = "answered" => Row(q).answer[n] \in {"good", "bad"}
          /\ pc = "refused" => Row(q).tries[n] = MaxAttempts
  BY DEF Recall, GiveUp, Answered, Spent
<1>2. run[q] = "running" /\ ~Terminal(q, n) /\ Rests(q, Row(q), n)
  BY <1>1, SoundFacts
<1>3. PICK row \in RowType : row = Row(q)
  BY <1>2, RunningFacts
<1>4. faults' \in 0..MaxFaults
  BY <1>1 DEF IInv, BatchTypeOK
<1> QED BY <1>1, <1>2, <1>3, <1>4, AskStep

LEMMA SendStep ==
    ASSUME IInv, NEW q \in Questions, NEW n \in Nodes, Send(q, n)
    PROVE  IInv'
<1>1. /\ Sound(q, n) /\ Asked(q, n) /\ ~Spent(q, n) /\ Goto(q, n, "sent")
      /\ SetRow(q, [Row(q) EXCEPT !.tries[n] = @ + 1])
      /\ UNCHANGED <<counts, refused, faults>> /\ NodeFrame
  BY DEF Send
<1>2. run[q] = "running" /\ ~Terminal(q, n) /\ Rests(q, Row(q), n)
  BY <1>1, SoundFacts
<1>3. Row(q) \in RowType
  BY <1>2, RunningFacts
<1>4. PICK row : row = [Row(q) EXCEPT !.tries[n] = Row(q).tries[n] + 1]
  OBVIOUS
<1>5. Row(q).tries[n] + 1 \in 0..MaxAttempts
  <2>1. Row(q).tries[n] \in 0..MaxAttempts /\ Row(q).tries[n] # MaxAttempts
    BY <1>1, <1>3 DEF RowType, Spent
  <2> QED BY <2>1, BatchAssumption
<1>6. row \in RowType /\ row.state = Row(q).state /\ row.parent = Row(q).parent
      /\ row.node = Row(q).node /\ row.given = Row(q).given
      /\ \A m \in Nodes \ {n} : /\ row.answer[m] = Row(q).answer[m]
                                /\ row.tries[m] = Row(q).tries[m]
  BY <1>3, <1>4, <1>5 DEF RowType
<1>7. SetRow(q, row) /\ faults' \in 0..MaxFaults
  BY <1>1, <1>4 DEF IInv, BatchTypeOK
<1> QED BY <1>1, <1>2, <1>6, <1>7, AskStep

LEMMA OutcomeStep ==
    ASSUME IInv, NEW q \in Questions, NEW n \in Nodes,
           Answer(q, n) \/ BadAnswer(q, n) \/ Permanent(q, n) \/ Retryable(q, n)
    PROVE  IInv'
<1>1. at[q][n] = "sent" /\ (faults' = faults \/ Fault)
  BY DEF Answer, BadAnswer, Permanent, Retryable, Outcome
<1>2. run[q] = "running" /\ ~Terminal(q, n) /\ Asked(q, n) /\ Rests(q, Row(q), n)
  <2>1. phase = "on"
    BY <1>1 DEF IInv, Quiet, AllIdle, None
  <2>2. NodeHolds(q, n)
    BY <2>1 DEF IInv, Holds, TaskHolds
  <2> QED BY <1>1, <2>2 DEF NodeHolds
<1>3. Row(q) \in RowType
  BY <1>2, RunningFacts
<1>4. faults' \in 0..MaxFaults
  BY <1>1, BatchAssumption DEF Fault, IInv, BatchTypeOK
<1>5. PICK answer \in {"none", "good", "bad", "refused"},
           pc \in {"idle", "answered", "refused"} :
          /\ Outcome(q, n, answer, pc)
          /\ pc = "answered" => answer \in {"good", "bad"}
          /\ pc = "refused" => answer = "refused"
  <2>1. Row(q).answer[n] \in {"none", "good", "bad", "refused"}
    BY <1>3 DEF RowType
  <2> QED BY <2>1 DEF Answer, BadAnswer, Permanent, Retryable
<1>6. /\ SetRow(q, [Row(q) EXCEPT !.answer[n] = answer]) /\ Goto(q, n, pc)
      /\ UNCHANGED <<counts, refused>> /\ NodeFrame
  BY <1>5 DEF Outcome
<1>7. PICK row : row = [Row(q) EXCEPT !.answer[n] = answer]
  OBVIOUS
<1>8. row \in RowType /\ row.state = Row(q).state /\ row.parent = Row(q).parent
      /\ row.node = Row(q).node /\ row.given = Row(q).given /\ row.answer[n] = answer
      /\ \A m \in Nodes \ {n} : /\ row.answer[m] = Row(q).answer[m]
                                /\ row.tries[m] = Row(q).tries[m]
  BY <1>3, <1>7 DEF RowType
<1>9. SetRow(q, row)
  BY <1>6, <1>7
<1> QED BY <1>2, <1>4, <1>5, <1>6, <1>8, <1>9, AskStep

LEMMA SaveAnswerStep ==
    ASSUME IInv, NEW q \in Questions, NEW n \in Nodes, SaveAnswer(q, n)
    PROVE  IInv'
<1>1. at[q][n] \in {"answered", "refused"}
      /\ Save(q, n, IF Parsed(q, n) THEN "succeeded" ELSE "failed")
  BY DEF SaveAnswer
<1>2. NodeHolds(q, n)
  <2>1. phase = "on"
    BY <1>1 DEF IInv, Quiet, AllIdle, None
  <2> QED BY <2>1 DEF IInv, Holds, TaskHolds
<1>3. run[q] = "running" /\ ~Terminal(q, n) /\ Rests(q, Row(q), n)
  BY <1>1, <1>2 DEF NodeHolds
<1>4. \A p \in Dependencies(q, n) : Terminal(q, p)
  BY <1>3, RunningFacts, DependenciesFacts DEF Rests
<1>5. CASE Parsed(q, n)
  <2>1. Save(q, n, "succeeded") /\ Row(q).answer[n] = "good"
    BY <1>1, <1>5 DEF Parsed
  <2> QED BY <1>3, <1>4, <2>1, SaveStep
<1>6. CASE ~Parsed(q, n)
  <2>1. Save(q, n, "failed")
    BY <1>1, <1>6
  <2>2. Row(q).answer[n] \in {"bad", "refused"} \/ Row(q).tries[n] = MaxAttempts
    BY <1>1, <1>2, <1>6 DEF NodeHolds, Parsed
  <2> QED BY <1>3, <1>4, <2>1, <2>2, SaveStep
<1> QED BY <1>5, <1>6

LEMMA NotifyStep ==
    ASSUME IInv, NEW q \in Questions, NEW n \in Nodes, Notify(q, n)
    PROVE  IInv'
<1>1. /\ at[q][n] = "saved" /\ Goto(q, n, "done")
      /\ counts' = IF n \in Outputs THEN [counts EXCEPT ![GroupOf(q)][n] = @ + 1] ELSE counts
      /\ UNCHANGED <<rows, refused, faults>> /\ NodeFrame
  BY DEF Notify
<1>2. run[q] = "running" /\ Terminal(q, n)
  <2>1. phase = "on"
    BY <1>1 DEF IInv, Quiet, AllIdle, None
  <2>2. NodeHolds(q, n)
    BY <2>1 DEF IInv, Holds, TaskHolds
  <2> QED BY <1>1, <2>2 DEF NodeHolds
<1>3. /\ BatchTypeOK /\ Loop /\ Line(q, rows[q]) /\ q \in launch.targets
      /\ rows[q] # <<>> /\ Row(q).state = "open"
  BY <1>2, RunningFacts
<1>4. /\ at'[q][n] = "done"
      /\ \A p \in Questions : \A m \in Nodes : p # q \/ m # n => at'[p][m] = at[p][m]
  BY <1>1, <1>3, GotoFacts
<1>5. Row(q)' = Row(q) /\ Terminal(q, n)' /\ Line(q, rows[q])'
  BY <1>1, <1>2, <1>3, SameRows
<1>6. Rewritten(q)
  BY <1>1, <1>3, <1>5 DEF Rewritten, BatchTypeOK
<1>7. Elsewhere(q, n, Row(q)')
  <2>1. Elsewhere(q, n, Row(q))
    BY <1>3 DEF Elsewhere
  <2> QED BY <1>5, <2>1
<1>8. NodeHolds(q, n)'
  <2>1. run'[q] = "running"
    BY <1>1, <1>2 DEF NodeFrame
  <2> QED BY <1>4, <1>5, <2>1 DEF NodeHolds
<1>9. Loop' /\ counts' \in [Groups -> [Outputs -> Nat]]
  BY <1>1, <1>3, <1>4, LoopNotified DEF NodeFrame, Frame
<1>10. refused' = FALSE /\ faults' \in 0..MaxFaults /\ "done" \in Statuses
  BY <1>1, <1>3 DEF BatchTypeOK, Statuses
<1> QED BY <1>1, <1>2, <1>6, <1>7, <1>8, <1>9, <1>10, NodeEffect

------------------------------------------------------------------------------
(* The invariant                                                                *)

LEMMA NextHolds ==
    ASSUME IInv, [Next]_vars
    PROVE  IInv'
<1>1. ASSUME NEW q \in Questions, Question(q) PROVE IInv'
  <2>1. CASE BeginRerun(q) \/ Recover(q)
    BY <2>1, BeginRerunStep, RecoverStep
  <2>2. CASE BeginVersion(q) \/ StartVersion(q) \/ ContinueVersion(q) \/ Seal(q)
    BY <2>2, BeginVersionStep, StartVersionStep, ContinueVersionStep, SealStep
  <2>3. ASSUME NEW n \in Nodes, Copy(q, n) \/ Node(q, n) PROVE IInv'
    <3>1. CASE Copy(q, n)
      BY <3>1, CopyStep
    <3>2. CASE DependencyFailed(q, n) \/ Deterministic(q, n) \/ SaveAnswer(q, n)
      BY <3>2, DependencyFailedStep, DeterministicStep, SaveAnswerStep
    <3>3. CASE Recall(q, n) \/ GiveUp(q, n) \/ Send(q, n)
      BY <3>3, RecallStep, SendStep
    <3>4. CASE Answer(q, n) \/ Notify(q, n)
      BY <3>4, OutcomeStep, NotifyStep
    <3> QED BY <2>3, <3>1, <3>2, <3>3, <3>4 DEF Node
  <2> QED BY <1>1, <2>1, <2>2, <2>3 DEF Question
<1>2. CASE Process
  <2>1. CASE Run \/ Resume
    BY <2>1, RunStep, ResumeStep
  <2>2. CASE SetupDone \/ EnterGroup \/ Complete
    BY <2>2, SetupDoneStep, EnterGroupStep, EndStep
  <2> QED BY <1>1, <1>2, <2>1, <2>2 DEF Process
<1>3. CASE ResumeAllPending \/ Rerun
  BY <1>3, RunStep, RerunStep
<1>4. CASE Failure
  BY <1>4, EndStep, OutcomeStep DEF Failure
<1>5. CASE UNCHANGED vars
  <2>1. UNCHANGED <<rows, launch, phase, next, counts, run, at, asked, promised, refused,
                    reruns, faults>>
    BY <1>5 DEF vars, process, book
  <2>2. BatchTypeOK' /\ Quiet'
    BY <2>1 DEF IInv, BatchTypeOK, Quiet
  <2>3. \A q \in Questions : Holds(q)'
    BY <2>1, OtherHolds DEF IInv
  <2>4. Loop'
    BY <2>1, LoopSame, SameRows DEF IInv, Nodes
  <2> QED BY <2>2, <2>3, <2>4 DEF IInv
<1> QED BY <1>2, <1>3, <1>4, <1>5 DEF Next

LEMMA InvariantHolds == Spec => []IInv
<1>1. Init => IInv
  BY InitHolds
<1>2. IInv /\ [Next]_vars => IInv'
  BY NextHolds
<1> QED BY <1>1, <1>2, PTL DEF Spec

LEMMA InvariantTypes ==
    ASSUME IInv
    PROVE  TypeOK
<1>1. BatchTypeOK /\ Quiet /\ Loop /\ \A q \in Questions : Holds(q)
  BY DEF IInv
<1>2. ASSUME NEW q \in Questions
      PROVE  /\ Len(rows[q]) \in 0..(1 + MaxReruns)
             /\ \A v \in DOMAIN rows[q] : rows[q][v] \in RowType
             /\ \A v \in 1..(Len(rows[q]) - 1) : rows[q][v].state # "open"
  <2>1. rows[q] \in Seq(RowType) /\ asked[q] \in 0..MaxReruns
    BY <1>1 DEF BatchTypeOK
  <2>2. Len(rows[q]) \in Nat /\ Len(rows[q]) <= 1 + asked[q]
    BY <1>1, <2>1 DEF Holds, Scoped
  <2>3. Len(rows[q]) \in 0..(1 + MaxReruns)
    BY <2>1, <2>2, BatchAssumption
  <2>4. \A v \in 1..(Len(rows[q]) - 1) : rows[q][v].state # "open"
    BY <1>1 DEF Holds, Line
  <2> QED BY <2>1, <2>3, <2>4
<1>3. ASSUME NEW g \in Groups, NEW n \in Outputs
      PROVE  counts[g][n] \in 0..Cardinality(Selected(g))
  <2>1. /\ Cardinality(Ended(g, n)) \in 0..Cardinality(Selected(g))
        /\ Cardinality(Returning(g, n)) \in Nat /\ Cardinality(Selected(g)) \in Nat
        /\ counts[g][n] \in Nat
    BY <1>1, SelectedFacts DEF BatchTypeOK
  <2>2. CASE phase = "on"
    <3>1. counts[g][n] + Cardinality(Returning(g, n)) = Cardinality(Ended(g, n))
      BY <1>1, <2>2 DEF Loop, Tally
    <3> QED BY <2>1, <3>1
  <2>3. CASE phase # "on"
    <3>1. counts[g][n] = 0
      BY <1>1, <2>3 DEF Quiet, NoCounts, None
    <3> QED BY <2>1, <3>1
  <2> QED BY <2>2, <2>3
<1> QED BY <1>1, <1>2, <1>3 DEF TypeOK, BatchTypeOK, Tasks, Statuses

LEMMA InvariantLines ==
    ASSUME IInv
    PROVE  OneVersionPerRerun /\ VersionLineage /\ SuccessesAreKept /\ ResultsAreEarned
<1>1. ASSUME NEW q \in Questions
      PROVE  /\ Line(q, rows[q]) /\ Scoped(q) /\ (phase = "on" => Ready(q))
             /\ rows[q] \in Seq(RowType) /\ DOMAIN rows[q] = 1..Len(rows[q])
             /\ Len(rows[q]) \in Nat
  BY DEF IInv, Holds, Line
<1>2. OneVersionPerRerun
  BY <1>1 DEF OneVersionPerRerun, Scoped
<1>3. ASSUME NEW q \in Questions, NEW v \in DOMAIN rows[q], rows[q][v].parent # v - 1
      PROVE  /\ rows[q][v].parent = Unstarted /\ v = Len(rows[q]) /\ Unfinished(q)
             /\ phase = "on" /\ q \in launch.targets => run[q] = "begun"
  <2>1. rows[q][v].parent = Unstarted /\ v = Len(rows[q]) /\ rows[q][v].state = "open"
    BY <1>1, <1>3 DEF Line, Placed
  <2>2. Row(q) = rows[q][v] /\ rows[q] # <<>>
    BY <1>1, <1>3, <2>1 DEF Row
  <2>3. Unfinished(q)
    BY <2>1, <2>2 DEF Unfinished
  <2>4. phase = "on" /\ q \in launch.targets => run[q] = "begun"
    BY <1>1, <2>1, <2>2, <2>3 DEF Ready
  <2> QED BY <2>1, <2>3, <2>4
<1>4. VersionLineage
  BY <1>3 DEF VersionLineage
<1>5. ASSUME NEW q \in Questions, NEW v \in 2..Len(rows[q]), rows[q][v].state # "open",
             NEW n \in Nodes, rows[q][v - 1].node[n] = "succeeded"
      PROVE  rows[q][v].node[n] = "succeeded" /\ n \in rows[q][v].given
  <2>1. PICK u \in 1..(Len(rows[q]) - 1) : u = v - 1 /\ u + 1 = v
    BY <1>1
  <2>2. Follows(rows[q][u], rows[q][v])
    BY <1>1, <2>1 DEF Line
  <2>3. RowHolds(q, rows[q][v])
    <3>1. v \in 1..Len(rows[q])
      BY <1>1
    <3> QED BY <1>1, <3>1 DEF Line
  <2>4. rows[q][v].node[n] # "none"
    BY <1>5, <2>3 DEF RowHolds, Closed
  <2> QED BY <1>5, <2>1, <2>2, <2>4 DEF Follows
<1>6. SuccessesAreKept
  BY <1>5 DEF SuccessesAreKept
<1>7. ASSUME NEW q \in Questions, NEW v \in DOMAIN rows[q], NEW n \in Nodes
      PROVE  Earned(q, rows[q][v], n) /\ rows[q][v].node[n] \in
                 {"none", "succeeded", "failed", "skipped"}
  <2>1. RowHolds(q, rows[q][v])
    BY <1>1 DEF Line
  <2> QED BY <2>1 DEF RowHolds, RowType
<1>8. ResultsAreEarned
  BY <1>7 DEF ResultsAreEarned, Earned, Rests
<1> QED BY <1>2, <1>4, <1>6, <1>8

LEMMA InvariantCounts ==
    ASSUME IInv
    PROVE  CountsMatchRecords /\ GatesHold
<1>1. \A g \in Groups : \A n \in Outputs : Recorded[g][n] = Cardinality(Ended(g, n))
  BY DEF Recorded, Ended
<1>2. CountsMatchRecords
  BY <1>1 DEF IInv, Loop, Tally, Returning, CountsMatchRecords
<1>3. ASSUME NEW g \in Groups, 1 < g, g < next, NEW n \in Outputs
      PROVE  Whole * Recorded[g - 1][n] >= Part * Cardinality(Selected(g - 1))
  <2>1. phase = "on"
    BY <1>3, GroupFacts DEF IInv, Quiet
  <2>2. PICK h \in Groups : h = g - 1 /\ h + 1 < next
    BY <1>3, GroupFacts
  <2>3. Gate(h, n)
    BY <2>1, <2>2 DEF IInv, Loop
  <2> QED BY <1>1, <2>2, <2>3 DEF Gate
<1>4. GatesHold
  BY <1>3 DEF GatesHold
<1> QED BY <1>2, <1>4

\* In every run of batches, whatever is interrupted, resumed or rerun, the versions of
\* a question are one line of records the store accepted, each result of them earned
\* or taken over, and the loop admits a group by what they say (campaign.py, runner.py).
THEOREM VersionsStaySound == Spec => []VersionsAreSound
<1>1. IInv => VersionsAreSound
  <2>1. IInv => NeverRefused
    BY DEF IInv, BatchTypeOK, NeverRefused
  <2> QED BY <2>1, InvariantTypes, InvariantLines, InvariantCounts DEF VersionsAreSound
<1> QED BY <1>1, InvariantHolds, PTL

------------------------------------------------------------------------------
(* What a request may be made for                                               *)

\* Only the sending of a request adds to the requests of a node.
LEMMA TriesOfOthers ==
    ASSUME BatchTypeOK, NEW q \in Questions, NEW n \in Nodes, rows[q] # <<>>,
           NEW p \in Questions, NEW row, SetRow(p, row),
           p = q => row.tries[n] = Row(q).tries[n]
    PROVE  rows'[q][Len(rows[q])].tries[n] = Row(q).tries[n]
<1>1. rows \in [Questions -> Seq(RowType)]
  BY DEF BatchTypeOK
<1>2. rows[q] \in Seq(RowType) /\ Len(rows[q]) \in Nat \ {0}
  BY <1>1
<1>3. CASE p = q
  <2>1. rows'[q] = [rows[q] EXCEPT ![Len(rows[q])] = row]
    BY <1>1, <1>3 DEF SetRow
  <2> QED BY <1>2, <1>3, <2>1
<1>4. CASE p # q
  BY <1>1, <1>4 DEF SetRow, Row
<1> QED BY <1>3, <1>4

LEMMA OnlySendAsks ==
    ASSUME IInv, Next, NEW q \in Questions, NEW n \in Nodes, rows[q] # <<>>,
           Len(rows'[q]) = Len(rows[q]),
           rows'[q][Len(rows[q])].tries[n] # Row(q).tries[n]
    PROVE  Send(q, n)
<1>1. BatchTypeOK
  BY DEF IInv
<1>2. rows[q] \in Seq(RowType) /\ Len(rows[q]) \in Nat \ {0} /\ Row(q) \in RowType
  BY <1>1 DEF BatchTypeOK, Row
<1>3. rows' # rows
  BY DEF Row
<1>4. ASSUME NEW p \in Questions, NEW row, SetRow(p, row) PROVE p = q /\ row.tries[n] # Row(q).tries[n]
  BY <1>1, <1>4, TriesOfOthers
<1>5. ASSUME NEW p \in Questions, NEW row, rows' = [rows EXCEPT ![p] = Append(rows[p], row)]
      PROVE  FALSE
  <2>1. p = q => Len(rows'[q]) = Len(rows[q]) + 1
    <3>1. p = q => rows'[q] = Append(rows[q], row)
      BY <1>1, <1>5 DEF BatchTypeOK
    <3> QED BY <1>2, <3>1
  <2>2. p # q => rows'[q] = rows[q]
    BY <1>1, <1>5 DEF BatchTypeOK
  <2> QED BY <1>2, <2>1, <2>2 DEF Row
<1>6. \A x : [Row(q) EXCEPT !.parent = x].tries = Row(q).tries
      /\ [Row(q) EXCEPT !.state = x].tries = Row(q).tries
      /\ \A m : /\ [Row(q) EXCEPT !.node[m] = x].tries = Row(q).tries
                /\ [Row(q) EXCEPT !.answer[m] = x].tries = Row(q).tries
  BY <1>2 DEF RowType
<1>7. \A m : [Row(q) EXCEPT !.node[m] = "succeeded", !.given = @ \cup {m}].tries = Row(q).tries
  BY <1>2 DEF RowType
<1>8. \A m : m # n => [Row(q) EXCEPT !.tries[m] = @ + 1].tries[n] = Row(q).tries[n]
  BY <1>2 DEF RowType
<1>9. ASSUME NEW p \in Questions, NEW m \in Nodes, NEW status, Save(p, m, status) PROVE FALSE
  <2>1. PICK row : row = [Row(p) EXCEPT !.node[m] = status] /\ SetRow(p, row)
    BY <1>9 DEF Save
  <2>2. p = q /\ row.tries[n] # Row(q).tries[n]
    BY <1>4, <2>1
  <2>3. row.tries = Row(q).tries
    BY <1>6, <2>1, <2>2
  <2> QED BY <2>2, <2>3
<1>10. ASSUME NEW p \in Questions, NEW m \in Nodes, NEW answer, NEW pc, Outcome(p, m, answer, pc)
       PROVE  FALSE
  <2>1. PICK row : row = [Row(p) EXCEPT !.answer[m] = answer] /\ SetRow(p, row)
    BY <1>10 DEF Outcome
  <2>2. p = q /\ row.tries[n] # Row(q).tries[n]
    BY <1>4, <2>1
  <2>3. row.tries = Row(q).tries
    BY <1>6, <2>1, <2>2
  <2> QED BY <2>2, <2>3
<1>11. ASSUME NEW p \in Questions, NEW m \in Nodes, Node(p, m) PROVE Send(q, n)
  <2>1. CASE DependencyFailed(p, m) \/ Deterministic(p, m) \/ SaveAnswer(p, m)
    BY <1>9, <2>1 DEF DependencyFailed, Deterministic, SaveAnswer
  <2>2. CASE Recall(p, m) \/ GiveUp(p, m) \/ Notify(p, m)
    BY <1>3, <2>2 DEF Recall, GiveUp, Notify
  <2>3. CASE Answer(p, m)
    BY <1>10, <2>3 DEF Answer
  <2>4. CASE Send(p, m)
    BY <1>4, <1>8, <2>4 DEF Send
  <2> QED BY <1>11, <2>1, <2>2, <2>3, <2>4 DEF Node
<1>12. ASSUME NEW p \in Questions, Question(p) PROVE Send(q, n)
  <2>1. CASE BeginRerun(p) \/ BeginVersion(p)
    BY <1>5, <2>1 DEF BeginRerun, BeginVersion
  <2>2. CASE Recover(p) \/ StartVersion(p)
    BY <1>4, <1>6, <2>2 DEF Recover, StartVersion
  <2>3. CASE Seal(p)
    BY <1>4, <1>6, <2>3 DEF Seal
  <2>4. CASE ContinueVersion(p)
    BY <1>3, <2>4 DEF ContinueVersion
  <2>5. ASSUME NEW m \in Nodes, Copy(p, m) PROVE FALSE
    BY <1>4, <1>7, <2>5 DEF Copy
  <2> QED BY <1>11, <1>12, <2>1, <2>2, <2>3, <2>4, <2>5 DEF Question
<1>13. CASE Process
  <2>1. CASE Run \/ Resume \/ SetupDone \/ EnterGroup \/ Complete
    BY <1>3, <2>1 DEF Run, Resume, SetupDone, EnterGroup, Complete, Launch
  <2> QED BY <1>12, <1>13, <2>1 DEF Process
<1>14. CASE ResumeAllPending \/ Rerun
  BY <1>3, <1>14 DEF ResumeAllPending, Rerun, Launch
<1>15. CASE Failure
  <2>1. CASE Stop
    BY <1>3, <2>1 DEF Stop
  <2> QED BY <1>10, <1>15, <2>1 DEF Failure, BadAnswer, Permanent, Retryable
<1> QED BY <1>13, <1>14, <1>15 DEF Next

\* Whatever is interrupted, resumed or rerun, a request is made only for a node without
\* a result, without an answer on record, and that the parent had not succeeded in.
THEOREM NothingIsPaidTwice == Spec => NothingPaidTwice
<1> DEFINE Paid(q, n) == rows[q] # <<>> /\ Len(rows'[q]) = Len(rows[q])
                         /\ rows'[q][Len(rows[q])].tries[n] # Row(q).tries[n]
           Due(q, n) == /\ ~Terminal(q, n) /\ Row(q).answer[n] \in {"none", "refused"}
                        /\ Row(q).parent # NoVersion =>
                               rows[q][Row(q).parent].node[n] # "succeeded"
<1>1. ASSUME IInv, Next, NEW q \in Questions, NEW n \in Nodes, Paid(q, n) PROVE Due(q, n)
  <2>1. Send(q, n)
    BY <1>1, OnlySendAsks
  <2>2. Sound(q, n) /\ ~Answered(q, n)
    BY <2>1 DEF Send
  <2>3. run[q] = "running" /\ ~Terminal(q, n)
    BY <2>2, SoundFacts
  <2>4. /\ Row(q) \in RowType /\ Row(q).parent = Len(rows[q]) - 1
        /\ Len(rows[q]) > 1 => rows[q][Len(rows[q]) - 1].node[n] # "succeeded"
        /\ Len(rows[q]) \in Nat \ {0}
    BY <1>1, <2>3, RunningFacts, OpenFacts
  <2>5. Row(q).answer[n] \in {"none", "refused"}
    BY <2>2, <2>4 DEF Answered, RowType
  <2>6. Row(q).parent # NoVersion => Len(rows[q]) > 1
    <3>1. PICK k \in Nat \ {0} : k = Len(rows[q]) /\ Row(q).parent = k - 1
      BY <2>4
    <3>2. k - 1 # 0 => k > 1
      OBVIOUS
    <3> QED BY <3>1, <3>2 DEF NoVersion
  <2> QED BY <2>3, <2>4, <2>5, <2>6
<1>2. IInv /\ Next => \A q \in Questions : \A n \in Nodes : Paid(q, n) => Due(q, n)
  BY <1>1
<1>3. IInv /\ [Next]_vars => [\A q \in Questions : \A n \in Nodes : Paid(q, n) => Due(q, n)]_vars
  BY <1>2
<1> QED BY <1>3, InvariantHolds, PTL DEF Spec, NothingPaidTwice
===============================================================================
