------------------------------- MODULE DinBatch -------------------------------
(* A DIN batch (scripts/rc_evaluation/din_sql/campaign.py and runner.py over      *)
(* scripts/baseline_adapters/din_sql/records.py and transport.py): the commands   *)
(* run, resume, resume --all-pending and rerun, the launch file that remembers    *)
(* their scope, the set-up that recovers interrupted versions and copies what     *)
(* can be reused, the admission of the groups, and the nodes of each question.    *)
(*                                                                                *)
(* A crash, a signal, an error that pauses the dispatcher and a failed write all  *)
(* end the process the same way: what is cancelled adds nothing to the records,   *)
(* a write already in a thread lands before the process ends.                     *)
EXTENDS Integers, Sequences, FiniteSets

CONSTANTS Members,      \* the questions of each group, in group order
          Nested,       \* the questions whose decomposition is asked for
          Outputs,      \* the output nodes (four in the code)
          Legacy,       \* per question, the nodes an import may bring
          Part, Whole,  \* a group admits the next at Part/Whole (4/5 in the code)
          MaxAttempts,  \* requests of a node (settings.max_attempts)
          MaxReruns,    \* bound on rerun commands
          MaxFaults     \* bound on stops, failed requests and bad answers

Groups == DOMAIN Members
Questions == UNION {Members[g] : g \in Groups}
Nodes == {"linking", "decomposition"} \cup Outputs

\* What a node is computed from.
Dependencies(q, n) ==
    CASE n = "linking" -> {}
      [] n = "decomposition" -> IF q \in Nested THEN {"linking"} ELSE {}
      [] n \in {"generation_base", "generation_rc3"} -> {"linking", "decomposition"}
      [] n \in {"revision_base", "revision_rc3"} -> {"generation_base"}

ASSUME BatchAssumption ==
    /\ Members \in Seq(SUBSET Questions) /\ Nested \subseteq Questions
    /\ \A g, h \in Groups : g # h => Members[g] \cap Members[h] = {}
    /\ \A g \in Groups : IsFiniteSet(Members[g])
    /\ Outputs \subseteq {"generation_base", "generation_rc3",
                          "revision_base", "revision_rc3"}
    /\ "generation_base" \in Outputs
    /\ Legacy \in [Questions -> SUBSET Nodes]
    /\ \A q \in Questions : \A n \in Legacy[q] : Dependencies(q, n) \subseteq Legacy[q]
    /\ Part \in Nat \ {0} /\ Whole \in Nat \ {0} /\ Part <= Whole
    /\ MaxAttempts \in Nat \ {0} /\ MaxReruns \in Nat /\ MaxFaults \in Nat

VARIABLES
    \* durable
    rows,      \* per question, its versions
    launch,    \* the launch file: scope, and the parents of a rerun
    \* the process
    phase,     \* "off", "setup" or "on"
    next,      \* the next group to enter
    counts,    \* terminal output nodes, per group and node
    run,       \* per question, its task
    at,        \* per question and node, where the node's task stands
    \* bookkeeping of the model
    asked,     \* per question, the reruns that named it
    promised,  \* per question, the version the last command promised to follow
    refused,   \* the records refused an operation
    reruns, faults

process == <<phase, next, counts, run, at>>
book == <<asked, promised, refused, reruns, faults>>
vars == <<rows, launch, process, book>>

NoVersion == 0
Unstarted == -1     \* the version has no question_start event
Versions == 1..(1 + MaxReruns)

None(S, x) == [s \in S |-> x]

NewRow == [state |-> "open", parent |-> Unstarted, node |-> None(Nodes, "none"),
           given |-> {}, tries |-> None(Nodes, 0), answer |-> None(Nodes, "none")]

Row(q) == rows[q][Len(rows[q])]
Unfinished(q) == rows[q] # <<>> /\ Row(q).state = "open"
Current(q) == IF Unfinished(q) THEN Len(rows[q]) - 1 ELSE Len(rows[q])
Finished(q) == ~Unfinished(q) /\ Current(q) # NoVersion

Terminal(q, n) == rows[q] # <<>> /\ Row(q).node[n] # "none"

GroupOf(q) == CHOOSE g \in Groups : q \in Members[g]
Selected(g) == Members[g] \cap launch.targets

Recorded == [g \in Groups |-> [n \in Outputs |->
                Cardinality({q \in Selected(g) : Terminal(q, n)})]]

RowType ==
    [state : {"open", "succeeded", "failed"},
     parent : {Unstarted, NoVersion} \cup Versions,
     node : [Nodes -> {"none", "succeeded", "failed", "skipped"}],
     given : SUBSET Nodes,
     tries : [Nodes -> 0..MaxAttempts],
     answer : [Nodes -> {"none", "good", "bad", "refused"}]]

TypeOK ==
    /\ \A q \in Questions : /\ Len(rows[q]) \in 0..(1 + MaxReruns)
                            /\ \A v \in DOMAIN rows[q] : rows[q][v] \in RowType
                            /\ \A v \in 1..(Len(rows[q]) - 1) : rows[q][v].state # "open"
    /\ launch \in [launched : BOOLEAN, targets : SUBSET Questions,
                   parents : [Questions -> {NoVersion} \cup Versions]]
    /\ phase \in {"off", "setup", "on"} /\ next \in 1..(Len(Members) + 1)
    /\ \A g \in Groups : \A n \in Outputs : counts[g][n] \in 0..Cardinality(Selected(g))
    /\ run \in [Questions -> {"none", "queued", "begun", "running", "done"}]
    /\ at \in [Questions -> [Nodes -> {"idle", "sent", "answered", "refused", "saved",
                                       "done"}]]
    /\ asked \in [Questions -> 0..MaxReruns] /\ refused \in BOOLEAN
    /\ promised \in [Questions -> {NoVersion} \cup Versions]
    /\ reruns \in 0..MaxReruns /\ faults \in 0..MaxFaults

\* A version the import began for the question, sealed when it brought all outputs.
Imported(q) ==
    [NewRow EXCEPT !.parent = NoVersion, !.given = Legacy[q],
                   !.node = [n \in Nodes |-> IF n \in Legacy[q] THEN "succeeded" ELSE "none"],
                   !.state = IF Outputs \subseteq Legacy[q] THEN "succeeded" ELSE "open"]

NoParents == None(Questions, NoVersion)
NoCounts == None(Groups, None(Outputs, 0))
NoTasks == None(Questions, "none")
AllIdle == None(Questions, None(Nodes, "idle"))

Init ==
    /\ \E hydrated \in SUBSET Questions :
          rows = [q \in Questions |-> IF q \in hydrated THEN <<Imported(q)>> ELSE <<>>]
    /\ launch = [launched |-> FALSE, targets |-> Questions, parents |-> NoParents]
    /\ phase = "off" /\ next = 1 /\ counts = NoCounts /\ run = NoTasks /\ at = AllIdle
    /\ asked = None(Questions, 0) /\ promised = NoParents /\ refused = FALSE /\ reruns = 0 /\ faults = 0

Fault == faults < MaxFaults /\ faults' = faults + 1
Refuse(sound) == refused' = (refused \/ ~sound)
SetRow(q, row) == rows' = [rows EXCEPT ![q][Len(rows[q])] = row]

------------------------------------------------------------------------------
(* Commands                                                                     *)

\* The scope is durable before any version is begun.
Launch(targets, parents) ==
    /\ phase = "off" /\ phase' = "setup"
    /\ launch' = [launched |-> TRUE, targets |-> targets, parents |-> parents]
    /\ UNCHANGED <<rows, next, counts, run, at, refused, faults>>

Run == /\ ~launch.launched /\ Launch(Questions, NoParents)
       /\ UNCHANGED <<asked, promised, reruns>>

\* Mutant: a resumed rerun forgets which of its targets have no version yet.
Kept_None == NoParents

\* The parents of an interrupted rerun are taken over with its scope.
Kept == launch.parents

Resume == /\ launch.launched /\ Launch(launch.targets, Kept)
          /\ UNCHANGED <<asked, promised, reruns>>

\* The scope is every question, and what a rerun had not begun is given up.
ResumeAllPending ==
    /\ launch.launched /\ Launch(Questions, NoParents)
    /\ promised' = NoParents
    /\ UNCHANGED <<asked, reruns>>

\* No unfinished version, and a finished one.
Rerunnable(q) == Finished(q)

Rerun ==
    /\ reruns < MaxReruns /\ reruns' = reruns + 1
    /\ \E targets \in (SUBSET Questions) \ {{}} :
          /\ \A q \in targets : Rerunnable(q)
          /\ promised' = [q \in Questions |-> IF q \in targets THEN Current(q)
                                              ELSE NoVersion]
          /\ Launch(targets, promised')
          /\ asked' = [q \in Questions |-> asked[q] + (IF q \in targets THEN 1 ELSE 0)]

------------------------------------------------------------------------------
(* Set-up: the rest of run_batch, and what schedule does before its loop         *)

Frame == UNCHANGED <<launch, phase, next, asked, promised, reruns>>
SetupFrame == Frame /\ UNCHANGED <<counts, run, at, faults>>

Named(q) == launch.parents[q] # NoVersion

\* Mutant: a question of the rerun that was already sealed gets another version.
Owed_Again(q) == Named(q) /\ ~Unfinished(q)

\* The rerun owes a question a version until one follows the parent it froze.
Owed(q) == Named(q) /\ ~Unfinished(q) /\ Current(q) = launch.parents[q]

BeginRerun(q) ==
    /\ phase = "setup" /\ Owed(q)
    /\ Len(rows[q]) <= MaxReruns + 1        \* a bound only a mutant can reach
    /\ rows' = [rows EXCEPT ![q] = Append(@, NewRow)]
    /\ UNCHANGED refused /\ SetupFrame

\* Mutant: a version found without a start is taken for the question's first.
StartParent_First(q) == IF Named(q) THEN launch.parents[q] ELSE NoVersion

\* A version interrupted before its start event gets one now.
StartParent(q) == IF Named(q) THEN launch.parents[q] ELSE Current(q)

Recover(q) ==
    /\ phase = "setup" /\ q \in launch.targets /\ Unfinished(q)
    /\ Row(q).parent = Unstarted
    /\ SetRow(q, [Row(q) EXCEPT !.parent = StartParent(q)])
    /\ Refuse(Len(rows[q]) = 1 \/ Current(q) # NoVersion)
    /\ SetupFrame

\* The nodes of the parent that succeeded on nodes that are themselves reused.
Reused(q) ==
    LET old == rows[q][Row(q).parent]
        reused[n \in Nodes] == /\ old.node[n] = "succeeded"
                               /\ \A p \in Dependencies(q, n) : reused[p]
    IN {n \in Nodes : reused[n]}

\* Mutant: only versions that have nothing yet are filled.
Missing_Fresh(q) ==
    IF \E n \in Nodes : Terminal(q, n) THEN {} ELSE Reused(q)

Missing(q) == {n \in Reused(q) : ~Terminal(q, n)}

Copying(q) == Unfinished(q) /\ Row(q).parent \notin {Unstarted, NoVersion}

Copy(q, n) ==
    /\ phase = "setup" /\ q \in launch.targets /\ Copying(q)
    /\ n \in Missing(q) /\ \A p \in Dependencies(q, n) : Terminal(q, p)
    /\ SetRow(q, [Row(q) EXCEPT !.node[n] = "succeeded", !.given = @ \cup {n}])
    /\ UNCHANGED refused /\ SetupFrame

\* A rerun refuses an unfinished version of another parent.
Matches(q) == Named(q) /\ Unfinished(q) => Row(q).parent = launch.parents[q]

\* Mutant: what earlier processes recorded is not counted.
Counted_None == NoCounts

Counted == Recorded

SetupDone ==
    /\ phase = "setup" /\ phase' = "on"
    /\ \A q \in launch.targets :
          /\ ~Owed(q)
          /\ Unfinished(q) => Row(q).parent # Unstarted
          /\ Copying(q) => Missing(q) = {}
    /\ Refuse(\A q \in launch.targets : Matches(q))
    /\ counts' = Counted
    /\ UNCHANGED <<rows, launch, next, run, at, asked, promised, reruns, faults>>

------------------------------------------------------------------------------
(* The loop of schedule                                                         *)

\* Mutant: the threshold is rounded down.
Threshold_Floor(total) == (Part * total) \div Whole

Threshold(total) == (Part * total + Whole - 1) \div Whole

ReadyForNext(g, terminal) ==
    \A n \in Outputs : terminal[g][n] >= Threshold(Cardinality(Selected(g)))

\* Groups are entered in order, each when the one before it is ready.
EnterGroup ==
    /\ phase = "on" /\ next \in Groups
    /\ \A q \in Questions : run[q] \notin {"queued", "begun"}
    /\ next > 1 => ReadyForNext(next - 1, counts)
    /\ next' = next + 1
    /\ run' = [q \in Questions |-> IF q \in Selected(next) /\ ~Finished(q) THEN "queued"
                                   ELSE run[q]]
    /\ UNCHANGED <<rows, launch, phase, counts, at, book>>

TaskFrame == Frame /\ UNCHANGED <<counts, at, refused, faults>>

BeginVersion(q) ==
    /\ run[q] = "queued" /\ ~Unfinished(q)
    /\ rows' = [rows EXCEPT ![q] = Append(@, NewRow)]
    /\ run' = [run EXCEPT ![q] = "begun"]
    /\ TaskFrame

StartVersion(q) ==
    /\ run[q] = "begun"
    /\ SetRow(q, [Row(q) EXCEPT !.parent = NoVersion])
    /\ run' = [run EXCEPT ![q] = "running"]
    /\ TaskFrame

ContinueVersion(q) ==
    /\ run[q] = "queued" /\ Unfinished(q)
    /\ run' = [run EXCEPT ![q] = "running"]
    /\ UNCHANGED rows /\ TaskFrame

Complete ==
    /\ phase = "on" /\ next = Len(Members) + 1
    /\ \A q \in Questions : run[q] \in {"none", "done"}
    /\ phase' = "off" /\ next' = 1 /\ counts' = NoCounts /\ run' = NoTasks /\ at' = AllIdle
    /\ UNCHANGED <<rows, launch, book>>

Stop ==
    /\ phase # "off" /\ Fault
    /\ phase' = "off" /\ next' = 1 /\ counts' = NoCounts /\ run' = NoTasks /\ at' = AllIdle
    /\ UNCHANGED <<rows, launch, asked, promised, refused, reruns>>

------------------------------------------------------------------------------
(* The nodes of a question                                                      *)

NodeFrame == Frame /\ UNCHANGED run

Goto(q, n, pc) == at' = [at EXCEPT ![q][n] = pc]

Save(q, n, status) ==
    /\ SetRow(q, [Row(q) EXCEPT !.node[n] = status])
    /\ Refuse(~Terminal(q, n))
    /\ Goto(q, n, "saved")
    /\ UNCHANGED <<counts, faults>> /\ NodeFrame

\* Mutant: a node is executed whether or not the version has its result.
Existing_Never(q, n) == at[q][n] = "done"

\* Nodes that were copied, imported or saved by an earlier process.
Existing(q, n) == Terminal(q, n)

\* The tasks of all dependencies have returned.
Awaited(q, n) ==
    /\ run[q] = "running" /\ at[q][n] = "idle" /\ ~Existing(q, n)
    /\ \A p \in Dependencies(q, n) : Terminal(q, p) /\ at[q][p] # "saved"

\* Mutant: a failed dependency of a dependency_failed one goes unnoticed.
Failing_Failed(q, n) == {p \in Dependencies(q, n) : Row(q).node[p] = "failed"}

Failing(q, n) == {p \in Dependencies(q, n) : Row(q).node[p] # "succeeded"}

DependencyFailed(q, n) ==
    Awaited(q, n) /\ Failing(q, n) # {} /\ Save(q, n, "skipped")

Sound(q, n) == Awaited(q, n) /\ Failing(q, n) = {}
Asked(q, n) == n # "decomposition" \/ q \in Nested

Deterministic(q, n) == Sound(q, n) /\ ~Asked(q, n) /\ Save(q, n, "succeeded")

\* Mutant: what earlier processes recorded is not looked for.
Answered_Never(q, n) == FALSE

\* A successful outcome is on record, of this process or an earlier one.
Answered(q, n) == Row(q).answer[n] \in {"good", "bad"}

Recall(q, n) ==
    /\ Sound(q, n) /\ Asked(q, n) /\ Answered(q, n)
    /\ Goto(q, n, "answered")
    /\ UNCHANGED <<rows, counts, refused, faults>> /\ NodeFrame

Spent(q, n) == Row(q).tries[n] = MaxAttempts

Send(q, n) ==
    /\ Sound(q, n) /\ Asked(q, n) /\ ~Answered(q, n) /\ ~Spent(q, n)
    /\ SetRow(q, [Row(q) EXCEPT !.tries[n] = @ + 1])
    /\ Goto(q, n, "sent")
    /\ UNCHANGED <<counts, refused, faults>> /\ NodeFrame

\* retry_budget_exhausted
GiveUp(q, n) ==
    /\ Sound(q, n) /\ Asked(q, n) /\ ~Answered(q, n) /\ Spent(q, n)
    /\ Goto(q, n, "refused")
    /\ UNCHANGED <<rows, counts, refused, faults>> /\ NodeFrame

Outcome(q, n, answer, pc) ==
    /\ at[q][n] = "sent"
    /\ SetRow(q, [Row(q) EXCEPT !.answer[n] = answer])
    /\ Goto(q, n, pc)
    /\ UNCHANGED <<counts, refused>> /\ NodeFrame

Answer(q, n) == Outcome(q, n, "good", "answered") /\ UNCHANGED faults
BadAnswer(q, n) == Outcome(q, n, "bad", "answered") /\ Fault
Permanent(q, n) == Outcome(q, n, "refused", "refused") /\ Fault
Retryable(q, n) == Outcome(q, n, Row(q).answer[n], "idle") /\ Fault

Parsed(q, n) == at[q][n] = "answered" /\ Row(q).answer[n] = "good"

SaveAnswer(q, n) ==
    /\ at[q][n] \in {"answered", "refused"}
    /\ Save(q, n, IF Parsed(q, n) THEN "succeeded" ELSE "failed")

\* on_terminal, back in the loop
Notify(q, n) ==
    /\ at[q][n] = "saved"
    /\ Goto(q, n, "done")
    /\ counts' = IF n \in Outputs THEN [counts EXCEPT ![GroupOf(q)][n] = @ + 1] ELSE counts
    /\ UNCHANGED <<rows, refused, faults>> /\ NodeFrame

Seal(q) ==
    /\ run[q] = "running"
    /\ \A n \in Nodes : Terminal(q, n) /\ at[q][n] # "saved"
    /\ SetRow(q, [Row(q) EXCEPT !.state =
           IF \A n \in Outputs : Row(q).node[n] = "succeeded" THEN "succeeded" ELSE "failed"])
    /\ run' = [run EXCEPT ![q] = "done"]
    /\ TaskFrame

------------------------------------------------------------------------------

Node(q, n) ==
    \/ DependencyFailed(q, n) \/ Deterministic(q, n) \/ Recall(q, n) \/ Send(q, n)
    \/ GiveUp(q, n) \/ Answer(q, n) \/ SaveAnswer(q, n) \/ Notify(q, n)

Question(q) ==
    \/ BeginRerun(q) \/ Recover(q) \/ BeginVersion(q) \/ StartVersion(q)
    \/ ContinueVersion(q) \/ Seal(q) \/ \E n \in Nodes : Copy(q, n) \/ Node(q, n)

Process ==
    \/ Run \/ Resume \/ SetupDone \/ EnterGroup \/ Complete
    \/ \E q \in Questions : Question(q)

Failure ==
    \/ Stop
    \/ \E q \in Questions, n \in Nodes : BadAnswer(q, n) \/ Permanent(q, n) \/ Retryable(q, n)

Next == Process \/ ResumeAllPending \/ Rerun \/ Failure

Spec == Init /\ [][Next]_vars

\* The event loop runs whatever is ready, requests end, and a batch that stopped is
\* run or resumed.
FairSpec == Spec /\ WF_vars(Process)

------------------------------------------------------------------------------
(* Properties                                                                   *)

\* The records never refuse what the code asks of them: a node is saved once, an
\* interrupted version always has a parent to recover, a rerun finds its own.
NeverRefused == ~refused

\* A rerun gives each of its questions one version, however often it is interrupted
\* and resumed.
OneVersionPerRerun ==
    \A q \in Questions : Len(rows[q]) <= 1 + asked[q]

\* Each version continues the finished one before it; only the newest may lack its
\* start, and only outside the loop or while its task begins.
VersionLineage ==
    \A q \in Questions : \A v \in DOMAIN rows[q] :
        \/ rows[q][v].parent = v - 1
        \/ /\ rows[q][v].parent = Unstarted /\ v = Len(rows[q]) /\ Unfinished(q)
           /\ phase = "on" /\ q \in launch.targets => run[q] = "begun"

\* A rerun keeps what succeeded: no sealed version lost a node of its parent.
SuccessesAreKept ==
    \A q \in Questions : \A v \in 2..Len(rows[q]) : rows[q][v].state # "open" =>
        \A n \in Nodes : rows[q][v - 1].node[n] = "succeeded" =>
            rows[q][v].node[n] = "succeeded" /\ n \in rows[q][v].given

\* No request is made for a node that has an answer on record or a result the
\* version could take from its parent.
NothingPaidTwice ==
    [][\A q \in Questions : \A n \in Nodes :
          (rows[q] # <<>> /\ Len(rows'[q]) = Len(rows[q])
             /\ rows'[q][Len(rows[q])].tries[n] # Row(q).tries[n]) =>
                /\ ~Terminal(q, n) /\ Row(q).answer[n] \in {"none", "refused"}
                /\ Row(q).parent # NoVersion =>
                       rows[q][Row(q).parent].node[n] # "succeeded"]_vars

\* Every result is earned: a success rests on successes and on a good answer, or was
\* taken over; a failure on a bad answer, a refusal or a spent budget; a skipped node
\* on a node that did not succeed.
ResultsAreEarned ==
    \A q \in Questions : \A v \in DOMAIN rows[q] : \A n \in Nodes :
        LET row == rows[q][v]
            sound == \A p \in Dependencies(q, n) : row.node[p] = "succeeded"
        IN CASE row.node[n] = "succeeded" ->
                    sound /\ (n \in row.given \/ row.answer[n] = "good" \/ ~Asked(q, n))
             [] row.node[n] = "failed" ->
                    sound /\ (row.answer[n] \in {"bad", "refused"}
                                \/ row.tries[n] = MaxAttempts)
             [] row.node[n] = "skipped" -> ~sound
             [] OTHER -> TRUE

\* The counts the loop admits by are the records', less the results whose task has
\* not come back to the loop.
CountsMatchRecords ==
    phase = "on" =>
        \A g \in Groups : \A n \in Outputs :
            counts[g][n] + Cardinality({q \in Selected(g) : at[q][n] = "saved"})
                = Recorded[g][n]

\* The share of a group that admits the next one is there, by the records, for every
\* group entered.
GatesHold ==
    \A g \in Groups : 1 < g /\ g < next =>
        \A n \in Outputs :
            Whole * Recorded[g - 1][n] >= Part * Cardinality(Selected(g - 1))

\* The versions of a question form one line of accepted, earned records, however
\* its batches were interrupted, and the loop counts what is in them.
VersionsAreSound ==
    /\ TypeOK
    /\ NeverRefused
    /\ OneVersionPerRerun
    /\ VersionLineage
    /\ SuccessesAreKept
    /\ ResultsAreEarned
    /\ CountsMatchRecords
    /\ GatesHold

\* Faults and reruns being finitely many, every question in scope is finished, those
\* of a rerun by a new version, unless everything was resumed instead.
ScopeSettles ==
    <>[](\A q \in launch.targets : Finished(q) /\ Current(q) > promised[q])
=============================================================================
