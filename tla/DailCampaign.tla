----------------------------- MODULE DailCampaign -----------------------------
(* A DAIL campaign (scripts/rc_evaluation/dail_sql/campaign.py): the commands     *)
(* that run, resume and rerun the questions of a batch, the loop that admits the  *)
(* next group, the task of each question, and what of them is durable -- the      *)
(* index of current_index.py and, of each version, what VersionPort shows of it.  *)
(*                                                                                *)
(* Leases carry no token here: the batch lock lets one process live at a time.    *)
EXTENDS Integers, Sequences, FiniteSets

CONSTANTS PromptModes,  \* the modes every version decides (4 in the code)
          GroupMembers, \* the questions of each group, in group order
          Part, Whole,  \* a group admits the next at Part/Whole (4/5 in the code)
          MaxReruns,    \* bound on rerun commands
          MaxMishaps    \* bound on crashes, interrupts and failing questions

Groups == DOMAIN GroupMembers
Questions == UNION {GroupMembers[g] : g \in Groups}

ASSUME CampaignAssumption ==
    /\ GroupMembers \in Seq(SUBSET Questions)
    /\ \A g, h \in Groups : g # h => GroupMembers[g] \cap GroupMembers[h] = {}
    /\ \A g \in Groups : IsFiniteSet(GroupMembers[g])
    /\ Part \in Nat \ {0} /\ Whole \in Nat \ {0} /\ Part <= Whole
    /\ MaxReruns \in Nat /\ MaxMishaps \in Nat

Versions == 1..(1 + MaxReruns + MaxMishaps)
NoVersion == 0
NoLease == -1

VARIABLES
    \* durable: the records
    begun,      \* per question, how many versions were begun
    decided,    \* per question, the <<version, mode>> that have a result
    sealed,     \* per question, its sealed versions
    \* durable: the index
    assign,     \* per question, its assignment
    lease,      \* per question, the current version its claim expects
    current,    \* per question, the version in force
    outcomes,   \* per question, the <<version, mode>> it recorded
    startedGroups,  \* groups marked as started
    prepared,   \* groups whose preparation is ready
    \* the process
    drive,      \* "off", "on" or "drain"
    rerun,      \* the command reruns its targets
    ready,      \* groups that were prepared when the command began
    counts,     \* terminal modes, per group and mode
    launched,   \* groups whose questions have tasks
    task,       \* per question, its task
    told,       \* per question, the modes this process was notified of
    changed,    \* the event the loop waits for
    \* bookkeeping of the model
    refused,    \* the index refused an operation
    reruns, mishaps

records == <<begun, decided, sealed>>
index == <<assign, lease, current, outcomes, startedGroups>>
process == <<drive, rerun, ready, counts, launched, task, told, changed>>
book == <<refused, reruns, mishaps>>
dailVars == <<records, index, prepared, process, book>>

Pending == {"queued", "begun", "running"}

NoAssignment == [state |-> "none", version |-> NoVersion, first |-> NoVersion]

DailTypeOK ==
    /\ begun \in [Questions -> {NoVersion} \cup Versions]
    /\ \A q \in Questions : /\ decided[q] \subseteq Versions \X PromptModes
                            /\ outcomes[q] \subseteq decided[q]
                            /\ sealed[q] \subseteq 1..begun[q]
    /\ assign \in [Questions -> [state : {"none", "active", "paused", "done"},
                                 version : {NoVersion} \cup Versions,
                                 first : {NoVersion} \cup Versions]]
    /\ lease \in [Questions -> {NoLease, NoVersion} \cup Versions]
    /\ current \in [Questions -> {NoVersion} \cup Versions]
    /\ startedGroups \subseteq prepared /\ prepared \subseteq Groups
    /\ drive \in {"off", "on", "drain"} /\ rerun \in BOOLEAN /\ changed \in BOOLEAN
    /\ ready \subseteq prepared /\ launched \subseteq ready
    /\ task \in [Questions -> Pending \cup {"none", "done", "failed"}]
    /\ told \in [Questions -> SUBSET PromptModes]
    /\ refused \in BOOLEAN /\ reruns \in 0..MaxReruns /\ mishaps \in 0..MaxMishaps

\* What the index shows of a group's modes: only first versions count.
TerminalModes(g, m) ==
    Cardinality({q \in GroupMembers[g] : <<assign[q].first, m>> \in outcomes[q]})

Indexed == [g \in Groups |-> [m \in PromptModes |-> TerminalModes(g, m)]]

DailInit ==
    /\ begun = [q \in Questions |-> NoVersion]
    /\ decided = [q \in Questions |-> {}] /\ sealed = [q \in Questions |-> {}]
    /\ assign = [q \in Questions |-> NoAssignment]
    /\ lease = [q \in Questions |-> NoLease]
    /\ current = [q \in Questions |-> NoVersion]
    /\ outcomes = [q \in Questions |-> {}]
    /\ startedGroups = {} /\ prepared = {}
    /\ drive = "off" /\ rerun = FALSE /\ ready = {} /\ counts = Indexed /\ launched = {}
    /\ task = [q \in Questions |-> "none"] /\ told = [q \in Questions |-> {}]
    /\ changed = FALSE
    /\ refused = FALSE /\ reruns = 0 /\ mishaps = 0

Mishap == mishaps < MaxMishaps /\ mishaps' = mishaps + 1
Refuse(sound) == refused' = (refused \/ ~sound)

------------------------------------------------------------------------------
(* Commands                                                                     *)

\* Another command prepares the groups, at any time.
Prepare(g) ==
    /\ g \notin prepared
    /\ prepared' = prepared \cup {g}
    /\ UNCHANGED <<records, index, process, book>>

BeginCommand(targets) ==
    /\ drive = "off"
    /\ drive' = "on" /\ changed' = TRUE
    /\ ready' = prepared /\ launched' = {} /\ counts' = Indexed
    /\ task' = [q \in Questions |-> IF q \in targets THEN "queued" ELSE "none"]
    /\ told' = [q \in Questions |-> {}]
    /\ UNCHANGED <<records, index, prepared, refused, mishaps>>

\* run and resume differ in nothing the index keeps.
Resume == BeginCommand({}) /\ rerun' = FALSE /\ UNCHANGED reruns

Settled(q) == assign[q].state \in {"none", "done"}

\* Mutant: questions are rerun whatever their assignment.
Rerunnable_Any(q) == TRUE

\* An unfinished assignment must be resumed before its question is rerun.
Rerunnable(q) == Settled(q)

Rerun ==
    /\ reruns < MaxReruns /\ reruns' = reruns + 1
    /\ \E targets \in SUBSET UNION {GroupMembers[g] : g \in prepared} :
          /\ targets # {} /\ \A q \in targets : Rerunnable(q)
          /\ BeginCommand(targets)
    /\ rerun' = TRUE

------------------------------------------------------------------------------
(* The loop of _drive                                                           *)

\* Mutant: the threshold is rounded down.
Threshold_Floor(total) == (Part * total) \div Whole

Threshold(total) == (Part * total + Whole - 1) \div Whole

ReadyForNext(g, terminal) ==
    LET total == Cardinality(GroupMembers[g])
    IN total > 0 /\ \A m \in PromptModes : terminal[g][m] >= Threshold(total)

\* A group once started is entered again; a new one waits for the one before it.
Open(g) ==
    /\ g \in ready
    /\ g \in startedGroups \/ g = 1 \/ ReadyForNext(g - 1, counts)

\* The groups are scanned in order, up to the first that may not be entered.
Admitted == {g \in Groups : \A h \in 1..g : h \in launched \/ Open(h)}

\* What a scan launches takes its first step before the next scan.
Settling == \A q \in Questions : task[q] \notin {"queued", "begun"}

\* The scan enters groups first and then looks at the tasks that ended: one that
\* failed ends the command, and what was just launched never begins.
Scan ==
    LET new == IF rerun THEN {} ELSE Admitted \ launched
        failed == \E q \in Questions : task[q] = "failed"
        entered == UNION {GroupMembers[g] : g \in new}
        pending == entered # {} \/ \E q \in Questions : task[q] \in Pending
    IN /\ drive = "on" /\ changed /\ Settling
       /\ changed' = FALSE
       /\ startedGroups' = startedGroups \cup new
       /\ launched' = launched \cup new
       /\ drive' = IF failed THEN "drain" ELSE IF pending THEN "on" ELSE "off"
       /\ task' = [q \in Questions |->
                      IF q \in entered /\ ~failed THEN "queued" ELSE task[q]]
       /\ UNCHANGED <<records, assign, lease, current, outcomes, prepared, rerun, ready,
                      counts, told, book>>

\* The cancelled tasks are awaited.
Return ==
    /\ drive = "drain" /\ \A q \in Questions : task[q] \notin Pending
    /\ drive' = "off"
    /\ UNCHANGED <<records, index, prepared, rerun, ready, counts, launched, task, told,
                   changed, book>>

------------------------------------------------------------------------------
(* The task of a question                                                       *)

LoopFrame == UNCHANGED <<startedGroups, prepared, drive, rerun, ready, launched, reruns>>

\* The end of a task wakes the loop.
End(q, pc) == task' = [task EXCEPT ![q] = pc] /\ changed' = TRUE

LeaseValid(q) == lease[q] = current[q]
Version(q) == assign[q].version

Unfinished(q) == ~rerun /\ assign[q].state \in {"active", "paused"}

\* Nothing to do.
Skip(q) ==
    /\ task[q] = "queued" /\ ~rerun /\ assign[q].state = "done"
    /\ End(q, "done")
    /\ LoopFrame
    /\ UNCHANGED <<records, assign, lease, current, outcomes, counts, told, refused, mishaps>>

\* The claim of the process that died is taken over with its version.
Recover(q) ==
    /\ task[q] = "queued" /\ Unfinished(q)
    /\ task' = [task EXCEPT ![q] = "running"]
    /\ assign' = [assign EXCEPT ![q].state = "active"]
    /\ Refuse(lease[q] # NoLease /\ LeaseValid(q))
    /\ LoopFrame
    /\ UNCHANGED <<records, lease, current, outcomes, counts, told, changed, mishaps>>

\* The version is begun in the records before the index knows of it.
BeginVersion(q) ==
    /\ task[q] = "queued" /\ ~Unfinished(q) /\ (rerun \/ assign[q].state # "done")
    /\ begun' = [begun EXCEPT ![q] = @ + 1]
    /\ task' = [task EXCEPT ![q] = "begun"]
    /\ LoopFrame
    /\ UNCHANGED <<decided, sealed, assign, lease, current, outcomes, counts, told, changed,
                   refused, mishaps>>

\* The first version is kept for good.
FirstVersion(q) == IF assign[q].state = "none" THEN begun[q] ELSE assign[q].first

Claim(q) ==
    /\ task[q] = "begun"
    /\ IF lease[q] = NoLease
       THEN /\ lease' = [lease EXCEPT ![q] = current[q]]
            /\ assign' = [assign EXCEPT ![q] = [state |-> "active", version |-> begun[q],
                                                first |-> FirstVersion(q)]]
            /\ task' = [task EXCEPT ![q] = "running"]
            /\ UNCHANGED <<changed, refused>>
       ELSE /\ End(q, "failed") /\ Refuse(FALSE)
            /\ UNCHANGED <<lease, assign>>
    /\ LoopFrame
    /\ UNCHANGED <<records, current, outcomes, counts, told, mishaps>>

Running(q) == task[q] = "running"

\* The version decides a mode: a write that is drained when the task is cancelled.
Decide(q, m) ==
    /\ Running(q) /\ Version(q) \notin sealed[q] /\ <<Version(q), m>> \notin decided[q]
    /\ decided' = [decided EXCEPT ![q] = @ \cup {<<Version(q), m>>}]
    /\ LoopFrame
    /\ UNCHANGED <<begun, sealed, assign, lease, current, outcomes, counts, task, told,
                   changed, refused, mishaps>>

\* Mutant: every notification counts.
Counted_Always(q, m) == TRUE

\* A mode counts once, and only in the first version of its question.
Counted(q, m) ==
    <<Version(q), m>> \notin outcomes[q] /\ assign[q].first = Version(q)

\* Mutant: a recorded mode wakes nobody.
Woken_Never == changed

Woken == TRUE

GroupOf(q) == CHOOSE g \in Groups : q \in GroupMembers[g]

\* Mutant: the modes of a version found sealed are not replayed.
Known_Unsealed(q, m) ==
    <<Version(q), m>> \in decided[q] /\ Version(q) \notin sealed[q]

Known(q, m) == <<Version(q), m>> \in decided[q]

\* The process learns of a decided mode, those of earlier processes included.
Notify(q, m) ==
    /\ Running(q) /\ drive = "on"
    /\ Known(q, m) /\ m \notin told[q]
    /\ told' = [told EXCEPT ![q] = @ \cup {m}]
    /\ outcomes' = [outcomes EXCEPT ![q] = @ \cup {<<Version(q), m>>}]
    /\ counts' = IF Counted(q, m) THEN [counts EXCEPT ![GroupOf(q)][m] = @ + 1] ELSE counts
    /\ changed' = Woken
    /\ Refuse(LeaseValid(q))
    /\ LoopFrame
    /\ UNCHANGED <<records, assign, lease, current, task, mishaps>>

Seal(q) ==
    /\ Running(q) /\ Version(q) \notin sealed[q] /\ told[q] = PromptModes
    /\ sealed' = [sealed EXCEPT ![q] = @ \cup {Version(q)}]
    /\ LoopFrame
    /\ UNCHANGED <<begun, decided, assign, lease, current, outcomes, counts, task, told,
                   changed, refused, mishaps>>

\* Mutant: a version is published once all of its modes are known.
Replayed_Unsealed(q) == told[q] = PromptModes

\* A version found sealed has its modes replayed before it is published.
Replayed(q) == Version(q) \in sealed[q] /\ told[q] = PromptModes

Finish(q) ==
    /\ Running(q) /\ drive = "on" /\ Replayed(q)
    /\ current' = [current EXCEPT ![q] = Version(q)]
    /\ lease' = [lease EXCEPT ![q] = NoLease]
    /\ assign' = [assign EXCEPT ![q].state = "done"]
    /\ End(q, "done")
    /\ Refuse(LeaseValid(q))
    /\ LoopFrame
    /\ UNCHANGED <<records, outcomes, counts, told, mishaps>>

\* Mutant: only a question that fails on its own is recorded as paused.
Paused_Failed(q) == IF drive = "on" THEN "paused" ELSE assign[q].state

Paused(q) == "paused"

\* The claim stays with a paused question.
Pause(q) ==
    /\ assign' = [assign EXCEPT ![q].state = Paused(q)]
    /\ End(q, "failed")
    /\ Refuse(LeaseValid(q))
    /\ LoopFrame
    /\ UNCHANGED <<records, lease, current, outcomes, counts, told>>

\* Its version pauses or raises.
Fail(q) == Running(q) /\ drive = "on" /\ Mishap /\ Pause(q)

Unwind(q) == Running(q) /\ drive = "drain" /\ Pause(q) /\ UNCHANGED mishaps

------------------------------------------------------------------------------

\* SIGTERM cancels the loop.
Interrupt ==
    /\ drive = "on" /\ Settling /\ Mishap
    /\ drive' = "drain"
    /\ UNCHANGED <<records, index, prepared, rerun, ready, counts, launched, task, told,
                   changed, refused, reruns>>

Crash ==
    /\ drive # "off" /\ Mishap
    /\ drive' = "off"
    /\ task' = [q \in Questions |-> "none"]
    /\ UNCHANGED <<records, index, prepared, rerun, ready, counts, launched, told, changed,
                   refused, reruns>>

Question(q) ==
    \/ Skip(q) \/ Recover(q) \/ BeginVersion(q) \/ Claim(q)
    \/ \E m \in PromptModes : Decide(q, m) \/ Notify(q, m)
    \/ Seal(q) \/ Finish(q) \/ Unwind(q)

Process == Resume \/ Scan \/ Return \/ \E q \in Questions : Question(q)

DailFailure == Interrupt \/ Crash \/ \E q \in Questions : Fail(q)

Preparation == \E g \in Groups : Prepare(g)

DailNext == Process \/ Rerun \/ DailFailure \/ Preparation

DailSpec == DailInit /\ [][DailNext]_dailVars

\* The event loop runs whatever is ready, the campaign is resumed when it has
\* stopped, and every group is prepared in the end.
FairDail == DailSpec /\ WF_dailVars(Process) /\ WF_dailVars(Preparation)

------------------------------------------------------------------------------
(* Properties                                                                   *)

\* The index never refuses a claim, a recovery, a mode, a publication or a pause:
\* whatever a crash left is taken over by the next process.
NeverRefused == ~refused

\* The counts the loop decides by are those of the index, through replayed
\* notifications, recoveries and reruns.
CountsMatchIndex == drive # "off" => counts = Indexed

\* A group was started only when the one before it was ready by its first versions,
\* and by what is durable still is.
GatesHold ==
    \A g \in startedGroups : g = 1 \/
        /\ g - 1 \in startedGroups
        /\ \A m \in PromptModes :
               Whole * TerminalModes(g - 1, m) >= Part * Cardinality(GroupMembers[g - 1])

\* When the loop waits, there is nothing it would do: no group to enter, no failure
\* to raise, and a task to wait for.
WaitsForSomething ==
    drive = "on" /\ ~changed =>
        /\ rerun \/ Admitted \subseteq launched
        /\ \A q \in Questions : task[q] # "failed"
        /\ \E q \in Questions : task[q] \in Pending

\* The version in force is sealed and the index holds all of its modes.
CurrentIsComplete ==
    \A q \in Questions : current[q] # NoVersion =>
        current[q] \in sealed[q] /\ \A m \in PromptModes : <<current[q], m>> \in outcomes[q]

\* A command that returns leaves none of its questions active.
ReturnedQuestionsRest ==
    drive = "off" => \A q \in Questions :
        task[q] \in {"done", "failed"} => assign[q].state # "active"

\* The index, the versions and the memory of the command agree across crashes,
\* replays and reruns.
IndexIsSound ==
    /\ DailTypeOK
    /\ NeverRefused
    /\ CountsMatchIndex
    /\ GatesHold
    /\ CurrentIsComplete
    /\ ReturnedQuestionsRest

\* Faults being finitely many, every question is answered, by the version that was
\* assigned last.
CampaignSettles ==
    <>[](\A q \in Questions : assign[q].state = "done" /\ current[q] = Version(q))
=============================================================================
