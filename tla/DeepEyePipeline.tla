-------------------------- MODULE DeepEyePipeline --------------------------
(* The outer orchestration of scripts/baseline_adapters/deepeye/run_pipeline.py: *)
(* questions go through the native stages in order, every stage attempt and the  *)
(* question's master attempt are committed to the run store, and a later process *)
(* restores the committed prefix and continues.  The store is all that survives  *)
(* a crash.                                                                      *)
(*                                                                               *)
(* One process at a time holds the store's writer lock.  Inside it one thread    *)
(* per admitted question executes; the admission loop and the threads interleave *)
(* at every durable write, and the process may die between any two of them.      *)
EXTENDS RunStoreRows

CONSTANTS NItems,       \* the frozen tasks, in order: 1..NItems
          SlotLimit,    \* the slot controller's fixed limit
          MaxRuns,      \* bound: processes started over the store's life
          Modes         \* the resume commands in use

ASSUME NItemsAssumption == NItems \in Nat \ {0}
ASSUME SlotLimitAssumption == SlotLimit \in Nat \ {0}
ASSUME MaxRunsAssumption == MaxRuns \in Nat \ {0}
ASSUME ModesAssumption == Modes \subseteq {"resume", "unfinished_only"}

Items == 1..NItems

NoSlot == -1

VARIABLES attempts,     \* durable: per item, its rows
          runs,         \* processes started so far
          phase,        \* the process: "down" or "up"
          pending,      \* items not yet admitted (deque in task order)
          slot,         \* slot number each item's ticket holds, or NoSlot
          work,         \* per item, the thread executing it
          stop,         \* the recorder's stop event
          halted,       \* a thread raised
          report        \* what the last process reported, if it exited normally

vars == <<attempts, runs, phase, pending, slot, work, stop, halted, report>>

\* Where an item's thread is: the two recovery-seal writes made before any
\* thread starts, then the writes of execute() in order.
SealPCs == {"seal", "sealed"}
LivePCs == {"queued", "begun", "loop", "link", "work", "ending", "closing"}
PCs == SealPCs \cup LivePCs \cup {"idle", "release", "done", "dead"}

Threads == [pc : PCs,
            master : Nat,                \* the master attempt it owns
            at : Nat,                    \* the stage attempt it is running
            chain : Seq(Nat),            \* outputs applied to the item's state
            links : Seq(Nat),            \* the local list of stage links
            status : {"succeeded", "failed", "paused"},
            failedStage : Stages \cup {0}]

\* Mutant: the reused links are not carried into the new master.
Idle_NoReusedLinks(chain) ==
    [pc |-> "idle", master |-> 0, at |-> 0, chain |-> chain,
     links |-> <<>>, status |-> "succeeded", failedStage |-> 0]

Idle(chain) == [pc |-> "idle", master |-> 0, at |-> 0, chain |-> chain,
                links |-> chain, status |-> "succeeded", failedStage |-> 0]

TypeOK ==
    /\ attempts \in [Items -> Seq(Rows)]
    /\ runs \in 0..MaxRuns
    /\ phase \in {"down", "up"}
    /\ pending \subseteq Items
    /\ slot \in [Items -> (0..(SlotLimit - 1)) \cup {NoSlot}]
    /\ work \in [Items -> Threads]
    /\ stop \in BOOLEAN
    /\ halted \in BOOLEAN
    /\ report \in {"none", "complete", "partial"}

Init ==
    /\ attempts = [i \in Items |-> <<>>]
    /\ runs = 0
    /\ phase = "down"
    /\ pending = {}
    /\ slot = [i \in Items |-> NoSlot]
    /\ work = [i \in Items |-> Idle(<<>>)]
    /\ stop = FALSE
    /\ halted = FALSE
    /\ report = "none"

------------------------------------------------------------------------------
(* Restoring the canonical prefix.                                              *)

Prefixes(rows) == UNION {[1..n -> Finished(rows)] : n \in 0..NStages}

\* c holds, stage by stage, the latest commit on top of the ones before it.
Restores(rows, c) ==
    \A k \in 1..Len(c) :
        LET same == EndedOn(rows, k, SubSeq(c, 1, k - 1), "succeeded")
        IN c[k] \in same /\ \A b \in same : b <= c[k]

\* prepare_run accepts the item with prefix c: no commit of a stage was given
\* another input, and none lies beyond the first stage still to run.
Accepts(rows, c) ==
    /\ Restores(rows, c)
    /\ \A k \in 1..Len(c) : \A a \in Ended(rows, k, "succeeded") :
            rows[a].input = SubSeq(c, 1, k - 1)
    /\ \A k \in (Len(c) + 1)..NStages : Ended(rows, k, "succeeded") = {}

Prepared(rows) == \E c \in Prefixes(rows) : Accepts(rows, c)

\* Mutant: the question starts over whatever is committed.
prepare_run_StartOver(rows) == <<>>

prepare_run(rows) == CHOOSE c \in Prefixes(rows) : Accepts(rows, c)

Remaining(c) == Len(c) < NStages

------------------------------------------------------------------------------
(* select_unfinished: which items are terminal, and which interrupted masters    *)
(* may be sealed.                                                               *)

\* Mutant: an attempt cut short counts as a failure.
Failures_Interrupted(rows, c) == EndedOn(rows, Len(c) + 1, c, "interrupted")

Failures(rows, c) == EndedOn(rows, Len(c) + 1, c, "failed")

Outcome(rows, c) ==
    CASE ~Remaining(c) -> "succeeded"
      [] Remaining(c) /\ Failures(rows, c) # {} -> "failed"
      [] OTHER -> "open"

CanonicalLinks(rows, c) ==
    IF Outcome(rows, c) = "failed" THEN Append(c, Latest(Failures(rows, c))) ELSE c

FailedStage(rows, c) == IF Outcome(rows, c) = "failed" THEN Len(c) + 1 ELSE 0

\* The last master is unfinished and its events own the canonical lineage.
Sealable(rows, c) ==
    /\ Masters(rows) # {}
    /\ LET m == rows[Latest(Masters(rows))]
       IN m.status = "interrupted" /\ m.recorded = CanonicalLinks(rows, c)

\* The last master already says what the lineage says.
Settled(rows, c) ==
    /\ Masters(rows) # {}
    /\ LET m == rows[Latest(Masters(rows))]
       IN /\ m.status = Outcome(rows, c)
          /\ m.failedStage = FailedStage(rows, c)
          /\ m.links = CanonicalLinks(rows, c)

\* select_unfinished raises for none of the item's conditions.
Selectable(rows, c) ==
    IF Outcome(rows, c) = "open"
    THEN \A m \in Masters(rows) :
            m = Latest(Masters(rows)) => rows[m].status = "interrupted"
    ELSE Sealable(rows, c) \/ Settled(rows, c)

------------------------------------------------------------------------------
(* A process: open the store with the writer lock, prepare, select, seal, run.  *)

\* Mutant: interrupted masters of terminal lineages are not sealed.
SealSet_Empty(c) == {}

\* The terminal questions whose master was cut short before its finish.
SealSet(c) == {i \in Items :
    /\ Outcome(attempts[i], c[i]) # "open"
    /\ attempts[i][Latest(Masters(attempts[i]))].status = "interrupted"}

\* What the command executes: every task, or the nonterminal ones.
Tasks(mode, c) ==
    IF mode = "unfinished_only"
    THEN {i \in Items : Outcome(attempts[i], c[i]) = "open"} ELSE Items

\* A preparation or selection that raises leaves the store as it was: the
\* process exits, which is a stuttering step, and Resume stays disabled.
Resume(mode) ==
    /\ phase = "down"
    /\ runs < MaxRuns
    /\ \A i \in Items : Prepared(attempts[i])
    /\ LET c == [i \in Items |-> prepare_run(attempts[i])]
           only == mode = "unfinished_only"
           seals == IF only THEN SealSet(c) ELSE {}
       IN /\ only => \A i \in Items : Selectable(attempts[i], c[i])
          /\ pending' = {i \in Tasks(mode, c) : Remaining(c[i])}
          /\ work' = [i \in Items |->
                IF i \in seals
                THEN [pc |-> "seal", master |-> Latest(Masters(attempts[i])),
                      at |-> 0, chain |-> c[i],
                      links |-> CanonicalLinks(attempts[i], c[i]),
                      status |-> Outcome(attempts[i], c[i]),
                      failedStage |-> FailedStage(attempts[i], c[i])]
                ELSE Idle(c[i])]
    /\ runs' = runs + 1
    /\ phase' = "up"
    /\ stop' = FALSE
    /\ halted' = FALSE
    /\ report' = "none"
    /\ UNCHANGED <<attempts, slot>>

Sealing == \E i \in Items : work[i].pc \in SealPCs

NextSeal(i) == /\ work[i].pc \in SealPCs
               /\ \A j \in Items : j < i => work[j].pc \notin SealPCs

SealEvent(i) ==
    /\ NextSeal(i)
    /\ work[i].pc = "seal"
    /\ Open(attempts[i], work[i].master)
    /\ attempts' = [attempts EXCEPT ![i] =
            append_event(@, work[i].master, "pipeline_recovery_seal")]
    /\ work' = [work EXCEPT ![i].pc = "sealed"]
    /\ UNCHANGED <<runs, phase, pending, slot, stop, halted, report>>

SealFinish(i) ==
    /\ NextSeal(i)
    /\ work[i].pc = "sealed"
    /\ Open(attempts[i], work[i].master)
    /\ attempts' = [attempts EXCEPT ![i] =
            finish_attempt(@, work[i].master, work[i].status, work[i].links,
                           work[i].failedStage)]
    /\ work' = [work EXCEPT ![i] = Idle(work[i].chain)]
    /\ UNCHANGED <<runs, phase, pending, slot, stop, halted, report>>

------------------------------------------------------------------------------
(* The admission loop.                                                          *)

Holders == {i \in Items : slot[i] # NoSlot}

\* Mutant: slot numbers in use are not excluded.
FreeSlots_All == 0..(SlotLimit - 1)

FreeSlots == (0..(SlotLimit - 1)) \ {slot[i] : i \in Holders}

\* try_acquire: under the limit, and then the lowest number not in use.
Admit(i) ==
    /\ phase = "up" /\ ~Sealing
    /\ ~stop /\ ~halted
    /\ i \in pending /\ \A j \in pending : i <= j
    /\ Cardinality(Holders) < SlotLimit
    /\ \E n \in FreeSlots : /\ \A k \in FreeSlots : n <= k
                            /\ slot' = [slot EXCEPT ![i] = n]
    /\ pending' = pending \ {i}
    /\ work' = [work EXCEPT ![i].pc = "queued"]
    /\ UNCHANGED <<attempts, runs, phase, stop, halted, report>>

\* Once the stop event is set, what was not admitted is reported as paused.  (A
\* pool that refuses a question because it is stopping sets the event and gives
\* the slot back under the same lock: RequestStop, then this.)
DropPending ==
    /\ phase = "up" /\ ~Sealing
    /\ stop /\ pending # {}
    /\ pending' = {}
    /\ work' = [i \in Items |-> IF i \in pending
                               THEN [work[i] EXCEPT !.pc = "done", !.status = "paused"]
                               ELSE work[i]]
    /\ UNCHANGED <<attempts, runs, phase, slot, stop, halted, report>>

\* The pool has drained: leftover tickets are reclaimed, and unless a thread
\* raised the run reports every task as succeeded, failed or paused.
Exit ==
    /\ phase = "up"
    /\ \A i \in Items : work[i].pc \in {"idle", "done", "dead"}
    /\ pending = {} \/ halted
    /\ phase' = "down"
    /\ pending' = {}
    /\ slot' = [i \in Items |-> NoSlot]
    /\ work' = [i \in Items |-> Idle(<<>>)]
    /\ report' = IF halted THEN "none"
                 ELSE IF \E i \in Items : work[i].status = "paused"
                 THEN "partial" ELSE "complete"
    /\ stop' = FALSE
    /\ halted' = FALSE
    /\ UNCHANGED <<attempts, runs>>

------------------------------------------------------------------------------
(* execute(): one question's thread.                                            *)

ThreadStep(i) == UNCHANGED <<runs, phase, pending, report>> /\ phase = "up"

Raise(i) ==
    /\ work' = [work EXCEPT ![i].pc = "dead"]
    /\ halted' = TRUE
    /\ UNCHANGED <<attempts, slot, stop>>

BeginMaster(i) ==
    /\ work[i].pc = "queued" /\ ~halted
    /\ attempts' = [attempts EXCEPT ![i] = begin_attempt(@, Master, <<>>)]
    /\ work' = [work EXCEPT ![i].pc = "begun",
                            ![i].master = Len(attempts[i]) + 1]
    /\ UNCHANGED <<slot, stop, halted>>
    /\ ThreadStep(i)

\* pipeline_admitted carries the reused links.
RecordAdmission(i) ==
    /\ work[i].pc = "begun"
    /\ Open(attempts[i], work[i].master)
    /\ attempts' = [attempts EXCEPT ![i] =
            append_links(append_event(@, work[i].master, "pipeline_admitted"),
                         work[i].master, work[i].links)]
    /\ work' = [work EXCEPT ![i].pc = "loop"]
    /\ UNCHANGED <<slot, stop, halted>>
    /\ ThreadStep(i)

PauseBeforeStage(i) ==
    /\ work[i].pc = "loop" /\ stop
    /\ work' = [work EXCEPT ![i].pc = "ending", ![i].status = "paused"]
    /\ UNCHANGED <<attempts, slot, stop, halted>>
    /\ ThreadStep(i)

\* A thread that finds another one has raised raises too.
RaiseHalted(i) ==
    /\ halted
    /\ work[i].pc = "queued" \/ (work[i].pc = "loop" /\ ~stop)
    /\ Raise(i)
    /\ ThreadStep(i)

BeginStage(i) ==
    /\ work[i].pc = "loop" /\ ~stop /\ ~halted
    /\ attempts' = [attempts EXCEPT ![i] =
            begin_attempt(@, Len(work[i].chain) + 1, work[i].chain)]
    /\ work' = [work EXCEPT ![i].pc = "link",
                            ![i].at = Len(attempts[i]) + 1,
                            ![i].links = Append(@, Len(attempts[i]) + 1)]
    /\ UNCHANGED <<slot, stop, halted>>
    /\ ThreadStep(i)

\* pipeline_stage_attempt carries the new link; then the native method runs on
\* a deep copy of the item's state.
RecordLink(i) ==
    /\ work[i].pc = "link"
    /\ Open(attempts[i], work[i].master)
    /\ attempts' = [attempts EXCEPT ![i] =
            append_links(@, work[i].master, <<work[i].at>>)]
    /\ work' = [work EXCEPT ![i].pc = "work"]
    /\ UNCHANGED <<slot, stop, halted>>
    /\ ThreadStep(i)

\* The native method returned, and nothing asked to stop meanwhile: the stage
\* is committed as succeeded and its output becomes the item's state.
CommitStage(i) ==
    /\ work[i].pc = "work" /\ ~stop
    /\ Open(attempts[i], work[i].at)
    /\ attempts' = [attempts EXCEPT ![i] =
            finish_attempt(@, work[i].at, "succeeded", <<>>, 0)]
    /\ work' = [work EXCEPT ![i].chain = Append(@, work[i].at),
                            ![i].pc = IF Len(work[i].chain) + 1 < NStages
                                      THEN "loop" ELSE "ending"]
    /\ UNCHANGED <<slot, stop, halted>>
    /\ ThreadStep(i)

\* It raised, or left a required output empty: the copy is dropped.
FailStage(i) ==
    /\ work[i].pc = "work" /\ ~stop
    /\ Open(attempts[i], work[i].at)
    /\ attempts' = [attempts EXCEPT ![i] =
            finish_attempt(@, work[i].at, "failed", <<>>, 0)]
    /\ work' = [work EXCEPT ![i].pc = "ending", ![i].status = "failed",
                            ![i].failedStage = Len(work[i].chain) + 1]
    /\ UNCHANGED <<slot, stop, halted>>
    /\ ThreadStep(i)

\* The stop event is set when the native method returns: whatever it produced
\* is discarded and the stage attempt stays unfinished.
PauseStage(i) ==
    /\ work[i].pc = "work" /\ stop
    /\ Open(attempts[i], work[i].at)
    /\ attempts' = [attempts EXCEPT ![i] =
            append_event(@, work[i].at, "stage_paused")]
    /\ work' = [work EXCEPT ![i].pc = "ending", ![i].status = "paused"]
    /\ UNCHANGED <<slot, stop, halted>>
    /\ ThreadStep(i)

ReleaseIntent(i) ==
    /\ work[i].pc = "ending"
    /\ Open(attempts[i], work[i].master)
    /\ attempts' = [attempts EXCEPT ![i] =
            append_event(@, work[i].master, "pipeline_release_intent")]
    /\ work' = [work EXCEPT ![i].pc = "closing"]
    /\ UNCHANGED <<slot, stop, halted>>
    /\ ThreadStep(i)

\* A paused master gets an event and stays unfinished.
CloseMaster(i) ==
    /\ work[i].pc = "closing"
    /\ Open(attempts[i], work[i].master)
    /\ attempts' = [attempts EXCEPT ![i] =
            IF work[i].status = "paused"
            THEN append_event(@, work[i].master, "pipeline_paused")
            ELSE finish_attempt(@, work[i].master, work[i].status,
                                work[i].links, work[i].failedStage)]
    /\ work' = [work EXCEPT ![i].pc = "release"]
    /\ UNCHANGED <<slot, stop, halted>>
    /\ ThreadStep(i)

\* Mutant: the slot is given back before the outcome is durable.
ReleaseSlot_Early(i) ==
    /\ work[i].pc = "closing"
    /\ slot' = [slot EXCEPT ![i] = NoSlot]
    /\ work' = [work EXCEPT ![i].pc = "done"]
    /\ UNCHANGED <<attempts, stop, halted>>
    /\ ThreadStep(i)

ReleaseSlot(i) ==
    /\ work[i].pc = "release"
    /\ slot' = [slot EXCEPT ![i] = NoSlot]
    /\ work' = [work EXCEPT ![i].pc = "done"]
    /\ UNCHANGED <<attempts, stop, halted>>
    /\ ThreadStep(i)

------------------------------------------------------------------------------
(* What the environment may do.  Faults stop with the last allowed process, so   *)
(* that a behaviour has finitely many of them.                                  *)

FaultsLeft == phase = "up" /\ runs < MaxRuns

\* A stop is requested, by an operator, by a fatal model error or by the native
\* method itself raising SamplingPaused.
RequestStop ==
    /\ FaultsLeft /\ ~stop
    /\ stop' = TRUE
    /\ UNCHANGED <<attempts, runs, phase, pending, slot, work, halted, report>>

\* A store write or the recorder raises inside the thread.
Break(i) ==
    /\ FaultsLeft
    /\ work[i].pc \in LivePCs
    /\ Raise(i)
    /\ ThreadStep(i)

Crash ==
    /\ FaultsLeft
    /\ phase' = "down"
    /\ pending' = {}
    /\ slot' = [i \in Items |-> NoSlot]
    /\ work' = [i \in Items |-> Idle(<<>>)]
    /\ stop' = FALSE
    /\ halted' = FALSE
    /\ UNCHANGED <<attempts, runs, report>>

------------------------------------------------------------------------------

Execute(i) == \/ BeginMaster(i) \/ RecordAdmission(i) \/ PauseBeforeStage(i)
              \/ RaiseHalted(i) \/ BeginStage(i) \/ RecordLink(i)
              \/ CommitStage(i) \/ FailStage(i) \/ PauseStage(i)
              \/ ReleaseIntent(i) \/ CloseMaster(i) \/ ReleaseSlot(i)

Process == \/ \E mode \in Modes : Resume(mode)
           \/ \E i \in Items : SealEvent(i) \/ SealFinish(i) \/ Admit(i)
           \/ DropPending
           \/ Exit

Next == \/ Process
        \/ \E i \in Items : Execute(i) \/ Break(i)
        \/ RequestStop
        \/ Crash

Spec == Init /\ [][Next]_vars

\* Threads and the admission loop are scheduled; the operator, or the campaign
\* controller, resumes until nothing is left.
Fairness == /\ WF_vars(Process)
            /\ \A i \in Items : WF_vars(Execute(i))

FairSpec == Spec /\ Fairness

------------------------------------------------------------------------------
(* Safety                                                                       *)

\* c is a chain of commits: one per stage, each given exactly the ones before.
IsCommitChain(rows, c) ==
    /\ Len(c) <= NStages
    /\ \A k \in 1..Len(c) : /\ c[k] \in Ended(rows, k, "succeeded")
                            /\ rows[c[k]].input = SubSeq(c, 1, k - 1)

\* Across every crash, pause and retry a stage of a question is committed at
\* most once: committed work is restored and never run again.
OneCommit(rows) ==
    \A k \in Stages : \A a, b \in Ended(rows, k, "succeeded") : a = b

OneCommitPerStage == \A i \in Items : OneCommit(attempts[i])

\* Failed or abandoned stage attempts never leak into a later one: what any
\* stage attempt was given is a chain of committed stages ending just before it.
InputsCommitted(rows) ==
    \A a \in DOMAIN rows : rows[a].stage # Master =>
        /\ IsCommitChain(rows, rows[a].input)
        /\ Len(rows[a].input) = rows[a].stage - 1

InputsAreCommitted == \A i \in Items : InputsCommitted(attempts[i])

\* A terminal master's payload is exactly the lineage it stands for: all stages
\* committed in order, or a committed prefix and the failure that ended it.
OwnsLineage(rows, status, links, failedStage) ==
    IF status = "succeeded"
    THEN failedStage = 0 /\ Len(links) = NStages /\ IsCommitChain(rows, links)
    ELSE LET before == SubSeq(links, 1, failedStage - 1)
         IN /\ failedStage \in Stages /\ Len(links) = failedStage
            /\ IsCommitChain(rows, before)
            /\ links[failedStage] \in EndedOn(rows, failedStage, before, "failed")

MastersOwnLineage(rows) ==
    \A a \in Masters(rows) : rows[a].status # "interrupted" =>
        OwnsLineage(rows, rows[a].status, rows[a].links, rows[a].failedStage)

TerminalMastersOwnLineage == \A i \in Items : MastersOwnLineage(attempts[i])

\* The chain c is everything that is committed of the question.
Frontier(rows, c) ==
    /\ IsCommitChain(rows, c)
    /\ \A k \in (Len(c) + 1)..NStages : Ended(rows, k, "succeeded") = {}

\* The attempts a thread has open are its own, and its local links and outcome
\* are the lineage it is about to record.
HoldsItsWork(t, rows) ==
    /\ t.pc \in {"queued", "begun", "loop", "link", "work"} => Remaining(t.chain)
    /\ t.pc \in SealPCs \cup (LivePCs \ {"queued"}) => t.master \in Masters(rows)
    /\ t.pc \in {"idle", "queued", "begun", "loop"} =>
          t.links = t.chain /\ t.status = "succeeded" /\ t.failedStage = 0
    /\ t.pc \in {"link", "work"} =>
          /\ t.links = Append(t.chain, t.at)
          /\ t.status = "succeeded" /\ t.failedStage = 0
          /\ t.at \in DOMAIN rows /\ rows[t.at].stage = Len(t.chain) + 1
          /\ rows[t.at].input = t.chain
    /\ t.pc \in SealPCs => t.status # "paused"
    /\ t.pc \in SealPCs \cup {"ending", "closing"} /\ t.status # "paused" =>
          OwnsLineage(rows, t.status, t.links, t.failedStage)

\* What a process holds in memory agrees with the log.  Together with the type
\* and the three properties above this is inductive.
ThreadConsistent(i) ==
    /\ phase = "down" => work[i].pc = "idle"
    /\ phase = "up" => Frontier(attempts[i], work[i].chain)
    /\ i \in pending => phase = "up" /\ work[i].pc = "idle" /\ Remaining(work[i].chain)
    /\ HoldsItsWork(work[i], attempts[i])

ThreadsConsistent == \A i \in Items : ThreadConsistent(i)

\* Whatever is durable at any moment, the next process would accept it: the
\* prefix of every question can be restored and, where only nonterminal questions
\* are resumed, selection raises for none of them, so a crash anywhere never
\* blocks the whole cohort (run_pipeline.py:85-109, :150-180).
SelectionNeverRefused ==
    \A i \in Items : /\ Prepared(attempts[i])
                     /\ Selectable(attempts[i], prepare_run(attempts[i]))

LastMaster(rows) == rows[Latest(Masters(rows))]

Terminal(rows) == Masters(rows) # {} /\ LastMaster(rows).status # "interrupted"

\* Questions being executed never exceed the slots and never share one.
SlotsExclusive ==
    /\ Cardinality(Holders) <= SlotLimit
    /\ \A i, j \in Holders : slot[i] = slot[j] => i = j
    /\ \A i \in Items : work[i].pc \in LivePCs \cup {"release"} => i \in Holders

\* A slot is given back while the process lives only when the question's
\* outcome, or its pause, is already durable.
ReleasedAfterOutcome ==
    \A i \in Items :
        (slot[i] # NoSlot /\ slot'[i] = NoSlot /\ phase' = "up") =>
            \/ Terminal(attempts[i])
            \/ "pipeline_paused" \in LastMaster(attempts[i]).kinds

\* A question has a slot of its own from its admission until what became of it is
\* durable (run_slots.py:102, run_pipeline.py:397).
SlotsOutlastWork == []SlotsExclusive /\ [][ReleasedAfterOutcome]_vars

------------------------------------------------------------------------------
(* The promise: read off the store, the process implements QuestionLedger.      *)

Ledger == INSTANCE QuestionLedger WITH
    committed <- [i \in Items |->
        {k \in Stages : Ended(attempts[i], k, "succeeded") # {}}],
    failed <- [i \in Items |->
        {k \in Stages : Ended(attempts[i], k, "failed") # {}}],
    outcome <- [i \in Items |->
        IF Terminal(attempts[i]) THEN LastMaster(attempts[i]).status ELSE "open"]

\* Every step of the process, a crash included, is a step of the ledger or
\* leaves it alone; and, faults being finitely many and the store being resumed,
\* every question is carried to its settlement.
ImplementsLedger == Ledger!FairSpec

=============================================================================
