------------------------- MODULE ContractGeneration -------------------------
(* The files of one dataset split and the commands that fill them:               *)
(* scripts/generate_rc.py writes rc.json (rounds 1 and 2, and with --round3 the   *)
(* correction by gold SQL), scripts/prepare_rc_gold.py writes the gold file, and  *)
(* scripts/filter_meta.py writes the filtered metadata from the corrected         *)
(* contracts.  A command reads its inputs once, keeps a thread per question in    *)
(* flight, and rewrites its whole output after each answer; it may die anywhere   *)
(* and be run again.  The dataset may be revised meanwhile.                       *)
(*                                                                               *)
(* A version of a question stands for its question and evidence; the contract of  *)
(* a round is represented by the version it was generated from, so that a contract *)
(* left beside one it does not derive from is seen.  A revision changes the        *)
(* question: one of the evidence alone, which the match of the gold file does not  *)
(* see, and one of the database, which the filter refuses, are left out.  What the *)
(* model answers, and whether it parses, is success or failure.                   *)
EXTENDS Integers, FiniteSets

CONSTANTS NItems,         \* the questions the split may contain: 1..NItems
          InitialLimit,   \* --concurrency
          MaxConcurrency, \* the code's 2000
          Growth,         \* what a second may add to the limit: the code's 40..60
          MaxAttempts,    \* requests for one round in one command: the code's 3
          MaxEdits,       \* bound: questions revised or dropped
          MaxRuns         \* bound: commands run

ASSUME NItemsAssumption == NItems \in Nat \ {0}
ASSUME LimitAssumption == /\ InitialLimit \in Nat \ {0}
                          /\ MaxConcurrency \in Nat
                          /\ InitialLimit <= MaxConcurrency
ASSUME GrowthAssumption == Growth \subseteq Nat \ {0}
ASSUME MaxAttemptsAssumption == MaxAttempts \in Nat \ {0}
ASSUME BoundsAssumption == MaxEdits \in Nat /\ MaxRuns \in Nat

Items == 1..NItems
Rounds == 1..3
Filter == 4              \* the requests of filter_meta.py, as one more round

Versions == 1..(MaxEdits + 1)
None == 0

Commands == {"generate", "round3", "filter"}
Statuses == {"absent", "succeeded", "failed", "blocked_round1"}

\* A record of rc.json: the version it was made for, and each round's status and
\* contract.
Records == [text : Versions \cup {None},
            status : [Rounds -> Statuses],
            contract : [Rounds -> Versions \cup {None}]]

NoRecord == [text |-> None, status |-> [k \in Rounds |-> "absent"],
             contract |-> [k \in Rounds |-> None]]

VARIABLES listed,       \* durable: the questions in the split's file
          text,         \* durable: the version of each
          gold,         \* durable: the version each gold row was matched to, or None
          file,         \* durable: rc.json
          filtered,     \* durable: per question, its filtering outcome
          cmd,          \* the command running, or "none"
          given,        \* the versions the last command read, None if not listed
          memory,       \* its records, or its filtering outcomes
          todo,         \* what it has still to submit
          limit,        \* the ramping limit
          worker,       \* per question, the future in flight
          batch,        \* futures found done and not yet saved
          returned,     \* the last command ended by itself
          edits, runs

dataset == <<listed, text, gold, edits>>
outputs == <<file, filtered>>
process == <<cmd, given, memory, todo, limit, worker, batch, returned, runs>>
vars == <<dataset, outputs, process>>

\* A future waits for a permit, has a request out, or has returned a record.
Workers == [pc : {"none", "ask", "call", "done"}, round : 1..Filter,
            attempt : 1..MaxAttempts, rec : Records,
            won : BOOLEAN]          \* how its last request ended

NoWorker == [pc |-> "none", round |-> 1, attempt |-> 1, rec |-> NoRecord,
             won |-> FALSE]

Outcomes == {"absent", "succeeded", "failed"}

TypeOK ==
    /\ listed \subseteq Items
    /\ text \in [Items -> Versions]
    /\ gold \in [Items -> Versions \cup {None}]
    /\ file \in [Items -> Records]
    /\ filtered \in [Items -> Outcomes]
    /\ cmd \in Commands \cup {"none"}
    /\ given \in [Items -> Versions \cup {None}]
    /\ memory \in [Items -> Records]
    /\ todo \subseteq Items
    /\ limit \in 1..MaxConcurrency
    /\ worker \in [Items -> Workers]
    /\ batch \subseteq Items
    /\ returned \in Commands \cup {"none"}
    /\ edits \in 0..MaxEdits /\ runs \in 0..MaxRuns

\* rc.json as data/ ships it: every question corrected.
Released == [i \in Items |-> [text |-> 1, status |-> [k \in Rounds |-> "succeeded"],
                             contract |-> [k \in Rounds |-> 1]]]

Init ==
    /\ listed = Items
    /\ text = [i \in Items |-> 1]
    /\ gold = [i \in Items |-> None]
    /\ file \in {[i \in Items |-> NoRecord], Released}
    /\ filtered = [i \in Items |-> "absent"]
    /\ cmd = "none"
    /\ given = [i \in Items |-> None]
    /\ memory = [i \in Items |-> NoRecord]
    /\ todo = {}
    /\ limit = InitialLimit
    /\ worker = [i \in Items |-> NoWorker]
    /\ batch = {}
    /\ returned = "none"
    /\ edits = 0 /\ runs = 0

------------------------------------------------------------------------------
(* What may be kept of an earlier command.                                      *)

\* _has_reusable_round1, 2 and 3: each checks the one before it, and the first
\* that the record is of the question as it is now.
Reusable(rec, v, k) ==
    /\ rec.text = v
    /\ \A j \in 1..k : rec.status[j] = "succeeded"

\* Mutant: a question is done when its three rounds are.
Unfinished_Uncorrected(rec, v) == ~Reusable(rec, v, 3)

\* What rounds 1 and 2 have still to do for a question.
Unfinished(rec, v) == rec.status[2] = "failed" \/ ~Reusable(rec, v, 2)

Uncorrected(rec, v) == rec.status[3] = "failed" \/ ~Reusable(rec, v, 3)

\* The order of submission: recovery, then what lacks round 2, then new
\* questions; failed corrections before new ones.
Class(rec, v) ==
    CASE cmd = "generate" /\ rec.text = None -> 3
      [] cmd = "generate" /\ rec.text # None ->
            IF ~Reusable(rec, v, 1) \/ rec.status[2] = "failed" THEN 1 ELSE 2
      [] cmd = "round3" -> IF rec.status[3] = "failed" THEN 1 ELSE 2
      [] OTHER -> 1

Before(i, j) ==
    LET a == Class(memory[i], given[i])
        b == Class(memory[j], given[j])
    IN a < b \/ (a = b /\ i <= j)

First(i) == i \in todo /\ \A j \in todo : Before(i, j)

------------------------------------------------------------------------------
(* Starting a command.  One that refuses its inputs leaves everything as it was. *)

Launch(command, versions, records, work) ==
    /\ cmd = "none" /\ runs < MaxRuns
    /\ cmd' = command
    /\ given' = versions
    /\ memory' = records
    /\ todo' = work
    /\ limit' = InitialLimit
    /\ worker' = [i \in Items |-> NoWorker]
    /\ batch' = {}
    /\ returned' = "none"
    /\ runs' = runs + 1
    /\ UNCHANGED <<dataset, outputs>>

Read(S) == [i \in Items |-> IF i \in S THEN text[i] ELSE None]

\* Records of questions the split no longer has are left out.
Generate ==
    Launch("generate", Read(listed),
           [i \in Items |-> IF i \in listed THEN file[i] ELSE NoRecord],
           {i \in listed : Unfinished(file[i], text[i])})

Referenced == {i \in Items : gold[i] # None}

\* Every selected question needs a reusable round 2, or none is corrected.
Correctable(S) == \A i \in S : Reusable(file[i], text[i], 2)

\* Mutant: the output is made of the selected records only.
Correct_SelectedOnly(partial) ==
    LET S == Referenced
        work == {i \in S : Uncorrected(file[i], text[i])}
    IN /\ S \subseteq listed /\ (partial \/ S = listed)
       /\ \A i \in S : gold[i] = text[i]
       /\ Correctable(S)
       /\ work # {}
       /\ Launch("round3", Read(S), [i \in Items |-> IF i \in S THEN file[i] ELSE NoRecord], work)

\* The gold file selects the questions: all of the split unless partial gold is
\* allowed, none outside it, and each matched to the question as it is.  Every
\* record is kept in memory, the ones outside the split included.  Nothing to do
\* returns at once.
Correct(partial) ==
    LET S == Referenced
        work == {i \in S : Uncorrected(file[i], text[i])}
    IN /\ S \subseteq listed /\ (partial \/ S = listed)
       /\ \A i \in S : gold[i] = text[i]
       /\ Correctable(S)
       /\ work # {}
       /\ Launch("round3", Read(S), file, work)

\* Mutant: filtering starts over.
Unfiltered_All(i) == TRUE

Unfiltered(i) == filtered[i] # "succeeded"

\* filter_meta.py needs rc.json, whatever is in it.
StartFilter ==
    /\ \E i \in Items : file[i] # NoRecord
    /\ Launch("filter", Read(listed), file, {i \in listed : Unfiltered(i)})

------------------------------------------------------------------------------
(* The main thread: fill the free places, wait, save what is done, fill again.   *)

Running == cmd # "none"

Futures == {i \in Items : worker[i].pc # "none"}

Asking == {i \in Items : worker[i].pc = "call" /\ worker[i].round # Filter}

\* Mutant: one more than the limit.
Places_OneMore == limit + 1 - Cardinality(Futures)

Places == limit - Cardinality(Futures)

CanFill == todo # {} /\ Places > 0

\* Mutant: what the new attempt does not redo is carried over.
Begin_KeepOld(i) ==
    IF Reusable(memory[i], given[i], 1)
    THEN [round |-> 2, rec |-> memory[i]]
    ELSE [round |-> 1, rec |-> [memory[i] EXCEPT !.text = given[i]]]

\* A record is made anew, from round 1 unless that can be kept; what stood
\* behind it, a correction included, is gone.
Begin(i) ==
    LET blank == [NoRecord EXCEPT !.text = given[i]]
        old == memory[i].contract[1]
    IN IF Reusable(memory[i], given[i], 1)
       THEN [round |-> 2, rec |-> [blank EXCEPT !.status[1] = "succeeded",
                                                !.contract[1] = old]]
       ELSE [round |-> 1, rec |-> blank]

Job(i) == CASE cmd = "generate" -> Begin(i)
            [] cmd = "round3" -> [round |-> 3, rec |-> memory[i]]
            [] cmd = "filter" -> [round |-> Filter, rec |-> memory[i]]

\* filter_meta.py builds every prompt before the first request; a question whose
\* contract was not corrected fails there.
Promptable(i) == memory[i].status[3] = "succeeded"

Rejected == {i \in todo : cmd = "filter" /\ ~Promptable(i)}

SaveFiltered(i, outcome) ==
    filtered' = [j \in Items |-> IF j = i THEN outcome
                                ELSE IF given[j] = None THEN "absent" ELSE filtered[j]]

RejectPrompt(i) ==
    /\ i \in Rejected /\ \A j \in Rejected : i <= j
    /\ todo' = todo \ {i}
    /\ SaveFiltered(i, "failed")
    /\ UNCHANGED <<dataset, file, cmd, given, memory, limit, worker, batch, returned, runs>>

Submit(i) ==
    /\ Running /\ batch = {} /\ Rejected = {}
    /\ CanFill /\ First(i)
    /\ todo' = todo \ {i}
    /\ worker' = [worker EXCEPT ![i] =
            [pc |-> "ask", round |-> Job(i).round, attempt |-> 1, rec |-> Job(i).rec,
             won |-> FALSE]]
    /\ UNCHANGED <<dataset, outputs, cmd, given, memory, limit, batch, returned, runs>>

\* Mutant: answers are looked at only when the pool is full.
Collect_WhenFull ==
    /\ Running /\ batch = {} /\ Places = 0
    /\ batch' = {i \in Items : worker[i].pc = "done"}
    /\ batch' # {}
    /\ UNCHANGED <<dataset, outputs, cmd, given, memory, todo, limit, worker, returned, runs>>

\* wait() returns with whatever is done by then.
Collect ==
    /\ Running /\ batch = {} /\ ~CanFill
    /\ batch' = {i \in Items : worker[i].pc = "done"}
    /\ batch' # {}
    /\ UNCHANGED <<dataset, outputs, cmd, given, memory, todo, limit, worker, returned, runs>>

\* One future of the batch: its record is taken and the whole output rewritten.
Save(i) ==
    /\ i \in batch
    /\ batch' = batch \ {i}
    /\ worker' = [worker EXCEPT ![i] = NoWorker]
    /\ IF cmd = "filter"
       THEN /\ SaveFiltered(i, IF worker[i].won THEN "succeeded" ELSE "failed")
            /\ UNCHANGED <<file, memory>>
       ELSE /\ memory' = [memory EXCEPT ![i] = worker[i].rec]
            /\ file' = memory'
            /\ UNCHANGED filtered
    /\ UNCHANGED <<dataset, cmd, given, todo, limit, returned, runs>>

\* Mutant: the command ends when everything is submitted.
Drained_Submitted == todo = {} /\ batch = {}

Drained == todo = {} /\ Futures = {} /\ batch = {}

\* The process and its threads are no more.
Gone ==
    /\ memory' = [i \in Items |-> NoRecord]
    /\ todo' = {} /\ batch' = {}
    /\ limit' = InitialLimit
    /\ worker' = [i \in Items |-> NoWorker]

\* Rounds 1 and 2 and the filter write once more at the end.
Return ==
    /\ Running /\ Drained
    /\ file' = IF cmd = "generate" THEN memory ELSE file
    /\ filtered' = IF cmd = "filter"
                   THEN [j \in Items |-> IF given[j] = None THEN "absent" ELSE filtered[j]]
                   ELSE filtered
    /\ cmd' = "none"
    /\ returned' = cmd
    /\ Gone
    /\ UNCHANGED <<dataset, given, runs>>

\* RampConcurrency.grow and the loop of filter_meta.py, each second.
Grow(g) ==
    /\ Running /\ limit < MaxConcurrency
    /\ limit' = IF limit + g < MaxConcurrency THEN limit + g ELSE MaxConcurrency
    /\ UNCHANGED <<dataset, outputs, cmd, given, memory, todo, worker, batch, returned, runs>>

------------------------------------------------------------------------------
(* A future's thread.                                                           *)

Work(i, w) ==
    /\ worker' = [worker EXCEPT ![i] = w]
    /\ UNCHANGED <<dataset, outputs, cmd, given, memory, todo, limit, batch, returned, runs>>

\* RampConcurrency.acquire; the filter has no permits.
Acquire(i) ==
    /\ worker[i].pc = "ask"
    /\ worker[i].round # Filter => Cardinality(Asking) < limit
    /\ Work(i, [worker[i] EXCEPT !.pc = "call"])

Settle(i, k, status, contract) ==
    [worker[i].rec EXCEPT !.status[k] = status, !.contract[k] = contract]

\* A request succeeds: round 2 follows round 1 in the same thread.
Succeed(i) ==
    /\ worker[i].pc = "call"
    /\ LET k == worker[i].round
       IN IF k = Filter THEN Work(i, [worker[i] EXCEPT !.pc = "done", !.won = TRUE])
          ELSE Work(i, [pc |-> IF k = 1 THEN "ask" ELSE "done",
                        round |-> IF k = 1 THEN 2 ELSE k,
                        attempt |-> IF k = 1 THEN 1 ELSE worker[i].attempt,
                        rec |-> Settle(i, k, "succeeded", given[i]), won |-> TRUE])

FailedRecord(i) ==
    LET k == worker[i].round
        failed == Settle(i, k, "failed", None)
    IN IF k = 1 THEN [failed EXCEPT !.status[2] = "blocked_round1"] ELSE failed

\* It fails, at the model or in the parser; after a pause it is made again, and
\* after the last attempt the failure is the record.
Fail(i) ==
    /\ worker[i].pc = "call"
    /\ IF worker[i].attempt < MaxAttempts
       THEN Work(i, [worker[i] EXCEPT !.pc = "ask", !.attempt = @ + 1])
       ELSE Work(i, [worker[i] EXCEPT !.pc = "done", !.won = FALSE,
                        !.rec = IF worker[i].round = Filter THEN @ ELSE FailedRecord(i)])

------------------------------------------------------------------------------
(* The rest of the world.                                                       *)

\* The process dies, or a write or an interrupt ends it: what is in flight, or
\* answered and not saved, is lost.
Crash ==
    /\ Running /\ runs < MaxRuns
    /\ cmd' = "none"
    /\ given' = Read({})
    /\ Gone
    /\ UNCHANGED <<dataset, outputs, returned, runs>>

\* The split is preprocessed again: a question is revised or dropped, or one that
\* was dropped is restored.
Revise(i) ==
    /\ \/ /\ edits < MaxEdits /\ edits' = edits + 1
          /\ \/ text' = [text EXCEPT ![i] = @ + 1] /\ UNCHANGED listed
             \/ i \in listed /\ listed # {i} /\ listed' = listed \ {i} /\ UNCHANGED text
       \/ i \notin listed /\ listed' = listed \cup {i} /\ UNCHANGED <<text, edits>>
    /\ UNCHANGED <<gold, outputs, process>>

\* prepare_rc_gold.py: a row for each question matched to reference SQL; the
\* others are reported as missing or excluded.  Only the start of a correction
\* reads it, so it is enough to write it between commands.
PrepareGold(ready) ==
    /\ cmd = "none"
    /\ gold' = [i \in Items |-> IF i \in ready THEN text[i] ELSE None]
    /\ gold' # gold
    /\ UNCHANGED <<listed, text, edits, outputs, process>>

Main == \/ \E i \in Items : RejectPrompt(i) \/ Submit(i) \/ Save(i)
        \/ Collect
        \/ Return

Thread(i) == Acquire(i) \/ Succeed(i) \/ Fail(i)

Next == \/ Generate
        \/ \E partial \in BOOLEAN : Correct(partial)
        \/ StartFilter
        \/ Main
        \/ \E g \in Growth : Grow(g)
        \/ \E i \in Items : Thread(i) \/ Revise(i)
        \/ \E ready \in SUBSET listed : PrepareGold(ready)
        \/ Crash

Spec == Init /\ [][Next]_vars

\* The loop runs and requests end; nothing is assumed of the operator.
FairSpec == Spec /\ WF_vars(Main \/ \E i \in Items : Thread(i))

------------------------------------------------------------------------------
(* Properties                                                                   *)

\* A record never mixes generations: the contract of a round stands only on the
\* rounds before it, all made from the same question, the one the record names
\* (generate_rc.py:840-905, :931-943).
Derived(rec) ==
    /\ \A k \in Rounds : (rec.status[k] = "succeeded") = (rec.contract[k] # None)
    /\ \A k \in Rounds : rec.contract[k] # None => rec.contract[k] = rec.text
    /\ \A k \in 2..3 : rec.contract[k] # None => rec.contract[k - 1] # None

LineageHolds == \A i \in Items : Derived(file[i])

\* No request is made for an answer that is already in the file for the same
\* question, across crashes and commands (generate_rc.py:235-244, :360-371,
\* filter_meta.py:168).
NothingPaidTwice ==
    \A i \in Items : worker[i].pc = "call" =>
        IF worker[i].round = Filter THEN filtered[i] # "succeeded"
        ELSE ~Reusable(file[i], given[i], worker[i].round)

\* The pool never holds more questions than the limit allows requests, so that
\* acquire() waits for nobody: a thread between two rounds, or back from a pause,
\* finds its permit (generate_rc.py:753, :799, :67).
NobodyQueuesForAPermit ==
    \A i \in Items : worker[i].pc = "ask" /\ cmd # "filter" => Cardinality(Asking) < limit

\* A command that ends by itself has recorded an outcome, for the version it
\* read, of every question it was given (generate_rc.py:769-779, :268).
ReturnedIsSettled ==
    /\ returned = "generate" => \A i \in Items : given[i] # None =>
            file[i].text = given[i] /\ file[i].status[2] # "absent"
    /\ returned = "round3" => \A i \in Items : given[i] # None =>
            file[i].text = given[i] /\ file[i].status[3] # "absent"
    /\ returned = "filter" => \A i \in Items : given[i] # None => filtered[i] # "absent"

\* The file is consistent after every write, and no command asks for what is in it
\* or leaves out what it was given.
FileIsSound ==
    /\ TypeOK
    /\ LineageHolds
    /\ NothingPaidTwice
    /\ NobodyQueuesForAPermit
    /\ ReturnedIsSettled

\* Whatever command runs, fails or dies, a round that succeeded for the question
\* as it stands stays so while the question is neither revised nor dropped, and so
\* does a filtering that succeeded.  Only a question that comes back to the split
\* while a command runs that read the split without it may lose them
\* (generate_rc.py:220-244, :365, filter_meta.py:144).
SuccessesAreKept ==
    \A i \in listed \cap listed' :
        text'[i] = text[i] /\ (cmd = "none" \/ given[i] # None) =>
        /\ \A k \in Rounds : Reusable(file[i], text[i], k) => Reusable(file'[i], text[i], k)
        /\ filtered[i] = "succeeded" => filtered'[i] = "succeeded"

\* The correction preserves every record it was not asked to correct, also of
\* questions the split no longer has, and of those it corrects the two rounds
\* before (generate_rc.py:339, :932).
OthersArePreserved ==
    cmd = "round3" => \A i \in Items :
        /\ given[i] = None => file'[i] = file[i]
        /\ \A k \in 1..2 : file'[i].contract[k] = file[i].contract[k]

\* No step of any command loses what an earlier one has paid for.
NothingIsLost == [][SuccessesAreKept /\ OthersArePreserved]_vars

\* Every command comes to its end.
CommandsEnd == cmd # "none" ~> cmd = "none"
=============================================================================
