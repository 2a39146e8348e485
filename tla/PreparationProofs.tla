-------------------------- MODULE PreparationProofs --------------------------
(* Theorems about what is prepared before the questions are answered: about        *)
(* ContractGeneration for every number of questions, every limit, growth and       *)
(* number of attempts, and any number of revisions and commands; and about         *)
(* EmbeddingService for all texts, token counts, limits, windows and lists of       *)
(* calls, and any number of faults and openings.                                   *)
EXTENDS ContractGeneration, EmbeddingService, FiniteSetTheorems, SequenceTheorems,
        WellFoundedInduction, TLAPS

------------------------------------------------------------------------------
(* The inductive invariant: what a command holds of each question it was given.  *)

\* A command c has work on a question: m is the record it holds, v the version it
\* read, f the filtering outcome in the file.
Owed(c, m, v, f) ==
    /\ c = "generate" => ~Reusable(m, v, 2)
    /\ c = "round3" => Reusable(m, v, 2) /\ ~Reusable(m, v, 3)
    /\ c = "filter" => f # "succeeded"

\* The record is an outcome of command c for version v.
Settled(c, m, v) ==
    /\ c = "generate" => m.text = v /\ m.status[2] # "absent"
    /\ c = "round3" => m.text = v /\ m.status[3] # "absent"

\* What a future of rounds 1 and 2 holds: the rounds before its own, and no other;
\* it starts at round 1 only if nothing can be kept.
Generating(w, m, v) ==
    /\ w.round \in 1..2
    /\ w.rec.text = v /\ Derived(w.rec)
    /\ Reusable(m, v, 1) => w.round = 2 /\ w.rec.status[1] = "succeeded"
    /\ w.pc # "done" => /\ \A j \in Rounds : j < w.round => w.rec.contract[j] # None
                        /\ \A j \in Rounds : j >= w.round => w.rec.contract[j] = None
    /\ w.pc = "done" => w.rec.status[2] # "absent"

\* What a future of round 3 holds: the two rounds before as they were.
Correcting(w, m, v) ==
    /\ w.round = 3
    /\ w.rec.text = v /\ Derived(w.rec)
    /\ \A j \in 1..2 : /\ w.rec.status[j] = m.status[j]
                       /\ w.rec.contract[j] = m.contract[j]
    /\ w.pc = "done" => w.rec.status[3] # "absent"

Carried(c, w, m, v) ==
    /\ c = "generate" => Generating(w, m, v)
    /\ c = "round3" => Correcting(w, m, v)
    /\ c = "filter" => w.round = Filter

\* A question is to be submitted, in flight, or settled; what is not given is
\* none of the three.
ItemSound(i) ==
    IF cmd # "none" /\ given[i] # None
    THEN /\ memory[i] = file[i] /\ file[i].text <= given[i]
         /\ i \in todo => worker[i].pc = "none"
         /\ i \in todo \/ worker[i].pc # "none" =>
               Owed(cmd, memory[i], given[i], filtered[i])
         /\ worker[i].pc # "none" => Carried(cmd, worker[i], memory[i], given[i])
         /\ i \notin todo /\ worker[i].pc = "none" =>
               /\ Settled(cmd, memory[i], given[i])
               /\ cmd = "filter" => filtered[i] # "absent"
    ELSE i \notin todo /\ worker[i].pc = "none"

\* No file is ahead of the dataset, and no command's copy is ahead of the file.
CopySound(i) ==
    /\ text[i] <= edits + 1 /\ given[i] <= text[i] /\ file[i].text <= text[i]
    /\ Derived(file[i])
    /\ cmd # "none" => memory[i] \in {file[i], NoRecord}
    /\ cmd = "round3" => memory[i] = file[i]

\* A command that returned left an outcome of each question.
ReturnSound(i) ==
    returned # "none" /\ given[i] # None =>
        /\ Settled(returned, file[i], given[i])
        /\ returned = "filter" => filtered[i] # "absent"

\* The futures are as many as the limit allows; those collected are done.
PoolSound ==
    /\ Cardinality(Futures) <= limit
    /\ \A i \in batch : worker[i].pc = "done"
    /\ cmd # "none" => returned = "none"

IInv ==
    /\ TypeOK
    /\ PoolSound
    /\ \A i \in Items : ItemSound(i) /\ CopySound(i) /\ ReturnSound(i)

------------------------------------------------------------------------------
(* Types, and what a question keeps when a step is not about it.                *)

LEMMA BlankTypes == NoRecord \in Records /\ NoWorker \in Workers /\ Derived(NoRecord)
<1>1. NoRecord \in Records
  BY DEF NoRecord, Records, Statuses
<1>2. NoWorker \in Workers
  BY <1>1, MaxAttemptsAssumption DEF NoWorker, Workers, Filter
<1>3. Derived(NoRecord)
  BY DEF NoRecord, Derived, Rounds
<1> QED BY <1>1, <1>2, <1>3

LEMMA ItemsFinite == IsFiniteSet(Items) /\ \A S \in SUBSET Items : IsFiniteSet(S)
<1>1. IsFiniteSet(Items)
  BY NItemsAssumption, FS_Interval DEF Items
<1> QED BY <1>1, FS_Subset

LEMMA ItemKept ==
    ASSUME NEW i \in Items, ItemSound(i), cmd' = cmd, given' = given,
           memory'[i] = memory[i], file'[i] = file[i], filtered'[i] = filtered[i],
           worker'[i] = worker[i], i \in todo' <=> i \in todo
    PROVE  ItemSound(i)'
BY DEF ItemSound

LEMMA CopyKept ==
    ASSUME NEW i \in Items, CopySound(i), cmd' = cmd, given' = given,
           memory'[i] = memory[i], file'[i] = file[i], text' = text, edits' = edits
    PROVE  CopySound(i)'
BY DEF CopySound

\* While a command runs, there is nothing to say of a returned one.
LEMMA ReturnKept ==
    ASSUME NEW i \in Items, PoolSound, cmd # "none", returned' = returned
    PROVE  ReturnSound(i)'
BY DEF ReturnSound, PoolSound

------------------------------------------------------------------------------
(* The threads.                                                                 *)

LEMMA WorkSound ==
    ASSUME IInv, NEW i \in Items, NEW w \in Workers, Work(i, w),
           worker[i].pc \in {"ask", "call"}, w.pc # "none",
           cmd # "none" /\ given[i] # None => Carried(cmd, w, memory[i], given[i])
    PROVE  IInv'
<1>1. /\ worker' = [worker EXCEPT ![i] = w] /\ worker \in [Items -> Workers]
      /\ worker'[i] = w /\ \A j \in Items \ {i} : worker'[j] = worker[j]
  BY DEF Work, IInv, TypeOK
<1>2. UNCHANGED <<dataset, outputs, cmd, given, memory, todo, limit, batch, returned, runs>>
  BY DEF Work
<1>3. TypeOK'
  BY <1>1, <1>2 DEF IInv, TypeOK, dataset, outputs
<1>4. cmd # "none" /\ given[i] # None
  BY DEF IInv, ItemSound
<1>5. Futures' = Futures
  BY <1>1 DEF Futures
<1>6. PoolSound'
  BY <1>1, <1>2, <1>5 DEF IInv, PoolSound
<1>7. ASSUME NEW j \in Items PROVE ItemSound(j)'
  <2>1. CASE j = i
    BY <1>1, <1>2, <1>4, <2>1 DEF IInv, ItemSound, outputs
  <2>2. CASE j # i
    BY <1>1, <1>2, <2>2, ItemKept DEF IInv, outputs
  <2> QED BY <2>1, <2>2
<1>8. ASSUME NEW j \in Items PROVE CopySound(j)' /\ ReturnSound(j)'
  BY <1>2, <1>4, CopyKept, ReturnKept DEF IInv, dataset, outputs
<1> QED BY <1>3, <1>6, <1>7, <1>8 DEF IInv

\* A future's question is given, and it carries what its command is to hold.
LEMMA FutureHolds ==
    ASSUME IInv, NEW i \in Items, worker[i].pc # "none"
    PROVE  /\ cmd \in Commands /\ given[i] \in Versions /\ worker[i] \in Workers
           /\ memory[i] \in Records /\ memory[i] = file[i] /\ Derived(memory[i])
           /\ Owed(cmd, memory[i], given[i], filtered[i])
           /\ Carried(cmd, worker[i], memory[i], given[i])
           /\ file[i].text <= given[i]
BY DEF IInv, ItemSound, CopySound, TypeOK

LEMMA AcquireSound == ASSUME IInv, NEW i \in Items, Acquire(i) PROVE IInv'
<1> DEFINE w == [worker[i] EXCEPT !.pc = "call"]
<1>1. worker[i].pc = "ask" /\ Work(i, w)
  BY DEF Acquire
<1>2. worker[i] \in Workers
  BY <1>1, FutureHolds
<1>3. /\ w \in Workers /\ w.pc = "call" /\ w.round = worker[i].round
      /\ w.rec = worker[i].rec
  BY <1>2 DEF Workers
<1>4. Carried(cmd, w, memory[i], given[i])
  BY <1>1, <1>3, FutureHolds DEF Carried, Generating, Correcting
<1> QED BY <1>1, <1>3, <1>4, WorkSound

\* The record a thread writes: one round changes.
LEMMA SettleLemma ==
    ASSUME NEW i \in Items, worker[i] \in Workers, NEW k \in Rounds,
           NEW status \in Statuses, NEW contract \in Versions \cup {None},
           NEW rec, rec = Settle(i, k, status, contract)
    PROVE  /\ rec \in Records /\ rec.text = worker[i].rec.text
           /\ rec.status[k] = status /\ rec.contract[k] = contract
           /\ \A j \in Rounds \ {k} : /\ rec.status[j] = worker[i].rec.status[j]
                                      /\ rec.contract[j] = worker[i].rec.contract[j]
<1> DEFINE old == worker[i].rec
<1>1. old \in Records
  BY DEF Workers
<1>2. rec = [old EXCEPT !.status[k] = status, !.contract[k] = contract]
  BY DEF Settle
<1>3. /\ old.status \in [Rounds -> Statuses]
      /\ old.contract \in [Rounds -> Versions \cup {None}]
  BY <1>1 DEF Records
<1>4. /\ rec.text = old.text
      /\ rec.status = [old.status EXCEPT ![k] = status]
      /\ rec.contract = [old.contract EXCEPT ![k] = contract]
      /\ rec = [text |-> rec.text, status |-> rec.status, contract |-> rec.contract]
  BY <1>1, <1>2 DEF Records
<1>5. rec.status \in [Rounds -> Statuses] /\ rec.contract \in [Rounds -> Versions \cup {None}]
  BY <1>3, <1>4
<1>6. rec \in Records
  BY <1>1, <1>4, <1>5 DEF Records
<1> QED BY <1>3, <1>4, <1>6

LEMMA SucceedSound == ASSUME IInv, NEW i \in Items, Succeed(i) PROVE IInv'
<1> DEFINE k == worker[i].round
           rec == Settle(i, k, "succeeded", given[i])
<1>1. worker[i].pc = "call" /\ worker[i] \in Workers
  BY FutureHolds DEF Succeed
<1>2. CASE k = Filter
  <2> DEFINE w == [worker[i] EXCEPT !.pc = "done", !.won = TRUE]
  <2>1. Work(i, w)
    BY <1>2 DEF Succeed
  <2>2. w \in Workers /\ w.pc = "done" /\ w.round = Filter
    BY <1>1, <1>2 DEF Workers
  <2>3. cmd = "filter"
    BY <1>1, <1>2, FutureHolds DEF Carried, Generating, Correcting, Commands, Filter
  <2>4. Carried(cmd, w, memory[i], given[i])
    BY <2>2, <2>3 DEF Carried
  <2> QED BY <1>1, <2>1, <2>2, <2>4, WorkSound
<1>3. CASE k # Filter
  <2> DEFINE w == [pc |-> IF k = 1 THEN "ask" ELSE "done",
                   round |-> IF k = 1 THEN 2 ELSE k,
                   attempt |-> IF k = 1 THEN 1 ELSE worker[i].attempt,
                   rec |-> rec, won |-> TRUE]
  <2>1. Work(i, w)
    BY <1>3 DEF Succeed
  <2>2. k \in Rounds /\ cmd # "filter" /\ given[i] \in Versions /\ given[i] # None
    BY <1>1, <1>3, FutureHolds
       DEF Carried, Workers, Rounds, Filter, Versions, None
  <2>3. /\ rec \in Records /\ rec.text = worker[i].rec.text
        /\ rec.status[k] = "succeeded" /\ rec.contract[k] = given[i]
        /\ \A j \in Rounds \ {k} : /\ rec.status[j] = worker[i].rec.status[j]
                                   /\ rec.contract[j] = worker[i].rec.contract[j]
    BY <1>1, <2>2, SettleLemma DEF Statuses
  <2> HIDE DEF rec
  <2>4. w \in Workers
    BY <1>1, <2>2, <2>3, MaxAttemptsAssumption DEF Workers, Rounds, Filter
  <2>5. ASSUME cmd = "generate" PROVE Carried(cmd, w, memory[i], given[i])
    <3>1. Generating(worker[i], memory[i], given[i])
      BY <1>1, <2>5, FutureHolds DEF Carried
    <3>2. Derived(rec)
      BY <1>1, <2>2, <2>3, <3>1 DEF Generating, Derived, Rounds
    <3>3. Generating(w, memory[i], given[i])
      BY <1>1, <2>2, <2>3, <3>1, <3>2 DEF Generating, Rounds
    <3> QED BY <2>5, <3>3 DEF Carried
  <2>6. ASSUME cmd = "round3" PROVE Carried(cmd, w, memory[i], given[i])
    <3>1. Correcting(worker[i], memory[i], given[i])
      BY <1>1, <2>6, FutureHolds DEF Carried
    <3>2. rec.contract[2] # None
      <4>1. k = 3 /\ rec.contract[2] = worker[i].rec.contract[2]
        BY <2>3, <3>1 DEF Correcting, Rounds
      <4>2. worker[i].rec.contract[2] = memory[i].contract[2]
        BY <3>1 DEF Correcting
      <4>3. memory[i].status[2] = "succeeded" /\ Derived(memory[i])
        BY <1>1, <2>6, FutureHolds DEF Owed, Reusable
      <4>4. memory[i].contract[2] # None
        BY <4>3 DEF Derived, Rounds
      <4> QED BY <4>1, <4>2, <4>4
    <3>3. Derived(rec)
      BY <1>1, <2>2, <2>3, <3>1, <3>2 DEF Correcting, Derived, Rounds
    <3>4. Correcting(w, memory[i], given[i])
      BY <2>2, <2>3, <3>1, <3>3 DEF Correcting, Rounds
    <3> QED BY <2>6, <3>4 DEF Carried
  <2>7. Carried(cmd, w, memory[i], given[i])
    BY <1>1, <2>2, <2>5, <2>6, FutureHolds DEF Commands
  <2> QED BY <1>1, <2>1, <2>4, <2>7, WorkSound
<1> QED BY <1>2, <1>3

LEMMA FailSound == ASSUME IInv, NEW i \in Items, Fail(i) PROVE IInv'
<1> DEFINE k == worker[i].round
           again == [worker[i] EXCEPT !.pc = "ask", !.attempt = @ + 1]
           rec == IF k = Filter THEN worker[i].rec ELSE FailedRecord(i)
           over == [worker[i] EXCEPT !.pc = "done", !.won = FALSE, !.rec = rec]
<1>1. worker[i].pc = "call" /\ worker[i] \in Workers
  BY FutureHolds DEF Fail
<1>2. CASE worker[i].attempt < MaxAttempts
  <2>1. Work(i, again)
    BY <1>2 DEF Fail
  <2>2. /\ again \in Workers /\ again.pc = "ask" /\ again.round = k
        /\ again.rec = worker[i].rec
    <3>1. worker[i].attempt + 1 \in 1..MaxAttempts
      BY <1>1, <1>2, MaxAttemptsAssumption DEF Workers
    <3> QED BY <1>1, <3>1 DEF Workers
  <2>3. Carried(cmd, again, memory[i], given[i])
    BY <1>1, <2>2, FutureHolds DEF Carried, Generating, Correcting
  <2> QED BY <1>1, <2>1, <2>2, <2>3, WorkSound
<1>3. CASE ~(worker[i].attempt < MaxAttempts)
  <2>1. Work(i, over)
    BY <1>3 DEF Fail
  <2>2. ASSUME k # Filter
        PROVE  /\ k \in Rounds /\ rec \in Records /\ rec.text = worker[i].rec.text
               /\ rec.status[k] = "failed" /\ rec.contract[k] = None
               /\ k = 1 => rec.status[2] = "blocked_round1"
               /\ k # 1 => \A j \in Rounds \ {k} : rec.status[j] = worker[i].rec.status[j]
               /\ k = 1 => rec.status[3] = worker[i].rec.status[3]
               /\ \A j \in Rounds \ {k} : rec.contract[j] = worker[i].rec.contract[j]
    <3> DEFINE failed == Settle(i, k, "failed", None)
    <3>1. k \in Rounds
      BY <1>1, <2>2 DEF Workers, Filter, Rounds
    <3>2. /\ failed \in Records /\ failed.text = worker[i].rec.text
          /\ failed.status[k] = "failed" /\ failed.contract[k] = None
          /\ \A j \in Rounds \ {k} : /\ failed.status[j] = worker[i].rec.status[j]
                                     /\ failed.contract[j] = worker[i].rec.contract[j]
      BY <1>1, <3>1, SettleLemma DEF Statuses
    <3>3. rec = IF k = 1 THEN [failed EXCEPT !.status[2] = "blocked_round1"] ELSE failed
      BY <2>2 DEF FailedRecord
    <3> HIDE DEF failed, rec
    <3>4. CASE k = 1
      <4>1. failed.status \in [Rounds -> Statuses]
        BY <3>2 DEF Records
      <4>2. /\ rec.text = failed.text /\ rec.contract = failed.contract
            /\ rec.status = [failed.status EXCEPT ![2] = "blocked_round1"]
            /\ rec \in Records
        BY <3>2, <3>3, <3>4, <4>1 DEF Records, Statuses
      <4> QED BY <3>2, <3>4, <4>1, <4>2 DEF Rounds
    <3>5. CASE k # 1
      BY <3>1, <3>2, <3>3, <3>5
    <3> QED BY <3>4, <3>5
  <2> HIDE DEF rec
  <2>3. rec \in Records
    BY <1>1, <2>2 DEF rec, Workers
  <2>4. over \in Workers /\ over.pc = "done" /\ over.round = k /\ over.rec = rec
    BY <1>1, <2>3 DEF Workers
  <2>5. ASSUME cmd = "generate" PROVE Generating(over, memory[i], given[i])
    <3>1. Generating(worker[i], memory[i], given[i]) /\ k # Filter
      BY <2>5, <1>1, FutureHolds DEF Carried, Generating, Filter
    <3>2. Derived(rec)
      BY <1>1, <2>2, <3>1 DEF Generating, Derived, Rounds
    <3> QED BY <1>1, <2>2, <2>4, <3>1, <3>2 DEF Generating, Rounds
  <2>6. ASSUME cmd = "round3" PROVE Correcting(over, memory[i], given[i])
    <3>1. Correcting(worker[i], memory[i], given[i]) /\ k # Filter
      BY <2>6, <1>1, FutureHolds DEF Carried, Correcting, Filter
    <3>2. Derived(rec)
      BY <1>1, <2>2, <3>1 DEF Correcting, Derived, Rounds
    <3> QED BY <1>1, <2>2, <2>4, <3>1, <3>2 DEF Correcting, Rounds
  <2>7. Carried(cmd, over, memory[i], given[i])
    BY <1>1, <2>4, <2>5, <2>6, FutureHolds DEF Carried
  <2> QED BY <1>1, <2>1, <2>4, <2>7, WorkSound
<1> QED BY <1>2, <1>3

------------------------------------------------------------------------------
(* The main thread.                                                             *)

\* Taking a question into the pool, or out of it.
LEMMA PoolLemma ==
    ASSUME IInv, NEW i \in Items, NEW w, worker' = [worker EXCEPT ![i] = w]
    PROVE  /\ Futures' = IF w.pc # "none" THEN Futures \cup {i} ELSE Futures \ {i}
           /\ Cardinality(Futures) \in Nat
           /\ Cardinality(Futures \cup {i}) <= Cardinality(Futures) + 1
           /\ Cardinality(Futures \ {i}) <= Cardinality(Futures)
<1>1. worker \in [Items -> Workers]
  BY DEF IInv, TypeOK
<1>2. IsFiniteSet(Futures)
  BY ItemsFinite DEF Futures
<1>3. /\ Cardinality(Futures) \in Nat
      /\ Cardinality(Futures \cup {i}) \in Nat /\ Cardinality(Futures \ {i}) \in Nat
      /\ Cardinality(Futures \cup {i}) <= Cardinality(Futures) + 1
      /\ Cardinality(Futures \ {i}) <= Cardinality(Futures)
  BY <1>2, FS_AddElement, FS_RemoveElement, FS_CardinalityType
<1>4. Futures' = IF w.pc # "none" THEN Futures \cup {i} ELSE Futures \ {i}
  BY <1>1 DEF Futures
<1> QED BY <1>3, <1>4

\* A question that is to be submitted is given, and owed.
LEMMA TodoHolds ==
    ASSUME IInv, NEW i \in Items, i \in todo
    PROVE  /\ cmd \in Commands /\ given[i] \in Versions /\ worker[i].pc = "none"
           /\ memory[i] \in Records /\ memory[i] = file[i] /\ Derived(memory[i])
           /\ Owed(cmd, memory[i], given[i], filtered[i])
BY DEF IInv, ItemSound, CopySound, TypeOK

LEMMA BeginLemma ==
    ASSUME IInv, NEW i \in Items, i \in todo, cmd = "generate",
           NEW w, w.pc = "ask", w.round = Begin(i).round, w.rec = Begin(i).rec
    PROVE  w.round \in 1..2 /\ w.rec \in Records /\ Generating(w, memory[i], given[i])
<1> DEFINE v == given[i]
           m == memory[i]
<1>1. v \in Versions /\ m \in Records /\ Derived(m)
  BY TodoHolds
<1>2. CASE Reusable(m, v, 1)
  <2>1. w.round = 2
    BY <1>2 DEF Begin
  <2>2. /\ w.rec.text = v /\ w.rec \in Records
        /\ w.rec.status[1] = "succeeded" /\ w.rec.contract[1] = m.contract[1]
        /\ \A j \in 2..3 : w.rec.status[j] = "absent" /\ w.rec.contract[j] = None
    <3> DEFINE st == [NoRecord.status EXCEPT ![1] = "succeeded"]
               ct == [NoRecord.contract EXCEPT ![1] = m.contract[1]]
    <3>1. w.rec = [text |-> v, status |-> st, contract |-> ct]
      BY <1>2 DEF Begin, NoRecord
    <3>2. /\ st \in [Rounds -> Statuses] /\ st[1] = "succeeded"
          /\ \A j \in 2..3 : st[j] = "absent"
      BY DEF NoRecord, Rounds, Statuses
    <3>3. m.contract[1] \in Versions \cup {None}
      BY <1>1 DEF Records, Rounds
    <3>4. /\ ct \in [Rounds -> Versions \cup {None}] /\ ct[1] = m.contract[1]
          /\ \A j \in 2..3 : ct[j] = None
      BY <3>3 DEF NoRecord, Rounds
    <3> HIDE DEF st, ct
    <3> QED BY <1>1, <3>1, <3>2, <3>4 DEF Records
  <2>3. m.contract[1] = v
    BY <1>1, <1>2 DEF Reusable, Derived, Rounds
  <2>4. Derived(w.rec)
    BY <1>1, <2>2, <2>3 DEF Derived, Rounds, Versions, None
  <2> QED BY <1>1, <2>1, <2>2, <2>3, <2>4 DEF Generating, Rounds, Versions, None
<1>3. CASE ~Reusable(m, v, 1)
  <2>1. /\ w.round = 1
        /\ w.rec.text = v /\ w.rec \in Records
        /\ \A j \in Rounds : w.rec.status[j] = "absent" /\ w.rec.contract[j] = None
    BY <1>1, <1>3 DEF Begin, NoRecord, Records, Statuses
  <2>2. Derived(w.rec)
    BY <2>1 DEF Derived, Rounds
  <2> QED BY <1>3, <2>1, <2>2 DEF Generating, Rounds
<1> QED BY <1>2, <1>3

LEMMA SubmitSound == ASSUME IInv, NEW i \in Items, Submit(i) PROVE IInv'
<1> DEFINE w == [pc |-> "ask", round |-> Job(i).round, attempt |-> 1,
                 rec |-> Job(i).rec, won |-> FALSE]
<1>1. /\ cmd \in Commands /\ i \in todo /\ batch = {} /\ Places > 0
      /\ todo' = todo \ {i} /\ worker' = [worker EXCEPT ![i] = w]
      /\ UNCHANGED <<dataset, outputs, cmd, given, memory, limit, batch, returned, runs>>
  BY DEF Submit, Running, CanFill, First, IInv, TypeOK
<1>2. memory[i] \in Records /\ given[i] \in Versions /\ worker[i].pc = "none"
  BY <1>1, TodoHolds
<1>3. w.pc = "ask" /\ w.round = Job(i).round /\ w.rec = Job(i).rec
  OBVIOUS
<1> HIDE DEF w
<1>4. /\ w.round \in 1..Filter /\ w.rec \in Records
      /\ Carried(cmd, w, memory[i], given[i])
  <2>1. CASE cmd = "generate"
    BY <1>1, <1>3, <2>1, BeginLemma DEF Job, Carried, Filter
  <2>2. CASE cmd = "round3"
    <3>1. w.round = 3 /\ w.rec = memory[i]
      BY <1>3, <2>2 DEF Job
    <3>2. memory[i].text = given[i] /\ Derived(memory[i])
      BY <1>1, <2>2, TodoHolds DEF Owed, Reusable
    <3> QED BY <1>2, <1>3, <2>2, <3>1, <3>2 DEF Carried, Correcting, Filter
  <2>3. CASE cmd = "filter"
    <3>1. w.round = Filter /\ w.rec = memory[i]
      BY <1>3, <2>3 DEF Job
    <3> QED BY <1>2, <2>3, <3>1 DEF Carried, Filter
  <2> QED BY <1>1, <2>1, <2>2, <2>3 DEF Commands
<1>5. w \in Workers
  BY <1>4, MaxAttemptsAssumption DEF w, Workers
<1>6. TypeOK'
  BY <1>1, <1>5 DEF IInv, TypeOK, dataset, outputs
<1>7. PoolSound'
  <2>1. Futures' = Futures \cup {i} /\ Cardinality(Futures') <= limit
    <3>1. Futures' = Futures \cup {i} /\ Cardinality(Futures \cup {i}) <= Cardinality(Futures) + 1
          /\ Cardinality(Futures) \in Nat
      BY <1>1, <1>3, PoolLemma
    <3>2. limit \in Nat
      BY LimitAssumption DEF IInv, TypeOK
    <3>3. IsFiniteSet(Futures \cup {i}) /\ Cardinality(Futures \cup {i}) \in Nat
      BY ItemsFinite, FS_CardinalityType DEF Futures
    <3> QED BY <1>1, <3>1, <3>2, <3>3 DEF Places
  <2> QED BY <1>1, <2>1 DEF IInv, PoolSound
<1>8. ASSUME NEW j \in Items PROVE ItemSound(j)' /\ CopySound(j)' /\ ReturnSound(j)'
  <2>1. ItemSound(j)'
    <3>1. CASE j = i
      <4>1. worker'[i] = w
        BY <1>1 DEF IInv, TypeOK
      <4> QED BY <1>1, <1>3, <1>4, <3>1, <4>1 DEF IInv, ItemSound, outputs
    <3>2. CASE j # i
      <4>1. worker'[j] = worker[j] /\ (j \in todo' <=> j \in todo)
        BY <1>1, <3>2 DEF IInv, TypeOK
      <4> QED BY <1>1, <4>1, ItemKept DEF IInv, outputs
    <3> QED BY <3>1, <3>2
  <2>2. CopySound(j)' /\ ReturnSound(j)'
    BY <1>1, CopyKept, ReturnKept DEF IInv, dataset, outputs, Commands
  <2> QED BY <2>1, <2>2
<1> QED BY <1>6, <1>7, <1>8 DEF IInv

LEMMA CollectSound == ASSUME IInv, Collect PROVE IInv'
<1>1. /\ cmd \in Commands /\ cmd # "none" /\ batch' = {i \in Items : worker[i].pc = "done"}
      /\ UNCHANGED <<dataset, outputs, cmd, given, memory, todo, limit, worker, returned, runs>>
  BY DEF Collect, Running, IInv, TypeOK
<1>2. TypeOK'
  BY <1>1 DEF IInv, TypeOK, dataset, outputs
<1>3. PoolSound'
  BY <1>1 DEF IInv, PoolSound, Futures
<1>4. ASSUME NEW j \in Items PROVE ItemSound(j)' /\ CopySound(j)' /\ ReturnSound(j)'
  BY <1>1, ItemKept, CopyKept, ReturnKept DEF IInv, dataset, outputs
<1> QED BY <1>2, <1>3, <1>4 DEF IInv

LEMMA GrowSound == ASSUME IInv, NEW g \in Growth, Grow(g) PROVE IInv'
<1>1. /\ cmd # "none" /\ limit' \in 1..MaxConcurrency /\ limit' >= limit /\ limit \in Nat
      /\ UNCHANGED <<dataset, outputs, cmd, given, memory, todo, worker, batch, returned, runs>>
  BY LimitAssumption, GrowthAssumption DEF Grow, Running, IInv, TypeOK
<1>2. TypeOK'
  BY <1>1 DEF IInv, TypeOK, dataset, outputs
<1>3. Futures' = Futures /\ Cardinality(Futures) \in Nat
  BY <1>1, ItemsFinite, FS_CardinalityType DEF Futures
<1>4. PoolSound'
  BY <1>1, <1>3, LimitAssumption DEF IInv, PoolSound
<1>5. ASSUME NEW j \in Items PROVE ItemSound(j)' /\ CopySound(j)' /\ ReturnSound(j)'
  BY <1>1, ItemKept, CopyKept, ReturnKept DEF IInv, dataset, outputs
<1> QED BY <1>2, <1>4, <1>5 DEF IInv

\* One filtering outcome is written, and those of questions that are not given go.
LEMMA FilterLemma ==
    ASSUME IInv, NEW i \in Items, NEW outcome \in Outcomes, SaveFiltered(i, outcome),
           given[i] # None
    PROVE  /\ filtered' \in [Items -> Outcomes] /\ filtered'[i] = outcome
           /\ \A j \in Items \ {i} : given[j] # None => filtered'[j] = filtered[j]
BY DEF SaveFiltered, IInv, TypeOK, Outcomes

LEMMA RejectPromptSound == ASSUME IInv, NEW i \in Items, RejectPrompt(i) PROVE IInv'
<1>1. /\ cmd = "filter" /\ i \in todo /\ todo' = todo \ {i}
      /\ SaveFiltered(i, "failed")
      /\ UNCHANGED <<dataset, file, cmd, given, memory, limit, worker, batch, returned, runs>>
  BY DEF RejectPrompt, Rejected
<1>2. given[i] # None /\ worker[i].pc = "none"
  BY <1>1, TodoHolds DEF Versions, None
<1>3. /\ filtered' \in [Items -> Outcomes] /\ filtered'[i] = "failed"
      /\ \A j \in Items \ {i} : given[j] # None => filtered'[j] = filtered[j]
  BY <1>1, <1>2, FilterLemma DEF Outcomes
<1>4. TypeOK'
  BY <1>1, <1>3 DEF IInv, TypeOK, dataset
<1>5. PoolSound'
  BY <1>1 DEF IInv, PoolSound, Futures
<1>6. ASSUME NEW j \in Items PROVE ItemSound(j)'
  <2>1. CASE j = i
    BY <1>1, <1>2, <1>3, <2>1 DEF IInv, ItemSound, Settled
  <2>2. CASE j # i
    BY <1>1, <1>3, <2>2 DEF IInv, ItemSound
  <2> QED BY <2>1, <2>2
<1>7. ASSUME NEW j \in Items PROVE CopySound(j)' /\ ReturnSound(j)'
  BY <1>1, CopyKept, ReturnKept DEF IInv, dataset
<1> QED BY <1>4, <1>5, <1>6, <1>7 DEF IInv

LEMMA SaveSound == ASSUME IInv, NEW i \in Items, Save(i) PROVE IInv'
<1>1. /\ i \in batch /\ batch' = batch \ {i} /\ worker' = [worker EXCEPT ![i] = NoWorker]
      /\ UNCHANGED <<dataset, cmd, given, todo, limit, returned, runs>>
  BY DEF Save
<1>2. worker[i].pc = "done" /\ worker \in [Items -> Workers]
  BY <1>1 DEF IInv, PoolSound, TypeOK
<1>3. /\ cmd \in Commands /\ cmd # "none" /\ given[i] \in Versions /\ given[i] # None
      /\ worker[i].rec \in Records /\ i \notin todo
      /\ Carried(cmd, worker[i], memory[i], given[i])
  BY <1>2, FutureHolds DEF Versions, None, Workers, Commands, IInv, ItemSound
<1>4. /\ worker'[i] = NoWorker /\ NoWorker.pc = "none"
      /\ \A j \in Items \ {i} : worker'[j] = worker[j]
  BY <1>1, <1>2 DEF NoWorker
<1>5. PoolSound'
  <2>1. /\ Futures' = Futures \ {i} /\ Cardinality(Futures) \in Nat
        /\ Cardinality(Futures \ {i}) <= Cardinality(Futures)
    BY <1>1, <1>4, PoolLemma
  <2>2. Cardinality(Futures \ {i}) \in Nat /\ limit \in Nat
    BY ItemsFinite, FS_CardinalityType, LimitAssumption DEF Futures, IInv, TypeOK
  <2>3. Cardinality(Futures') <= limit'
    BY <1>1, <2>1, <2>2 DEF IInv, PoolSound
  <2>4. \A j \in batch' : worker'[j].pc = "done"
    BY <1>1, <1>4 DEF IInv, PoolSound, TypeOK
  <2> QED BY <1>1, <2>3, <2>4 DEF IInv, PoolSound
<1>6. CASE cmd = "filter"
  <2> DEFINE outcome == IF worker[i].won THEN "succeeded" ELSE "failed"
  <2>1. SaveFiltered(i, outcome) /\ UNCHANGED <<file, memory>>
    BY <1>6 DEF Save
  <2>2. outcome \in Outcomes /\ outcome # "absent"
    BY DEF Outcomes
  <2> HIDE DEF outcome
  <2>3. /\ filtered' \in [Items -> Outcomes] /\ filtered'[i] # "absent"
        /\ \A j \in Items \ {i} : given[j] # None => filtered'[j] = filtered[j]
    BY <1>3, <2>1, <2>2, FilterLemma
  <2>4. TypeOK'
    BY <1>1, <2>1, <2>3, BlankTypes DEF IInv, TypeOK, dataset
  <2>5. ASSUME NEW j \in Items PROVE ItemSound(j)'
    <3>1. CASE j = i
      BY <1>1, <1>2, <1>3, <1>4, <1>6, <2>1, <2>3, <3>1 DEF IInv, ItemSound, Settled
    <3>2. CASE j # i
      BY <1>1, <1>4, <1>6, <2>1, <2>3, <3>2 DEF IInv, ItemSound
    <3> QED BY <3>1, <3>2
  <2>6. ASSUME NEW j \in Items PROVE CopySound(j)' /\ ReturnSound(j)'
    BY <1>1, <1>3, <2>1, CopyKept, ReturnKept DEF IInv, dataset
  <2> QED BY <1>5, <2>4, <2>5, <2>6 DEF IInv
<1>7. CASE cmd # "filter"
  <2>1. /\ memory' = [memory EXCEPT ![i] = worker[i].rec] /\ file' = memory'
        /\ UNCHANGED filtered
    BY <1>7 DEF Save
  <2>2. /\ memory'[i] = worker[i].rec /\ file'[i] = worker[i].rec
        /\ \A j \in Items \ {i} : memory'[j] = memory[j] /\ file'[j] = memory[j]
    BY <2>1 DEF IInv, TypeOK
  <2>3. TypeOK'
    BY <1>1, <1>3, <2>1, BlankTypes DEF IInv, TypeOK, dataset
  <2>4. /\ worker[i].rec.text = given[i] /\ Derived(worker[i].rec)
        /\ Settled(cmd, worker[i].rec, given[i])
    BY <1>2, <1>3, <1>7 DEF Carried, Generating, Correcting, Settled, Commands
  <2>5. ASSUME NEW j \in Items PROVE ItemSound(j)'
    <3>1. CASE j = i
      <4>1. given[i] <= given[i]
        BY <1>3 DEF Versions
      <4> QED BY <1>1, <1>3, <1>4, <1>7, <2>2, <2>4, <3>1, <4>1 DEF ItemSound
    <3>2. CASE j # i
      <4>1. ItemSound(j) /\ CopySound(j) /\ worker'[j] = worker[j]
            /\ memory'[j] = memory[j] /\ file'[j] = memory[j]
        BY <1>4, <2>2, <3>2 DEF IInv
      <4> QED BY <1>1, <1>3, <2>1, <3>2, <4>1 DEF ItemSound
    <3> QED BY <3>1, <3>2
  <2>6. ASSUME NEW j \in Items PROVE CopySound(j)' /\ ReturnSound(j)'
    <3>1. CopySound(j)'
      <4>1. CASE j = i
        BY <1>1, <1>3, <2>2, <2>4, <4>1 DEF IInv, CopySound, dataset
      <4>2. CASE j # i
        <5>1. file'[j] = memory[j] /\ memory'[j] = memory[j] /\ CopySound(j)
          BY <2>2, <4>2 DEF IInv
        <5>2. NoRecord.text = None /\ text[j] \in Nat /\ 0 <= text[j]
          BY DEF NoRecord, IInv, TypeOK, Versions
        <5> QED BY <1>1, <1>3, <5>1, <5>2, BlankTypes DEF CopySound, dataset, None
      <4> QED BY <4>1, <4>2
    <3> QED BY <1>1, <1>3, <3>1, ReturnKept DEF IInv
  <2> QED BY <1>5, <2>3, <2>5, <2>6 DEF IInv
<1> QED BY <1>6, <1>7

\* A command ends, by itself or not: nothing is in flight.
LEMMA GoneSound ==
    ASSUME IInv, Gone, cmd' = "none", UNCHANGED <<dataset, runs>>,
           given' \in [Items -> Versions \cup {None}],
           \A i \in Items : given'[i] <= text[i],
           file' \in [Items -> Records], filtered' \in [Items -> Outcomes],
           \A i \in Items : Derived(file'[i]) /\ file'[i].text <= text[i],
           returned' \in Commands \cup {"none"},
           \A i \in Items : ReturnSound(i)'
    PROVE  IInv'
<1>1. /\ todo' = {} /\ batch' = {} /\ limit' \in 1..MaxConcurrency
      /\ memory' \in [Items -> Records] /\ worker' \in [Items -> Workers]
      /\ \A i \in Items : worker'[i].pc = "none"
  BY BlankTypes, LimitAssumption DEF Gone, NoWorker
<1>2. TypeOK'
  BY <1>1 DEF IInv, TypeOK, dataset
<1>3. Futures' = {}
  BY <1>1 DEF Futures
<1>4. PoolSound'
  BY <1>1, <1>3, FS_EmptySet DEF PoolSound
<1>5. ASSUME NEW i \in Items PROVE ItemSound(i)' /\ CopySound(i)'
  BY <1>1 DEF IInv, ItemSound, CopySound, dataset
<1> QED BY <1>2, <1>4, <1>5 DEF IInv

LEMMA ReturnActionSound == ASSUME IInv, Return PROVE IInv'
<1>1. /\ cmd \in Commands /\ cmd # "none" /\ todo = {} /\ Futures = {}
      /\ cmd' = "none" /\ returned' = cmd /\ Gone
      /\ UNCHANGED <<dataset, given, runs>>
  BY DEF Return, Running, Drained, IInv, TypeOK
<1>2. /\ file' = IF cmd = "generate" THEN memory ELSE file
      /\ filtered' = IF cmd = "filter"
                     THEN [j \in Items |-> IF given[j] = None THEN "absent" ELSE filtered[j]]
                     ELSE filtered
  BY DEF Return
<1>3. file' \in [Items -> Records] /\ filtered' \in [Items -> Outcomes]
  BY <1>2 DEF IInv, TypeOK, Outcomes
<1>4. ASSUME NEW i \in Items
      PROVE  /\ Derived(file'[i]) /\ file'[i].text <= text[i] /\ given[i] <= text[i]
             /\ given[i] # None => file'[i] = memory[i] /\ filtered'[i] = filtered[i]
  <2>1. /\ Derived(file[i]) /\ file[i].text <= text[i] /\ given[i] <= text[i]
        /\ memory[i] \in {file[i], NoRecord}
        /\ given[i] # None => memory[i] = file[i]
    BY <1>1 DEF IInv, CopySound, ItemSound
  <2>2. Derived(NoRecord) /\ NoRecord.text <= text[i]
    BY BlankTypes DEF NoRecord, None, IInv, TypeOK, Versions
  <2>3. file'[i] \in {file[i], memory[i]}
    BY <1>2
  <2>4. given[i] # None => filtered'[i] = filtered[i]
    BY <1>2
  <2> QED BY <2>1, <2>2, <2>3, <2>4
<1>5. ASSUME NEW i \in Items PROVE ReturnSound(i)'
  <2>1. worker[i].pc = "none"
    BY <1>1 DEF Futures
  <2>2. given[i] # None => /\ Settled(cmd, memory[i], given[i])
                           /\ cmd = "filter" => filtered[i] # "absent"
    BY <1>1, <2>1 DEF IInv, ItemSound
  <2> QED BY <1>1, <1>4, <2>2 DEF ReturnSound
<1>6. given' \in [Items -> Versions \cup {None}]
  BY <1>1 DEF IInv, TypeOK
<1> QED BY <1>1, <1>3, <1>4, <1>5, <1>6, GoneSound

LEMMA CrashSound == ASSUME IInv, Crash PROVE IInv'
<1>1. /\ cmd # "none" /\ cmd' = "none" /\ Gone
      /\ UNCHANGED <<dataset, outputs, returned, runs>>
      /\ given' = [i \in Items |-> None]
  BY DEF Crash, Running, Read
<1>2. returned = "none"
  BY <1>1 DEF IInv, PoolSound
<1>3. ASSUME NEW i \in Items
      PROVE  /\ given'[i] <= text[i] /\ ReturnSound(i)'
             /\ Derived(file'[i]) /\ file'[i].text <= text[i]
  BY <1>1, <1>2 DEF IInv, CopySound, TypeOK, Versions, None, ReturnSound, outputs
<1>4. /\ given' \in [Items -> Versions \cup {None}]
      /\ file' \in [Items -> Records] /\ filtered' \in [Items -> Outcomes]
      /\ returned' \in Commands \cup {"none"}
  BY <1>1 DEF IInv, TypeOK, outputs
<1> QED BY <1>1, <1>3, <1>4, GoneSound

------------------------------------------------------------------------------
(* The start of a command, and the rest of the world.                           *)

LEMMA LaunchSound ==
    ASSUME IInv, NEW command \in Commands, NEW S \in SUBSET listed,
           NEW records \in [Items -> Records], NEW work \in SUBSET S,
           Launch(command, Read(S), records, work),
           command = "round3" => records = file,
           \A i \in Items : records[i] \in {file[i], NoRecord},
           \A i \in S : /\ records[i] = file[i]
                        /\ i \in work => Owed(command, file[i], text[i], filtered[i])
                        /\ i \notin work => /\ Settled(command, file[i], text[i])
                                            /\ command = "filter" => filtered[i] # "absent"
    PROVE  IInv'
<1>1. /\ cmd' = command /\ given' = Read(S) /\ memory' = records /\ todo' = work
      /\ limit' = InitialLimit /\ worker' = [i \in Items |-> NoWorker]
      /\ batch' = {} /\ returned' = "none" /\ runs < MaxRuns /\ runs' = runs + 1
      /\ UNCHANGED <<dataset, outputs>>
  BY DEF Launch
<1>2. S \subseteq Items /\ command # "none"
  BY DEF IInv, TypeOK, Commands
<1>3. /\ given' \in [Items -> Versions \cup {None}]
      /\ \A i \in S : given'[i] = text[i] /\ given'[i] # None
      /\ \A i \in Items \ S : given'[i] = None
  BY <1>1, <1>2 DEF Read, IInv, TypeOK, Versions, None
<1>4. \A i \in Items : worker'[i].pc = "none"
  BY <1>1 DEF NoWorker
<1>5. TypeOK'
  <2>1. /\ limit' \in 1..MaxConcurrency /\ runs' \in 0..MaxRuns
        /\ worker' \in [Items -> Workers] /\ todo' \subseteq Items
    BY <1>1, <1>2, BlankTypes, LimitAssumption, BoundsAssumption DEF IInv, TypeOK
  <2> QED BY <1>1, <1>3, <2>1 DEF IInv, TypeOK, dataset, outputs
<1>6. PoolSound'
  <2>1. Futures' = {}
    BY <1>4 DEF Futures
  <2> QED BY <1>1, <2>1, FS_EmptySet, LimitAssumption DEF PoolSound
<1>7. ASSUME NEW i \in Items PROVE ItemSound(i)'
  <2>1. file[i].text <= text[i]
    BY DEF IInv, CopySound
  <2>2. CASE i \in S
    BY <1>1, <1>2, <1>3, <1>4, <2>1, <2>2 DEF ItemSound, dataset, outputs
  <2>3. CASE i \notin S
    BY <1>1, <1>3, <1>4, <2>3 DEF ItemSound
  <2> QED BY <2>2, <2>3
<1>8. ASSUME NEW i \in Items PROVE CopySound(i)' /\ ReturnSound(i)'
  <2>1. given'[i] <= text[i]
    BY <1>3 DEF IInv, TypeOK, Versions, None
  <2> QED BY <1>1, <2>1 DEF IInv, CopySound, ReturnSound, dataset, outputs
<1> QED BY <1>5, <1>6, <1>7, <1>8 DEF IInv

LEMMA GenerateSound == ASSUME IInv, Generate PROVE IInv'
<1> DEFINE records == [i \in Items |-> IF i \in listed THEN file[i] ELSE NoRecord]
           work == {i \in listed : Unfinished(file[i], text[i])}
<1>1. Launch("generate", Read(listed), records, work)
  BY DEF Generate
<1>2. listed \subseteq Items /\ records \in [Items -> Records]
  BY BlankTypes DEF IInv, TypeOK
<1>3. \A i \in Items : records[i] \in {file[i], NoRecord}
  OBVIOUS
<1>4. ASSUME NEW i \in listed
      PROVE  /\ records[i] = file[i]
             /\ i \in work => Owed("generate", file[i], text[i], filtered[i])
             /\ i \notin work => Settled("generate", file[i], text[i])
  BY <1>2 DEF Unfinished, Owed, Settled, Reusable
<1> HIDE DEF records, work
<1>5. "generate" \in Commands /\ work \in SUBSET listed
  BY DEF Commands, work
<1> QED BY <1>1, <1>2, <1>3, <1>4, <1>5, LaunchSound

LEMMA CorrectSound == ASSUME IInv, NEW partial \in BOOLEAN, Correct(partial) PROVE IInv'
<1> DEFINE S == Referenced
           work == {i \in S : Uncorrected(file[i], text[i])}
<1>1. /\ S \subseteq listed /\ \A i \in S : Reusable(file[i], text[i], 2)
      /\ Launch("round3", Read(S), file, work)
  BY DEF Correct, Correctable
<1>2. file \in [Items -> Records] /\ S \subseteq Items
  BY DEF IInv, TypeOK, Referenced
<1>3. ASSUME NEW i \in S
      PROVE  /\ i \in work => Owed("round3", file[i], text[i], filtered[i])
             /\ i \notin work => Settled("round3", file[i], text[i])
  BY <1>1, <1>2 DEF Uncorrected, Owed, Settled, Reusable
<1> HIDE DEF S, work
<1>4. "round3" \in Commands /\ work \in SUBSET S
  BY DEF Commands, work
<1> QED BY <1>1, <1>2, <1>3, <1>4, LaunchSound

LEMMA StartFilterSound == ASSUME IInv, StartFilter PROVE IInv'
<1> DEFINE work == {i \in listed : Unfiltered(i)}
<1>1. Launch("filter", Read(listed), file, work)
  BY DEF StartFilter
<1>2. file \in [Items -> Records] /\ listed \subseteq Items
  BY DEF IInv, TypeOK
<1>3. ASSUME NEW i \in listed
      PROVE  /\ i \in work => Owed("filter", file[i], text[i], filtered[i])
             /\ i \notin work => /\ Settled("filter", file[i], text[i])
                                 /\ filtered[i] # "absent"
  BY <1>2 DEF Unfiltered, Owed, Settled
<1> HIDE DEF work
<1>4. "filter" \in Commands /\ work \in SUBSET listed
  BY DEF Commands, work
<1> QED BY <1>1, <1>2, <1>3, <1>4, LaunchSound

LEMMA ReviseSound == ASSUME IInv, NEW i \in Items, Revise(i) PROVE IInv'
<1>1. UNCHANGED <<gold, outputs, process>> /\ listed' \subseteq Items
  BY DEF Revise, IInv, TypeOK
<1>2. /\ edits' \in 0..MaxEdits /\ edits <= edits'
      /\ \A j \in Items : text[j] <= text'[j] /\ text'[j] <= edits' + 1
      /\ text' \in [Items -> Versions]
  <2>1. /\ edits \in Nat /\ edits <= MaxEdits /\ text \in [Items -> Nat]
        /\ \A j \in Items : text[j] >= 1 /\ text[j] <= edits + 1
    BY BoundsAssumption DEF IInv, TypeOK, CopySound, Versions
  <2>2. /\ edits' = edits \/ (edits < MaxEdits /\ edits' = edits + 1)
        /\ text' = text \/ (edits' = edits + 1 /\ text' = [text EXCEPT ![i] = @ + 1])
    BY DEF Revise
  <2>3. edits' \in 0..MaxEdits /\ edits <= edits'
    BY <2>1, <2>2, BoundsAssumption
  <2>4. text' \in [Items -> Nat]
    BY <2>1, <2>2
  <2>5. \A j \in Items : text[j] <= text'[j] /\ text'[j] <= edits' + 1
    BY <2>1, <2>2, <2>3
  <2>6. \A j \in Items : text'[j] \in Versions
    BY <2>1, <2>3, <2>4, <2>5, BoundsAssumption DEF Versions
  <2> QED BY <2>3, <2>4, <2>5, <2>6
<1>3. TypeOK'
  BY <1>1, <1>2 DEF IInv, TypeOK, outputs, process
<1>4. PoolSound'
  BY <1>1 DEF IInv, PoolSound, Futures, process
<1>5. ASSUME NEW j \in Items PROVE ItemSound(j)' /\ ReturnSound(j)'
  BY <1>1, ItemKept DEF IInv, ReturnSound, outputs, process
<1>6. ASSUME NEW j \in Items PROVE CopySound(j)'
  <2>1. given[j] \in Int /\ file[j].text \in Int /\ text[j] \in Int /\ text'[j] \in Int
    BY <1>2 DEF IInv, TypeOK, Versions, Records, None
  <2> QED BY <1>1, <1>2, <2>1 DEF IInv, CopySound, outputs, process
<1> QED BY <1>3, <1>4, <1>5, <1>6 DEF IInv

LEMMA PrepareGoldSound ==
    ASSUME IInv, NEW ready \in SUBSET listed, PrepareGold(ready) PROVE IInv'
<1>1. /\ gold' = [i \in Items |-> IF i \in ready THEN text[i] ELSE None]
      /\ UNCHANGED <<listed, text, edits, outputs, process>>
  BY DEF PrepareGold
<1>2. TypeOK'
  BY <1>1 DEF IInv, TypeOK, outputs, process
<1>3. PoolSound'
  BY <1>1 DEF IInv, PoolSound, Futures, process
<1>4. ASSUME NEW j \in Items PROVE ItemSound(j)' /\ CopySound(j)' /\ ReturnSound(j)'
  BY <1>1, ItemKept, CopyKept DEF IInv, ReturnSound, outputs, process
<1> QED BY <1>2, <1>3, <1>4 DEF IInv

------------------------------------------------------------------------------
(* The theorems.                                                                *)

LEMMA InitSound == Init => IInv
<1> SUFFICES ASSUME Init PROVE IInv
  OBVIOUS
<1>1. Released \in [Items -> Records] /\ \A i \in Items : Derived(Released[i]) /\ Released[i].text = 1
  <2> DEFINE one == [text |-> 1, status |-> [k \in Rounds |-> "succeeded"],
                     contract |-> [k \in Rounds |-> 1]]
  <2>1. one \in Records
    BY BoundsAssumption DEF Records, Statuses, Versions
  <2>2. Derived(one) /\ one.text = 1
    BY DEF Derived, Rounds, None
  <2>3. Released = [i \in Items |-> one]
    BY DEF Released
  <2> QED BY <2>1, <2>2, <2>3
<1>2. /\ file \in [Items -> Records]
      /\ \A i \in Items : Derived(file[i]) /\ file[i].text <= 1
  <2>1. NoRecord.text <= 1
    BY DEF NoRecord, None
  <2> QED BY <1>1, <2>1, BlankTypes DEF Init
<1>3. \A i \in Items : worker[i].pc = "none"
  BY DEF Init, NoWorker
<1>4. TypeOK
  <2>1. 1 \in Versions /\ 0 \in 0..MaxEdits /\ 0 \in 0..MaxRuns /\ InitialLimit \in 1..MaxConcurrency
    BY BoundsAssumption, LimitAssumption DEF Versions
  <2> QED BY <1>2, <2>1, BlankTypes DEF Init, TypeOK, Outcomes
<1>5. PoolSound
  <2>1. Futures = {}
    BY <1>3 DEF Futures
  <2> QED BY <2>1, FS_EmptySet, LimitAssumption DEF Init, PoolSound
<1>6. ASSUME NEW i \in Items PROVE ItemSound(i) /\ CopySound(i) /\ ReturnSound(i)
  BY <1>2, <1>3 DEF Init, ItemSound, CopySound, ReturnSound, None
<1> QED BY <1>4, <1>5, <1>6 DEF IInv

LEMMA NextSound == IInv /\ [Next]_vars => IInv'
<1> SUFFICES ASSUME IInv, [Next]_vars PROVE IInv'
  OBVIOUS
<1>1. CASE Generate \/ StartFilter \/ \E partial \in BOOLEAN : Correct(partial)
  BY <1>1, GenerateSound, StartFilterSound, CorrectSound
<1>2. CASE Main
  BY <1>2, RejectPromptSound, SubmitSound, SaveSound, CollectSound, ReturnActionSound DEF Main
<1>3. CASE \E g \in Growth : Grow(g)
  BY <1>3, GrowSound
<1>4. CASE \E i \in Items : Thread(i) \/ Revise(i)
  BY <1>4, AcquireSound, SucceedSound, FailSound, ReviseSound DEF Thread
<1>5. CASE \E ready \in SUBSET listed : PrepareGold(ready)
  BY <1>5, PrepareGoldSound
<1>6. CASE Crash
  BY <1>6, CrashSound
<1>7. CASE UNCHANGED vars
  <2>1. UNCHANGED <<dataset, outputs, process>>
    BY <1>7 DEF vars
  <2> QED BY <2>1, ItemKept, CopyKept
          DEF IInv, TypeOK, PoolSound, Futures, ReturnSound, dataset, outputs, process
<1> QED BY <1>1, <1>2, <1>3, <1>4, <1>5, <1>6, <1>7 DEF Next

LEMMA InvariantHolds == Spec => []IInv
BY InitSound, NextSound, PTL DEF Spec

\* What the invariant says of the file, the requests and the permits.
LEMMA InvariantSuffices == IInv => FileIsSound
<1> SUFFICES ASSUME IInv PROVE FileIsSound
  OBVIOUS
<1>1. LineageHolds
  BY DEF IInv, CopySound, LineageHolds
<1>2. ASSUME NEW i \in Items, worker[i].pc = "call"
      PROVE  IF worker[i].round = Filter THEN filtered[i] # "succeeded"
             ELSE ~Reusable(file[i], given[i], worker[i].round)
  <2>1. /\ cmd \in Commands /\ memory[i] = file[i]
        /\ Owed(cmd, memory[i], given[i], filtered[i])
        /\ Carried(cmd, worker[i], memory[i], given[i])
    BY <1>2, FutureHolds
  <2>2. CASE cmd = "generate"
    <3>1. worker[i].round = 1 \/ worker[i].round = 2
      BY <2>1, <2>2 DEF Carried, Generating
    <3> QED BY <2>1, <2>2, <3>1 DEF Owed, Carried, Generating, Filter
  <2>3. CASE cmd = "round3"
    BY <2>1, <2>3 DEF Owed, Carried, Correcting, Filter
  <2>4. CASE cmd = "filter"
    BY <2>1, <2>4 DEF Owed, Carried
  <2> QED BY <2>1, <2>2, <2>3, <2>4 DEF Commands
<1>3. ASSUME NEW i \in Items, worker[i].pc = "ask"
      PROVE  Cardinality(Asking) < limit
  <2>1. /\ Asking \subseteq Futures \ {i} /\ i \in Futures /\ IsFiniteSet(Futures)
    BY <1>3, ItemsFinite DEF Asking, Futures
  <2>2. Cardinality(Futures \ {i}) = Cardinality(Futures) - 1 /\ IsFiniteSet(Futures \ {i})
    BY <2>1, FS_RemoveElement
  <2>3. Cardinality(Asking) <= Cardinality(Futures \ {i}) /\ IsFiniteSet(Asking)
    BY <2>1, <2>2, FS_Subset
  <2>4. /\ Cardinality(Asking) \in Nat /\ Cardinality(Futures \ {i}) \in Nat
        /\ Cardinality(Futures) \in Nat /\ limit \in Nat /\ Cardinality(Futures) <= limit
    BY <2>1, <2>2, <2>3, FS_CardinalityType, LimitAssumption DEF IInv, PoolSound, TypeOK
  <2> QED BY <2>2, <2>3, <2>4
<1>4. ReturnedIsSettled
  BY DEF IInv, ReturnSound, Settled, ReturnedIsSettled
<1> QED BY <1>1, <1>2, <1>3, <1>4
        DEF IInv, FileIsSound, NothingPaidTwice, NobodyQueuesForAPermit

\* Whatever commands run in whatever order, fail, die or are run again, and however
\* the dataset is revised: rc.json never holds a contract beside one it does not
\* derive from, no request is made for what the file already holds, a thread always
\* finds its permit, and a command that returns has settled what it was given.
THEOREM FileStaysSound == Spec => []FileIsSound
BY InvariantHolds, InvariantSuffices, PTL

LEMMA QuietKeeps == ASSUME UNCHANGED outputs PROVE SuccessesAreKept /\ OthersArePreserved
BY DEF outputs, SuccessesAreKept, OthersArePreserved

LEMMA RejectKeeps ==
    ASSUME IInv, NEW i \in Items, RejectPrompt(i) PROVE SuccessesAreKept /\ OthersArePreserved
<1>1. /\ cmd = "filter" /\ i \in todo /\ file' = file /\ SaveFiltered(i, "failed")
  BY DEF RejectPrompt, Rejected
<1>2. given[i] # None /\ filtered[i] # "succeeded"
  BY <1>1, TodoHolds DEF Versions, None, Owed
<1>3. \A j \in Items \ {i} : given[j] # None => filtered'[j] = filtered[j]
  BY <1>1, <1>2, FilterLemma DEF Outcomes
<1>4. listed \subseteq Items
  BY DEF IInv, TypeOK
<1> QED BY <1>1, <1>2, <1>3, <1>4 DEF SuccessesAreKept, OthersArePreserved

LEMMA SaveKeeps ==
    ASSUME IInv, NEW i \in Items, Save(i) PROVE SuccessesAreKept /\ OthersArePreserved
<1>1. worker[i].pc = "done"
  BY DEF Save, IInv, PoolSound
<1>2. /\ cmd \in Commands /\ given[i] \in Versions /\ given[i] # None
      /\ memory[i] = file[i] /\ file[i].text <= given[i]
      /\ Owed(cmd, memory[i], given[i], filtered[i])
      /\ Carried(cmd, worker[i], memory[i], given[i])
  BY <1>1, FutureHolds DEF Versions, None
<1>3. listed \subseteq Items /\ listed' = listed /\ text' = text
  BY DEF IInv, TypeOK, Save, dataset
<1>4. CASE cmd = "filter"
  <2> DEFINE outcome == IF worker[i].won THEN "succeeded" ELSE "failed"
  <2>1. SaveFiltered(i, outcome) /\ file' = file /\ outcome \in Outcomes
    BY <1>4 DEF Save, Outcomes
  <2> HIDE DEF outcome
  <2>2. \A j \in Items \ {i} : given[j] # None => filtered'[j] = filtered[j]
    BY <1>2, <2>1, FilterLemma
  <2>3. filtered[i] # "succeeded"
    BY <1>2, <1>4 DEF Owed
  <2> QED BY <1>3, <1>4, <2>1, <2>2, <2>3 DEF SuccessesAreKept, OthersArePreserved, Commands
<1>5. CASE cmd # "filter"
  <2>1. /\ file'[i] = worker[i].rec /\ filtered' = filtered
        /\ \A j \in Items \ {i} : file'[j] = memory[j]
    BY <1>5 DEF Save, IInv, TypeOK
  <2>2. \A j \in Items \ {i} : given[j] # None \/ cmd = "round3" => file'[j] = file[j]
    BY <1>2, <1>5, <2>1 DEF IInv, ItemSound, CopySound, Commands
  <2>3. ASSUME NEW k \in Rounds, Reusable(file[i], text[i], k)
        PROVE  Reusable(file'[i], text[i], k)
    <3>1. text[i] = given[i]
      <4>1. given[i] <= text[i] /\ text[i] \in Int /\ given[i] \in Int
        BY <1>2 DEF IInv, CopySound, TypeOK, Versions
      <4> QED BY <1>2, <2>3, <4>1 DEF Reusable
    <3>2. CASE cmd = "generate"
      <4>1. Reusable(memory[i], given[i], 1) /\ ~Reusable(memory[i], given[i], 2)
        BY <1>2, <2>3, <3>1, <3>2 DEF Owed, Reusable, Rounds
      <4>2. k = 1
        BY <1>2, <2>3, <3>1, <4>1 DEF Reusable, Rounds
      <4>3. worker[i].rec.status[1] = "succeeded" /\ worker[i].rec.text = given[i]
        BY <1>2, <3>2, <4>1 DEF Carried, Generating
      <4> QED BY <2>1, <3>1, <4>2, <4>3 DEF Reusable
    <3>3. CASE cmd = "round3"
      <4>1. /\ \A j \in 1..2 : worker[i].rec.status[j] = memory[i].status[j]
            /\ worker[i].rec.text = given[i]
        BY <1>2, <3>3 DEF Carried, Correcting
      <4>2. k \in 1..2
        BY <1>2, <2>3, <3>1, <3>3 DEF Owed, Rounds
      <4> QED BY <1>2, <2>1, <2>3, <3>1, <4>1, <4>2 DEF Reusable
    <3> QED BY <1>2, <1>5, <3>2, <3>3 DEF Commands
  <2>4. SuccessesAreKept
    BY <1>2, <1>3, <2>1, <2>2, <2>3 DEF SuccessesAreKept, Commands
  <2>5. ASSUME cmd = "round3" PROVE \A k \in 1..2 : file'[i].contract[k] = file[i].contract[k]
    BY <1>2, <2>1, <2>5 DEF Carried, Correcting
  <2>6. OthersArePreserved
    BY <1>2, <2>2, <2>5 DEF OthersArePreserved
  <2> QED BY <2>4, <2>6
<1> QED BY <1>4, <1>5

LEMMA ReturnKeeps == ASSUME IInv, Return PROVE SuccessesAreKept /\ OthersArePreserved
<1>1. /\ cmd # "none" /\ file' = IF cmd = "generate" THEN memory ELSE file
      /\ filtered' = IF cmd = "filter"
                     THEN [j \in Items |-> IF given[j] = None THEN "absent" ELSE filtered[j]]
                     ELSE filtered
  BY DEF Return, Running
<1>2. ASSUME NEW j \in Items, given[j] # None PROVE file'[j] = file[j] /\ filtered'[j] = filtered[j]
  BY <1>1, <1>2 DEF IInv, ItemSound
<1>3. listed \subseteq Items
  BY DEF IInv, TypeOK
<1> QED BY <1>1, <1>2, <1>3 DEF SuccessesAreKept, OthersArePreserved

\* No step of any command, its end and its death included, loses a round or a
\* filtering that succeeded for the question as it stands, and the correction
\* touches nothing but the round it corrects.
THEOREM NothingIsEverLost == Spec => NothingIsLost
<1>1. ASSUME IInv, [Next]_vars PROVE [SuccessesAreKept /\ OthersArePreserved]_vars
  <2>1. CASE UNCHANGED outputs
    BY <2>1, QuietKeeps
  <2>2. CASE Main
    BY <1>1, <2>1, <2>2, RejectKeeps, SaveKeeps, ReturnKeeps DEF Main, Submit, Collect
  <2>3. CASE ~Main /\ Next
    BY <2>1, <2>3 DEF Next, Generate, StartFilter, Correct, Launch, Grow, Thread, Acquire,
                      Succeed, Fail, Work, Revise, PrepareGold, Crash
  <2>4. CASE UNCHANGED vars
    BY <2>1, <2>4 DEF vars
  <2> QED BY <1>1, <2>2, <2>3, <2>4
<1> QED BY <1>1, InvariantHolds, PTL DEF Spec, NothingIsLost

------------------------------------------------------------------------------
(* EmbeddingService: the inductive invariant                                    *)

\* Tokens charged, by the ticks since the admission.
Windows == [0..(Window - 1) -> Nat]

\* What one batch may add up to: the budget, unless it is a single text.
Small(texts) == Size(texts) <= Budget \/ \E t \in Texts : texts = <<t>>

\* Batches q queued and A active beside the cache C: no two share a text, and only
\* those of an active batch that is stored are in the cache.
Lined(q, A, C) ==
    /\ \A i \in 1..Len(q) :
          /\ q[i].texts # <<>> /\ Small(q[i].texts)
          /\ q[i].attempt < MaxTries /\ q[i].age = 0 /\ q[i].answer = "none"
          /\ TextsOf(q[i]) \cap C = {}
          /\ \A j \in 1..Len(q) : i # j => TextsOf(q[i]) \cap TextsOf(q[j]) = {}
          /\ \A b \in A : TextsOf(q[i]) \cap TextsOf(b) = {}
    /\ \A b \in A :
          /\ b.texts # <<>> /\ Small(b.texts)
          /\ b.answer \in {"sent", "stored"}
          /\ b.answer = "sent" => TextsOf(b) \cap C = {}
          /\ b.answer = "stored" => TextsOf(b) \subseteq C
          /\ \A a \in A : a # b => TextsOf(a) \cap TextsOf(b) = {}

\* What the batches queued and active answer for.
Held(q, A) == UNION {TextsOf(b) : b \in Range(q) \cup A}

CallStates == [pc : {"idle", "submitted", "waiting", "ok", "error", "cancelled"},
               waits : SUBSET Texts, failed : BOOLEAN]

CallTable == [Calls -> CallStates]

\* The calls k, when the batches answer for P and C is stored: each waits for
\* batches only, and what one that has not failed waits for is all it lacks.
CallsSound(k, P, C) ==
    \A c \in Calls :
        /\ k[c].waits \subseteq P
        /\ k[c].pc # "waiting" => k[c].waits = {}
        /\ k[c].pc = "waiting" /\ ~k[c].failed => Range(Want[c]) \subseteq C \cup k[c].waits
        /\ k[c].pc = "ok" => Range(Want[c]) \subseteq C

Weights(q) == [k \in 1..Len(q) |-> Size(q[k].texts)]

\* The batches of S, counted once each, weigh n at most.
Weighs(S, n) ==
    \E q \in Seq(S) : /\ \A i, j \in 1..Len(q) : q[i] = q[j] => i = j
                      /\ \A b \in S : \E i \in 1..Len(q) : q[i] = b
                      /\ Total(Weights(q)) <= n

\* The active batches of one admission time are paid for by its charge.
Paid(A, w) == \A a \in 0..(Window - 1) : Weighs({b \in A : b.age = a}, w[a])

Charges(w) == [k \in 1..Window |-> w[k - 1]]

\* w keeps to the budget, or one large text has the window for itself.
Kept(A, w) ==
    \/ Total(Charges(w)) <= Budget
    \/ \E t \in Texts, k \in 0..(Window - 1), x \in Nat :
          /\ w = [NoCharge EXCEPT ![k] = x]
          /\ Budget < Tokens[t] /\ x <= Tokens[t]
          /\ \A b \in A : b.age < Window => b.texts = <<t>>

\* The window u charges at least w.
Covers(u, w) == u \in Windows /\ \A a \in 0..(Window - 1) : w[a] <= u[a]

\* The charge of b in w is what it was, or what was counted if that is less.
Lowered(v, w, b) ==
    \/ v = w
    \/ /\ b.age < Window
       /\ \E n \in Nat : /\ n <= Size(b.texts)
                         /\ v = [w EXCEPT ![b.age] = w[b.age] - Size(b.texts) + n]

\* Batches q queued and A active, cache C, calls k and admissions w fit together.
Sound(q, A, C, k, w) ==
    /\ q \in Seq(Batches) /\ A \in SUBSET Batches /\ C \in SUBSET Texts
    /\ k \in CallTable /\ w \in Windows
    /\ Lined(q, A, C)
    /\ CallsSound(k, Held(q, A), C)
    /\ Paid(A, w) /\ Kept(A, w)

\* The rest of what the state is typed by; the window covers what was admitted.
Shape ==
    /\ Covers(window, admitted)
    /\ open \in {"closed", "up", "closing"}
    /\ tight \in BOOLEAN
    /\ map \in [pc : {"idle", "run", "unwind"}, yielded : Nat, submitted : Nat]
    /\ faults \in 0..MaxFaults /\ opens \in 0..MaxOpens

ServiceInv == Shape /\ Sound(queue, active, cache, call, admitted) /\ ClosedIsQuiet

------------------------------------------------------------------------------
(* Sums                                                                         *)

\* f holds the running sums of s.
Sums(s, f) ==
    /\ f = [k \in 0..Len(s) |-> f[k]]
    /\ \A k \in 0..Len(s) : f[k] \in Int
    /\ f[0] = 0
    /\ \A k \in 1..Len(s) : f[k] = f[k - 1] + s[k]

\* Induction up to n, over a set of numbers.
LEMMA ReachesAll ==
    ASSUME NEW n \in Nat, NEW Good, 0 \in Good,
           \A k \in 1..n : k - 1 \in Good => k \in Good
    PROVE  \A k \in 0..n : k \in Good
<1> DEFINE Wrong == {k \in 0..n : k \notin Good}
<1> SUFFICES ASSUME Wrong # {} PROVE FALSE
  OBVIOUS
<1>1. IsWellFoundedOn(OpToRel(<, Nat), Nat)
  BY NatLessThanWellFounded
<1>2. PICK k \in Wrong : \A j \in Wrong : <<j, k>> \notin OpToRel(<, Nat)
  <2>1. Wrong \in SUBSET Nat /\ Wrong # {}
    OBVIOUS
  <2> HIDE DEF Wrong
  <2> QED BY <1>1, <2>1, WFMin
<1>3. k \in 1..n /\ k \notin Good /\ k - 1 \in 0..n /\ k - 1 \in Nat /\ k \in Nat /\ k - 1 < k
  OBVIOUS
<1>4. k - 1 \notin Wrong
  BY <1>2, <1>3 DEF OpToRel
<1> QED BY <1>3, <1>4

LEMMA SumsExist ==
    ASSUME NEW s \in Seq(Int)
    PROVE  \E f : Sums(s, f)
<1>0. PICK n \in Nat : n = Len(s)
  BY LenProperties
<1> DEFINE Upto(m, f) == /\ f = [k \in 0..m |-> f[k]]
                         /\ \A k \in 0..m : f[k] \in Int
                         /\ f[0] = 0
                         /\ \A k \in 1..m : f[k] = f[k - 1] + s[k]
           Good == {m \in 0..n : \E f : Upto(m, f)}
<1>1. \A m \in 0..n : m \in Good
  <2>1. 0 \in Good
    <3>1. Upto(0, [k \in 0..0 |-> 0])
      OBVIOUS
    <3> HIDE DEF Upto
    <3> QED BY <3>1
  <2>2. ASSUME NEW m \in 1..n, m - 1 \in Good PROVE m \in Good
    <3>1. PICK f : Upto(m - 1, f)
      BY <2>2
    <3>2. s[m] \in Int
      BY <1>0
    <3>3. PICK g : g = [k \in 0..m |-> IF k = m THEN f[m - 1] + s[m] ELSE f[k]]
      OBVIOUS
    <3>4. \A k \in 0..m : g[k] \in Int
      BY <3>1, <3>2, <3>3
    <3>5. \A k \in 1..m : g[k] = g[k - 1] + s[k]
      <4>1. ASSUME NEW k \in 1..m PROVE g[k] = g[k - 1] + s[k]
        <5>1. k - 1 \in 0..m /\ k - 1 # m /\ k \in 0..m
          OBVIOUS
        <5>2. CASE k = m
          BY <3>3, <5>1, <5>2
        <5>3. CASE k # m
          <6>1. k \in 1..(m - 1)
            BY <5>3
          <6> QED BY <3>1, <3>3, <5>1, <5>3, <6>1
        <5> QED BY <5>2, <5>3
      <4> QED BY <4>1
    <3>6. g[0] = 0 /\ g = [k \in 0..m |-> g[k]]
      BY <3>1, <3>3
    <3>7. Upto(m, g)
      BY <3>4, <3>5, <3>6
    <3> HIDE DEF Upto
    <3> QED BY <3>7
  <2> HIDE DEF Good
  <2> QED BY <2>1, <2>2, ReachesAll
<1>2. PICK f : Upto(n, f)
  BY <1>1
<1> QED BY <1>0, <1>2 DEF Sums

LEMMA TotalIs ==
    ASSUME NEW s \in Seq(Int), NEW f, Sums(s, f)
    PROVE  Total(s) = f[Len(s)]
<1>0. PICK n \in Nat : n = Len(s)
  BY LenProperties
<1> DEFINE Run(g) == g = [k \in 0..Len(s) |-> IF k = 0 THEN 0 ELSE g[k - 1] + s[k]]
           sum == CHOOSE g : Run(g)
<1>1. Run(f)
  <2>0. f = [k \in 0..n |-> f[k]] /\ f[0] = 0 /\ \A k \in 1..n : f[k] = f[k - 1] + s[k]
    BY <1>0 DEF Sums
  <2>1. \A k \in 0..n : f[k] = IF k = 0 THEN 0 ELSE f[k - 1] + s[k]
    <3>1. ASSUME NEW k \in 0..n PROVE f[k] = IF k = 0 THEN 0 ELSE f[k - 1] + s[k]
      <4>1. CASE k = 0
        BY <2>0, <4>1
      <4>2. CASE k # 0
        <5>1. k \in 1..n
          BY <4>2
        <5> QED BY <2>0, <4>2, <5>1
      <4> QED BY <4>1, <4>2
    <3> QED BY <3>1
  <2>2. f = [k \in 0..n |-> IF k = 0 THEN 0 ELSE f[k - 1] + s[k]]
    BY <2>0, <2>1
  <2> QED BY <1>0, <2>2
<1>2. Run(sum)
  BY <1>1
<1>3. Total(s) = sum[Len(s)]
  BY DEF Total
<1> HIDE DEF sum
<1>4. PICK g : g = sum /\ Run(g)
  BY <1>2
<1>5. \A k \in 0..n : g[k] = IF k = 0 THEN 0 ELSE g[k - 1] + s[k]
  BY <1>0, <1>4
<1>6. /\ f[0] = 0
      /\ \A k \in 1..n : f[k] = f[k - 1] + s[k]
  BY <1>0 DEF Sums
<1> HIDE DEF Run
<1>7. \A k \in 0..n : g[k] = f[k]
  <2> DEFINE Good == {k \in 0..n : g[k] = f[k]}
  <2>1. 0 \in Good
    BY <1>5, <1>6
  <2>2. ASSUME NEW k \in 1..n, k - 1 \in Good PROVE k \in Good
    <3>1. k \in 0..n /\ k # 0 /\ g[k - 1] = f[k - 1]
      BY <2>2
    <3> QED BY <1>5, <1>6, <3>1
  <2>3. \A k \in 0..n : k \in Good
    <3> HIDE DEF Good
    <3> QED BY <2>1, <2>2, ReachesAll
  <2> QED BY <2>3
<1> QED BY <1>0, <1>3, <1>4, <1>7

LEMMA TotalType ==
    ASSUME NEW s \in Seq(Nat)
    PROVE  /\ Total(s) \in Nat
           /\ \A i \in 1..Len(s) : s[i] <= Total(s)
<1>0. PICK n \in Nat : n = Len(s)
  BY LenProperties
<1>1. s \in Seq(Int)
  OBVIOUS
<1>2. PICK f : Sums(s, f)
  BY <1>1, SumsExist
<1>3. Total(s) = f[n]
  BY <1>0, <1>1, <1>2, TotalIs
<1>4. /\ \A k \in 0..n : f[k] \in Int
      /\ f[0] = 0
      /\ \A k \in 1..n : f[k] = f[k - 1] + s[k]
  BY <1>0, <1>2 DEF Sums
<1>5. \A k \in 1..n : s[k] \in Nat
  BY <1>0
<1>6. \A k \in 0..n : f[k] >= 0
  <2> DEFINE Good == {k \in 0..n : f[k] >= 0}
  <2>1. 0 \in Good
    BY <1>4
  <2>2. ASSUME NEW k \in 1..n, k - 1 \in Good PROVE k \in Good
    BY <1>4, <1>5, <2>2
  <2>3. \A k \in 0..n : k \in Good
    <3> HIDE DEF Good
    <3> QED BY <2>1, <2>2, ReachesAll
  <2> QED BY <2>3
<1>7. ASSUME NEW i \in 1..n PROVE s[i] <= f[n]
  <2>1. PICK x \in Nat : x = s[i]
    BY <1>5
  <2> DEFINE Good == {k \in 0..n : k >= i => f[k] >= x}
  <2>2. 0 \in Good
    OBVIOUS
  <2>3. ASSUME NEW k \in 1..n, k - 1 \in Good PROVE k \in Good
    <3>1. k - 1 \in 0..n /\ f[k] = f[k - 1] + s[k] /\ f[k - 1] \in Int /\ s[k] \in Nat
          /\ f[k - 1] >= 0
      BY <1>4, <1>5, <1>6
    <3>2. CASE k = i
      BY <2>1, <3>1, <3>2
    <3>3. CASE k # i
      <4>1. k >= i => f[k - 1] >= x
        BY <2>3, <3>3
      <4> QED BY <3>1, <4>1
    <3> QED BY <3>2, <3>3
  <2>4. \A k \in 0..n : k \in Good
    <3> HIDE DEF Good
    <3> QED BY <2>2, <2>3, ReachesAll
  <2>5. n >= i => f[n] >= x
    BY <2>4
  <2> QED BY <1>4, <2>1, <2>5
<1> QED BY <1>0, <1>3, <1>4, <1>6, <1>7

LEMMA TotalInt ==
    ASSUME NEW s \in Seq(Int)
    PROVE  Total(s) \in Int
<1>1. PICK f : Sums(s, f)
  BY SumsExist
<1>2. Total(s) = f[Len(s)] /\ Len(s) \in 0..Len(s)
  BY <1>1, TotalIs
<1> QED BY <1>1, <1>2 DEF Sums

LEMMA TotalAppend ==
    ASSUME NEW s \in Seq(Int), NEW x \in Int
    PROVE  Total(Append(s, x)) = Total(s) + x
<1>0. PICK n \in Nat : n = Len(s)
  BY LenProperties
<1>1. PICK f : Sums(s, f)
  BY SumsExist
<1>2. PICK u \in Seq(Int) : u = Append(s, x)
  BY AppendProperties
<1>3. /\ Len(u) = n + 1 /\ u[n + 1] = x
      /\ \A k \in 1..n : u[k] = s[k]
  BY <1>0, <1>2, AppendProperties
<1>4. /\ f = [k \in 0..n |-> f[k]]
      /\ \A k \in 0..n : f[k] \in Int
      /\ f[0] = 0
      /\ \A k \in 1..n : f[k] = f[k - 1] + s[k]
  BY <1>0, <1>1 DEF Sums
<1>5. PICK g : g = [k \in 0..(n + 1) |-> IF k = n + 1 THEN f[n] + x ELSE f[k]]
  OBVIOUS
<1>6. Sums(u, g)
  <2>1. \A k \in 0..(n + 1) : g[k] \in Int
    BY <1>4, <1>5
  <2>2. ASSUME NEW k \in 1..(n + 1) PROVE g[k] = g[k - 1] + u[k]
    <3>1. CASE k = n + 1
      BY <1>3, <1>4, <1>5, <3>1
    <3>2. CASE k # n + 1
      <4>1. k \in 1..n /\ k - 1 \in 0..n /\ k \in 0..(n + 1) /\ k - 1 \in 0..(n + 1) /\ k - 1 # n + 1
        BY <3>2
      <4>2. g[k] = f[k] /\ g[k - 1] = f[k - 1]
        BY <1>5, <3>2, <4>1
      <4> QED BY <1>3, <1>4, <4>1, <4>2
    <3> QED BY <3>1, <3>2
  <2>3. g[0] = 0 /\ g = [k \in 0..(n + 1) |-> g[k]]
    BY <1>4, <1>5
  <2> QED BY <1>3, <2>1, <2>2, <2>3 DEF Sums
<1>7. Total(u) = g[n + 1] /\ Total(s) = f[n]
  BY <1>0, <1>1, <1>3, <1>6, TotalIs
<1> QED BY <1>2, <1>5, <1>7

LEMMA TotalExcept ==
    ASSUME NEW s \in Seq(Int), NEW i \in 1..Len(s), NEW u \in Seq(Int),
           Len(u) = Len(s), \A k \in 1..Len(s) : k # i => u[k] = s[k]
    PROVE  Total(u) = Total(s) - s[i] + u[i]
<1>0. PICK n \in Nat : n = Len(s) /\ n = Len(u)
  BY LenProperties
<1>3. /\ i \in 1..n /\ \A k \in 1..n : k # i => u[k] = s[k]
      /\ \A k \in 1..n : s[k] \in Int /\ u[k] \in Int
  BY <1>0
<1>1. PICK f : Sums(s, f)
  BY SumsExist
<1>2. PICK d \in Int : d = u[i] - s[i] /\ s[i] \in Int /\ u[i] \in Int
  BY <1>0
<1>4. /\ f = [k \in 0..n |-> f[k]]
      /\ \A k \in 0..n : f[k] \in Int
      /\ f[0] = 0
      /\ \A k \in 1..n : f[k] = f[k - 1] + s[k]
  BY <1>0, <1>1 DEF Sums
<1>5. PICK g : g = [k \in 0..n |-> IF k < i THEN f[k] ELSE f[k] + d]
  OBVIOUS
<1>6. Sums(u, g)
  <2>1. \A k \in 0..n : g[k] \in Int
    BY <1>4, <1>5
  <2>2. ASSUME NEW k \in 1..n PROVE g[k] = g[k - 1] + u[k]
    <3>0. k \in 0..n /\ k - 1 \in 0..n /\ k \in Int /\ i \in Int
      OBVIOUS
    <3>1. /\ k \in 0..n /\ k - 1 \in 0..n /\ k \in Int /\ i \in Int
          /\ f[k] = f[k - 1] + s[k] /\ f[k - 1] \in Int /\ s[k] \in Int /\ u[k] \in Int
      BY <1>3, <1>4, <3>0
    <3>2. CASE k < i
      BY <1>3, <1>5, <3>1, <3>2
    <3>3. CASE k = i
      <4>1. g[k] = f[k] + d /\ g[k - 1] = f[k - 1]
        BY <1>5, <3>1, <3>3
      <4> QED BY <1>2, <3>1, <3>3, <4>1
    <3>4. CASE k > i
      <4>0. ~(k < i) /\ ~(k - 1 < i) /\ k # i
        BY <3>1, <3>4
      <4>1. g[k] = f[k] + d /\ g[k - 1] = f[k - 1] + d /\ u[k] = s[k]
        BY <1>3, <1>5, <3>1, <4>0
      <4> QED BY <1>2, <3>1, <4>1
    <3> QED BY <3>1, <3>2, <3>3, <3>4
  <2>3. g[0] = 0 /\ g = [k \in 0..n |-> g[k]]
    BY <1>3, <1>4, <1>5
  <2> QED BY <1>0, <2>1, <2>2, <2>3 DEF Sums
<1>7. Total(u) = g[n] /\ Total(s) = f[n]
  BY <1>0, <1>1, <1>6, TotalIs
<1>8. g[n] = f[n] + d
  BY <1>3, <1>5
<1> QED BY <1>2, <1>4, <1>7, <1>8

LEMMA WithoutIt == \A x, y, z \in Int : (x + y) + z - y = x + z
OBVIOUS

\* u is s without its entry i.
Skips(u, s, i) ==
    /\ Len(u) = Len(s) - 1
    /\ \A k \in 1..Len(u) : u[k] = IF k < i THEN s[k] ELSE s[k + 1]

LEMMA TotalRemove ==
    ASSUME NEW s \in Seq(Int), NEW i \in 1..Len(s), NEW u \in Seq(Int), Skips(u, s, i)
    PROVE  Total(u) = Total(s) - s[i]
<1>0. PICK n \in Nat : n + 1 = Len(s) /\ n = Len(u)
  BY LenProperties DEF Skips
<1>1. PICK f : Sums(s, f)
  BY SumsExist
<1>3. /\ i \in 1..(n + 1)
      /\ \A k \in 1..n : u[k] = IF k < i THEN s[k] ELSE s[k + 1]
      /\ \A k \in 1..(n + 1) : s[k] \in Int
  <2>1. \A k \in 1..(n + 1) : s[k] \in Int
    BY <1>0
  <2>2. \A k \in 1..n : u[k] = IF k < i THEN s[k] ELSE s[k + 1]
    BY <1>0 DEF Skips
  <2>3. i \in 1..(n + 1)
    BY <1>0
  <2> QED BY <2>1, <2>2, <2>3
<1>2. PICK d \in Int : d = s[i]
  BY <1>0
<1>4. /\ f = [k \in 0..(n + 1) |-> f[k]]
      /\ \A k \in 0..(n + 1) : f[k] \in Int
      /\ f[0] = 0
      /\ \A k \in 1..(n + 1) : f[k] = f[k - 1] + s[k]
  BY <1>0, <1>1 DEF Sums
<1>5. PICK g : g = [k \in 0..n |-> IF k < i THEN f[k] ELSE f[k + 1] - d]
  OBVIOUS
<1>6. Sums(u, g)
  <2>1. \A k \in 0..n : g[k] \in Int
    <3>1. ASSUME NEW k \in 0..n PROVE g[k] \in Int
      <4>1. k \in 0..(n + 1) /\ k + 1 \in 0..(n + 1)
        OBVIOUS
      <4>2. f[k] \in Int /\ f[k + 1] \in Int
        BY <1>4, <4>1
      <4>3. f[k + 1] - d \in Int
        BY <4>2
      <4>4. g[k] = f[k] \/ g[k] = f[k + 1] - d
        BY <1>5
      <4> QED BY <4>2, <4>3, <4>4
    <3> QED BY <3>1
  <2>2. ASSUME NEW k \in 1..n PROVE g[k] = g[k - 1] + u[k]
    <3>1. k \in 0..n /\ k - 1 \in 0..n /\ k \in 1..(n + 1) /\ k + 1 \in 1..(n + 1)
          /\ k - 1 \in 0..(n + 1) /\ k \in 0..(n + 1) /\ i \in Int /\ (k + 1) - 1 = k /\ (k - 1) + 1 = k
      BY <1>3
    <3>2. f[k] = f[k - 1] + s[k] /\ f[k + 1] = f[k] + s[k + 1] /\ f[k - 1] \in Int
          /\ f[k] \in Int /\ s[k] \in Int /\ s[k + 1] \in Int
      BY <1>3, <1>4, <3>1
    <3>3. CASE k < i
      <4>1. g[k] = f[k] /\ g[k - 1] = f[k - 1] /\ u[k] = s[k]
        BY <1>3, <1>5, <3>1, <3>3
      <4> QED BY <3>2, <4>1
    <3>4. CASE k = i
      <4>1. u[k] = s[k + 1]
        BY <1>3, <3>4
      <4>2. g[k] = f[k + 1] - d
        BY <1>3, <1>5, <3>1, <3>4
      <4>3. g[k - 1] = f[k - 1]
        <5>1. k - 1 < i
          BY <1>3, <3>4
        <5> QED BY <1>5, <3>1, <5>1
      <4>4. d = s[k]
        BY <1>2, <3>4
      <4>5. PICK y \in Int, z \in Int : y = f[k - 1] /\ z = s[k + 1] /\ f[k + 1] = (y + d) + z
        BY <3>2, <4>4
      <4>6. (y + d) + z - d = y + z
        BY WithoutIt
      <4>7. g[k] = (y + d) + z - d
        <5>1. PICK e : e = f[k + 1]
          OBVIOUS
        <5>2. g[k] = e - d /\ e = (y + d) + z
          BY <4>2, <4>5, <5>1
        <5> QED BY <5>2
      <4>8. g[k - 1] + u[k] = y + z
        BY <4>1, <4>3, <4>5
      <4> QED BY <4>6, <4>7, <4>8
    <3>5. CASE k > i
      <4>1. g[k] = f[k + 1] - d /\ g[k - 1] = f[k] - d /\ u[k] = s[k + 1]
        <5>1. ~(k < i) /\ ~(k - 1 < i)
          BY <1>3, <3>1, <3>5
        <5>2. g[k] = f[k + 1] - d /\ g[k - 1] = f[(k - 1) + 1] - d
          BY <1>5, <3>1, <5>1
        <5>3. u[k] = s[k + 1]
          BY <1>3, <5>1
        <5> QED BY <3>1, <5>2, <5>3
      <4>2. PICK y \in Int, z \in Int : y = f[k] /\ z = s[k + 1]
        BY <3>2
      <4>3. g[k] = (y + z) - d /\ g[k - 1] = y - d /\ u[k] = z
        BY <3>2, <4>1, <4>2
      <4>4. (y + z) - d = (y - d) + z
        OBVIOUS
      <4> QED BY <4>3, <4>4
    <3> QED BY <3>1, <3>3, <3>4, <3>5
  <2>3. g[0] = 0 /\ g = [k \in 0..n |-> g[k]]
    BY <1>3, <1>4, <1>5
  <2> QED BY <1>0, <2>1, <2>2, <2>3 DEF Sums
<1>7. Total(u) = g[n] /\ Total(s) = f[n + 1]
  BY <1>0, <1>1, <1>6, TotalIs
<1>8. CASE n < i
  <2>0. i = n + 1 /\ n \in 0..n /\ n + 1 \in 1..(n + 1) /\ n \in 0..(n + 1) /\ (n + 1) - 1 = n
    BY <1>3, <1>8
  <2>1. i = n + 1 /\ g[n] = f[n] /\ f[n + 1] = f[n] + s[n + 1] /\ f[n] \in Int
    BY <1>4, <1>5, <1>8, <2>0
  <2>2. PICK x \in Int : x = f[n]
    BY <2>1
  <2>3. Total(u) = x /\ Total(s) = x + d
    BY <1>2, <1>7, <2>0, <2>1, <2>2
  <2>4. (x + d) - d = x
    OBVIOUS
  <2> QED BY <1>2, <2>3, <2>4
<1>9. CASE ~(n < i)
  BY <1>2, <1>3, <1>5, <1>7, <1>9
<1> QED BY <1>8, <1>9

\* Everything moves one place on: the last number is lost.
LEMMA TotalShift ==
    ASSUME NEW s \in Seq(Int), NEW u \in Seq(Int), Len(s) # 0,
           Len(u) = Len(s), u[1] = 0, \A k \in 2..Len(s) : u[k] = s[k - 1]
    PROVE  Total(u) = Total(s) - s[Len(s)]
<1>0. PICK n \in Nat : n = Len(s) /\ n = Len(u) /\ n # 0
  BY LenProperties
<1>1. PICK f : Sums(s, f)
  BY SumsExist
<1>3. u[1] = 0 /\ (\A k \in 2..n : u[k] = s[k - 1]) /\ \A k \in 1..n : s[k] \in Int
  BY <1>0
<1>4. /\ f = [k \in 0..n |-> f[k]]
      /\ \A k \in 0..n : f[k] \in Int
      /\ f[0] = 0
      /\ \A k \in 1..n : f[k] = f[k - 1] + s[k]
  BY <1>0, <1>1 DEF Sums
<1>5. PICK g : g = [k \in 0..n |-> IF k = 0 THEN 0 ELSE f[k - 1]]
  OBVIOUS
<1>6. Sums(u, g)
  <2>1. \A k \in 0..n : g[k] \in Int
    BY <1>4, <1>5
  <2>2. ASSUME NEW k \in 1..n PROVE g[k] = g[k - 1] + u[k]
    <3>1. k \in 0..n /\ k - 1 \in 0..n
      OBVIOUS
    <3>2. CASE k = 1
      BY <1>3, <1>4, <1>5, <3>1, <3>2
    <3>3. CASE k # 1
      <4>1. k - 1 \in 1..n /\ k \in 2..n
        BY <3>3
      <4>2. g[k] = f[k - 1] /\ g[k - 1] = f[(k - 1) - 1] /\ u[k] = s[k - 1]
        BY <1>3, <1>5, <3>1, <4>1
      <4> QED BY <1>4, <4>1, <4>2
    <3> QED BY <3>2, <3>3
  <2>3. g[0] = 0 /\ g = [k \in 0..n |-> g[k]]
    BY <1>5
  <2> QED BY <1>0, <2>1, <2>2, <2>3 DEF Sums
<1>7. Total(u) = g[n] /\ Total(s) = f[n]
  BY <1>0, <1>1, <1>6, TotalIs
<1>8. g[n] = f[n - 1] /\ f[n] = f[n - 1] + s[n] /\ f[n - 1] \in Int /\ s[n] \in Int
  <2>1. n \in 1..n /\ n \in 0..n /\ n - 1 \in 0..n /\ n # 0
    BY <1>0
  <2> QED BY <1>3, <1>4, <1>5, <2>1
<1> QED BY <1>0, <1>7, <1>8

LEMMA TotalZeros ==
    ASSUME NEW s \in Seq(Int), \A k \in 1..Len(s) : s[k] = 0
    PROVE  Total(s) = 0
<1>0. PICK n \in Nat : n = Len(s)
  BY LenProperties
<1>1. PICK g : g = [k \in 0..n |-> 0]
  OBVIOUS
<1>2. Sums(s, g)
  BY <1>0, <1>1 DEF Sums
<1> QED BY <1>0, <1>1, <1>2, TotalIs

LEMMA TotalAtMost ==
    ASSUME NEW s \in Seq(Int), NEW u \in Seq(Int), Len(u) = Len(s),
           \A k \in 1..Len(s) : u[k] <= s[k]
    PROVE  Total(u) <= Total(s)
<1>0. PICK n \in Nat : n = Len(s) /\ n = Len(u)
  BY LenProperties
<1>1. PICK f : Sums(s, f)
  BY SumsExist
<1>2. PICK g : Sums(u, g)
  BY SumsExist
<1>3. /\ \A k \in 0..n : f[k] \in Int /\ g[k] \in Int
      /\ f[0] = 0 /\ g[0] = 0
      /\ \A k \in 1..n : f[k] = f[k - 1] + s[k] /\ g[k] = g[k - 1] + u[k]
  BY <1>0, <1>1, <1>2 DEF Sums
<1>4. \A k \in 1..n : s[k] \in Int /\ u[k] \in Int /\ u[k] <= s[k]
  BY <1>0
<1> DEFINE Good == {k \in 0..n : g[k] <= f[k]}
<1>5. 0 \in Good
  BY <1>3
<1>6. ASSUME NEW k \in 1..n, k - 1 \in Good PROVE k \in Good
  <2>1. k \in 0..n /\ k - 1 \in 0..n /\ g[k - 1] <= f[k - 1]
    BY <1>6
  <2>2. \A a, b, c, d \in Int : a <= b /\ c <= d => a + c <= b + d
    OBVIOUS
  <2>3. /\ g[k - 1] \in Int /\ f[k - 1] \in Int /\ u[k] \in Int /\ s[k] \in Int /\ u[k] <= s[k]
        /\ g[k] = g[k - 1] + u[k] /\ f[k] = f[k - 1] + s[k]
    BY <1>3, <1>4, <2>1
  <2>4. g[k] <= f[k]
    BY <2>1, <2>2, <2>3
  <2> QED BY <2>1, <2>4
<1>7. \A k \in 0..n : k \in Good
  <2> HIDE DEF Good
  <2> QED BY <1>5, <1>6, ReachesAll
<1>8. Total(u) = g[n] /\ Total(s) = f[n]
  BY <1>0, <1>1, <1>2, TotalIs
<1> QED BY <1>7, <1>8

------------------------------------------------------------------------------
(* What the window holds, and what batches weigh                                *)

LEMMA ServiceConstants ==
    /\ Window \in Nat \ {0} /\ MaxTries \in Nat \ {0} /\ Cap \in Nat \ {0}
    /\ BatchSize \in Nat \ {0} /\ MapWorkers \in Nat \ {0}
    /\ Budget \in Nat \ {0} /\ TightBudget \in Nat \ {0} /\ Target \in Nat \ {0}
    /\ TightBudget <= Budget /\ Target <= Budget
    /\ MaxFaults \in Nat /\ MaxOpens \in Nat
    /\ \A t \in Texts : Tokens[t] \in Nat /\ Tokens[t] >= 1
BY TextsAssumption, LimitsAssumption, OpensAssumption

LEMMA ChargesFacts ==
    ASSUME NEW w \in Windows
    PROVE  /\ Charges(w) \in Seq(Nat) /\ Charges(w) \in Seq(Int)
           /\ Len(Charges(w)) = Window
           /\ \A k \in 1..Window : Charges(w)[k] = w[k - 1] /\ w[k - 1] \in Nat
           /\ Total(Charges(w)) \in Nat
           /\ \A a \in 0..(Window - 1) : w[a] <= Total(Charges(w))
<1>0. PICK n \in Nat : n = Window /\ n # 0
  BY ServiceConstants
<1>1. PICK s : s = Charges(w)
  OBVIOUS
<1>2. s = [k \in 1..n |-> w[k - 1]] /\ \A k \in 1..n : w[k - 1] \in Nat
  BY <1>0, <1>1 DEF Charges, Windows
<1>3. s \in Seq(Nat) /\ s \in Seq(Int) /\ Len(s) = n /\ \A k \in 1..n : s[k] = w[k - 1]
  BY <1>2
<1>4. Total(s) \in Nat /\ \A k \in 1..n : s[k] <= Total(s)
  BY <1>3, TotalType
<1>5. ASSUME NEW a \in 0..(n - 1) PROVE w[a] <= Total(s)
  <2>1. a + 1 \in 1..n /\ (a + 1) - 1 = a
    OBVIOUS
  <2>2. s[a + 1] = w[a]
    BY <1>3, <2>1
  <2> QED BY <1>4, <2>1, <2>2
<1> QED BY <1>0, <1>1, <1>2, <1>3, <1>4, <1>5

LEMMA ChargesSet ==
    ASSUME NEW w \in Windows, NEW a \in 0..(Window - 1), NEW x \in Nat
    PROVE  /\ [w EXCEPT ![a] = x] \in Windows
           /\ Total(Charges([w EXCEPT ![a] = x])) = Total(Charges(w)) - w[a] + x
<1>0. PICK n \in Nat : n = Window /\ n # 0
  BY ServiceConstants
<1>1. PICK v \in Windows : v = [w EXCEPT ![a] = x]
  BY DEF Windows
<1>2. PICK s \in Seq(Int) : s = Charges(w)
  BY ChargesFacts
<1>3. PICK u \in Seq(Int) : u = Charges(v)
  BY ChargesFacts
<1>4. /\ Len(s) = n /\ Len(u) = n
      /\ \A k \in 1..n : s[k] = w[k - 1] /\ u[k] = v[k - 1]
  BY <1>0, <1>2, <1>3, ChargesFacts
<1>5. PICK i \in 1..n : i = a + 1 /\ i - 1 = a
  BY <1>0
<1>6. v[a] = x /\ \A b \in 0..(n - 1) : b # a => v[b] = w[b]
  BY <1>0, <1>1 DEF Windows
<1>7. ASSUME NEW k \in 1..n, k # i PROVE u[k] = s[k]
  <2>1. k - 1 \in 0..(n - 1) /\ k - 1 # a
    BY <1>5, <1>7
  <2> QED BY <1>4, <1>6, <2>1
<1>8. Total(u) = Total(s) - s[i] + u[i]
  <2>1. i \in 1..Len(s) /\ Len(u) = Len(s) /\ \A k \in 1..Len(s) : k # i => u[k] = s[k]
    BY <1>4, <1>7
  <2> QED BY <2>1, TotalExcept
<1>9. s[i] = w[a] /\ u[i] = x
  BY <1>4, <1>5, <1>6
<1> QED BY <1>1, <1>2, <1>3, <1>8, <1>9

LEMMA ChargesShift ==
    ASSUME NEW w \in Windows, NEW v,
           v = [age \in DOMAIN w |-> IF age = 0 THEN 0 ELSE w[age - 1]]
    PROVE  v \in Windows /\ Total(Charges(v)) <= Total(Charges(w))
<1>0. PICK n \in Nat : n = Window /\ n # 0
  BY ServiceConstants
<1>1. DOMAIN w = 0..(n - 1) /\ \A a \in 0..(n - 1) : w[a] \in Nat
  BY <1>0 DEF Windows
<1>2. v = [age \in 0..(n - 1) |-> IF age = 0 THEN 0 ELSE w[age - 1]]
  BY <1>1
<1>3. \A a \in 0..(n - 1) : a # 0 => a - 1 \in 0..(n - 1)
  OBVIOUS
<1>4. v \in Windows
  BY <1>0, <1>1, <1>2, <1>3 DEF Windows
<1>5. PICK s \in Seq(Int) : s = Charges(w)
  BY ChargesFacts
<1>6. PICK u \in Seq(Int) : u = Charges(v)
  BY <1>4, ChargesFacts
<1>7. /\ Len(s) = n /\ Len(u) = n
      /\ \A k \in 1..n : s[k] = w[k - 1] /\ w[k - 1] \in Nat
      /\ \A k \in 1..n : u[k] = v[k - 1]
  BY <1>0, <1>4, <1>5, <1>6, ChargesFacts
<1>8. u[1] = 0
  BY <1>0, <1>2, <1>7
<1>9. ASSUME NEW k \in 2..n PROVE u[k] = s[k - 1]
  <2>1. k - 1 \in 1..n /\ k \in 1..n /\ k - 1 \in 0..(n - 1) /\ k - 1 # 0
    OBVIOUS
  <2>2. v[k - 1] = w[(k - 1) - 1]
    BY <1>2, <2>1
  <2> QED BY <1>7, <2>1, <2>2
<1>10. Total(u) = Total(s) - s[n]
  BY <1>0, <1>7, <1>8, <1>9, TotalShift
<1>11. s[n] \in Nat /\ Total(s) \in Int
  BY <1>0, <1>7, TotalInt
<1> QED BY <1>4, <1>5, <1>6, <1>10, <1>11

\* A window charges at least what it covers, and what it covers ages with it.
LEMMA CoversTotal ==
    ASSUME NEW w \in Windows, NEW u, Covers(u, w)
    PROVE  u \in Windows /\ Total(Charges(w)) <= Total(Charges(u))
<1>0. PICK n \in Nat : n = Window /\ n # 0
  BY ServiceConstants
<1>1. u \in Windows /\ \A a \in 0..(n - 1) : w[a] <= u[a]
  BY <1>0 DEF Covers
<1>2. PICK s \in Seq(Int) : s = Charges(u)
  BY <1>1, ChargesFacts
<1>3. PICK r \in Seq(Int) : r = Charges(w)
  BY ChargesFacts
<1>4. /\ Len(s) = n /\ Len(r) = n
      /\ \A k \in 1..n : s[k] = u[k - 1] /\ r[k] = w[k - 1]
  BY <1>0, <1>1, <1>2, <1>3, ChargesFacts
<1>5. ASSUME NEW k \in 1..n PROVE r[k] <= s[k]
  <2>1. k - 1 \in 0..(n - 1)
    OBVIOUS
  <2> QED BY <1>1, <1>4, <2>1
<1>6. Total(r) <= Total(s)
  BY <1>4, <1>5, TotalAtMost
<1> QED BY <1>1, <1>2, <1>3, <1>6

LEMMA CoversShift ==
    ASSUME NEW w \in Windows, NEW u, Covers(u, w),
           NEW x, x = [age \in DOMAIN u |-> IF age = 0 THEN 0 ELSE u[age - 1]],
           NEW v, v = [age \in DOMAIN w |-> IF age = 0 THEN 0 ELSE w[age - 1]]
    PROVE  Covers(x, v)
<1>0. PICK n \in Nat : n = Window /\ n # 0
  BY ServiceConstants
<1>1. /\ u \in Windows /\ \A a \in 0..(n - 1) : w[a] <= u[a]
      /\ DOMAIN w = 0..(n - 1) /\ DOMAIN u = 0..(n - 1)
  BY <1>0 DEF Covers, Windows
<1>2. x \in Windows
  BY <1>1, ChargesShift
<1>3. ASSUME NEW a \in 0..(n - 1) PROVE v[a] <= x[a]
  <2>1. CASE a = 0
    BY <1>1, <2>1
  <2>2. CASE a # 0
    <3>1. a - 1 \in 0..(n - 1)
      BY <2>2
    <3> QED BY <1>1, <2>2, <3>1
  <2> QED BY <2>1, <2>2
<1> QED BY <1>0, <1>2, <1>3 DEF Covers

LEMMA NoCharges ==
    /\ NoCharge \in Windows /\ Total(Charges(NoCharge)) = 0
    /\ \A a \in 0..(Window - 1) : NoCharge[a] = 0
<1>0. PICK n \in Nat : n = Window /\ n # 0
  BY ServiceConstants
<1>1. NoCharge \in Windows /\ \A a \in 0..(n - 1) : NoCharge[a] = 0
  BY <1>0 DEF Windows, NoCharge
<1>2. PICK s \in Seq(Int) : s = Charges(NoCharge)
  BY <1>1, ChargesFacts
<1>3. Len(s) = n /\ \A k \in 1..n : s[k] = NoCharge[k - 1] /\ k - 1 \in 0..(n - 1)
  BY <1>0, <1>1, <1>2, ChargesFacts
<1>4. Total(s) = 0
  BY <1>1, <1>3, TotalZeros
<1> QED BY <1>0, <1>1, <1>2, <1>4

LEMMA OneCharge ==
    ASSUME NEW a \in 0..(Window - 1), NEW x \in Nat
    PROVE  Total(Charges([NoCharge EXCEPT ![a] = x])) = x
BY NoCharges, ChargesSet

\* A window that holds nothing.
LEMMA NothingHeld ==
    ASSUME NEW w \in Windows, Total(Charges(w)) = 0
    PROVE  w = NoCharge
<1>1. ASSUME NEW a \in 0..(Window - 1) PROVE w[a] = 0
  <2>1. w[a] <= Total(Charges(w))
    BY ChargesFacts
  <2>2. w[a] \in Nat
    BY DEF Windows
  <2> QED BY <2>1, <2>2
<1> QED BY <1>1 DEF Windows, NoCharge

LEMMA SizeFacts ==
    ASSUME NEW texts \in Seq(Texts)
    PROVE  /\ Size(texts) \in Nat
           /\ texts # <<>> => Size(texts) >= 1
           /\ \A t \in Texts : Size(Append(texts, t)) = Size(texts) + Tokens[t]
<1>0. PICK n \in Nat : n = Len(texts)
  BY LenProperties
<1> DEFINE Each(s) == [k \in 1..Len(s) |-> Tokens[s[k]]]
<1>1. PICK u : u = Each(texts)
  OBVIOUS
<1>2. u = [k \in 1..n |-> Tokens[texts[k]]]
  BY <1>0, <1>1
<1>3. \A k \in 1..n : texts[k] \in Texts
  BY <1>0
<1>4. \A k \in 1..n : Tokens[texts[k]] \in Nat /\ Tokens[texts[k]] >= 1
  BY <1>3, ServiceConstants
<1>5. u \in Seq(Nat) /\ u \in Seq(Int) /\ Len(u) = n /\ \A k \in 1..n : u[k] = Tokens[texts[k]]
  BY <1>2, <1>4
<1>6. Size(texts) = Total(u)
  BY <1>1 DEF Size
<1>7. Total(u) \in Nat /\ \A k \in 1..n : u[k] <= Total(u)
  BY <1>5, TotalType
<1>8. ASSUME texts # <<>> PROVE Total(u) >= 1
  <2>1. 1 \in 1..n
    BY <1>0, <1>8
  <2>2. u[1] >= 1 /\ u[1] \in Nat
    BY <1>4, <1>5, <2>1
  <2> QED BY <1>7, <2>1, <2>2
<1>9. ASSUME NEW t \in Texts PROVE Size(Append(texts, t)) = Size(texts) + Tokens[t]
  <2>1. PICK x \in Nat : x = Tokens[t]
    BY ServiceConstants
  <2>2. PICK v \in Seq(Texts) : v = Append(texts, t)
    BY AppendProperties
  <2>3. Len(v) = n + 1 /\ v[n + 1] = t /\ \A k \in 1..n : v[k] = texts[k]
    BY <1>0, <2>2, AppendProperties
  <2>4. PICK a : a = Append(u, x)
    OBVIOUS
  <2>5. a \in Seq(Nat) /\ Len(a) = n + 1 /\ a[n + 1] = x /\ \A k \in 1..n : a[k] = u[k]
    BY <1>5, <2>4, AppendProperties
  <2>6. a = [k \in 1..(n + 1) |-> a[k]]
    BY <2>5
  <2>7. \A k \in 1..(n + 1) : a[k] = Tokens[v[k]]
    <3>1. ASSUME NEW k \in 1..(n + 1) PROVE a[k] = Tokens[v[k]]
      <4>1. CASE k = n + 1
        BY <2>1, <2>3, <2>5, <4>1
      <4>2. CASE k # n + 1
        <5>1. k \in 1..n
          BY <4>2
        <5> QED BY <1>5, <2>3, <2>5, <5>1
      <4> QED BY <4>1, <4>2
    <3> QED BY <3>1
  <2>8. a = [k \in 1..(n + 1) |-> Tokens[v[k]]]
    BY <2>6, <2>7
  <2>9. Size(v) = Total(a)
    BY <2>3, <2>8 DEF Size
  <2> QED BY <1>5, <1>6, <2>1, <2>2, <2>4, <2>9, TotalAppend
<1> QED BY <1>6, <1>7, <1>8, <1>9

LEMMA SizeOne ==
    ASSUME NEW t \in Texts
    PROVE  <<t>> \in Seq(Texts) /\ Size(<<t>>) = Tokens[t]
<1>1. PICK e \in Seq(Texts) : e = <<>>
  BY EmptySeq
<1>2. Append(e, t) = <<t>>
  BY <1>1
<1>3. Size(e) = 0
  <2>1. PICK u : u = [k \in 1..Len(e) |-> Tokens[e[k]]]
    OBVIOUS
  <2>2. u \in Seq(Int) /\ \A k \in 1..Len(u) : u[k] = 0
    <3>1. u = <<>>
      BY <1>1, <2>1
    <3> QED BY <3>1, EmptySeq
  <2>3. Total(u) = 0
    BY <2>2, TotalZeros
  <2> QED BY <2>1, <2>3 DEF Size
<1>4. Size(Append(e, t)) = Size(e) + Tokens[t] /\ Append(e, t) \in Seq(Texts)
  BY SizeFacts, AppendProperties
<1>5. Tokens[t] \in Nat
  BY ServiceConstants
<1> QED BY <1>2, <1>3, <1>4, <1>5

\* One place of a sequence is given up.
LEMMA RemovedAt ==
    ASSUME NEW S, NEW q \in Seq(S), NEW i \in 1..Len(q)
    PROVE  /\ RemoveAt(q, i) \in Seq(S)
           /\ Len(RemoveAt(q, i)) = Len(q) - 1
           /\ \A k \in 1..(Len(q) - 1) :
                 RemoveAt(q, i)[k] = IF k < i THEN q[k] ELSE q[k + 1]
<1>0. PICK n \in Nat : n = Len(q) /\ i \in 1..n /\ i \in Int
  BY LenProperties
<1>1. \A k \in 1..n : q[k] \in S
  BY <1>0
<1>2. PICK a : a = SubSeq(q, 1, i - 1)
  OBVIOUS
<1>3. PICK z : z = SubSeq(q, i + 1, n)
  OBVIOUS
<1>4. a \in Seq(S) /\ Len(a) = i - 1 /\ \A k \in 1..(i - 1) : a[k] = q[k]
  <2>1. \A k \in 1..(i - 1) : q[k] \in S
    BY <1>0, <1>1
  <2> QED BY <1>0, <1>2, <2>1, SubSeqProperties
<1>5. z \in Seq(S) /\ Len(z) = n - i /\ \A k \in 1..(n - i) : z[k] = q[i + k]
  <2>1. \A k \in (i + 1)..n : q[k] \in S
    BY <1>0, <1>1
  <2> QED BY <1>0, <1>3, <2>1, SubSeqProperties
<1>6. RemoveAt(q, i) = a \o z
  BY <1>0, <1>2, <1>3 DEF RemoveAt
<1>7. /\ a \o z \in Seq(S) /\ Len(a \o z) = n - 1
      /\ \A k \in 1..(n - 1) : (a \o z)[k] = IF k <= i - 1 THEN a[k] ELSE z[k - (i - 1)]
  BY <1>0, <1>4, <1>5, ConcatProperties
<1>8. ASSUME NEW k \in 1..(n - 1) PROVE (a \o z)[k] = IF k < i THEN q[k] ELSE q[k + 1]
  <2>1. CASE k < i
    BY <1>0, <1>4, <1>7, <2>1
  <2>2. CASE ~(k < i)
    <3>1. PICK j \in 1..(n - i) : j = k - (i - 1) /\ i + j = k + 1
      BY <1>0, <2>2
    <3> QED BY <1>0, <1>5, <1>7, <2>2, <3>1
  <2> QED BY <2>1, <2>2
<1> QED BY <1>0, <1>6, <1>7, <1>8

LEMMA WeightsFacts ==
    ASSUME NEW S \in SUBSET Batches, NEW q \in Seq(S)
    PROVE  /\ Weights(q) \in Seq(Nat) /\ Weights(q) \in Seq(Int)
           /\ Len(Weights(q)) = Len(q)
           /\ \A k \in 1..Len(q) : /\ q[k] \in S
                                   /\ Weights(q)[k] = Size(q[k].texts)
                                   /\ Size(q[k].texts) \in Nat
           /\ Total(Weights(q)) \in Nat
<1>0. PICK n \in Nat : n = Len(q)
  BY LenProperties
<1>1. \A k \in 1..n : q[k] \in S /\ q[k].texts \in Seq(Texts)
  BY <1>0 DEF Batches
<1>2. \A k \in 1..n : Size(q[k].texts) \in Nat
  BY <1>1, SizeFacts
<1>3. PICK u : u = Weights(q) /\ u = [k \in 1..n |-> Size(q[k].texts)]
  BY <1>0 DEF Weights
<1>4. u \in Seq(Nat) /\ u \in Seq(Int) /\ Len(u) = n /\ \A k \in 1..n : u[k] = Size(q[k].texts)
  BY <1>2, <1>3
<1> QED BY <1>0, <1>1, <1>2, <1>3, <1>4, TotalType

LEMMA WeighsNothing ==
    ASSUME NEW n \in Nat
    PROVE  Weighs({}, n)
<1>1. PICK q \in Seq({}) : q = <<>>
  BY EmptySeq
<1>2. Len(q) = 0
  BY <1>1
<1>3. PICK u \in Seq(Int) : u = Weights(q) /\ Len(u) = 0
  <2>1. {} \in SUBSET Batches
    OBVIOUS
  <2> QED BY <1>2, <2>1, WeightsFacts
<1>4. Total(Weights(q)) = 0
  <2>1. \A k \in 1..Len(u) : u[k] = 0
    BY <1>3
  <2> QED BY <1>3, <2>1, TotalZeros
<1>5. /\ \A i, j \in 1..Len(q) : q[i] = q[j] => i = j
      /\ \A b \in {} : \E i \in 1..Len(q) : q[i] = b
  BY <1>2
<1>6. Total(Weights(q)) <= n
  BY <1>4
<1> QED BY <1>5, <1>6 DEF Weighs

LEMMA WeighsMore ==
    ASSUME NEW S \in SUBSET Batches, NEW n \in Nat, NEW m \in Nat, n <= m, Weighs(S, n)
    PROVE  Weighs(S, m)
<1>1. PICK q \in Seq(S) : /\ \A i, j \in 1..Len(q) : q[i] = q[j] => i = j
                          /\ \A b \in S : \E i \in 1..Len(q) : q[i] = b
                          /\ Total(Weights(q)) <= n
  BY DEF Weighs
<1>2. Total(Weights(q)) \in Nat
  BY WeightsFacts
<1>3. Total(Weights(q)) <= m
  BY <1>1, <1>2
<1> QED BY <1>1, <1>3 DEF Weighs

LEMMA WeighsAdd ==
    ASSUME NEW S \in SUBSET Batches, NEW n \in Nat, Weighs(S, n), NEW b \in Batches, b \notin S
    PROVE  Weighs(S \cup {b}, n + Size(b.texts))
<1>1. PICK q \in Seq(S) : /\ \A i, j \in 1..Len(q) : q[i] = q[j] => i = j
                          /\ \A a \in S : \E i \in 1..Len(q) : q[i] = a
                          /\ Total(Weights(q)) <= n
  BY DEF Weighs
<1>0. PICK l \in Nat : l = Len(q)
  BY LenProperties
<1>2. PICK x \in Nat : x = Size(b.texts)
  BY SizeFacts DEF Batches
<1>3. PICK T \in SUBSET Batches : T = S \cup {b} /\ b \in T
  OBVIOUS
<1>4. q \in Seq(T)
  BY <1>3, SeqMonotonic
<1>5. PICK r \in Seq(T) : r = Append(q, b)
  BY <1>4, <1>3, AppendProperties
<1>6. Len(r) = l + 1 /\ r[l + 1] = b /\ \A k \in 1..l : r[k] = q[k] /\ q[k] \in S
  BY <1>0, <1>4, <1>5, <1>3, AppendProperties
<1>7. \A i, j \in 1..(l + 1) : r[i] = r[j] => i = j
  <2>1. ASSUME NEW i \in 1..(l + 1), NEW j \in 1..(l + 1), r[i] = r[j] PROVE i = j
    <3>1. CASE i = l + 1 /\ j = l + 1
      BY <3>1
    <3>2. CASE i = l + 1 /\ j # l + 1
      BY <1>6, <2>1, <3>2
    <3>3. CASE i # l + 1 /\ j = l + 1
      BY <1>6, <2>1, <3>3
    <3>4. CASE i # l + 1 /\ j # l + 1
      <4>1. i \in 1..l /\ j \in 1..l
        BY <3>4
      <4> QED BY <1>0, <1>1, <1>6, <2>1, <4>1
    <3> QED BY <3>1, <3>2, <3>3, <3>4
  <2> QED BY <2>1
<1>8. \A a \in T : \E i \in 1..(l + 1) : r[i] = a
  <2>1. ASSUME NEW a \in S PROVE \E i \in 1..(l + 1) : r[i] = a
    <3>1. PICK i \in 1..l : q[i] = a
      BY <1>0, <1>1
    <3> QED BY <1>6, <3>1
  <2>2. l + 1 \in 1..(l + 1)
    OBVIOUS
  <2> QED BY <1>6, <1>3, <2>1, <2>2
<1>9. Weights(r) = Append(Weights(q), x)
  <2>1. PICK u \in Seq(Int) : u = Weights(q) /\ Len(u) = l /\ \A k \in 1..l : u[k] = Size(q[k].texts)
    BY <1>0, WeightsFacts
  <2>2. PICK v : v = Append(u, x)
    OBVIOUS
  <2>3. v \in Seq(Int) /\ Len(v) = l + 1 /\ v[l + 1] = x /\ \A k \in 1..l : v[k] = u[k]
    BY <2>1, <2>2, AppendProperties
  <2>7. /\ Weights(r) \in Seq(Int) /\ Len(Weights(r)) = Len(r)
        /\ \A k \in 1..Len(r) : Weights(r)[k] = Size(r[k].texts)
    BY WeightsFacts
  <2>4. PICK o \in Seq(Int) : o = Weights(r) /\ Len(o) = l + 1
                              /\ \A k \in 1..(l + 1) : o[k] = Size(r[k].texts)
    BY <1>6, <2>7
  <2>5. \A k \in 1..(l + 1) : o[k] = v[k]
    <3>1. ASSUME NEW k \in 1..(l + 1) PROVE o[k] = v[k]
      <4>1. CASE k = l + 1
        BY <1>2, <1>6, <2>3, <2>4, <4>1
      <4>2. CASE k # l + 1
        <5>1. k \in 1..l
          BY <4>2
        <5>2. o[k] = Size(q[k].texts)
          BY <1>6, <2>4, <5>1
        <5> QED BY <2>1, <2>3, <5>1, <5>2
      <4> QED BY <4>1, <4>2
    <3> QED BY <3>1
  <2>6. o = v
    BY <2>3, <2>4, <2>5, SeqEqual
  <2> QED BY <2>1, <2>2, <2>4, <2>6
<1>10. Weights(q) \in Seq(Int) /\ Total(Weights(q)) \in Nat
  BY WeightsFacts
<1>11. Total(Weights(r)) = Total(Weights(q)) + x
  BY <1>9, <1>10, TotalAppend
<1>12. Total(Weights(r)) <= n + x
  BY <1>1, <1>10, <1>11
<1>13. Weighs(T, n + x)
  BY <1>6, <1>7, <1>8, <1>12 DEF Weighs
<1> QED BY <1>2, <1>13, <1>3

LEMMA WeighsRemove ==
    ASSUME NEW S \in SUBSET Batches, NEW n \in Nat, Weighs(S, n), NEW b \in S
    PROVE  /\ Size(b.texts) \in Nat /\ Size(b.texts) <= n
           /\ Weighs(S \ {b}, n - Size(b.texts))
<1>1. PICK q \in Seq(S) : /\ \A i, j \in 1..Len(q) : q[i] = q[j] => i = j
                          /\ \A a \in S : \E i \in 1..Len(q) : q[i] = a
                          /\ Total(Weights(q)) <= n
  BY DEF Weighs
<1>0. PICK l \in Nat : l = Len(q)
  BY LenProperties
<1>2. PICK i \in 1..l : q[i] = b
  BY <1>0, <1>1
<1>3. PICK r \in Seq(S) : r = RemoveAt(q, i)
  BY <1>0, RemovedAt
<1>4. Len(r) = l - 1 /\ \A k \in 1..(l - 1) : r[k] = IF k < i THEN q[k] ELSE q[k + 1]
  BY <1>0, <1>3, RemovedAt
<1>17. \A x \in 1..l : x # i => q[x] \in S \ {b}
  <2>1. \A x, y \in 1..l : q[x] = q[y] => x = y
    BY <1>0, <1>1
  <2>2. \A x \in 1..l : q[x] \in S
    BY <1>0
  <2> QED BY <1>2, <2>1, <2>2
<1>5. \A k \in 1..(l - 1) : r[k] \in S \ {b}
  <2>1. ASSUME NEW k \in 1..(l - 1) PROVE r[k] \in S \ {b}
    <3>1. PICK x \in 1..l : x # i /\ r[k] = q[x]
      <4>1. CASE k < i
        <5>1. k \in 1..l /\ k # i
          BY <4>1
        <5> QED BY <1>4, <4>1, <5>1
      <4>2. CASE ~(k < i)
        <5>1. k + 1 \in 1..l /\ k + 1 # i
          BY <4>2
        <5> QED BY <1>4, <4>2, <5>1
      <4> QED BY <4>1, <4>2
    <3> QED BY <1>17, <3>1
  <2> QED BY <2>1
<1>6. r \in Seq(S \ {b})
  <2>1. r = [k \in 1..(l - 1) |-> r[k]] /\ l - 1 \in Nat
    BY <1>4, <1>0, <1>2
  <2> QED BY <1>5, <2>1
<1>7. \A j, k \in 1..(l - 1) : r[j] = r[k] => j = k
  <2>1. ASSUME NEW j \in 1..(l - 1), NEW k \in 1..(l - 1), r[j] = r[k] PROVE j = k
    <3>1. PICK x \in 1..l : x = (IF j < i THEN j ELSE j + 1) /\ r[j] = q[x]
      BY <1>4
    <3>2. PICK y \in 1..l : y = (IF k < i THEN k ELSE k + 1) /\ r[k] = q[y]
      BY <1>4
    <3>3. x = y
      BY <1>0, <1>1, <2>1, <3>1, <3>2
    <3> QED BY <3>1, <3>2, <3>3
  <2> QED BY <2>1
<1>8. \A a \in S \ {b} : \E k \in 1..(l - 1) : r[k] = a
  <2>1. ASSUME NEW a \in S \ {b} PROVE \E k \in 1..(l - 1) : r[k] = a
    <3>1. PICK x \in 1..l : q[x] = a /\ x # i
      BY <1>0, <1>1, <1>2
    <3>2. CASE x < i
      <4>1. x \in 1..(l - 1)
        BY <3>2
      <4> QED BY <1>4, <3>1, <3>2, <4>1
    <3>3. CASE ~(x < i)
      <4>1. PICK k \in 1..(l - 1) : k + 1 = x /\ ~(k < i)
        BY <3>1, <3>3
      <4> QED BY <1>4, <3>1, <4>1
    <3> QED BY <3>2, <3>3
  <2> QED BY <2>1
<1>9. PICK u \in Seq(Int) : /\ u = Weights(q) /\ Len(u) = l
                            /\ \A k \in 1..l : u[k] = Size(q[k].texts) /\ u[k] \in Nat
  <2>1. /\ Weights(q) \in Seq(Int) /\ Len(Weights(q)) = l
        /\ \A k \in 1..l : Weights(q)[k] = Size(q[k].texts) /\ Size(q[k].texts) \in Nat
    BY <1>0, WeightsFacts
  <2> QED BY <2>1
<1>10. PICK v \in Seq(Int) : /\ v = Weights(r) /\ Len(v) = l - 1
                             /\ \A k \in 1..(l - 1) : v[k] = Size(r[k].texts)
  <2>1. /\ Weights(r) \in Seq(Int) /\ Len(Weights(r)) = l - 1
        /\ \A k \in 1..(l - 1) : Weights(r)[k] = Size(r[k].texts)
    BY <1>4, WeightsFacts
  <2> QED BY <2>1
<1>11. \A k \in 1..(l - 1) : v[k] = IF k < i THEN u[k] ELSE u[k + 1]
  <2>1. ASSUME NEW k \in 1..(l - 1) PROVE v[k] = IF k < i THEN u[k] ELSE u[k + 1]
    <3>1. k \in 1..l /\ k + 1 \in 1..l
      OBVIOUS
    <3>2. v[k] = Size(r[k].texts) /\ u[k] = Size(q[k].texts) /\ u[k + 1] = Size(q[k + 1].texts)
      BY <1>9, <1>10, <3>1
    <3>3. r[k] = IF k < i THEN q[k] ELSE q[k + 1]
      BY <1>4
    <3> QED BY <3>2, <3>3
  <2> QED BY <2>1
<1>12. Total(v) = Total(u) - u[i]
  <2>1. i \in 1..Len(u) /\ Skips(v, u, i)
    BY <1>9, <1>10, <1>11 DEF Skips
  <2> QED BY <2>1, TotalRemove
<1>13. PICK x \in Nat : x = Size(b.texts) /\ x = u[i]
  BY <1>2, <1>9
<1>14. Total(u) \in Nat /\ Total(v) \in Nat /\ Total(u) <= n
  <2>1. Total(Weights(q)) \in Nat
    BY WeightsFacts
  <2>2. Total(Weights(r)) \in Nat
    BY WeightsFacts
  <2>3. Total(u) = Total(Weights(q)) /\ Total(v) = Total(Weights(r))
    BY <1>9, <1>10
  <2>4. Total(Weights(q)) <= n
    BY <1>1
  <2> QED BY <2>1, <2>2, <2>3, <2>4
<1>15. x <= n /\ Total(Weights(r)) <= n - x
  <2>1. PICK y \in Nat, z \in Nat : y = Total(u) /\ z = Total(v) /\ y <= n
    BY <1>14
  <2>2. z = y - x
    BY <1>12, <1>13, <2>1
  <2>3. x <= n /\ z <= n - x
    BY <2>1, <2>2
  <2> QED BY <1>10, <2>1, <2>3
<1>16. Weighs(S \ {b}, n - x)
  BY <1>4, <1>6, <1>7, <1>8, <1>15 DEF Weighs
<1> QED BY <1>13, <1>15, <1>16

\* The same texts in other records.
LEMMA WeighsSame ==
    ASSUME NEW S \in SUBSET Batches, NEW n \in Nat, Weighs(S, n),
           NEW T \in SUBSET Batches, NEW h \in [S -> T],
           \A a, b \in S : h[a] = h[b] => a = b,
           \A b \in T : \E a \in S : h[a] = b,
           \A a \in S : h[a].texts = a.texts
    PROVE  Weighs(T, n)
<1>1. PICK q \in Seq(S) : /\ \A i, j \in 1..Len(q) : q[i] = q[j] => i = j
                          /\ \A a \in S : \E i \in 1..Len(q) : q[i] = a
                          /\ Total(Weights(q)) <= n
  BY DEF Weighs
<1>0. PICK l \in Nat : l = Len(q) /\ \A k \in 1..l : q[k] \in S
  BY LenProperties
<1>2. PICK r : r = [k \in 1..l |-> h[q[k]]]
  OBVIOUS
<1>3. r \in Seq(T) /\ Len(r) = l /\ \A k \in 1..l : r[k] = h[q[k]]
  <2>1. \A k \in 1..l : h[q[k]] \in T
    BY <1>0
  <2> QED BY <1>2, <2>1
<1>4. \A i, j \in 1..l : r[i] = r[j] => i = j
  BY <1>0, <1>1, <1>3
<1>5. \A b \in T : \E i \in 1..l : r[i] = b
  <2>1. ASSUME NEW b \in T PROVE \E i \in 1..l : r[i] = b
    <3>1. PICK a \in S : h[a] = b
      OBVIOUS
    <3>2. PICK i \in 1..l : q[i] = a
      BY <1>0, <1>1
    <3> QED BY <1>3, <3>1, <3>2
  <2> QED BY <2>1
<1>6. Weights(r) = Weights(q)
  <2>1. \A k \in 1..l : Size(r[k].texts) = Size(q[k].texts)
    BY <1>0, <1>3
  <2> QED BY <1>0, <1>3, <2>1 DEF Weights
<1> QED BY <1>1, <1>3, <1>4, <1>5, <1>6 DEF Weighs

------------------------------------------------------------------------------
(* What embed() queues                                                          *)

\* The batches q answer for the texts ts, each of them once.
Made(q, ts) ==
    /\ q \in Seq(Batches)
    /\ \A i \in 1..Len(q) :
          /\ q[i] = NewBatch(q[i].texts)
          /\ q[i].texts # <<>> /\ Small(q[i].texts)
          /\ TextsOf(q[i]) \subseteq ts
          /\ \A j \in 1..Len(q) : i # j => TextsOf(q[i]) \cap TextsOf(q[j]) = {}
    /\ \A t \in ts : \E i \in 1..Len(q) : t \in TextsOf(q[i])

\* The batch being filled has the texts that no batch made so far has.
Filling(acc, ts) ==
    /\ acc = [out |-> acc.out, part |-> acc.part]
    /\ acc.part \in Seq(Texts)
    /\ Range(acc.part) \subseteq ts
    /\ acc.part # <<>> => Small(acc.part)
    /\ Made(acc.out, ts \ Range(acc.part))

LEMMA SeqRange ==
    ASSUME NEW S, NEW s \in Seq(S)
    PROVE  /\ \A t : t \in Range(s) <=> \E k \in 1..Len(s) : s[k] = t
           /\ Range(s) \subseteq S
           /\ s # <<>> => Range(s) # {}
<1>1. DOMAIN s = 1..Len(s) /\ Len(s) \in Nat /\ \A k \in 1..Len(s) : s[k] \in S
  BY LenProperties
<1>2. s # <<>> => 1 \in 1..Len(s)
  BY <1>1
<1> QED BY <1>1, <1>2 DEF Range

LEMMA AppendRange ==
    ASSUME NEW S, NEW s \in Seq(S), NEW t \in S
    PROVE  Append(s, t) \in Seq(S) /\ Range(Append(s, t)) = Range(s) \cup {t}
<1>0. PICK n \in Nat : n = Len(s)
  BY LenProperties
<1>1. PICK r \in Seq(S) : r = Append(s, t)
  BY AppendProperties
<1>2. Len(r) = n + 1 /\ r[n + 1] = t /\ \A k \in 1..n : r[k] = s[k]
  BY <1>0, <1>1, AppendProperties
<1>3. ASSUME NEW x \in Range(r) PROVE x \in Range(s) \cup {t}
  <2>1. PICK k \in 1..(n + 1) : r[k] = x
    BY <1>2, SeqRange
  <2>2. k \in 1..n \/ k = n + 1
    OBVIOUS
  <2> QED BY <1>0, <1>2, <2>1, <2>2, SeqRange
<1>4. ASSUME NEW x \in Range(s) PROVE x \in Range(r)
  <2>1. PICK k \in 1..n : s[k] = x
    BY <1>0, SeqRange
  <2>2. k \in 1..(n + 1)
    OBVIOUS
  <2> QED BY <1>2, <2>1, <2>2, SeqRange
<1>5. t \in Range(r)
  <2>1. n + 1 \in 1..(n + 1)
    OBVIOUS
  <2> QED BY <1>2, <2>1, SeqRange
<1>6. Range(r) = Range(s) \cup {t}
  BY <1>3, <1>4, <1>5
<1> QED BY <1>1, <1>6

LEMMA NewBatchFacts ==
    ASSUME NEW texts \in Seq(Texts)
    PROVE  /\ NewBatch(texts) \in Batches
           /\ NewBatch(texts).texts = texts /\ NewBatch(texts).attempt = 0
           /\ NewBatch(texts).age = 0 /\ NewBatch(texts).answer = "none"
           /\ TextsOf(NewBatch(texts)) = Range(texts)
<1>1. 0 \in 0..MaxTries /\ 0 \in 0..1 /\ 0 \in 0..Window
  BY ServiceConstants
<1> QED BY <1>1 DEF NewBatch, Batches, TextsOf

LEMMA MadeMore ==
    ASSUME NEW q, NEW us, Made(q, us), NEW part \in Seq(Texts), part # <<>>, Small(part),
           Range(part) \cap us = {}
    PROVE  Made(Append(q, NewBatch(part)), us \cup Range(part))
<1>0. PICK n \in Nat : n = Len(q)
  BY LenProperties DEF Made
<1>1. PICK b \in Batches : b = NewBatch(part) /\ b.texts = part /\ TextsOf(b) = Range(part)
  BY NewBatchFacts
<1>2. q \in Seq(Batches)
  BY DEF Made
<1>3. PICK r \in Seq(Batches) : r = Append(q, b)
  BY <1>2, AppendProperties
<1>4. Len(r) = n + 1 /\ r[n + 1] = b /\ \A k \in 1..n : r[k] = q[k]
  BY <1>0, <1>2, <1>3, AppendProperties
<1>5. ASSUME NEW i \in 1..n
      PROVE  /\ q[i] = NewBatch(q[i].texts)
             /\ q[i].texts # <<>> /\ Small(q[i].texts)
             /\ TextsOf(q[i]) \subseteq us
             /\ \A j \in 1..n : i # j => TextsOf(q[i]) \cap TextsOf(q[j]) = {}
  BY <1>0 DEF Made
<1>6. \A t \in us : \E i \in 1..n : t \in TextsOf(q[i])
  BY <1>0 DEF Made
<1>7. \A i \in 1..(n + 1) : i \in 1..n \/ i = n + 1
  OBVIOUS
<1>8. ASSUME NEW i \in 1..(n + 1)
      PROVE  /\ r[i] = NewBatch(r[i].texts)
             /\ r[i].texts # <<>> /\ Small(r[i].texts)
             /\ TextsOf(r[i]) \subseteq us \cup Range(part)
             /\ \A j \in 1..(n + 1) : i # j => TextsOf(r[i]) \cap TextsOf(r[j]) = {}
  <2>1. CASE i = n + 1
    <3>1. ASSUME NEW j \in 1..(n + 1), i # j PROVE TextsOf(r[i]) \cap TextsOf(r[j]) = {}
      <4>1. j \in 1..n
        BY <2>1, <3>1
      <4>2. TextsOf(q[j]) \subseteq us
        BY <1>5, <4>1
      <4> QED BY <1>1, <1>4, <2>1, <4>1, <4>2
    <3> QED BY <1>1, <1>4, <2>1, <3>1
  <2>2. CASE i # n + 1
    <3>1. i \in 1..n /\ r[i] = q[i]
      BY <1>4, <2>2
    <3>2. ASSUME NEW j \in 1..(n + 1), i # j PROVE TextsOf(r[i]) \cap TextsOf(r[j]) = {}
      <4>1. CASE j = n + 1
        BY <1>1, <1>4, <1>5, <3>1, <4>1
      <4>2. CASE j # n + 1
        <5>1. j \in 1..n
          BY <4>2
        <5> QED BY <1>4, <1>5, <3>1, <3>2, <5>1
      <4> QED BY <4>1, <4>2
    <3> QED BY <1>5, <3>1, <3>2
  <2> QED BY <2>1, <2>2
<1>9. ASSUME NEW t \in us \cup Range(part) PROVE \E i \in 1..(n + 1) : t \in TextsOf(r[i])
  <2>1. CASE t \in us
    <3>1. PICK i \in 1..n : t \in TextsOf(q[i])
      BY <1>6, <2>1
    <3>2. i \in 1..(n + 1)
      OBVIOUS
    <3> QED BY <1>4, <3>1, <3>2
  <2>2. CASE t \in Range(part)
    <3>1. n + 1 \in 1..(n + 1)
      OBVIOUS
    <3> QED BY <1>1, <1>4, <2>2, <3>1
  <2> QED BY <2>1, <2>2
<1> QED BY <1>1, <1>3, <1>4, <1>8, <1>9 DEF Made

LEMMA SmallOne ==
    ASSUME NEW t \in Texts
    PROVE  <<t>> \in Seq(Texts) /\ <<t>> # <<>> /\ Small(<<t>>) /\ Range(<<t>>) = {t}
<1>1. <<t>> \in Seq(Texts) /\ <<t>> # <<>> /\ Len(<<t>>) = 1 /\ <<t>>[1] = t
  OBVIOUS
<1>2. Range(<<t>>) = {t}
  <2>1. PICK s \in Seq(Texts) : s = <<t>>
    BY <1>1
  <2>2. \A x : x \in Range(s) <=> \E k \in 1..Len(s) : s[k] = x
    BY SeqRange
  <2>3. Len(s) = 1 /\ s[1] = t
    BY <2>1
  <2>4. \A x : x \in Range(s) <=> x = t
    BY <2>2, <2>3
  <2>5. Range(s) = {t}
    BY <2>4
  <2> QED BY <2>1, <2>5
<1> QED BY <1>1, <1>2 DEF Small

\* One more text is put in.
LEMMA PackStep ==
    ASSUME NEW acc, NEW ts, Filling(acc, ts), NEW t \in Texts, t \notin ts
    PROVE  Filling(Pack(acc, t), ts \cup {t})
<1>1. PICK out, part : acc = [out |-> out, part |-> part]
  BY DEF Filling
<1>2. acc.out = out /\ acc.part = part
  BY <1>1
<1>3. /\ part \in Seq(Texts) /\ Range(part) \subseteq ts
      /\ part # <<>> => Small(part)
      /\ Made(out, ts \ Range(part))
  BY <1>2 DEF Filling
<1> DEFINE Full == part # <<>> /\ (Len(part) = BatchSize \/ Size(part) + Tokens[t] > Target)
<1>4. CASE Full
  <2>1. Pack(acc, t) = [out |-> Append(out, NewBatch(part)), part |-> <<t>>]
    BY <1>2, <1>4 DEF Pack
  <2>2. Made(Append(out, NewBatch(part)), (ts \ Range(part)) \cup Range(part))
    BY <1>3, <1>4, MadeMore
  <2>3. (ts \ Range(part)) \cup Range(part) = (ts \cup {t}) \ {t}
    BY <1>3
  <2>4. PICK o : o = Append(out, NewBatch(part)) /\ Made(o, (ts \cup {t}) \ {t})
    BY <2>2, <2>3
  <2>5. PICK p : p = <<t>> /\ p \in Seq(Texts) /\ Small(p) /\ Range(p) = {t}
    BY SmallOne
  <2>6. Filling([out |-> o, part |-> p], ts \cup {t})
    BY <2>4, <2>5 DEF Filling
  <2> QED BY <2>1, <2>4, <2>5, <2>6
<1>5. CASE ~Full
  <2>1. Pack(acc, t) = [acc EXCEPT !.part = Append(@, t)]
    <3>1. ~(acc.part # <<>> /\ (Len(acc.part) = BatchSize \/ Size(acc.part) + Tokens[t] > Target))
      BY <1>2, <1>5
    <3> QED BY <3>1 DEF Pack
  <2>2. PICK p : p = Append(part, t) /\ p \in Seq(Texts) /\ Range(p) = Range(part) \cup {t}
    <3>1. part \in Seq(Texts)
      BY <1>3
    <3>2. Append(part, t) \in Seq(Texts) /\ Range(Append(part, t)) = Range(part) \cup {t}
      BY <3>1, AppendRange
    <3> QED BY <3>2
  <2>3. Pack(acc, t) = [out |-> out, part |-> p]
    BY <1>1, <2>1, <2>2
  <2>4. Small(p)
    <3>1. CASE part = <<>>
      <4>1. p = <<t>>
        BY <2>2, <3>1
      <4> QED BY <4>1, SmallOne
    <3>2. CASE part # <<>>
      <4>1. Size(part) + Tokens[t] <= Target
        <5>1. Size(part) \in Nat /\ Tokens[t] \in Nat /\ Target \in Nat
          BY <1>3, SizeFacts, ServiceConstants
        <5> QED BY <1>5, <3>2, <5>1
      <4>2. Size(p) = Size(part) + Tokens[t] /\ Size(part) \in Nat
        BY <1>3, <2>2, SizeFacts
      <4> QED BY <4>1, <4>2, ServiceConstants DEF Small
    <3> QED BY <3>1, <3>2
  <2>5. ts \ Range(part) = (ts \cup {t}) \ Range(p)
    BY <2>2
  <2>6. Made(out, (ts \cup {t}) \ Range(p))
    BY <1>3, <2>5
  <2>7. Filling([out |-> out, part |-> p], ts \cup {t})
    BY <1>3, <2>2, <2>4, <2>6 DEF Filling
  <2> QED BY <2>3, <2>7
<1> QED BY <1>4, <1>5

\* A call's new batches answer for what it owns.
LEMMA PackedMade ==
    ASSUME NEW texts \in Seq(Texts), \A i, j \in 1..Len(texts) : texts[i] = texts[j] => i = j,
           NEW owned \in SUBSET Range(texts)
    PROVE  Made(Packed(texts, owned), owned)
<1>0. PICK n \in Nat : n = Len(texts) /\ DOMAIN texts = 1..n /\ \A k \in 1..n : texts[k] \in Texts
  BY LenProperties
<1> DEFINE Empty == [out |-> <<>>, part |-> <<>>]
           Turn(k, acc) == IF texts[k] \in owned THEN Pack(acc, texts[k]) ELSE acc
           Seen(k) == {texts[j] : j \in 1..k} \cap owned
           Upto(m, f) == /\ f = [k \in 0..m |-> f[k]]
                         /\ f[0] = Empty
                         /\ \A k \in 1..m : f[k] = Turn(k, f[k - 1])
                         /\ \A k \in 0..m : Filling(f[k], Seen(k))
           Good == {m \in 0..n : \E f : Upto(m, f)}
<1>1. 0 \in Good
  <2>1. PICK f : f = [k \in 0..0 |-> Empty]
    OBVIOUS
  <2>2. Filling(Empty, Seen(0))
    <3>1. PICK o \in Seq(Batches) : o = <<>> /\ Len(o) = 0
      BY EmptySeq
    <3>2. PICK p \in Seq(Texts) : p = <<>> /\ Len(p) = 0
      BY EmptySeq
    <3>3. Range(p) = {} /\ Seen(0) = {}
      <4>1. \A x : x \in Range(p) <=> \E k \in 1..Len(p) : p[k] = x
        BY SeqRange
      <4> QED BY <3>2, <4>1
    <3>4. Made(o, Seen(0) \ Range(p))
      BY <3>1, <3>3 DEF Made
    <3>5. Filling([out |-> o, part |-> p], Seen(0))
      BY <3>2, <3>3, <3>4 DEF Filling
    <3> QED BY <3>1, <3>2, <3>5
  <2>3. Upto(0, f)
    BY <2>1, <2>2
  <2> HIDE DEF Upto
  <2> QED BY <2>3
<1>2. ASSUME NEW m \in 1..n, m - 1 \in Good PROVE m \in Good
  <2>1. PICK f : Upto(m - 1, f)
    BY <1>2
  <2>2. m - 1 \in 0..(m - 1) /\ m \in 0..n /\ m # 0 /\ m - 1 # m
    OBVIOUS
  <2>3. PICK g : g = [k \in 0..m |-> IF k = m THEN Turn(m, f[m - 1]) ELSE f[k]]
    OBVIOUS
  <2>4. Filling(f[m - 1], Seen(m - 1))
    BY <2>1, <2>2
  <2>5. Filling(Turn(m, f[m - 1]), Seen(m))
    <3>1. \A t : t \in Seen(m) <=> t \in Seen(m - 1) \/ (t = texts[m] /\ t \in owned)
      <4>1. \A j \in 1..m : j \in 1..(m - 1) \/ j = m
        OBVIOUS
      <4>2. \A j \in 1..(m - 1) : j \in 1..m
        OBVIOUS
      <4> QED BY <4>1, <4>2
    <3>2. CASE texts[m] \in owned
      <4>1. texts[m] \notin Seen(m - 1)
        <5>1. ASSUME NEW j \in 1..(m - 1) PROVE texts[j] # texts[m]
          <6>1. j \in 1..n /\ j # m
            OBVIOUS
          <6> QED BY <1>0, <6>1
        <5> QED BY <5>1
      <4>2. Seen(m) = Seen(m - 1) \cup {texts[m]}
        BY <3>1, <3>2
      <4>3. PICK ts : ts = Seen(m - 1)
        OBVIOUS
      <4>4. Filling(f[m - 1], ts) /\ texts[m] \notin ts /\ texts[m] \in Texts
        BY <1>0, <2>4, <4>1, <4>3
      <4>5. Filling(Pack(f[m - 1], texts[m]), ts \cup {texts[m]})
        BY <4>4, PackStep
      <4> QED BY <3>2, <4>2, <4>3, <4>5
    <3>3. CASE texts[m] \notin owned
      <4>1. Seen(m) = Seen(m - 1)
        BY <3>1, <3>3
      <4> QED BY <2>4, <3>3, <4>1
    <3> QED BY <3>2, <3>3
  <2>6. Upto(m, g)
    <3>1. f[0] = Empty /\ (\A k \in 1..(m - 1) : f[k] = Turn(k, f[k - 1]))
          /\ \A k \in 0..(m - 1) : Filling(f[k], Seen(k))
      BY <2>1
    <3> HIDE DEF Empty, Turn, Seen
    <3>2. g[0] = Empty /\ g = [k \in 0..m |-> g[k]]
      BY <2>2, <2>3, <3>1
    <3>3. ASSUME NEW k \in 1..m PROVE g[k] = Turn(k, g[k - 1])
      <4>1. k - 1 \in 0..m /\ k - 1 # m /\ k \in 0..m
        OBVIOUS
      <4>2. CASE k = m
        BY <2>3, <4>1, <4>2
      <4>3. CASE k # m
        <5>1. k \in 1..(m - 1)
          BY <4>3
        <5> QED BY <2>3, <3>1, <4>1, <4>3, <5>1
      <4> QED BY <4>2, <4>3
    <3>4. ASSUME NEW k \in 0..m PROVE Filling(g[k], Seen(k))
      <4>1. CASE k = m
        BY <2>3, <2>5, <4>1
      <4>2. CASE k # m
        <5>1. k \in 0..(m - 1)
          BY <4>2
        <5> QED BY <2>3, <3>1, <4>2, <5>1
      <4> QED BY <4>1, <4>2
    <3> QED BY <3>2, <3>3, <3>4
  <2> HIDE DEF Upto
  <2> QED BY <2>2, <2>6
<1>3. PICK f : Upto(n, f)
  <2>1. \A m \in 0..n : m \in Good
    <3> HIDE DEF Good
    <3> QED BY <1>1, <1>2, ReachesAll
  <2>2. n \in Good
    <3> HIDE DEF Good
    <3> QED BY <2>1
  <2> HIDE DEF Upto
  <2> QED BY <2>2
<1> DEFINE Run(g) == g = [k \in 0..Len(texts) |->
                           IF k = 0 THEN Empty
                           ELSE IF texts[k] \in owned THEN Pack(g[k - 1], texts[k])
                                ELSE g[k - 1]]
           acc == CHOOSE g : Run(g)
<1>4. f = [k \in 0..n |-> f[k]] /\ f[0] = Empty /\ (\A k \in 1..n : f[k] = Turn(k, f[k - 1]))
  BY <1>3
<1>5. Filling(f[n], Seen(n))
  <2>1. n \in 0..n
    OBVIOUS
  <2> QED BY <1>3, <2>1
<1>6. Run(f)
  <2> HIDE DEF Empty
  <2>1. \A k \in 0..n : f[k] = IF k = 0 THEN Empty
                               ELSE IF texts[k] \in owned THEN Pack(f[k - 1], texts[k])
                                    ELSE f[k - 1]
    <3>1. \A k \in 0..n : k = 0 \/ (k \in 1..n /\ k # 0)
      OBVIOUS
    <3>2. f[0] = Empty /\ \A k \in 1..n : f[k] = IF texts[k] \in owned
                                                THEN Pack(f[k - 1], texts[k])
                                                ELSE f[k - 1]
      BY <1>4
    <3> HIDE DEF Turn
    <3> QED BY <3>1, <3>2
  <2> QED BY <1>0, <1>4, <2>1
<1>7. Run(acc)
  <2> HIDE DEF Run
  <2> QED BY <1>6
<1>8. Packed(texts, owned) = IF acc[Len(texts)].part = <<>> THEN acc[Len(texts)].out
                             ELSE Append(acc[Len(texts)].out, NewBatch(acc[Len(texts)].part))
  BY DEF Packed
<1> HIDE DEF acc, Upto, Good
<1>9. PICK g : g = acc /\ Run(g)
  BY <1>7
<1>10. \A k \in 0..n : g[k] = IF k = 0 THEN Empty ELSE Turn(k, g[k - 1])
  <2> HIDE DEF Empty
  <2> QED BY <1>0, <1>9
<1> HIDE DEF Run, Empty, Turn
<1>11. g[n] = f[n]
  <2> DEFINE Same == {k \in 0..n : g[k] = f[k]}
  <2>1. 0 \in Same
    BY <1>4, <1>10
  <2>2. ASSUME NEW k \in 1..n, k - 1 \in Same PROVE k \in Same
    <3>1. k \in 0..n /\ k # 0 /\ g[k - 1] = f[k - 1]
      BY <2>2
    <3> QED BY <1>4, <1>10, <3>1
  <2>3. \A k \in 0..n : k \in Same
    <3> HIDE DEF Same
    <3> QED BY <2>1, <2>2, ReachesAll
  <2> QED BY <2>3
<1>12. Seen(n) = owned
  <2>1. ASSUME NEW t \in owned PROVE t \in Seen(n)
    <3>1. t \in Range(texts)
      OBVIOUS
    <3>2. PICK j \in 1..n : texts[j] = t
      BY <1>0, <3>1, SeqRange
    <3> QED BY <3>2
  <2> QED BY <2>1
<1> HIDE DEF Seen
<1>13. PICK o, p : f[n] = [out |-> o, part |-> p]
  BY <1>5 DEF Filling
<1>14. /\ p \in Seq(Texts) /\ Range(p) \subseteq owned
       /\ p # <<>> => Small(p)
       /\ Made(o, owned \ Range(p))
  BY <1>5, <1>12, <1>13 DEF Filling
<1>15. Packed(texts, owned) = IF p = <<>> THEN o ELSE Append(o, NewBatch(p))
  BY <1>0, <1>8, <1>9, <1>11, <1>13
<1>16. CASE p = <<>>
  <2>1. Range(p) = {}
    <3>1. \A x : x \in Range(p) <=> \E k \in 1..Len(p) : p[k] = x
      BY <1>14, SeqRange
    <3> QED BY <1>16, <3>1
  <2>2. owned \ Range(p) = owned
    BY <2>1
  <2> QED BY <1>14, <1>15, <1>16, <2>2
<1>17. CASE p # <<>>
  <2>0. PICK r : r = Range(p) /\ r \subseteq owned
    BY <1>14
  <2>3. (owned \ r) \cup r = owned
    BY <2>0
  <2>4. r \cap (owned \ r) = {}
    OBVIOUS
  <2>1. PICK us : us = owned \ r /\ us \cup r = owned /\ r \cap us = {}
    BY <2>3, <2>4
  <2>2. Made(Append(o, NewBatch(p)), us \cup Range(p))
    BY <1>14, <1>17, <2>0, <2>1, MadeMore
  <2> QED BY <1>15, <1>17, <2>0, <2>1, <2>2
<1> QED BY <1>16, <1>17

------------------------------------------------------------------------------
(* How batches come and go                                                      *)

LEMMA InHeld ==
    ASSUME NEW q \in Seq(Batches), NEW A \in SUBSET Batches
    PROVE  \A t : t \in Held(q, A) <=> \/ \E i \in 1..Len(q) : t \in TextsOf(q[i])
                                       \/ \E b \in A : t \in TextsOf(b)
<1>1. \A b : b \in Range(q) <=> \E i \in 1..Len(q) : q[i] = b
  BY SeqRange
<1>2. ASSUME NEW t, t \in Held(q, A)
      PROVE  \/ \E i \in 1..Len(q) : t \in TextsOf(q[i])
             \/ \E b \in A : t \in TextsOf(b)
  <2>1. PICK b \in Range(q) \cup A : t \in TextsOf(b)
    BY <1>2 DEF Held
  <2> QED BY <1>1, <2>1
<1>3. ASSUME NEW i \in 1..Len(q), NEW t \in TextsOf(q[i]) PROVE t \in Held(q, A)
  <2>1. q[i] \in Range(q) \cup A
    BY <1>1
  <2> QED BY <2>1 DEF Held
<1>4. ASSUME NEW b \in A, NEW t \in TextsOf(b) PROVE t \in Held(q, A)
  BY DEF Held
<1> QED BY <1>2, <1>3, <1>4

\* A batch leaves the queue.
LEMMA LeaveQueue ==
    ASSUME NEW q \in Seq(Batches), NEW A \in SUBSET Batches, NEW C, Lined(q, A, C),
           NEW i \in 1..Len(q)
    PROVE  /\ RemoveAt(q, i) \in Seq(Batches)
           /\ Lined(RemoveAt(q, i), A, C)
           /\ TextsOf(q[i]) \cap Held(RemoveAt(q, i), A) = {}
           /\ Held(q, A) \ TextsOf(q[i]) \subseteq Held(RemoveAt(q, i), A)
<1>0. PICK n \in Nat : n = Len(q)
  BY LenProperties
<1>1. PICK r \in Seq(Batches) : r = RemoveAt(q, i)
  BY RemovedAt
<1>2. Len(r) = n - 1 /\ \A k \in 1..(n - 1) : r[k] = IF k < i THEN q[k] ELSE q[k + 1]
  BY <1>0, <1>1, RemovedAt
<1>3. ASSUME NEW k \in 1..(n - 1)
      PROVE  \E x \in 1..n : x # i /\ r[k] = q[x] /\ x = (IF k < i THEN k ELSE k + 1)
  <2>1. CASE k < i
    BY <1>2, <2>1
  <2>2. CASE ~(k < i)
    BY <1>0, <1>2, <2>2
  <2> QED BY <2>1, <2>2
<1>4. ASSUME NEW x \in 1..n, x # i PROVE \E k \in 1..(n - 1) : r[k] = q[x]
  <2>1. CASE x < i
    <3>1. x \in 1..(n - 1)
      BY <1>0, <2>1
    <3> QED BY <1>2, <2>1, <3>1
  <2>2. CASE ~(x < i)
    <3>1. PICK k \in 1..(n - 1) : k + 1 = x /\ ~(k < i)
      BY <1>0, <1>4, <2>2
    <3> QED BY <1>2, <3>1
  <2> QED BY <2>1, <2>2
<1>5. ASSUME NEW x \in 1..n
      PROVE  /\ q[x].texts # <<>> /\ Small(q[x].texts)
             /\ q[x].attempt < MaxTries /\ q[x].age = 0 /\ q[x].answer = "none"
             /\ TextsOf(q[x]) \cap C = {}
             /\ \A y \in 1..n : x # y => TextsOf(q[x]) \cap TextsOf(q[y]) = {}
             /\ \A b \in A : TextsOf(q[x]) \cap TextsOf(b) = {}
  BY <1>0 DEF Lined
<1>6. ASSUME NEW k \in 1..(n - 1)
      PROVE  /\ r[k].texts # <<>> /\ Small(r[k].texts)
             /\ r[k].attempt < MaxTries /\ r[k].age = 0 /\ r[k].answer = "none"
             /\ TextsOf(r[k]) \cap C = {}
             /\ \A j \in 1..(n - 1) : k # j => TextsOf(r[k]) \cap TextsOf(r[j]) = {}
             /\ \A b \in A : TextsOf(r[k]) \cap TextsOf(b) = {}
             /\ TextsOf(q[i]) \cap TextsOf(r[k]) = {}
  <2>1. PICK x \in 1..n : x # i /\ r[k] = q[x] /\ x = (IF k < i THEN k ELSE k + 1)
    BY <1>3
  <2>2. ASSUME NEW j \in 1..(n - 1), k # j PROVE TextsOf(r[k]) \cap TextsOf(r[j]) = {}
    <3>1. PICK y \in 1..n : r[j] = q[y] /\ y = (IF j < i THEN j ELSE j + 1)
      BY <1>3
    <3>2. x # y
      BY <1>0, <2>1, <2>2, <3>1
    <3> QED BY <1>5, <2>1, <3>1, <3>2
  <2>3. TextsOf(q[i]) \cap TextsOf(q[x]) = {}
    BY <1>0, <1>5, <2>1
  <2> QED BY <1>5, <2>1, <2>2, <2>3
<1>7. Lined(r, A, C)
  BY <1>2, <1>6 DEF Lined
<1>8. \A t : t \in Held(r, A) <=> \/ \E k \in 1..(n - 1) : t \in TextsOf(r[k])
                                  \/ \E b \in A : t \in TextsOf(b)
  BY <1>2, InHeld
<1>9. TextsOf(q[i]) \cap Held(r, A) = {}
  BY <1>0, <1>5, <1>6, <1>8
<1>10. ASSUME NEW t \in Held(q, A) \ TextsOf(q[i]) PROVE t \in Held(r, A)
  <2>1. \/ \E x \in 1..n : t \in TextsOf(q[x])
        \/ \E b \in A : t \in TextsOf(b)
    BY <1>0, InHeld
  <2>2. ASSUME NEW x \in 1..n, t \in TextsOf(q[x]) PROVE t \in Held(r, A)
    <3>1. x # i
      BY <2>2
    <3>2. PICK k \in 1..(n - 1) : r[k] = q[x]
      BY <1>4, <3>1
    <3> QED BY <1>8, <2>2, <3>2
  <2> QED BY <1>8, <2>1, <2>2
<1> QED BY <1>1, <1>7, <1>9, <1>10

\* A batch is given to the request pool.
LEMMA JoinActive ==
    ASSUME NEW q \in Seq(Batches), NEW A \in SUBSET Batches, NEW C, Lined(q, A, C),
           NEW b \in Batches, b.texts # <<>>, Small(b.texts), b.answer = "sent",
           TextsOf(b) \cap C = {}, TextsOf(b) \cap Held(q, A) = {}
    PROVE  /\ b \notin A
           /\ A \cup {b} \in SUBSET Batches
           /\ Lined(q, A \cup {b}, C)
           /\ Held(q, A) \cup TextsOf(b) \subseteq Held(q, A \cup {b})
<1>1. TextsOf(b) # {}
  <2>1. b.texts \in Seq(Texts)
    BY DEF Batches
  <2> QED BY <2>1, SeqRange DEF TextsOf
<1>2. \A t : t \in Held(q, A) <=> \/ \E i \in 1..Len(q) : t \in TextsOf(q[i])
                                  \/ \E a \in A : t \in TextsOf(a)
  BY InHeld
<1>3. \A a \in A : TextsOf(a) \cap TextsOf(b) = {}
  BY <1>2
<1>4. \A i \in 1..Len(q) : TextsOf(q[i]) \cap TextsOf(b) = {}
  BY <1>2
<1>5. b \notin A
  BY <1>1, <1>3
<1>6. PICK D \in SUBSET Batches : D = A \cup {b}
  OBVIOUS
<1>7. ASSUME NEW i \in 1..Len(q)
      PROVE  /\ q[i].texts # <<>> /\ Small(q[i].texts)
             /\ q[i].attempt < MaxTries /\ q[i].age = 0 /\ q[i].answer = "none"
             /\ TextsOf(q[i]) \cap C = {}
             /\ \A j \in 1..Len(q) : i # j => TextsOf(q[i]) \cap TextsOf(q[j]) = {}
             /\ \A a \in D : TextsOf(q[i]) \cap TextsOf(a) = {}
  BY <1>4, <1>6 DEF Lined
<1>8. ASSUME NEW a \in D
      PROVE  /\ a.texts # <<>> /\ Small(a.texts)
             /\ a.answer \in {"sent", "stored"}
             /\ a.answer = "sent" => TextsOf(a) \cap C = {}
             /\ a.answer = "stored" => TextsOf(a) \subseteq C
             /\ \A d \in D : d # a => TextsOf(d) \cap TextsOf(a) = {}
  <2>1. CASE a = b
    BY <1>3, <1>6, <2>1
  <2>2. CASE a # b
    BY <1>3, <1>6, <2>2 DEF Lined
  <2> QED BY <2>1, <2>2
<1>9. Lined(q, D, C)
  BY <1>7, <1>8 DEF Lined
<1>10. Held(q, A) \cup TextsOf(b) \subseteq Held(q, D)
  BY <1>6 DEF Held
<1> QED BY <1>5, <1>6, <1>9, <1>10

\* Its request has ended.
LEMMA LeaveActive ==
    ASSUME NEW q \in Seq(Batches), NEW A \in SUBSET Batches, NEW C, Lined(q, A, C),
           NEW b \in A
    PROVE  /\ A \ {b} \in SUBSET Batches
           /\ Lined(q, A \ {b}, C)
           /\ TextsOf(b) \cap Held(q, A \ {b}) = {}
           /\ Held(q, A) \ TextsOf(b) \subseteq Held(q, A \ {b})
<1>1. PICK D \in SUBSET Batches : D = A \ {b}
  OBVIOUS
<1>2. \A t : t \in Held(q, D) <=> \/ \E i \in 1..Len(q) : t \in TextsOf(q[i])
                                  \/ \E a \in D : t \in TextsOf(a)
  BY InHeld
<1>3. Lined(q, D, C)
  BY <1>1 DEF Lined
<1>4. \A a \in D : TextsOf(a) \cap TextsOf(b) = {}
  BY <1>1 DEF Lined
<1>5. \A i \in 1..Len(q) : TextsOf(q[i]) \cap TextsOf(b) = {}
  BY DEF Lined
<1>6. TextsOf(b) \cap Held(q, D) = {}
  BY <1>2, <1>4, <1>5
<1>7. Held(q, A) \ TextsOf(b) \subseteq Held(q, D)
  BY <1>1 DEF Held
<1> QED BY <1>1, <1>3, <1>6, <1>7

\* The vectors of its texts are stored.
LEMMA StoreActive ==
    ASSUME NEW q \in Seq(Batches), NEW A \in SUBSET Batches, NEW C, Lined(q, A, C),
           NEW b \in A, NEW s \in Batches, s.texts = b.texts, s.answer = "stored"
    PROVE  /\ (A \ {b}) \cup {s} \in SUBSET Batches
           /\ Lined(q, (A \ {b}) \cup {s}, C \cup TextsOf(b))
           /\ Held(q, A) \subseteq Held(q, (A \ {b}) \cup {s})
<1>1. PICK D \in SUBSET Batches : D = (A \ {b}) \cup {s}
  OBVIOUS
<1>2. TextsOf(s) = TextsOf(b)
  BY DEF TextsOf
<1>3. PICK K : K = C \cup TextsOf(b)
  OBVIOUS
<1>4. ASSUME NEW i \in 1..Len(q)
      PROVE  /\ q[i].texts # <<>> /\ Small(q[i].texts)
             /\ q[i].attempt < MaxTries /\ q[i].age = 0 /\ q[i].answer = "none"
             /\ TextsOf(q[i]) \cap K = {}
             /\ \A j \in 1..Len(q) : i # j => TextsOf(q[i]) \cap TextsOf(q[j]) = {}
             /\ \A a \in D : TextsOf(q[i]) \cap TextsOf(a) = {}
  <2>1. TextsOf(q[i]) \cap TextsOf(b) = {} /\ TextsOf(q[i]) \cap C = {}
    BY DEF Lined
  <2>2. TextsOf(q[i]) \cap K = {}
    BY <1>3, <2>1
  <2> QED BY <1>1, <1>2, <2>1, <2>2 DEF Lined
<1>5. \A a \in A \ {b} : /\ a.texts # <<>> /\ Small(a.texts)
                         /\ a.answer \in {"sent", "stored"}
                         /\ a.answer = "sent" => TextsOf(a) \cap C = {}
                         /\ a.answer = "stored" => TextsOf(a) \subseteq C
                         /\ \A d \in A : d # a => TextsOf(d) \cap TextsOf(a) = {}
  BY DEF Lined
<1>6. b.texts # <<>> /\ Small(b.texts) /\ \A d \in A : d # b => TextsOf(d) \cap TextsOf(b) = {}
  BY DEF Lined
<1>7. ASSUME NEW a \in D
      PROVE  /\ a.texts # <<>> /\ Small(a.texts)
             /\ a.answer \in {"sent", "stored"}
             /\ a.answer = "sent" => TextsOf(a) \cap K = {}
             /\ a.answer = "stored" => TextsOf(a) \subseteq K
             /\ \A d \in D : d # a => TextsOf(d) \cap TextsOf(a) = {}
  <2>1. CASE a = s
    BY <1>1, <1>2, <1>3, <1>6, <2>1
  <2>2. CASE a # s
    <3>1. a \in A \ {b}
      BY <1>1, <2>2
    <3>2. TextsOf(b) \cap TextsOf(a) = {}
      BY <1>5, <3>1
    <3>3. a.answer = "sent" => TextsOf(a) \cap K = {}
      BY <1>3, <1>5, <3>1, <3>2
    <3> QED BY <1>1, <1>2, <1>3, <1>5, <3>1, <3>2, <3>3
  <2> QED BY <2>1, <2>2
<1>8. Lined(q, D, K)
  BY <1>4, <1>7 DEF Lined
<1>9. ASSUME NEW t \in Held(q, A) PROVE t \in Held(q, D)
  <2>1. PICK a \in Range(q) \cup A : t \in TextsOf(a)
    BY DEF Held
  <2>2. CASE a = b
    BY <1>1, <1>2, <2>1, <2>2 DEF Held
  <2>3. CASE a # b
    BY <1>1, <2>1, <2>3 DEF Held
  <2> QED BY <2>2, <2>3
<1> QED BY <1>1, <1>3, <1>8, <1>9

\* It goes back to the queue.
LEMMA AppendQueue ==
    ASSUME NEW q \in Seq(Batches), NEW A \in SUBSET Batches, NEW C, Lined(q, A, C),
           NEW b \in Batches, b.texts # <<>>, Small(b.texts), b.attempt < MaxTries,
           b.age = 0, b.answer = "none",
           TextsOf(b) \cap C = {}, TextsOf(b) \cap Held(q, A) = {}
    PROVE  /\ Append(q, b) \in Seq(Batches)
           /\ Lined(Append(q, b), A, C)
           /\ Held(q, A) \cup TextsOf(b) \subseteq Held(Append(q, b), A)
<1>0. PICK n \in Nat : n = Len(q)
  BY LenProperties
<1>1. PICK r \in Seq(Batches) : r = Append(q, b)
  BY AppendProperties
<1>2. Len(r) = n + 1 /\ r[n + 1] = b /\ \A k \in 1..n : r[k] = q[k]
  BY <1>0, <1>1, AppendProperties
<1>3. \A t : t \in Held(q, A) <=> \/ \E i \in 1..n : t \in TextsOf(q[i])
                                  \/ \E a \in A : t \in TextsOf(a)
  BY <1>0, InHeld
<1>4. /\ \A a \in A : TextsOf(a) \cap TextsOf(b) = {}
      /\ \A i \in 1..n : TextsOf(q[i]) \cap TextsOf(b) = {}
  BY <1>3
<1>5. ASSUME NEW x \in 1..n
      PROVE  /\ q[x].texts # <<>> /\ Small(q[x].texts)
             /\ q[x].attempt < MaxTries /\ q[x].age = 0 /\ q[x].answer = "none"
             /\ TextsOf(q[x]) \cap C = {}
             /\ \A y \in 1..n : x # y => TextsOf(q[x]) \cap TextsOf(q[y]) = {}
             /\ \A a \in A : TextsOf(q[x]) \cap TextsOf(a) = {}
  BY <1>0 DEF Lined
<1>6. ASSUME NEW k \in 1..(n + 1)
      PROVE  /\ r[k].texts # <<>> /\ Small(r[k].texts)
             /\ r[k].attempt < MaxTries /\ r[k].age = 0 /\ r[k].answer = "none"
             /\ TextsOf(r[k]) \cap C = {}
             /\ \A j \in 1..(n + 1) : k # j => TextsOf(r[k]) \cap TextsOf(r[j]) = {}
             /\ \A a \in A : TextsOf(r[k]) \cap TextsOf(a) = {}
  <2>0. \A j \in 1..(n + 1) : j \in 1..n \/ j = n + 1
    OBVIOUS
  <2>1. CASE k = n + 1
    <3>1. ASSUME NEW j \in 1..(n + 1), k # j PROVE TextsOf(r[k]) \cap TextsOf(r[j]) = {}
      <4>1. j \in 1..n
        BY <2>0, <2>1, <3>1
      <4> QED BY <1>2, <1>4, <2>1, <4>1
    <3> QED BY <1>2, <1>4, <2>1, <3>1
  <2>2. CASE k # n + 1
    <3>1. k \in 1..n /\ r[k] = q[k]
      BY <1>2, <2>0, <2>2
    <3>2. ASSUME NEW j \in 1..(n + 1), k # j PROVE TextsOf(r[k]) \cap TextsOf(r[j]) = {}
      <4>1. CASE j = n + 1
        BY <1>2, <1>4, <3>1, <4>1
      <4>2. CASE j \in 1..n
        BY <1>2, <1>5, <3>1, <3>2, <4>2
      <4> QED BY <2>0, <4>1, <4>2
    <3> QED BY <1>5, <3>1, <3>2
  <2> QED BY <2>1, <2>2
<1>7. ASSUME NEW a \in A
      PROVE  /\ a.texts # <<>> /\ Small(a.texts)
             /\ a.answer \in {"sent", "stored"}
             /\ a.answer = "sent" => TextsOf(a) \cap C = {}
             /\ a.answer = "stored" => TextsOf(a) \subseteq C
             /\ \A d \in A : d # a => TextsOf(d) \cap TextsOf(a) = {}
  BY DEF Lined
<1>8. Lined(r, A, C)
  BY <1>2, <1>6, <1>7 DEF Lined
<1>9. \A t : t \in Held(r, A) <=> \/ \E i \in 1..(n + 1) : t \in TextsOf(r[i])
                                  \/ \E a \in A : t \in TextsOf(a)
  BY <1>2, InHeld
<1>10. n + 1 \in 1..(n + 1) /\ \A i \in 1..n : i \in 1..(n + 1)
  OBVIOUS
<1>11. Held(q, A) \cup TextsOf(b) \subseteq Held(r, A)
  BY <1>2, <1>3, <1>9, <1>10
<1> QED BY <1>1, <1>8, <1>11

\* A call queues the batches it made.
LEMMA JoinQueue ==
    ASSUME NEW q \in Seq(Batches), NEW A \in SUBSET Batches, NEW C, Lined(q, A, C),
           NEW m, NEW ts, Made(m, ts), ts \cap C = {}, ts \cap Held(q, A) = {}
    PROVE  /\ q \o m \in Seq(Batches)
           /\ Lined(q \o m, A, C)
           /\ Held(q, A) \cup ts \subseteq Held(q \o m, A)
<1>0. PICK n \in Nat : n = Len(q)
  BY LenProperties
<1>1. m \in Seq(Batches)
  BY DEF Made
<1>2. PICK l \in Nat : l = Len(m)
  BY <1>1, LenProperties
<1>3. PICK r \in Seq(Batches) : r = q \o m
  BY <1>1, ConcatProperties
<1>4. Len(r) = n + l /\ \A k \in 1..(n + l) : r[k] = IF k <= n THEN q[k] ELSE m[k - n]
  BY <1>0, <1>1, <1>2, <1>3, ConcatProperties
<1>5. ASSUME NEW k \in 1..(n + l)
      PROVE  \/ k \in 1..n /\ r[k] = q[k]
             \/ \E j \in 1..l : r[k] = m[j] /\ j = k - n /\ ~(k <= n)
  <2>1. CASE k <= n
    BY <1>4, <2>1
  <2>2. CASE ~(k <= n)
    <3>1. k - n \in 1..l
      BY <2>2
    <3> QED BY <1>4, <2>2, <3>1
  <2> QED BY <2>1, <2>2
<1>6. \A t : t \in Held(q, A) <=> \/ \E i \in 1..n : t \in TextsOf(q[i])
                                  \/ \E a \in A : t \in TextsOf(a)
  BY <1>0, InHeld
<1>7. ASSUME NEW j \in 1..l
      PROVE  /\ m[j].texts # <<>> /\ Small(m[j].texts)
             /\ m[j].attempt < MaxTries /\ m[j].age = 0 /\ m[j].answer = "none"
             /\ TextsOf(m[j]) \subseteq ts
             /\ \A i \in 1..l : j # i => TextsOf(m[j]) \cap TextsOf(m[i]) = {}
  <2>1. m[j] = NewBatch(m[j].texts) /\ m[j] \in Batches
    BY <1>1, <1>2 DEF Made
  <2>2. m[j].texts \in Seq(Texts)
    BY <2>1 DEF Batches
  <2>3. m[j].attempt = 0 /\ m[j].age = 0 /\ m[j].answer = "none"
    BY <2>1, <2>2, NewBatchFacts
  <2>4. /\ m[j].texts # <<>> /\ Small(m[j].texts) /\ TextsOf(m[j]) \subseteq ts
        /\ \A i \in 1..l : j # i => TextsOf(m[j]) \cap TextsOf(m[i]) = {}
    BY <1>2 DEF Made
  <2>5. 0 < MaxTries
    BY ServiceConstants
  <2> QED BY <2>3, <2>4, <2>5
<1>8. ASSUME NEW x \in 1..n
      PROVE  /\ q[x].texts # <<>> /\ Small(q[x].texts)
             /\ q[x].attempt < MaxTries /\ q[x].age = 0 /\ q[x].answer = "none"
             /\ TextsOf(q[x]) \cap C = {}
             /\ \A y \in 1..n : x # y => TextsOf(q[x]) \cap TextsOf(q[y]) = {}
             /\ \A a \in A : TextsOf(q[x]) \cap TextsOf(a) = {}
             /\ TextsOf(q[x]) \cap ts = {}
  BY <1>0, <1>6 DEF Lined
<1>9. \A a \in A : TextsOf(a) \cap ts = {}
  BY <1>6
<1>10. ASSUME NEW k \in 1..(n + l)
       PROVE  /\ r[k].texts # <<>> /\ Small(r[k].texts)
              /\ r[k].attempt < MaxTries /\ r[k].age = 0 /\ r[k].answer = "none"
              /\ TextsOf(r[k]) \cap C = {}
              /\ \A j \in 1..(n + l) : k # j => TextsOf(r[k]) \cap TextsOf(r[j]) = {}
              /\ \A a \in A : TextsOf(r[k]) \cap TextsOf(a) = {}
  <2>1. CASE k \in 1..n /\ r[k] = q[k]
    <3>1. ASSUME NEW j \in 1..(n + l), k # j PROVE TextsOf(r[k]) \cap TextsOf(r[j]) = {}
      <4>1. CASE j \in 1..n /\ r[j] = q[j]
        BY <1>8, <2>1, <3>1, <4>1
      <4>2. CASE \E i \in 1..l : r[j] = m[i] /\ i = j - n /\ ~(j <= n)
        <5>1. PICK i \in 1..l : r[j] = m[i]
          BY <4>2
        <5> QED BY <1>7, <1>8, <2>1, <5>1
      <4> QED BY <1>5, <4>1, <4>2
    <3> QED BY <1>8, <2>1, <3>1
  <2>2. CASE \E i \in 1..l : r[k] = m[i] /\ i = k - n /\ ~(k <= n)
    <3>1. PICK i \in 1..l : r[k] = m[i] /\ i = k - n
      BY <2>2
    <3>2. ASSUME NEW j \in 1..(n + l), k # j PROVE TextsOf(r[k]) \cap TextsOf(r[j]) = {}
      <4>1. CASE j \in 1..n /\ r[j] = q[j]
        BY <1>7, <1>8, <3>1, <4>1
      <4>2. CASE \E x \in 1..l : r[j] = m[x] /\ x = j - n /\ ~(j <= n)
        <5>1. PICK x \in 1..l : r[j] = m[x] /\ x = j - n
          BY <4>2
        <5>2. x # i
          BY <3>1, <3>2, <5>1
        <5> QED BY <1>7, <3>1, <5>1, <5>2
      <4> QED BY <1>5, <4>1, <4>2
    <3>3. TextsOf(m[i]) \subseteq ts
      BY <1>7
    <3>4. TextsOf(m[i]) \cap C = {} /\ \A a \in A : TextsOf(m[i]) \cap TextsOf(a) = {}
      BY <1>9, <3>3
    <3> QED BY <1>7, <3>1, <3>2, <3>4
  <2> QED BY <1>5, <2>1, <2>2
<1>11. ASSUME NEW a \in A
       PROVE  /\ a.texts # <<>> /\ Small(a.texts)
              /\ a.answer \in {"sent", "stored"}
              /\ a.answer = "sent" => TextsOf(a) \cap C = {}
              /\ a.answer = "stored" => TextsOf(a) \subseteq C
              /\ \A d \in A : d # a => TextsOf(d) \cap TextsOf(a) = {}
  BY DEF Lined
<1>12. Lined(r, A, C)
  BY <1>4, <1>10, <1>11 DEF Lined
<1>13. \A t : t \in Held(r, A) <=> \/ \E i \in 1..(n + l) : t \in TextsOf(r[i])
                                   \/ \E a \in A : t \in TextsOf(a)
  BY <1>4, InHeld
<1>14. ASSUME NEW t \in ts PROVE t \in Held(r, A)
  <2>1. PICK j \in 1..l : t \in TextsOf(m[j])
    BY <1>2 DEF Made
  <2>2. PICK k \in 1..(n + l) : k = n + j /\ ~(k <= n) /\ k - n = j
    OBVIOUS
  <2>3. r[k] = m[j]
    BY <1>4, <2>2
  <2> QED BY <1>13, <2>1, <2>3
<1>15. ASSUME NEW t \in Held(q, A) PROVE t \in Held(r, A)
  <2>1. ASSUME NEW i \in 1..n, t \in TextsOf(q[i]) PROVE t \in Held(r, A)
    <3>1. i \in 1..(n + l) /\ i <= n
      OBVIOUS
    <3>2. r[i] = q[i]
      BY <1>4, <3>1
    <3> QED BY <1>13, <2>1, <3>1, <3>2
  <2> QED BY <1>6, <1>13, <2>1
<1> QED BY <1>3, <1>12, <1>14, <1>15

\* What is queued is answered with an error.
LEMMA EmptyQueue ==
    ASSUME NEW q \in Seq(Batches), NEW A \in SUBSET Batches, NEW C, Lined(q, A, C)
    PROVE  /\ <<>> \in Seq(Batches)
           /\ Lined(<<>>, A, C)
           /\ Held(q, A) \ UNION {TextsOf(b) : b \in Range(q)} \subseteq Held(<<>>, A)
<1>1. PICK e \in Seq(Batches) : e = <<>> /\ Len(e) = 0
  BY EmptySeq
<1>2. Lined(e, A, C)
  BY <1>1 DEF Lined
<1>3. ASSUME NEW t \in Held(q, A) \ UNION {TextsOf(b) : b \in Range(q)} PROVE t \in Held(e, A)
  BY DEF Held
<1> QED BY <1>1, <1>2, <1>3

\* The same batches a little later.
LEMMA LaterBatches ==
    ASSUME NEW q \in Seq(Batches), NEW A \in SUBSET Batches, NEW C, Lined(q, A, C),
           NEW r \in Seq(Batches), Len(r) = Len(q),
           \A i \in 1..Len(q) : /\ r[i].texts = q[i].texts /\ r[i].attempt = q[i].attempt
                                /\ r[i].age = q[i].age /\ r[i].answer = q[i].answer,
           NEW D \in SUBSET Batches, D = {Older(b) : b \in A}
    PROVE  /\ Lined(r, D, C)
           /\ Held(q, A) \subseteq Held(r, D)
<1>1. \A i \in 1..Len(q) : TextsOf(r[i]) = TextsOf(q[i])
  BY DEF TextsOf
<1>2. ASSUME NEW b \in A
      PROVE  /\ Older(b) \in D /\ Older(b).texts = b.texts
             /\ Older(b).answer = b.answer /\ TextsOf(Older(b)) = TextsOf(b)
  <2>1. b \in Batches
    OBVIOUS
  <2>2. Older(b).texts = b.texts /\ Older(b).answer = b.answer
    BY <2>1 DEF Older, Batches
  <2> QED BY <2>2 DEF TextsOf
<1>3. \A d \in D : \E b \in A : d = Older(b)
  OBVIOUS
<1>4. ASSUME NEW i \in 1..Len(q)
      PROVE  /\ r[i].texts # <<>> /\ Small(r[i].texts)
             /\ r[i].attempt < MaxTries /\ r[i].age = 0 /\ r[i].answer = "none"
             /\ TextsOf(r[i]) \cap C = {}
             /\ \A j \in 1..Len(q) : i # j => TextsOf(r[i]) \cap TextsOf(r[j]) = {}
             /\ \A d \in D : TextsOf(r[i]) \cap TextsOf(d) = {}
  <2>1. /\ q[i].texts # <<>> /\ Small(q[i].texts)
        /\ q[i].attempt < MaxTries /\ q[i].age = 0 /\ q[i].answer = "none"
        /\ TextsOf(q[i]) \cap C = {}
        /\ \A j \in 1..Len(q) : i # j => TextsOf(q[i]) \cap TextsOf(q[j]) = {}
        /\ \A b \in A : TextsOf(q[i]) \cap TextsOf(b) = {}
    BY DEF Lined
  <2> HIDE DEF Older
  <2> QED BY <1>1, <1>2, <1>3, <2>1
<1>5. ASSUME NEW d \in D
      PROVE  /\ d.texts # <<>> /\ Small(d.texts)
             /\ d.answer \in {"sent", "stored"}
             /\ d.answer = "sent" => TextsOf(d) \cap C = {}
             /\ d.answer = "stored" => TextsOf(d) \subseteq C
             /\ \A c \in D : c # d => TextsOf(c) \cap TextsOf(d) = {}
  <2>1. PICK b \in A : d = Older(b)
    BY <1>3
  <2>2. /\ b.texts # <<>> /\ Small(b.texts)
        /\ b.answer \in {"sent", "stored"}
        /\ b.answer = "sent" => TextsOf(b) \cap C = {}
        /\ b.answer = "stored" => TextsOf(b) \subseteq C
        /\ \A a \in A : a # b => TextsOf(a) \cap TextsOf(b) = {}
    BY DEF Lined
  <2>3. ASSUME NEW c \in D, c # d PROVE TextsOf(c) \cap TextsOf(d) = {}
    <3>1. PICK a \in A : c = Older(a) /\ a # b
      BY <1>3, <2>1, <2>3
    <3> QED BY <1>2, <2>1, <2>2, <3>1
  <2> QED BY <1>2, <2>1, <2>2, <2>3
<1>6. Lined(r, D, C)
  BY <1>4, <1>5 DEF Lined
<1>7. \A t : t \in Held(q, A) <=> \/ \E i \in 1..Len(q) : t \in TextsOf(q[i])
                                  \/ \E b \in A : t \in TextsOf(b)
  BY InHeld
<1>8. \A t : t \in Held(r, D) <=> \/ \E i \in 1..Len(q) : t \in TextsOf(r[i])
                                  \/ \E b \in D : t \in TextsOf(b)
  BY InHeld
<1>9. Held(q, A) \subseteq Held(r, D)
  BY <1>1, <1>2, <1>7, <1>8
<1> QED BY <1>6, <1>9

------------------------------------------------------------------------------
(* What the calls wait for                                                      *)

LEMMA CallsKept ==
    ASSUME NEW k, NEW P, NEW C, CallsSound(k, P, C),
           NEW Q, NEW D, P \subseteq Q, C \subseteq D
    PROVE  CallsSound(k, Q, D)
BY DEF CallsSound

\* The calls k, with those of S in the state r.
Moved(k, S, r) == [c \in Calls |-> IF c \in S THEN r ELSE k[c]]

\* The waiters of the texts ts are told.
Told(k, ts, error) == [c \in Calls |-> IF k[c].waits \cap ts = {} THEN k[c]
                                      ELSE Waiting(k[c].waits \ ts, k[c].failed \/ error)]

\* Calls whose state changes without waiting for anything.
LEMMA CallsIdle ==
    ASSUME NEW k \in CallTable, NEW P, NEW C, CallsSound(k, P, C), NEW S,
           NEW p \in {"idle", "submitted", "error", "cancelled"},
           NEW r, r = [pc |-> p, waits |-> {}, failed |-> FALSE],
           NEW m, m = Moved(k, S, r)
    PROVE  m \in CallTable /\ CallsSound(m, P, C)
<1>0. r \in CallStates
  BY DEF CallStates
<1>4. m \in CallTable
  BY <1>0 DEF CallTable, Moved
<1>5. ASSUME NEW c \in Calls
      PROVE  /\ m[c].waits \subseteq P
             /\ m[c].pc # "waiting" => m[c].waits = {}
             /\ m[c].pc = "waiting" /\ ~m[c].failed => Range(Want[c]) \subseteq C \cup m[c].waits
             /\ m[c].pc = "ok" => Range(Want[c]) \subseteq C
  <2>1. CASE c \in S
    BY <2>1 DEF Moved
  <2>2. CASE c \notin S
    BY <2>2 DEF CallsSound, Moved
  <2> QED BY <2>1, <2>2
<1> QED BY <1>4, <1>5 DEF CallsSound

LEMMA WaitingFacts ==
    ASSUME NEW missing, NEW failed
    PROVE  /\ missing # {} => Waiting(missing, failed) =
                                 [pc |-> "waiting", waits |-> missing, failed |-> failed]
           /\ missing = {} => Waiting(missing, failed) =
                                 [pc |-> IF failed THEN "error" ELSE "ok",
                                  waits |-> {}, failed |-> FALSE]
BY DEF Waiting, NoCall

LEMMA CallsAnswered ==
    ASSUME NEW k \in CallTable, NEW P, NEW C, CallsSound(k, P, C),
           NEW ts, NEW Q, P \ ts \subseteq Q,
           NEW error \in BOOLEAN, ~error => ts \subseteq C,
           NEW m, m = Told(k, ts, error)
    PROVE  m \in CallTable /\ CallsSound(m, Q, C)
<1>0. m = [c \in Calls |-> IF k[c].waits \cap ts = {} THEN k[c]
                           ELSE Waiting(k[c].waits \ ts, k[c].failed \/ error)]
  BY DEF Told
<1>1. ASSUME NEW c \in Calls
      PROVE  /\ m[c] \in CallStates
             /\ m[c].waits \subseteq Q
             /\ m[c].pc # "waiting" => m[c].waits = {}
             /\ m[c].pc = "waiting" /\ ~m[c].failed => Range(Want[c]) \subseteq C \cup m[c].waits
             /\ m[c].pc = "ok" => Range(Want[c]) \subseteq C
  <2>1. PICK r \in CallStates : r = k[c]
    BY DEF CallTable
  <2>2. /\ r.waits \subseteq P /\ r.waits \subseteq Texts /\ r.failed \in BOOLEAN
        /\ r.pc # "waiting" => r.waits = {}
        /\ r.pc = "waiting" /\ ~r.failed => Range(Want[c]) \subseteq C \cup r.waits
        /\ r.pc = "ok" => Range(Want[c]) \subseteq C
    BY <2>1 DEF CallsSound, CallStates
  <2>3. CASE r.waits \cap ts = {}
    <3>1. m[c] = r
      BY <1>0, <2>1, <2>3
    <3>2. r.waits \subseteq Q
      BY <2>2, <2>3
    <3> QED BY <2>2, <3>1, <3>2
  <2>4. CASE r.waits \cap ts # {}
    <3>1. m[c] = Waiting(r.waits \ ts, r.failed \/ error)
      BY <1>0, <2>1, <2>4
    <3>2. r.pc = "waiting"
      BY <2>2, <2>4
    <3>3. PICK f \in BOOLEAN : f = (r.failed \/ error)
      BY <2>2
    <3>4. CASE r.waits \ ts # {}
      <4>1. m[c] = [pc |-> "waiting", waits |-> r.waits \ ts, failed |-> f]
        BY <3>1, <3>3, <3>4, WaitingFacts
      <4>2. r.waits \ ts \subseteq Q /\ r.waits \ ts \subseteq Texts
        BY <2>2
      <4>3. ASSUME ~f PROVE Range(Want[c]) \subseteq C \cup (r.waits \ ts)
        <5>1. ~r.failed /\ ts \subseteq C
          BY <3>3, <4>3
        <5>2. Range(Want[c]) \subseteq C \cup r.waits
          BY <2>2, <3>2, <5>1
        <5> QED BY <5>1, <5>2
      <4>4. m[c] \in CallStates
        BY <4>1, <4>2 DEF CallStates
      <4>5. m[c].pc = "waiting" /\ m[c].waits = r.waits \ ts /\ m[c].failed = f
        BY <4>1
      <4>6. ~m[c].failed => Range(Want[c]) \subseteq C \cup (r.waits \ ts)
        BY <4>3, <4>5
      <4> QED BY <4>2, <4>4, <4>5, <4>6
    <3>5. CASE r.waits \ ts = {}
      <4>1. m[c] = [pc |-> IF f THEN "error" ELSE "ok", waits |-> {}, failed |-> FALSE]
        <5>1. m[c] = Waiting({}, f)
          BY <3>1, <3>3, <3>5
        <5> QED BY <5>1, WaitingFacts
      <4>2. ASSUME ~f PROVE Range(Want[c]) \subseteq C
        <5>1. ~r.failed /\ ts \subseteq C
          BY <3>3, <4>2
        <5>2. Range(Want[c]) \subseteq C \cup r.waits
          BY <2>2, <3>2, <5>1
        <5> QED BY <3>5, <5>1, <5>2
      <4>3. PICK p \in {"error", "ok"} : p = IF f THEN "error" ELSE "ok"
        OBVIOUS
      <4>4. m[c] = [pc |-> p, waits |-> {}, failed |-> FALSE]
        BY <4>1, <4>3
      <4>5. m[c] \in CallStates
        <5>1. PICK z : z = [pc |-> p, waits |-> {}, failed |-> FALSE]
          OBVIOUS
        <5>2. z \in CallStates
          BY <4>3, <5>1 DEF CallStates
        <5> QED BY <4>4, <5>1, <5>2
      <4>6. m[c].waits = {} /\ m[c].pc = p
        BY <4>4
      <4> QED BY <4>2, <4>3, <4>5, <4>6
    <3> QED BY <3>4, <3>5
  <2> QED BY <2>3, <2>4
<1>2. m \in CallTable
  BY <1>0, <1>1 DEF CallTable
<1> QED BY <1>1, <1>2 DEF CallsSound

\* A call finds what is stored and waits for the rest.
LEMMA CallsEnter ==
    ASSUME NEW k \in CallTable, NEW P, NEW C, CallsSound(k, P, C), NEW c \in Calls,
           NEW Q, P \subseteq Q, Range(Want[c]) \ C \subseteq Q,
           NEW m, m = [k EXCEPT ![c] = Waiting(Range(Want[c]) \ C, FALSE)]
    PROVE  m \in CallTable /\ CallsSound(m, Q, C)
<1>1. PICK r : r = Waiting(Range(Want[c]) \ C, FALSE)
  OBVIOUS
<1>2. PICK ts : ts = Range(Want[c])
  OBVIOUS
<1>3. ts \subseteq Texts
  <2>1. Want[c] \in Seq(Texts)
    BY TextsAssumption
  <2> QED BY <1>2, <2>1, SeqRange
<1>4. ASSUME NEW p, r.waits = p, p \subseteq Q, r \in CallStates,
             r.pc # "waiting" => p = {},
             r.pc = "waiting" => ts \subseteq C \cup p,
             r.pc = "ok" => ts \subseteq C
      PROVE  m \in CallTable /\ CallsSound(m, Q, C)
  <2>1. m = [k EXCEPT ![c] = r]
    BY <1>1
  <2>2. m \in CallTable
    BY <1>4, <2>1 DEF CallTable
  <2>3. ASSUME NEW d \in Calls
        PROVE  /\ m[d].waits \subseteq Q
               /\ m[d].pc # "waiting" => m[d].waits = {}
               /\ m[d].pc = "waiting" /\ ~m[d].failed => Range(Want[d]) \subseteq C \cup m[d].waits
               /\ m[d].pc = "ok" => Range(Want[d]) \subseteq C
    <3>1. CASE d = c
      <4>1. m[d] = r
        BY <2>1, <3>1 DEF CallTable
      <4> QED BY <1>2, <1>4, <3>1, <4>1
    <3>2. CASE d # c
      <4>1. m[d] = k[d]
        BY <2>1, <3>2 DEF CallTable
      <4> QED BY <4>1 DEF CallsSound
    <3> QED BY <3>1, <3>2
  <2> QED BY <2>2, <2>3 DEF CallsSound
<1>5. CASE ts \ C # {}
  <2>1. r = [pc |-> "waiting", waits |-> ts \ C, failed |-> FALSE]
    BY <1>1, <1>2, <1>5, WaitingFacts
  <2>2. r \in CallStates
    BY <1>3, <2>1 DEF CallStates
  <2>3. r.waits = ts \ C /\ ts \ C \subseteq Q /\ r.pc = "waiting"
    BY <1>2, <2>1
  <2> QED BY <1>4, <2>2, <2>3
<1>6. CASE ts \ C = {}
  <2>1. r = [pc |-> "ok", waits |-> {}, failed |-> FALSE]
    BY <1>1, <1>2, <1>6, WaitingFacts
  <2>2. r \in CallStates
    BY <2>1 DEF CallStates
  <2>3. r.waits = {} /\ {} \subseteq Q /\ r.pc = "ok" /\ ts \subseteq C
    BY <1>6, <2>1
  <2> QED BY <1>4, <2>2, <2>3
<1> QED BY <1>5, <1>6

------------------------------------------------------------------------------
(* What the budget is spent on                                                  *)

LEMMA WindowPlace ==
    /\ 0 \in 0..(Window - 1)
    /\ \A b \in Batches : b.age < Window => b.age \in 0..(Window - 1)
BY ServiceConstants DEF Batches

LEMMA PaidAdmit ==
    ASSUME NEW A \in SUBSET Batches, NEW w \in Windows, Paid(A, w),
           NEW b \in Batches, b.age = 0, b \notin A,
           NEW v, v = [w EXCEPT ![0] = w[0] + Size(b.texts)]
    PROVE  v \in Windows /\ Paid(A \cup {b}, v)
<1>1. PICK x \in Nat : x = Size(b.texts)
  BY SizeFacts DEF Batches
<1>2. w[0] \in Nat
  BY WindowPlace DEF Windows
<1>3. v \in Windows /\ v[0] = w[0] + x /\ \A a \in 0..(Window - 1) : a # 0 => v[a] = w[a]
  BY <1>1, <1>2, WindowPlace DEF Windows
<1>4. ASSUME NEW a \in 0..(Window - 1) PROVE Weighs({c \in A \cup {b} : c.age = a}, v[a])
  <2>1. PICK S \in SUBSET Batches : S = {c \in A : c.age = a}
    OBVIOUS
  <2>2. Weighs(S, w[a]) /\ b \notin S
    BY <2>1 DEF Paid
  <2>3. CASE a = 0
    <3>1. {c \in A \cup {b} : c.age = a} = S \cup {b}
      BY <2>1, <2>3
    <3>2. Weighs(S \cup {b}, w[0] + x)
      BY <1>1, <1>2, <2>2, <2>3, WeighsAdd
    <3> QED BY <1>3, <2>3, <3>1, <3>2
  <2>4. CASE a # 0
    <3>1. {c \in A \cup {b} : c.age = a} = S
      BY <2>1, <2>4
    <3> QED BY <1>3, <2>2, <2>4, <3>1
  <2> QED BY <2>3, <2>4
<1> QED BY <1>3, <1>4 DEF Paid

\* What an active batch weighs is in the window as long as its admission is.
LEMMA PaidCovers ==
    ASSUME NEW A \in SUBSET Batches, NEW w \in Windows, Paid(A, w),
           NEW b \in A, b.age < Window
    PROVE  /\ b.age \in 0..(Window - 1) /\ w[b.age] \in Nat
           /\ Size(b.texts) \in Nat /\ Size(b.texts) <= w[b.age]
<1>1. b.age \in 0..(Window - 1)
  BY WindowPlace
<1>2. PICK S \in SUBSET Batches : S = {c \in A : c.age = b.age} /\ b \in S
  OBVIOUS
<1>3. Weighs(S, w[b.age]) /\ w[b.age] \in Nat
  BY <1>1, <1>2 DEF Paid, Windows
<1> QED BY <1>1, <1>2, <1>3, WeighsRemove

LEMMA PaidLeave ==
    ASSUME NEW A \in SUBSET Batches, NEW w \in Windows, Paid(A, w), NEW b \in A
    PROVE  Paid(A \ {b}, w)
<1>1. ASSUME NEW a \in 0..(Window - 1) PROVE Weighs({c \in A \ {b} : c.age = a}, w[a])
  <2>1. PICK S \in SUBSET Batches : S = {c \in A : c.age = a}
    OBVIOUS
  <2>2. Weighs(S, w[a]) /\ w[a] \in Nat
    BY <2>1 DEF Paid, Windows
  <2>3. CASE b \in S
    <3>1. {c \in A \ {b} : c.age = a} = S \ {b}
      BY <2>1
    <3>2. PICK x \in Nat : x = Size(b.texts) /\ x <= w[a] /\ Weighs(S \ {b}, w[a] - x)
      BY <2>2, <2>3, WeighsRemove
    <3>3. PICK y \in Nat : y = w[a] - x /\ y <= w[a]
      BY <2>2, <3>2
    <3>4. PICK T \in SUBSET Batches : T = S \ {b}
      OBVIOUS
    <3>5. Weighs(T, w[a])
      BY <2>2, <3>2, <3>3, <3>4, WeighsMore
    <3> QED BY <3>1, <3>4, <3>5
  <2>4. CASE b \notin S
    <3>1. {c \in A \ {b} : c.age = a} = S
      BY <2>1, <2>4
    <3> QED BY <2>2, <3>1
  <2> QED BY <2>3, <2>4
<1> QED BY <1>1 DEF Paid

\* The charge becomes what was counted.
LEMMA PaidCounted ==
    ASSUME NEW A \in SUBSET Batches, NEW w \in Windows, Paid(A, w),
           NEW b \in A, b.age < Window, NEW m \in Nat,
           NEW v, v = [w EXCEPT ![b.age] = w[b.age] - Size(b.texts) + m]
    PROVE  v \in Windows /\ Paid(A \ {b}, v)
<1>1. /\ b.age \in 0..(Window - 1) /\ w[b.age] \in Nat
      /\ Size(b.texts) \in Nat /\ Size(b.texts) <= w[b.age]
  BY PaidCovers
<1>2. PICK g \in 0..(Window - 1) : g = b.age
  BY <1>1
<1>3. PICK x \in Nat : x = Size(b.texts) /\ x <= w[g] /\ w[g] \in Nat
  BY <1>1, <1>2
<1>4. PICK y \in Nat : y = w[g] - x
  BY <1>3
<1>5. v = [w EXCEPT ![g] = y + m]
  BY <1>2, <1>3, <1>4
<1>6. v \in Windows /\ v[g] = y + m /\ \A a \in 0..(Window - 1) : a # g => v[a] = w[a]
  <2>1. PICK z \in Nat : z = y + m
    OBVIOUS
  <2>2. v = [w EXCEPT ![g] = z] /\ w \in [0..(Window - 1) -> Nat]
    BY <1>5, <2>1 DEF Windows
  <2> QED BY <1>2, <2>1, <2>2 DEF Windows
<1>7. ASSUME NEW a \in 0..(Window - 1) PROVE Weighs({c \in A \ {b} : c.age = a}, v[a])
  <2>1. PICK S \in SUBSET Batches : S = {c \in A : c.age = a}
    OBVIOUS
  <2>2. Weighs(S, w[a]) /\ w[a] \in Nat
    BY <2>1 DEF Paid, Windows
  <2>3. CASE a = g
    <3>1. {c \in A \ {b} : c.age = a} = S \ {b} /\ b \in S
      BY <1>2, <2>1, <2>3
    <3>2. PICK T \in SUBSET Batches : T = S \ {b}
      OBVIOUS
    <3>3. Weighs(T, y)
      BY <1>3, <1>4, <2>2, <2>3, <3>1, <3>2, WeighsRemove
    <3>4. Weighs(T, y + m)
      BY <3>3, WeighsMore
    <3> QED BY <1>6, <2>3, <3>1, <3>2, <3>4
  <2>4. CASE a # g
    <3>1. {c \in A \ {b} : c.age = a} = S
      BY <1>2, <2>1, <2>4
    <3> QED BY <1>6, <2>2, <2>4, <3>1
  <2> QED BY <2>3, <2>4
<1> QED BY <1>6, <1>7 DEF Paid

\* A batch is replaced by one of the same texts and admission.
LEMMA PaidSwap ==
    ASSUME NEW A \in SUBSET Batches, NEW w \in Windows, Paid(A, w),
           NEW b \in A, NEW s \in Batches, s.texts = b.texts, s.age = b.age, s \notin A
    PROVE  Paid((A \ {b}) \cup {s}, w)
<1>1. ASSUME NEW a \in 0..(Window - 1) PROVE Weighs({c \in (A \ {b}) \cup {s} : c.age = a}, w[a])
  <2>1. PICK S \in SUBSET Batches : S = {c \in A : c.age = a}
    OBVIOUS
  <2>2. Weighs(S, w[a]) /\ w[a] \in Nat /\ s \notin S
    BY <2>1 DEF Paid, Windows
  <2>3. CASE b \in S
    <3>1. {c \in (A \ {b}) \cup {s} : c.age = a} = (S \ {b}) \cup {s}
      BY <2>1, <2>3
    <3>2. PICK T \in SUBSET Batches : T = S \ {b} /\ s \notin T
      BY <2>2
    <3>3. PICK x \in Nat : x = Size(b.texts) /\ x <= w[a] /\ Weighs(T, w[a] - x)
      BY <2>2, <2>3, <3>2, WeighsRemove
    <3>4. PICK y \in Nat : y = w[a] - x /\ y + x = w[a]
      BY <2>2, <3>3
    <3>5. Weighs(T \cup {s}, y + x)
      BY <3>2, <3>3, <3>4, WeighsAdd
    <3> QED BY <3>1, <3>2, <3>4, <3>5
  <2>4. CASE b \notin S
    <3>1. {c \in (A \ {b}) \cup {s} : c.age = a} = S
      BY <2>1, <2>4
    <3> QED BY <2>2, <3>1
  <2> QED BY <2>3, <2>4
<1> QED BY <1>1 DEF Paid

LEMMA OlderFacts ==
    ASSUME NEW b \in Batches
    PROVE  /\ Older(b) \in Batches
           /\ Older(b).texts = b.texts
           /\ b.age = Window => Older(b).age = Window
           /\ b.age < Window => Older(b).age = b.age + 1 /\ b.age \in 0..(Window - 1)
           /\ \A a \in Batches : a.age = b.age /\ Older(a) = Older(b) => a = b
<1>0. PICK n \in Nat : n = Window /\ n # 0
  BY ServiceConstants
<1>1. PICK g \in 0..n : g = b.age
  BY <1>0 DEF Batches
<1>2. PICK h \in 0..n : h = IF g = n THEN g ELSE g + 1
  BY <1>0
<1>3. ASSUME NEW a \in Batches, a.age = g
      PROVE  Older(a) = [texts |-> a.texts, attempt |-> a.attempt, due |-> a.due,
                         age |-> h, answer |-> a.answer]
  <2>1. Older(a) = [a EXCEPT !.age = h]
    BY <1>0, <1>2, <1>3 DEF Older
  <2> QED BY <2>1 DEF Batches
<1>4. Older(b) = [texts |-> b.texts, attempt |-> b.attempt, due |-> b.due,
                  age |-> h, answer |-> b.answer]
  BY <1>1, <1>3
<1>5. Older(b) \in Batches
  BY <1>0, <1>4 DEF Batches
<1>6. ASSUME NEW a \in Batches, a.age = b.age, Older(a) = Older(b) PROVE a = b
  <2>1. /\ a.texts = b.texts /\ a.attempt = b.attempt /\ a.due = b.due /\ a.answer = b.answer
    BY <1>1, <1>3, <1>4, <1>6
  <2> QED BY <1>6, <2>1 DEF Batches
<1>7. Older(b).texts = b.texts /\ Older(b).age = h
  BY <1>4
<1> QED BY <1>0, <1>1, <1>2, <1>5, <1>6, <1>7

\* A tick moves every batch and its charge one place on.
LEMMA PaidOlder ==
    ASSUME NEW A \in SUBSET Batches, NEW w \in Windows, Paid(A, w),
           NEW D \in SUBSET Batches, D = {Older(b) : b \in A},
           NEW v, v = [age \in DOMAIN w |-> IF age = 0 THEN 0 ELSE w[age - 1]]
    PROVE  Paid(D, v)
<1>0. PICK n \in Nat : n = Window /\ n # 0
  BY ServiceConstants
<1>1. DOMAIN w = 0..(n - 1)
  BY <1>0 DEF Windows
<1>2. ASSUME NEW a \in 0..(Window - 1) PROVE Weighs({b \in D : b.age = a}, v[a])
  <2>1. PICK T \in SUBSET Batches : T = {b \in D : b.age = a}
    OBVIOUS
  <2>2. CASE a = 0
    <3>1. v[a] = 0
      BY <1>0, <1>1, <2>2
    <3>2. ASSUME NEW b \in T PROVE FALSE
      <4>1. PICK c \in A : b = Older(c)
        BY <2>1
      <4>2. c.age \in 0..n
        BY <1>0 DEF Batches
      <4> QED BY <1>0, <2>1, <2>2, <4>1, <4>2, OlderFacts
    <3>3. T = {}
      BY <3>2
    <3> QED BY <2>1, <3>1, <3>3, WeighsNothing
  <2>3. CASE a # 0
    <3>1. PICK g \in 0..(Window - 1) : g = a - 1 /\ g + 1 = a /\ g < Window /\ a \in 0..(n - 1)
      BY <1>0, <2>3
    <3>2. v[a] = w[g]
      BY <1>0, <1>1, <2>3, <3>1
    <3>3. PICK S \in SUBSET Batches : S = {b \in A : b.age = g}
      OBVIOUS
    <3>4. Weighs(S, w[g]) /\ w[g] \in Nat
      BY <3>3 DEF Paid, Windows
    <3>5. \A b \in S : Older(b) \in T
      BY <2>1, <3>1, <3>3, OlderFacts
    <3>6. PICK h \in [S -> T] : h = [b \in S |-> Older(b)]
      BY <3>5
    <3>7. \A b, c \in S : h[b] = h[c] => b = c
      BY <3>3, <3>6, OlderFacts
    <3>8. ASSUME NEW b \in T PROVE \E c \in S : h[c] = b
      <4>1. PICK c \in A : b = Older(c)
        BY <2>1
      <4>2. c.age \in 0..n
        BY <1>0 DEF Batches
      <4>3. b.age = a
        BY <2>1
      <4>4. c.age = g
        <5>1. CASE c.age = Window
          BY <1>0, <3>1, <4>1, <4>3, <5>1, OlderFacts
        <5>2. CASE c.age # Window
          <6>1. c.age < Window
            BY <1>0, <4>2, <5>2
          <6>2. b.age = c.age + 1
            BY <4>1, <6>1, OlderFacts
          <6> QED BY <1>0, <3>1, <4>2, <4>3, <6>2
        <5> QED BY <5>1, <5>2
      <4>5. c \in S
        BY <3>3, <4>4
      <4> QED BY <3>6, <4>1, <4>5
    <3>9. \A b \in S : h[b].texts = b.texts
      BY <3>6, OlderFacts
    <3>10. Weighs(T, w[g])
      BY <3>4, <3>7, <3>8, <3>9, WeighsSame
    <3> QED BY <2>1, <3>2, <3>10
  <2> QED BY <2>2, <2>3
<1> QED BY <1>2 DEF Paid

------------------------------------------------------------------------------
(* The budget                                                                   *)

LEMMA ChargesNow ==
    ASSUME NEW w \in Windows, NEW a \in 0..(Window - 1), NEW v \in Windows,
           \A i \in 0..(Window - 1) : i # a => v[i] = w[i]
    PROVE  Total(Charges(v)) = Total(Charges(w)) - w[a] + v[a]
<1>1. PICK x \in Nat : x = v[a]
  BY DEF Windows
<1>2. v = [w EXCEPT ![a] = x]
  BY <1>1 DEF Windows
<1>3. Total(Charges([w EXCEPT ![a] = x])) = Total(Charges(w)) - w[a] + x
  BY ChargesSet
<1> QED BY <1>1, <1>2, <1>3

\* A batch that fits the window, or finds it empty.
LEMMA KeptAdmit ==
    ASSUME NEW A \in SUBSET Batches, NEW w \in Windows, Paid(A, w), Kept(A, w),
           \A c \in A : c.texts # <<>>,
           NEW b \in Batches, Small(b.texts),
           NEW lim \in Nat, lim <= Budget,
           IF Size(b.texts) > lim THEN Total(Charges(w)) = 0
                                  ELSE Total(Charges(w)) + Size(b.texts) <= lim,
           NEW v, v = [w EXCEPT ![0] = w[0] + Size(b.texts)]
    PROVE  Kept(A \cup {b}, v)
<1>0. Budget \in Nat
  BY ServiceConstants
<1>1. PICK x \in Nat : x = Size(b.texts)
  BY SizeFacts DEF Batches
<1>2. PICK u \in Nat : u = Total(Charges(w))
  BY ChargesFacts
<1>3. w[0] \in Nat
  BY WindowPlace DEF Windows
<1>4. PICK y \in Nat : y = w[0] + x
  BY <1>3
<1>5. v = [w EXCEPT ![0] = y]
  BY <1>1, <1>4
<1>6. Total(Charges(v)) = u - w[0] + y
  <2>1. 0 \in 0..(Window - 1)
    BY WindowPlace
  <2>2. Total(Charges(v)) = Total(Charges(w)) - w[0] + y
    <3>1. v \in Windows /\ v[0] = y /\ \A i \in 0..(Window - 1) : i # 0 => v[i] = w[i]
      BY <1>5, <2>1 DEF Windows
    <3> QED BY <2>1, <3>1, ChargesNow
  <2> QED BY <1>2, <2>2
<1>7. Total(Charges(v)) = u + x
  BY <1>3, <1>4, <1>6
<1>8. CASE u + x <= Budget
  BY <1>7, <1>8 DEF Kept
<1>9. CASE ~(u + x <= Budget)
  <2>1. x > lim /\ u = 0
    BY <1>0, <1>1, <1>2, <1>9
  <2>2. w = NoCharge /\ w[0] = 0
    BY <1>2, <2>1, NothingHeld, NoCharges, WindowPlace
  <2>3. PICK t \in Texts : b.texts = <<t>>
    BY <1>0, <1>1, <1>9, <2>1 DEF Small
  <2>4. x = Tokens[t]
    BY <1>1, <2>3, SizeOne
  <2>5. v = [NoCharge EXCEPT ![0] = x]
    <3>1. y = x
      BY <1>4, <2>2
    <3> QED BY <1>5, <2>2, <3>1
  <2>6. ASSUME NEW c \in A, c.age < Window PROVE FALSE
    <3>1. /\ c.age \in 0..(Window - 1) /\ Size(c.texts) \in Nat
          /\ Size(c.texts) <= w[c.age]
      BY <2>6, PaidCovers
    <3>2. w[c.age] = 0
      BY <2>2, <3>1, NoCharges
    <3>3. Size(c.texts) >= 1
      BY SizeFacts DEF Batches
    <3> QED BY <3>1, <3>2, <3>3
  <2>7. \A c \in A \cup {b} : c.age < Window => c.texts = <<t>>
    BY <2>3, <2>6
  <2>8. Budget < Tokens[t] /\ x <= Tokens[t]
    BY <1>0, <1>9, <2>1, <2>4
  <2> QED BY <2>5, <2>7, <2>8, WindowPlace DEF Kept
<1> QED BY <1>8, <1>9

LEMMA KeptFewer ==
    ASSUME NEW A, NEW w, Kept(A, w), NEW D, D \subseteq A
    PROVE  Kept(D, w)
BY DEF Kept

LEMMA KeptSwap ==
    ASSUME NEW A, NEW w, Kept(A, w), NEW b \in A, NEW s, s.texts = b.texts, s.age = b.age
    PROVE  Kept((A \ {b}) \cup {s}, w)
BY DEF Kept

\* A charge is counted down.
LEMMA KeptCounted ==
    ASSUME NEW A \in SUBSET Batches, NEW w \in Windows, Paid(A, w), Kept(A, w),
           NEW b \in A, b.age < Window, NEW m \in Nat, m <= Size(b.texts),
           NEW v, v = [w EXCEPT ![b.age] = w[b.age] - Size(b.texts) + m]
    PROVE  Kept(A \ {b}, v)
<1>0. Budget \in Nat
  BY ServiceConstants
<1>1. /\ b.age \in 0..(Window - 1) /\ w[b.age] \in Nat
      /\ Size(b.texts) \in Nat /\ Size(b.texts) <= w[b.age]
  BY PaidCovers
<1>3. PICK g \in 0..(Window - 1) : g = b.age
  BY <1>1
<1>4. PICK x \in Nat : x = Size(b.texts) /\ x <= w[g] /\ w[g] \in Nat /\ m <= x
  BY <1>1, <1>3
<1>5. PICK y \in Nat : y = w[g] - x + m
  BY <1>4
<1>6. v = [w EXCEPT ![g] = y]
  BY <1>3, <1>4, <1>5
<1>7. PICK u \in Nat : u = Total(Charges(w))
  BY ChargesFacts
<1>8. Total(Charges(v)) = u - w[g] + y
  <2>1. Total(Charges(v)) = Total(Charges(w)) - w[g] + y
    <3>1. v \in Windows /\ v[g] = y /\ \A i \in 0..(Window - 1) : i # g => v[i] = w[i]
      BY <1>5, <1>6 DEF Windows
    <3> QED BY <3>1, ChargesNow
  <2> QED BY <1>7, <2>1
<1>9. Total(Charges(v)) = u - x + m
  BY <1>4, <1>5, <1>7, <1>8
<1>10. CASE u <= Budget
  <2>1. u - x + m <= Budget
    BY <1>0, <1>4, <1>7, <1>10
  <2> QED BY <1>9, <2>1 DEF Kept
<1>11. CASE ~(u <= Budget)
  <2>1. PICK t \in Texts, k \in 0..(Window - 1), z \in Nat :
           /\ w = [NoCharge EXCEPT ![k] = z]
           /\ Budget < Tokens[t] /\ z <= Tokens[t]
           /\ \A a \in A : a.age < Window => a.texts = <<t>>
    BY <1>7, <1>11 DEF Kept
  <2>2. x = Tokens[t] /\ x >= 1
    BY <1>4, <2>1, SizeOne, ServiceConstants
  <2>3. k = g /\ w[g] = z
    <3>1. w[g] = IF g = k THEN z ELSE 0
      BY <2>1 DEF NoCharge
    <3> QED BY <1>4, <2>2, <3>1
  <2>4. y <= Tokens[t]
    BY <1>4, <1>5, <2>1, <2>2, <2>3
  <2>5. v = [NoCharge EXCEPT ![g] = y]
    BY <1>6, <2>1, <2>3
  <2>6. \A a \in A \ {b} : a.age < Window => a.texts = <<t>>
    BY <2>1
  <2> QED BY <2>1, <2>4, <2>5, <2>6 DEF Kept
<1> QED BY <1>10, <1>11

LEMMA KeptOlder ==
    ASSUME NEW A \in SUBSET Batches, NEW w \in Windows, Kept(A, w),
           NEW D \in SUBSET Batches, D = {Older(b) : b \in A},
           NEW v, v = [age \in DOMAIN w |-> IF age = 0 THEN 0 ELSE w[age - 1]]
    PROVE  Kept(D, v)
<1>0. PICK n \in Nat : n = Window /\ n # 0
  BY ServiceConstants
<1>1. Budget \in Nat /\ DOMAIN w = 0..(n - 1)
  BY <1>0, ServiceConstants DEF Windows
<1>2. v \in Windows /\ Total(Charges(v)) <= Total(Charges(w))
  BY ChargesShift
<1>3. Total(Charges(v)) \in Nat /\ Total(Charges(w)) \in Nat
  BY <1>2, ChargesFacts
<1>4. CASE Total(Charges(w)) <= Budget
  BY <1>1, <1>2, <1>3, <1>4 DEF Kept
<1>5. CASE ~(Total(Charges(w)) <= Budget)
  <2>1. PICK t \in Texts, k \in 0..(Window - 1), z \in Nat :
           /\ w = [NoCharge EXCEPT ![k] = z]
           /\ Budget < Tokens[t] /\ z <= Tokens[t]
           /\ \A a \in A : a.age < Window => a.texts = <<t>>
    BY <1>5 DEF Kept
  <2>2. \A a \in 0..(n - 1) : w[a] = IF a = k THEN z ELSE 0
    BY <1>0, <2>1, NoCharges DEF NoCharge
  <2>3. \A a \in 0..(n - 1) : a # 0 => a - 1 \in 0..(n - 1)
    BY <1>0
  <2>4. k \in 0..(n - 1)
    BY <1>0
  <2>5. ASSUME NEW a \in 0..(n - 1) PROVE v[a] = IF a = k + 1 THEN z ELSE 0
    <3>1. CASE a = 0
      BY <1>1, <2>4, <3>1
    <3>2. CASE a # 0
      <4>1. v[a] = w[a - 1] /\ a - 1 \in 0..(n - 1)
        BY <1>1, <2>3, <3>2
      <4>2. w[a - 1] = IF a - 1 = k THEN z ELSE 0
        BY <2>2, <4>1
      <4>3. a - 1 = k <=> a = k + 1
        BY <2>4
      <4> QED BY <4>1, <4>2, <4>3
    <3> QED BY <3>1, <3>2
  <2>6. CASE k + 1 \in 0..(n - 1)
    <3>1. PICK j \in 0..(n - 1) : j = k + 1
      BY <2>6
    <3>3. v \in [0..(n - 1) -> Nat] /\ NoCharge = [a \in 0..(n - 1) |-> 0]
      BY <1>0, <1>2 DEF Windows, NoCharge
    <3>4. \A a \in 0..(n - 1) : v[a] = IF a = j THEN z ELSE 0
      BY <2>5, <3>1
    <3>5. v = [NoCharge EXCEPT ![j] = z]
      BY <3>3, <3>4
    <3>6. ASSUME NEW d \in D, d.age < Window PROVE d.texts = <<t>>
      <4>1. PICK c \in A : d = Older(c)
        OBVIOUS
      <4>2. c.age \in 0..n
        BY <1>0 DEF Batches
      <4>3. c.age # Window
        BY <1>0, <3>6, <4>1, OlderFacts
      <4>4. c.age < Window
        BY <1>0, <4>2, <4>3
      <4>5. c.texts = <<t>>
        BY <2>1, <4>4
      <4> QED BY <4>1, <4>5, OlderFacts
    <3>7. j \in 0..(Window - 1)
      BY <1>0
    <3>8. \A d \in D : d.age < Window => d.texts = <<t>>
      BY <3>6
    <3>9. \E a \in Texts, g \in 0..(Window - 1), y \in Nat :
             /\ v = [NoCharge EXCEPT ![g] = y]
             /\ Budget < Tokens[a] /\ y <= Tokens[a]
             /\ \A d \in D : d.age < Window => d.texts = <<a>>
      BY <2>1, <3>5, <3>7, <3>8, Zenon
    <3> QED BY <3>9 DEF Kept
  <2>7. CASE k + 1 \notin 0..(n - 1)
    <3>1. \A a \in 0..(n - 1) : v[a] = 0
      BY <2>5, <2>7
    <3>2. v = NoCharge
      BY <1>0, <1>2, <3>1 DEF Windows, NoCharge
    <3>3. PICK e : e = Total(Charges(v))
      OBVIOUS
    <3>4. e = 0
      BY <3>2, <3>3, NoCharges
    <3>5. e <= Budget
      BY <1>1, <3>4
    <3> QED BY <3>3, <3>5 DEF Kept
  <2> QED BY <2>6, <2>7
<1> QED BY <1>4, <1>5

------------------------------------------------------------------------------
(* What each operation leaves of queue, active batches, cache, calls, charges    *)

LEMMA SoundFresh ==
    ASSUME NEW C \in SUBSET Texts, NEW k, k = [c \in Calls |-> NoCall]
    PROVE  Sound(<<>>, {}, C, k, NoCharge)
<1>1. PICK q \in Seq(Batches) : q = <<>> /\ Len(q) = 0
  BY EmptySeq
<1>2. Lined(q, {}, C)
  BY <1>1 DEF Lined
<1>3. k \in CallTable
  BY DEF CallTable, CallStates, NoCall
<1>4. CallsSound(k, Held(q, {}), C)
  BY DEF CallsSound, NoCall
<1>5. NoCharge \in Windows
  BY NoCharges
<1>6. ASSUME NEW a \in 0..(Window - 1) PROVE Weighs({b \in {} : b.age = a}, NoCharge[a])
  <2>1. {b \in {} : b.age = a} = {} /\ NoCharge[a] = 0
    BY NoCharges
  <2> QED BY <2>1, WeighsNothing
<1>7. Paid({}, NoCharge)
  BY <1>6 DEF Paid
<1>8. Kept({}, NoCharge)
  <2>1. Total(Charges(NoCharge)) <= Budget
    BY NoCharges, ServiceConstants
  <2> QED BY <2>1 DEF Kept
<1> QED BY <1>1, <1>2, <1>3, <1>4, <1>5, <1>7, <1>8 DEF Sound

LEMMA SoundIdle ==
    ASSUME NEW q, NEW A, NEW C, NEW k, NEW w, Sound(q, A, C, k, w), NEW S,
           NEW p \in {"idle", "submitted", "error", "cancelled"},
           NEW r, r = [pc |-> p, waits |-> {}, failed |-> FALSE],
           NEW m, m = Moved(k, S, r)
    PROVE  Sound(q, A, C, m, w)
<1>1. PICK P : P = Held(q, A)
  OBVIOUS
<1>2. k \in CallTable /\ CallsSound(k, P, C)
  BY <1>1 DEF Sound
<1>3. m \in CallTable /\ CallsSound(m, P, C)
  BY <1>2, CallsIdle
<1> QED BY <1>1, <1>3 DEF Sound

LEMMA SoundEmbed ==
    ASSUME NEW q, NEW A, NEW C, NEW k, NEW w, Sound(q, A, C, k, w), NEW c \in Calls,
           NEW owned, owned = Range(Want[c]) \ (C \cup Held(q, A)),
           NEW r, r = q \o Packed(Want[c], owned),
           NEW m, m = [k EXCEPT ![c] = Waiting(Range(Want[c]) \ C, FALSE)]
    PROVE  Sound(r, A, C, m, w)
<1>1. /\ q \in Seq(Batches) /\ A \in SUBSET Batches /\ k \in CallTable
      /\ Lined(q, A, C) /\ CallsSound(k, Held(q, A), C)
  BY DEF Sound
<1>2. PICK texts \in Seq(Texts) : texts = Want[c]
  BY TextsAssumption
<1>3. \A i, j \in 1..Len(texts) : texts[i] = texts[j] => i = j
  <2>1. IsInjective(texts)
    BY <1>2, TextsAssumption
  <2>2. DOMAIN texts = 1..Len(texts)
    BY LenProperties
  <2> QED BY <2>1, <2>2 DEF IsInjective
<1>4. owned \in SUBSET Range(texts)
  BY <1>2
<1>5. PICK new : new = Packed(texts, owned)
  OBVIOUS
<1>6. Made(new, owned)
  BY <1>3, <1>4, <1>5, PackedMade
<1>7. r = q \o new
  BY <1>2, <1>5
<1>8. PICK P : P = Held(q, A)
  OBVIOUS
<1>9. owned \cap C = {} /\ owned \cap Held(q, A) = {}
  OBVIOUS
<1>10. /\ q \o new \in Seq(Batches) /\ Lined(q \o new, A, C)
       /\ Held(q, A) \cup owned \subseteq Held(q \o new, A)
  BY <1>1, <1>6, <1>9, JoinQueue
<1>11. PICK Q : Q = Held(r, A)
  OBVIOUS
<1>12. P \subseteq Q /\ owned \subseteq Q
  BY <1>7, <1>8, <1>10, <1>11
<1>13. Range(Want[c]) \ C \subseteq Q
  BY <1>8, <1>12
<1>14. m \in CallTable /\ CallsSound(m, Q, C)
  BY <1>1, <1>8, <1>12, <1>13, CallsEnter
<1>15. r \in Seq(Batches) /\ Lined(r, A, C)
  BY <1>7, <1>10
<1> QED BY <1>11, <1>14, <1>15 DEF Sound

\* A batch that is sent for the next time.
LEMMA BatchSent ==
    ASSUME NEW a \in Batches, a.attempt < MaxTries,
           NEW b, b = [a EXCEPT !.attempt = @ + 1, !.answer = "sent"]
    PROVE  b \in Batches /\ b.texts = a.texts /\ b.age = a.age /\ b.answer = "sent"
<1>1. /\ a.texts \in Seq(Texts) /\ a.due \in 0..1 /\ a.age \in 0..Window
      /\ a.attempt \in 0..MaxTries
  BY DEF Batches
<1>2. PICK n \in 0..MaxTries : n = a.attempt + 1
  BY <1>1, ServiceConstants
<1>3. b = [texts |-> a.texts, attempt |-> n, due |-> a.due, age |-> a.age, answer |-> "sent"]
  BY <1>2 DEF Batches
<1>4. PICK c : c = [texts |-> a.texts, attempt |-> n, due |-> a.due, age |-> a.age,
                    answer |-> "sent"]
  OBVIOUS
<1>5. c \in Batches
  BY <1>1, <1>4 DEF Batches
<1>6. c.texts = a.texts /\ c.age = a.age /\ c.answer = "sent"
  BY <1>4
<1>7. b = c
  BY <1>3, <1>4
<1> QED BY <1>5, <1>6, <1>7

LEMMA SoundDispatch ==
    ASSUME NEW q, NEW A, NEW C, NEW k, NEW w, Sound(q, A, C, k, w), NEW i \in 1..Len(q),
           NEW b \in Batches, b.texts = q[i].texts, b.age = 0, b.answer = "sent",
           NEW lim \in Nat, lim <= Budget,
           IF Size(b.texts) > lim THEN Total(Charges(w)) = 0
                                  ELSE Total(Charges(w)) + Size(b.texts) <= lim,
           NEW r, r = RemoveAt(q, i),
           NEW D, D = A \cup {b},
           NEW v, v = [w EXCEPT ![0] = w[0] + Size(b.texts)]
    PROVE  Sound(r, D, C, k, v)
<1>1. /\ q \in Seq(Batches) /\ A \in SUBSET Batches /\ k \in CallTable /\ w \in Windows
      /\ Lined(q, A, C) /\ CallsSound(k, Held(q, A), C) /\ Paid(A, w) /\ Kept(A, w)
  BY DEF Sound
<1>2. PICK a \in Batches : a = q[i]
  BY <1>1, ElementOfSeq
<1>3. /\ a.texts # <<>> /\ Small(a.texts) /\ a.attempt < MaxTries /\ a.age = 0
      /\ TextsOf(a) \cap C = {}
  BY <1>2, <1>1 DEF Lined
<1>4. b.texts = a.texts
  BY <1>2
<1>5. TextsOf(b) = TextsOf(a)
  BY <1>4 DEF TextsOf
<1>6. /\ r \in Seq(Batches) /\ Lined(r, A, C) /\ TextsOf(a) \cap Held(r, A) = {}
      /\ Held(q, A) \ TextsOf(a) \subseteq Held(r, A)
  BY <1>1, <1>2, LeaveQueue
<1>7. /\ b \notin A /\ D \in SUBSET Batches /\ Lined(r, D, C)
      /\ Held(r, A) \cup TextsOf(b) \subseteq Held(r, D)
  <2>1. b.texts # <<>> /\ Small(b.texts) /\ TextsOf(b) \cap C = {} /\ TextsOf(b) \cap Held(r, A) = {}
    BY <1>3, <1>4, <1>5, <1>6
  <2>2. /\ b \notin A /\ A \cup {b} \in SUBSET Batches /\ Lined(r, A \cup {b}, C)
        /\ Held(r, A) \cup TextsOf(b) \subseteq Held(r, A \cup {b})
    BY <1>1, <1>4, <1>6, <2>1, JoinActive
  <2> QED BY <2>2
<1>8. Held(q, A) \subseteq Held(r, D)
  BY <1>5, <1>6, <1>7
<1>9. CallsSound(k, Held(r, D), C)
  BY <1>1, <1>8, CallsKept
<1>11. v \in Windows /\ Paid(D, v)
  <2>1. v \in Windows /\ Paid(A \cup {b}, v)
    BY <1>1, <1>4, <1>7, PaidAdmit
  <2> QED BY <2>1
<1>12. \A c \in A : c.texts # <<>>
  BY <1>1 DEF Lined
<1>14. Kept(D, v)
  <2>1. Small(b.texts)
    BY <1>3, <1>4
  <2>2. Kept(A \cup {b}, v)
    BY <1>1, <1>4, <1>12, <2>1, KeptAdmit
  <2> QED BY <2>2
<1> QED BY <1>1, <1>6, <1>7, <1>9, <1>11, <1>14 DEF Sound

\* A batch of the queue is given up.
LEMMA SoundGivenUp ==
    ASSUME NEW q, NEW A, NEW C, NEW k, NEW w, Sound(q, A, C, k, w), NEW i \in 1..Len(q),
           NEW r, r = RemoveAt(q, i),
           NEW m, m = Told(k, TextsOf(q[i]), TRUE)
    PROVE  Sound(r, A, C, m, w)
<1>1. /\ q \in Seq(Batches) /\ A \in SUBSET Batches /\ k \in CallTable
      /\ Lined(q, A, C) /\ CallsSound(k, Held(q, A), C)
  BY DEF Sound
<1>2. PICK ts : ts = TextsOf(q[i])
  OBVIOUS
<1>3. PICK P : P = Held(q, A)
  OBVIOUS
<1>4. PICK Q : Q = Held(r, A)
  OBVIOUS
<1>5. r \in Seq(Batches) /\ Lined(r, A, C) /\ P \ ts \subseteq Q
  BY <1>1, <1>2, <1>3, <1>4, LeaveQueue
<1>6. m = Told(k, ts, TRUE)
  BY <1>2
<1>7. m \in CallTable /\ CallsSound(m, Q, C)
  BY <1>1, <1>3, <1>5, <1>6, CallsAnswered
<1> QED BY <1>4, <1>5, <1>7 DEF Sound

\* All of the queue is.
LEMMA SoundDrained ==
    ASSUME NEW q, NEW A, NEW C, NEW k, NEW w, Sound(q, A, C, k, w),
           NEW ts, ts = UNION {TextsOf(b) : b \in Range(q)},
           NEW m, m = Told(k, ts, TRUE)
    PROVE  Sound(<<>>, A, C, m, w)
<1>1. /\ q \in Seq(Batches) /\ A \in SUBSET Batches /\ k \in CallTable
      /\ Lined(q, A, C) /\ CallsSound(k, Held(q, A), C)
  BY DEF Sound
<1>2. PICK P : P = Held(q, A)
  OBVIOUS
<1>3. PICK Q : Q = Held(<<>>, A)
  OBVIOUS
<1>4. <<>> \in Seq(Batches) /\ Lined(<<>>, A, C)
  BY <1>1, EmptyQueue
<1>5. P \ ts \subseteq Q
  BY <1>1, <1>2, <1>3, EmptyQueue
<1>6. m \in CallTable /\ CallsSound(m, Q, C)
  BY <1>1, <1>2, <1>5, CallsAnswered
<1> QED BY <1>3, <1>4, <1>6 DEF Sound

\* The vectors of a request are stored.
LEMMA SoundStored ==
    ASSUME NEW q, NEW A, NEW C, NEW k, NEW w, Sound(q, A, C, k, w), NEW b \in A,
           b.answer = "sent",
           NEW s \in Batches, s.texts = b.texts, s.age = b.age, s.answer = "stored",
           NEW D, D = (A \ {b}) \cup {s},
           NEW K, K = C \cup TextsOf(b)
    PROVE  Sound(q, D, K, k, w)
<1>1. /\ q \in Seq(Batches) /\ A \in SUBSET Batches /\ k \in CallTable /\ w \in Windows
      /\ Lined(q, A, C) /\ CallsSound(k, Held(q, A), C) /\ Paid(A, w) /\ Kept(A, w)
  BY DEF Sound
<1>2. /\ (A \ {b}) \cup {s} \in SUBSET Batches
      /\ Lined(q, (A \ {b}) \cup {s}, C \cup TextsOf(b))
      /\ Held(q, A) \subseteq Held(q, (A \ {b}) \cup {s})
  BY <1>1, StoreActive
<1>3. D \in SUBSET Batches /\ Lined(q, D, K) /\ Held(q, A) \subseteq Held(q, D)
  BY <1>2
<1>4. s \notin A
  <2>1. TextsOf(s) = TextsOf(b)
    BY DEF TextsOf
  <2>2. TextsOf(b) # {}
    <3>1. b.texts \in Seq(Texts) /\ b.texts # <<>>
      BY <1>1 DEF Lined, Batches
    <3>2. b.texts[1] \in Range(b.texts)
      BY <3>1, SeqRange
    <3> QED BY <3>2 DEF TextsOf
  <2>3. s # b
    OBVIOUS
  <2>4. ASSUME s \in A PROVE TextsOf(s) \cap TextsOf(b) = {}
    BY <1>1, <2>3, <2>4 DEF Lined
  <2> QED BY <2>1, <2>2, <2>4
<1>5. Paid((A \ {b}) \cup {s}, w)
  BY <1>1, <1>4, PaidSwap
<1>6. Kept((A \ {b}) \cup {s}, w)
  BY <1>1, KeptSwap
<1>7. K \in SUBSET Texts
  <2>1. TextsOf(b) \subseteq Texts
    BY <1>1, SeqRange DEF TextsOf, Batches
  <2>2. C \subseteq Texts
    BY DEF Sound
  <2> QED BY <2>1, <2>2
<1>8. CallsSound(k, Held(q, D), K)
  BY <1>1, <1>3, CallsKept
<1> QED BY <1>1, <1>3, <1>5, <1>6, <1>7, <1>8 DEF Sound

\* A batch leaves the active ones, its charge as it was or lower.
LEMMA PaidDone ==
    ASSUME NEW A \in SUBSET Batches, NEW w \in Windows, Paid(A, w), Kept(A, w),
           NEW b \in A, NEW v, Lowered(v, w, b)
    PROVE  v \in Windows /\ Paid(A \ {b}, v) /\ Kept(A \ {b}, v)
<1>1. CASE v = w
  BY <1>1, PaidLeave, KeptFewer
<1>2. CASE v # w
  <2>1. PICK n \in Nat : /\ b.age < Window /\ n <= Size(b.texts)
                         /\ v = [w EXCEPT ![b.age] = w[b.age] - Size(b.texts) + n]
    BY <1>2 DEF Lowered
  <2>2. v \in Windows /\ Paid(A \ {b}, v)
    BY <2>1, PaidCounted
  <2>3. Kept(A \ {b}, v)
    BY <2>1, KeptCounted
  <2> QED BY <2>2, <2>3
<1> QED BY <1>1, <1>2

\* A request ends and its batch is queued again.
LEMMA SoundRetried ==
    ASSUME NEW q, NEW A, NEW C, NEW k, NEW w, Sound(q, A, C, k, w), NEW b \in A,
           b.answer = "sent", b.attempt < MaxTries,
           NEW s \in Batches, s.texts = b.texts, s.attempt = b.attempt, s.age = 0,
           s.answer = "none",
           NEW D, D = A \ {b},
           NEW r, r = Append(q, s),
           NEW v, Lowered(v, w, b)
    PROVE  Sound(r, D, C, k, v)
<1>1. /\ q \in Seq(Batches) /\ A \in SUBSET Batches /\ k \in CallTable /\ w \in Windows
      /\ Lined(q, A, C) /\ CallsSound(k, Held(q, A), C) /\ Paid(A, w) /\ Kept(A, w)
  BY DEF Sound
<1>2. /\ b.texts # <<>> /\ Small(b.texts) /\ TextsOf(b) \cap C = {}
  BY <1>1 DEF Lined
<1>3. TextsOf(s) = TextsOf(b)
  BY DEF TextsOf
<1>4. /\ D \in SUBSET Batches /\ Lined(q, D, C)
      /\ TextsOf(b) \cap Held(q, D) = {}
      /\ Held(q, A) \ TextsOf(b) \subseteq Held(q, D)
  BY <1>1, LeaveActive
<1>5. /\ s.texts # <<>> /\ Small(s.texts) /\ s.attempt < MaxTries
      /\ TextsOf(s) \cap C = {} /\ TextsOf(s) \cap Held(q, D) = {}
  BY <1>2, <1>3, <1>4
<1>6. /\ Append(q, s) \in Seq(Batches) /\ Lined(Append(q, s), D, C)
      /\ Held(q, D) \cup TextsOf(s) \subseteq Held(Append(q, s), D)
  BY <1>1, <1>4, <1>5, AppendQueue
<1>7. r \in Seq(Batches) /\ Lined(r, D, C) /\ Held(q, A) \subseteq Held(r, D)
  BY <1>3, <1>4, <1>6
<1>8. CallsSound(k, Held(r, D), C)
  BY <1>1, <1>7, CallsKept
<1>9. v \in Windows /\ Paid(D, v) /\ Kept(D, v)
  BY <1>1, <1>2, PaidDone
<1> QED BY <1>1, <1>4, <1>7, <1>8, <1>9 DEF Sound

\* A request ends and its callers are told.
LEMMA SoundFinished ==
    ASSUME NEW q, NEW A, NEW C, NEW k, NEW w, Sound(q, A, C, k, w), NEW b \in A,
           NEW error \in BOOLEAN, ~error => b.answer = "stored",
           NEW D, D = A \ {b},
           NEW m, m = Told(k, TextsOf(b), error),
           NEW v, Lowered(v, w, b)
    PROVE  Sound(q, D, C, m, v)
<1>1. /\ q \in Seq(Batches) /\ A \in SUBSET Batches /\ k \in CallTable /\ w \in Windows
      /\ Lined(q, A, C) /\ CallsSound(k, Held(q, A), C) /\ Paid(A, w) /\ Kept(A, w)
  BY DEF Sound
<1>2. PICK ts : ts = TextsOf(b)
  OBVIOUS
<1>3. PICK P : P = Held(q, A)
  OBVIOUS
<1>4. PICK Q : Q = Held(q, D)
  OBVIOUS
<1>5. b.texts # <<>> /\ (~error => ts \subseteq C)
  BY <1>1, <1>2 DEF Lined
<1>6. D \in SUBSET Batches /\ Lined(q, D, C) /\ P \ ts \subseteq Q
  BY <1>1, <1>2, <1>3, <1>4, LeaveActive
<1>7. m = Told(k, ts, error)
  BY <1>2
<1>8. m \in CallTable /\ CallsSound(m, Q, C)
  BY <1>1, <1>3, <1>5, <1>6, <1>7, CallsAnswered
<1>9. v \in Windows /\ Paid(D, v) /\ Kept(D, v)
  BY <1>1, <1>5, PaidDone
<1> QED BY <1>1, <1>4, <1>6, <1>8, <1>9 DEF Sound

\* Time passes.
LEMMA SoundOlder ==
    ASSUME NEW q, NEW A, NEW C, NEW k, NEW w, Sound(q, A, C, k, w),
           NEW r \in Seq(Batches), Len(r) = Len(q),
           \A i \in 1..Len(q) : /\ r[i].texts = q[i].texts /\ r[i].attempt = q[i].attempt
                                /\ r[i].age = q[i].age /\ r[i].answer = q[i].answer,
           NEW D, D = {Older(b) : b \in A},
           NEW v, v = [age \in DOMAIN w |-> IF age = 0 THEN 0 ELSE w[age - 1]]
    PROVE  Sound(r, D, C, k, v)
<1>1. /\ q \in Seq(Batches) /\ A \in SUBSET Batches /\ k \in CallTable /\ w \in Windows
      /\ Lined(q, A, C) /\ CallsSound(k, Held(q, A), C) /\ Paid(A, w) /\ Kept(A, w)
  BY DEF Sound
<1>2. D \in SUBSET Batches
  BY <1>1, OlderFacts
<1>3. Lined(r, D, C) /\ Held(q, A) \subseteq Held(r, D)
  BY <1>1, <1>2, LaterBatches
<1>4. CallsSound(k, Held(r, D), C)
  BY <1>1, <1>3, CallsKept
<1>5. v \in Windows
  BY <1>1, ChargesShift
<1>6. Paid(D, v)
  BY <1>1, <1>2, PaidOlder
<1>7. Kept(D, v)
  BY <1>1, <1>2, KeptOlder
<1> QED BY <1>1, <1>2, <1>3, <1>4, <1>5, <1>6, <1>7 DEF Sound

------------------------------------------------------------------------------
(* The invariant of the service                                                 *)

LEMMA ServiceTyped == ServiceInv => ServiceTypeOK
<1> SUFFICES ASSUME ServiceInv PROVE ServiceTypeOK
  OBVIOUS
<1>1. /\ queue \in Seq(Batches) /\ active \in SUBSET Batches /\ cache \in SUBSET Texts
      /\ call \in CallTable /\ window \in Windows /\ admitted \in Windows /\ Shape
  BY DEF ServiceInv, Sound, Shape, Covers
<1> QED BY <1>1 DEF ServiceTypeOK, Shape, CallTable, CallStates, Windows

LEMMA NothingCovered == Covers(NoCharge, NoCharge)
<1>1. ASSUME NEW a \in 0..(Window - 1) PROVE NoCharge[a] <= NoCharge[a]
  BY NoCharges
<1> QED BY <1>1, NoCharges DEF Covers

LEMMA ServiceStarts == ServiceInit => ServiceInv
<1> SUFFICES ASSUME ServiceInit PROVE ServiceInv
  OBVIOUS
<1>1. Shape
  <2>1. NoMap \in [pc : {"idle", "run", "unwind"}, yielded : Nat, submitted : Nat]
    BY DEF NoMap
  <2>2. 0 \in 0..MaxFaults /\ 0 \in 0..MaxOpens
    BY ServiceConstants
  <2>3. Covers(window, admitted)
    BY NothingCovered DEF ServiceInit
  <2> QED BY <2>1, <2>2, <2>3 DEF ServiceInit, Shape
<1>2. Sound(<<>>, {}, cache, call, NoCharge)
  BY SoundFresh DEF ServiceInit
<1>3. Sound(queue, active, cache, call, admitted)
  BY <1>2 DEF ServiceInit
<1>4. ClosedIsQuiet
  <2>1. \A c \in Range(Mapped) : c \in Calls
    BY DEF Calls
  <2> QED BY <2>1 DEF ServiceInit, ClosedIsQuiet, NoCall
<1> QED BY <1>1, <1>3, <1>4 DEF ServiceInv

\* Steps of map() and the service that leave batches, calls and window alone.
LEMMA QuietStep ==
    ASSUME ServiceInv, Shape',
           UNCHANGED <<cache, call, queue, active, admitted>>,
           open' = "closed" => open = "closed"
    PROVE  ServiceInv'
<1>1. Sound(queue, active, cache, call, admitted)'
  BY DEF ServiceInv
<1>2. ClosedIsQuiet'
  BY DEF ServiceInv, ClosedIsQuiet
<1> QED BY <1>1, <1>2 DEF ServiceInv

\* A fault is counted up to its bound.
LEMMA OneMore == \A n \in Nat : \A k \in 0..n : k < n => k + 1 \in 0..n
OBVIOUS

\* One call enters a state that waits for nothing.
LEMMA SoundMoved ==
    ASSUME NEW q, NEW A, NEW C, NEW k, NEW w, Sound(q, A, C, k, w), NEW c \in Calls,
           NEW p \in {"idle", "submitted", "error", "cancelled"},
           NEW m, m = [k EXCEPT ![c] = [NoCall EXCEPT !.pc = p]]
    PROVE  Sound(q, A, C, m, w)
<1>1. k \in CallTable
  BY DEF Sound
<1>2. PICK r : r = [NoCall EXCEPT !.pc = p]
  OBVIOUS
<1>3. r = [pc |-> p, waits |-> {}, failed |-> FALSE]
  BY <1>2 DEF NoCall
<1>4. m = [k EXCEPT ![c] = r]
  BY <1>2
<1>5. PICK S : S = {c}
  OBVIOUS
<1>6. m = Moved(k, S, r)
  <2>1. m = [d \in Calls |-> m[d]] /\ \A d \in Calls : m[d] = IF d \in S THEN r ELSE k[d]
    BY <1>1, <1>4, <1>5 DEF CallTable
  <2>2. m = [d \in Calls |-> IF d \in S THEN r ELSE k[d]]
    BY <2>1
  <2> QED BY <2>2 DEF Moved
<1> QED BY <1>3, <1>6, SoundIdle

LEMMA EmbedStep ==
    ASSUME ServiceInv, NEW c \in Calls, Embed(c)
    PROVE  ServiceInv'
<1>1. /\ call' = [call EXCEPT ![c] = Waiting(Range(Want[c]) \ cache, FALSE)]
      /\ queue' = queue \o Packed(Want[c], Owned(c))
      /\ UNCHANGED <<cache, open, active, window, admitted, tight, map, faults, opens>>
      /\ open = "up"
  BY DEF Embed
<1>2. PICK owned : owned = Range(Want[c]) \ (cache \cup Held(queue, active))
  OBVIOUS
<1>3. queue' = queue \o Packed(Want[c], owned)
  <2>1. owned = Owned(c)
    BY <1>2 DEF Owned, Pending, Held
  <2> QED BY <1>1, <2>1
<1>4. Sound(queue, active, cache, call, admitted)
  BY DEF ServiceInv
<1>5. Sound(queue', active, cache, call', admitted)
  BY <1>1, <1>2, <1>3, <1>4, SoundEmbed
<1>6. Sound(queue, active, cache, call, admitted)'
  BY <1>1, <1>5
<1>7. Shape' /\ ClosedIsQuiet'
  BY <1>1 DEF ServiceInv, Shape, ClosedIsQuiet
<1> QED BY <1>6, <1>7 DEF ServiceInv

LEMMA EmbedRefusedStep ==
    ASSUME ServiceInv, NEW c \in Calls, EmbedRefused(c)
    PROVE  ServiceInv'
<1>1. /\ call' = [call EXCEPT ![c] = [NoCall EXCEPT !.pc = "error"]]
      /\ UNCHANGED <<cache, open, queue, active, window, admitted, tight, map, faults, opens>>
      /\ open = "closing"
  BY DEF EmbedRefused
<1>2. Sound(queue, active, cache, call, admitted)
  BY DEF ServiceInv
<1>3. Sound(queue, active, cache, call', admitted)
  BY <1>1, <1>2, SoundMoved
<1>4. Sound(queue, active, cache, call, admitted)'
  BY <1>1, <1>3
<1>5. Shape' /\ ClosedIsQuiet'
  BY <1>1 DEF ServiceInv, Shape, ClosedIsQuiet
<1> QED BY <1>4, <1>5 DEF ServiceInv

LEMMA EmbedLogFailsStep ==
    ASSUME ServiceInv, NEW c \in Calls, EmbedLogFails(c)
    PROVE  ServiceInv'
<1>1. /\ call' = [call EXCEPT ![c] = [NoCall EXCEPT !.pc = "error"]]
      /\ UNCHANGED <<cache, queue, active, window, admitted, tight, map, opens>>
      /\ open' = "closing" /\ faults < MaxFaults /\ faults' = faults + 1
  BY DEF EmbedLogFails
<1>2. Sound(queue, active, cache, call, admitted)
  BY DEF ServiceInv
<1>3. Sound(queue, active, cache, call', admitted)
  BY <1>1, <1>2, SoundMoved
<1>4. Sound(queue, active, cache, call, admitted)'
  BY <1>1, <1>3
<1>5. faults' \in 0..MaxFaults
  BY <1>1, OneMore, ServiceConstants DEF ServiceInv, Shape
<1>6. Shape' /\ ClosedIsQuiet'
  BY <1>1, <1>5 DEF ServiceInv, Shape, ClosedIsQuiet
<1> QED BY <1>4, <1>6 DEF ServiceInv

LEMMA StartMapStep ==
    ASSUME ServiceInv, StartMap
    PROVE  ServiceInv'
<1>1. map' \in [pc : {"idle", "run", "unwind"}, yielded : Nat, submitted : Nat]
  BY DEF StartMap, NoMap
<1>2. Shape'
  BY <1>1 DEF ServiceInv, Shape, StartMap
<1> QED BY <1>2, QuietStep DEF StartMap

LEMMA MapYieldStep ==
    ASSUME ServiceInv, MapYield
    PROVE  ServiceInv'
<1>1. map \in [pc : {"idle", "run", "unwind"}, yielded : Nat, submitted : Nat]
  BY DEF ServiceInv, Shape
<1>2. map' = [map EXCEPT !.yielded = @ + 1] \/ map' = [map EXCEPT !.pc = "unwind"]
  BY DEF MapYield
<1>3. map' \in [pc : {"idle", "run", "unwind"}, yielded : Nat, submitted : Nat]
  BY <1>1, <1>2
<1>4. Shape'
  BY <1>3 DEF ServiceInv, Shape, MapYield
<1> QED BY <1>4, QuietStep DEF MapYield

LEMMA MapSubmitStep ==
    ASSUME ServiceInv, MapSubmit
    PROVE  ServiceInv'
<1>1. map \in [pc : {"idle", "run", "unwind"}, yielded : Nat, submitted : Nat]
  BY DEF ServiceInv, Shape
<1>2. CASE open = "up"
  <2>1. /\ map' = [map EXCEPT !.submitted = @ + 1]
        /\ call' = [call EXCEPT ![Mapped[map.submitted + 1]] = [NoCall EXCEPT !.pc = "submitted"]]
        /\ UNCHANGED <<cache, open, queue, active, window, admitted, tight, faults, opens>>
        /\ map.submitted < Len(Mapped)
    BY <1>2 DEF MapSubmit
  <2>2. PICK c : c = Mapped[map.submitted + 1]
    OBVIOUS
  <2>3. c \in Calls
    <3>1. Mapped \in Seq(Range(Mapped))
      BY TextsAssumption
    <3>2. map.submitted + 1 \in 1..Len(Mapped)
      <4>1. PICK n \in Nat : n = Len(Mapped)
        BY <3>1, LenProperties
      <4>2. map.submitted \in Nat
        BY <1>1
      <4> QED BY <2>1, <4>1, <4>2
    <3>3. c \in Range(Mapped)
      BY <2>2, <3>1, <3>2, ElementOfSeq
    <3> QED BY <3>3 DEF Calls
  <2>4. Sound(queue, active, cache, call, admitted)
    BY DEF ServiceInv
  <2>5. call' = [call EXCEPT ![c] = [NoCall EXCEPT !.pc = "submitted"]]
    BY <2>1, <2>2
  <2>6. Sound(queue, active, cache, call', admitted)
    BY <2>3, <2>4, <2>5, SoundMoved
  <2>7. Sound(queue, active, cache, call, admitted)'
    BY <2>1, <2>6
  <2>8. map' \in [pc : {"idle", "run", "unwind"}, yielded : Nat, submitted : Nat]
    BY <1>1, <2>1
  <2>9. Shape' /\ ClosedIsQuiet'
    BY <1>2, <2>1, <2>8 DEF ServiceInv, Shape, ClosedIsQuiet
  <2> QED BY <2>7, <2>9 DEF ServiceInv
<1>3. CASE open # "up"
  <2>1. /\ map' = [map EXCEPT !.pc = "unwind"]
        /\ UNCHANGED <<cache, open, call, queue, active, window, admitted, tight, faults, opens>>
    BY <1>3 DEF MapSubmit
  <2>2. map' \in [pc : {"idle", "run", "unwind"}, yielded : Nat, submitted : Nat]
    BY <1>1, <2>1
  <2>3. Shape'
    BY <2>1, <2>2 DEF ServiceInv, Shape
  <2> QED BY <2>1, <2>3, QuietStep
<1> QED BY <1>2, <1>3

\* Calls of the map() enter a state in which they do not run.
LEMMA MapMoved ==
    ASSUME ServiceInv, NEW S, NEW p \in {"idle", "cancelled"},
           NEW r, r = [pc |-> p, waits |-> {}, failed |-> FALSE],
           NEW m, m = Moved(call, S, r)
    PROVE  /\ Sound(queue, active, cache, m, admitted)
           /\ open = "closed" =>
                 \A c \in Range(Mapped) : m[c].pc \notin {"submitted", "waiting"}
<1>1. Sound(queue, active, cache, m, admitted)
  BY SoundIdle DEF ServiceInv
<1>2. ASSUME NEW c \in Range(Mapped), open = "closed"
      PROVE  m[c].pc \notin {"submitted", "waiting"}
  <2>1. c \in Calls
    BY DEF Calls
  <2>2. m[c] = IF c \in S THEN r ELSE call[c]
    BY <2>1 DEF Moved
  <2>3. call[c].pc \notin {"submitted", "waiting"}
    BY <1>2 DEF ServiceInv, ClosedIsQuiet
  <2> QED BY <2>2, <2>3
<1> QED BY <1>1, <1>2

LEMMA CancelledMoved ==
    ASSUME NEW S, NEW r, r = [pc |-> "cancelled", waits |-> {}, failed |-> FALSE]
    PROVE  Cancelled(S) = Moved(call, S, r)
<1>1. PICK z : z = [NoCall EXCEPT !.pc = "cancelled"]
  OBVIOUS
<1>2. z = [pc |-> "cancelled", waits |-> {}, failed |-> FALSE]
  BY <1>1 DEF NoCall
<1>3. z = r
  BY <1>2
<1>4. Cancelled(S) = Moved(call, S, z)
  BY <1>1 DEF Cancelled, Moved
<1> QED BY <1>3, <1>4

LEMMA MapUnwindStep ==
    ASSUME ServiceInv, MapUnwind
    PROVE  ServiceInv'
<1>1. /\ call' = Cancelled(Unstarted)
      /\ UNCHANGED <<cache, open, queue, active, window, admitted, tight, map, faults, opens>>
  BY DEF MapUnwind
<1>2. PICK r : r = [pc |-> "cancelled", waits |-> {}, failed |-> FALSE]
  OBVIOUS
<1>3. call' = Moved(call, Unstarted, r)
  BY <1>1, <1>2, CancelledMoved
<1>4. /\ Sound(queue, active, cache, call', admitted)
      /\ open = "closed" =>
            \A c \in Range(Mapped) : call'[c].pc \notin {"submitted", "waiting"}
  BY <1>2, <1>3, MapMoved
<1>5. Sound(queue, active, cache, call, admitted)'
  BY <1>1, <1>4
<1>6. Shape' /\ ClosedIsQuiet'
  BY <1>1, <1>4 DEF ServiceInv, Shape, ClosedIsQuiet
<1> QED BY <1>5, <1>6 DEF ServiceInv

LEMMA MapEndStep ==
    ASSUME ServiceInv, MapEnd
    PROVE  ServiceInv'
<1>1. /\ call' = [c \in Calls |-> IF c \in Range(Mapped) THEN NoCall ELSE call[c]]
      /\ map' = NoMap
      /\ UNCHANGED <<cache, open, queue, active, window, admitted, tight, faults, opens>>
  BY DEF MapEnd
<1>2. PICK r : r = [pc |-> "idle", waits |-> {}, failed |-> FALSE]
  OBVIOUS
<1>3. NoCall = r
  BY <1>2 DEF NoCall
<1>4. PICK S : S = Range(Mapped)
  OBVIOUS
<1>5. call' = Moved(call, S, r)
  BY <1>1, <1>3, <1>4 DEF Moved
<1>6. /\ Sound(queue, active, cache, call', admitted)
      /\ open = "closed" =>
            \A c \in Range(Mapped) : call'[c].pc \notin {"submitted", "waiting"}
  BY <1>2, <1>5, MapMoved
<1>7. Sound(queue, active, cache, call, admitted)'
  BY <1>1, <1>6
<1>8. map' \in [pc : {"idle", "run", "unwind"}, yielded : Nat, submitted : Nat]
  BY <1>1 DEF NoMap
<1>9. Shape' /\ ClosedIsQuiet'
  BY <1>1, <1>6, <1>8 DEF ServiceInv, Shape, ClosedIsQuiet
<1> QED BY <1>7, <1>9 DEF ServiceInv

LEMMA ClosedStep ==
    ASSUME ServiceInv, Closed
    PROVE  ServiceInv'
<1> DEFINE Submitted == {c \in Range(Mapped) : call[c].pc = "submitted"}
<1>1. /\ call' = Cancelled(Submitted)
      /\ UNCHANGED <<cache, queue, active, window, admitted, tight, map, faults, opens>>
      /\ open' = "closed"
      /\ queue = <<>> /\ active = {}
      /\ \A c \in Range(Mapped) : call[c].pc # "waiting"
  BY DEF Closed, Quiet
<1>2. PICK r : r = [pc |-> "cancelled", waits |-> {}, failed |-> FALSE]
  OBVIOUS
<1>3. PICK S : S = Submitted
  OBVIOUS
<1>4. call' = Moved(call, S, r)
  BY <1>1, <1>2, <1>3, CancelledMoved
<1>5. Sound(queue, active, cache, call', admitted)
  BY <1>2, <1>4, MapMoved
<1>6. Sound(queue, active, cache, call, admitted)'
  BY <1>1, <1>5
<1>7. ASSUME NEW c \in Range(Mapped) PROVE call'[c].pc \notin {"submitted", "waiting"}
  <2>1. c \in Calls
    BY DEF Calls
  <2>2. call'[c] = IF c \in S THEN r ELSE call[c]
    BY <1>4, <2>1 DEF Moved
  <2>3. CASE c \in S
    BY <1>2, <2>2, <2>3
  <2>4. CASE c \notin S
    BY <1>1, <1>3, <2>2, <2>4
  <2> QED BY <2>3, <2>4
<1>8. Shape' /\ ClosedIsQuiet'
  BY <1>1, <1>7 DEF ServiceInv, Shape, ClosedIsQuiet
<1> QED BY <1>6, <1>8 DEF ServiceInv

LEMMA CoversAdmit ==
    ASSUME NEW w \in Windows, NEW u, Covers(u, w), NEW x \in Nat,
           NEW y, y = [u EXCEPT ![0] = u[0] + x],
           NEW v, v = [w EXCEPT ![0] = w[0] + x]
    PROVE  Covers(y, v)
<1>0. PICK n \in Nat : n = Window /\ n # 0
  BY ServiceConstants
<1>1. u \in [0..(n - 1) -> Nat] /\ w \in [0..(n - 1) -> Nat]
  BY <1>0 DEF Covers, Windows
<1>2. \A a \in 0..(n - 1) : w[a] <= u[a]
  BY <1>0 DEF Covers
<1>3. y \in [0..(n - 1) -> Nat]
  BY <1>0, <1>1
<1>4. ASSUME NEW a \in 0..(n - 1) PROVE v[a] <= y[a]
  BY <1>1, <1>2
<1> QED BY <1>0, <1>3, <1>4 DEF Covers, Windows

LEMMA DispatchStep ==
    ASSUME ServiceInv, Dispatch
    PROVE  ServiceInv'
<1>1. PICK k \in DOMAIN queue :
         /\ Admissible(k)
         /\ active' = active \cup {[queue[k] EXCEPT !.attempt = @ + 1, !.answer = "sent"]}
         /\ queue' = RemoveAt(queue, k)
         /\ window' = [window EXCEPT ![0] = @ + Size(queue[k].texts)]
         /\ admitted' = [admitted EXCEPT ![0] = @ + Size(queue[k].texts)]
  BY DEF Dispatch
<1>2. open = "up" /\ UNCHANGED <<cache, open, call, tight, map, faults, opens>>
  BY DEF Dispatch
<1>3. /\ Sound(queue, active, cache, call, admitted)
      /\ queue \in Seq(Batches) /\ Lined(queue, active, cache)
  BY DEF ServiceInv, Sound
<1>4. k \in 1..Len(queue)
  BY <1>3, LenProperties
<1>5. PICK a \in Batches : a = queue[k]
  BY <1>3, <1>4, ElementOfSeq
<1>6. a.attempt < MaxTries /\ a.age = 0
  BY <1>3, <1>4, <1>5 DEF Lined
<1>7. PICK b : b = [a EXCEPT !.attempt = @ + 1, !.answer = "sent"]
  OBVIOUS
<1>8. b \in Batches /\ b.texts = a.texts /\ b.age = 0 /\ b.answer = "sent"
  BY <1>6, <1>7, BatchSent
<1>9. active' = active \cup {b}
  BY <1>1, <1>5, <1>7
<1>10. /\ window' = [window EXCEPT ![0] = window[0] + Size(b.texts)]
       /\ admitted' = [admitted EXCEPT ![0] = admitted[0] + Size(b.texts)]
  BY <1>1, <1>5, <1>8
<1>11. PICK lim \in Nat : lim = Limit /\ lim <= Budget
  BY ServiceConstants DEF Limit
<1>12. Used = Total(Charges(window))
  BY DEF Used, Charges
<1>13. IF Size(b.texts) > lim THEN Total(Charges(admitted)) = 0
                              ELSE Total(Charges(admitted)) + Size(b.texts) <= lim
  <2>1. Fits(a)
    BY <1>1, <1>5 DEF Admissible, Ready
  <2>2. PICK x \in Nat : x = Size(b.texts)
    BY <1>8, SizeFacts DEF Batches
  <2>3. IF x > lim THEN Used = 0 ELSE Used + x <= lim
    BY <1>8, <1>11, <2>1, <2>2 DEF Fits, Unsplittable
  <2>4. admitted \in Windows /\ Covers(window, admitted)
    BY DEF ServiceInv, Sound, Shape
  <2>5. window \in Windows /\ Total(Charges(admitted)) <= Total(Charges(window))
    BY <2>4, CoversTotal
  <2>6. PICK u \in Nat, y \in Nat : u = Used /\ y = Total(Charges(admitted)) /\ y <= u
    BY <1>12, <2>4, <2>5, ChargesFacts
  <2>7. IF x > lim THEN y = 0 ELSE y + x <= lim
    BY <2>3, <2>6
  <2> QED BY <2>2, <2>6, <2>7
<1>14. b.texts = queue[k].texts /\ queue' = RemoveAt(queue, k)
  BY <1>1, <1>5, <1>8
<1>15. Sound(queue', active', cache, call, admitted')
  BY <1>3, <1>4, <1>8, <1>9, <1>10, <1>11, <1>13, <1>14, SoundDispatch
<1>16. Sound(queue, active, cache, call, admitted)'
  BY <1>2, <1>15
<1>17. Covers(window', admitted')
  <2>1. Size(b.texts) \in Nat /\ admitted \in Windows /\ Covers(window, admitted)
    BY <1>8, SizeFacts DEF Batches, ServiceInv, Sound, Shape
  <2> QED BY <1>10, <2>1, CoversAdmit
<1>18. Shape' /\ ClosedIsQuiet'
  BY <1>2, <1>17 DEF ServiceInv, Shape, ClosedIsQuiet
<1> QED BY <1>16, <1>18 DEF ServiceInv

LEMMA DispatchFailsStep ==
    ASSUME ServiceInv, DispatchFails
    PROVE  ServiceInv'
<1>1. PICK k \in DOMAIN queue :
         queue' = RemoveAt(queue, k) /\ Answered(TextsOf(queue[k]), TRUE)
  BY DEF DispatchFails
<1>2. /\ open = "up" /\ faults < MaxFaults /\ faults' = faults + 1
      /\ UNCHANGED <<cache, open, active, window, admitted, tight, map, opens>>
  BY DEF DispatchFails
<1>3. Sound(queue, active, cache, call, admitted) /\ queue \in Seq(Batches)
  BY DEF ServiceInv, Sound
<1>4. k \in 1..Len(queue)
  BY <1>3, LenProperties
<1>5. call' = Told(call, TextsOf(queue[k]), TRUE)
  BY <1>1 DEF Answered, Told
<1>6. Sound(queue', active, cache, call', admitted)
  BY <1>1, <1>3, <1>4, <1>5, SoundGivenUp
<1>7. Sound(queue, active, cache, call, admitted)'
  BY <1>2, <1>6
<1>8. faults' \in 0..MaxFaults
  BY <1>2, OneMore, ServiceConstants DEF ServiceInv, Shape
<1>9. Shape' /\ ClosedIsQuiet'
  BY <1>2, <1>8 DEF ServiceInv, Shape, ClosedIsQuiet
<1> QED BY <1>7, <1>9 DEF ServiceInv

LEMMA DrainQueueStep ==
    ASSUME ServiceInv, DrainQueue
    PROVE  ServiceInv'
<1>1. /\ Answered(UNION {TextsOf(b) : b \in Range(queue)}, TRUE)
      /\ queue' = <<>> /\ open = "closing"
      /\ UNCHANGED <<cache, open, active, window, admitted, tight, map, faults, opens>>
  BY DEF DrainQueue
<1>2. PICK ts : ts = UNION {TextsOf(b) : b \in Range(queue)}
  OBVIOUS
<1>3. call' = Told(call, ts, TRUE)
  BY <1>1, <1>2 DEF Answered, Told
<1>4. Sound(queue, active, cache, call, admitted)
  BY DEF ServiceInv
<1>5. Sound(<<>>, active, cache, call', admitted)
  BY <1>2, <1>3, <1>4, SoundDrained
<1>6. Sound(queue, active, cache, call, admitted)'
  BY <1>1, <1>5
<1>7. Shape' /\ ClosedIsQuiet'
  BY <1>1 DEF ServiceInv, Shape, ClosedIsQuiet
<1> QED BY <1>6, <1>7 DEF ServiceInv

\* With the service closed no batch is active.
LEMMA ActiveOpen ==
    ASSUME ServiceInv, NEW b \in active
    PROVE  open # "closed" /\ b \in Batches
BY DEF ServiceInv, ClosedIsQuiet, Sound

LEMMA StoreStep ==
    ASSUME ServiceInv, NEW b \in active, Store(b)
    PROVE  ServiceInv'
<1>1. /\ b.answer = "sent"
      /\ cache' = cache \cup TextsOf(b)
      /\ active' = (active \ {b}) \cup {[b EXCEPT !.answer = "stored"]}
      /\ UNCHANGED <<open, call, queue, window, admitted, tight, map, faults, opens>>
  BY DEF Store, Stored
<1>2. open # "closed" /\ b \in Batches
  BY ActiveOpen
<1>3. PICK s : s = [b EXCEPT !.answer = "stored"]
  OBVIOUS
<1>4. s \in Batches /\ s.texts = b.texts /\ s.age = b.age /\ s.answer = "stored"
  BY <1>2, <1>3 DEF Batches
<1>5. active' = (active \ {b}) \cup {s}
  BY <1>1, <1>3
<1>6. Sound(queue, active, cache, call, admitted)
  BY DEF ServiceInv
<1>7. Sound(queue, active', cache', call, admitted)
  BY <1>1, <1>4, <1>5, <1>6, SoundStored
<1>8. Sound(queue, active, cache, call, admitted)'
  BY <1>1, <1>7
<1>9. Shape' /\ ClosedIsQuiet'
  BY <1>1, <1>2 DEF ServiceInv, Shape, ClosedIsQuiet
<1> QED BY <1>8, <1>9 DEF ServiceInv

\* The window becomes what was counted, and still covers what is counted lower.
LEMMA CoversCounted ==
    ASSUME NEW A \in SUBSET Batches, NEW w \in Windows, Paid(A, w),
           NEW u, Covers(u, w), NEW b \in A, b.age < Window, NEW m \in Nat,
           NEW y, y = [u EXCEPT ![b.age] = u[b.age] - Size(b.texts) + m],
           NEW v, \/ m > Size(b.texts) /\ v = w
                  \/ v = [w EXCEPT ![b.age] = w[b.age] - Size(b.texts) + m]
    PROVE  Covers(y, v)
<1>0. PICK n \in Nat : n = Window /\ n # 0
  BY ServiceConstants
<1>1. u \in [0..(n - 1) -> Nat] /\ w \in [0..(n - 1) -> Nat]
  BY <1>0 DEF Covers, Windows
<1>2. \A a \in 0..(n - 1) : w[a] <= u[a]
  BY <1>0 DEF Covers
<1>3. PICK g \in 0..(n - 1) : g = b.age
  BY <1>0, PaidCovers
<1>4. PICK x \in Nat : x = Size(b.texts) /\ x <= w[g]
  BY <1>3, PaidCovers
<1>5. PICK z \in Nat : z = u[g] - x + m /\ w[g] - x + m <= z /\ (m > x => w[g] <= z)
  <2>1. PICK p \in Nat, r \in Nat : p = w[g] /\ r = u[g] /\ p <= r
    BY <1>1, <1>2
  <2>2. PICK z \in Nat : z = r - x + m
    BY <1>4, <2>1
  <2>3. p - x + m <= z /\ (m > x => p <= z)
    BY <1>4, <2>1, <2>2
  <2> QED BY <2>1, <2>2, <2>3
<1>6. y = [u EXCEPT ![g] = z]
  BY <1>3, <1>4, <1>5
<1>7. y \in [0..(n - 1) -> Nat] /\ y[g] = z /\ \A a \in 0..(n - 1) : a # g => y[a] = u[a]
  BY <1>1, <1>6
<1>8. /\ \A a \in 0..(n - 1) : a # g => v[a] = w[a]
      /\ v[g] <= z
  <2>1. CASE m > x /\ v = w
    BY <1>5, <2>1
  <2>2. CASE v = [w EXCEPT ![g] = w[g] - x + m]
    BY <1>1, <1>5, <2>2
  <2> QED BY <1>3, <1>4, <2>1, <2>2
<1>9. ASSUME NEW a \in 0..(n - 1) PROVE v[a] <= y[a]
  BY <1>2, <1>7, <1>8
<1> QED BY <1>0, <1>7, <1>9 DEF Covers, Windows

\* The charge stays, or becomes what was counted.
LEMMA ChargeIs ==
    ASSUME ServiceInv, NEW b \in active, NEW outcome, Charge(b, outcome)
    PROVE  Lowered(admitted', admitted, b) /\ Covers(window', admitted')
<1>1. /\ active \in SUBSET Batches /\ admitted \in Windows /\ Paid(active, admitted)
      /\ Covers(window, admitted)
  BY DEF ServiceInv, Sound, Shape
<1>2. CASE UNCHANGED <<window, admitted>>
  BY <1>1, <1>2 DEF Lowered
<1>3. ASSUME NEW n \in Counts, window' = Calibrated(b, n), admitted' = Readmitted(b, n)
      PROVE  Lowered(admitted', admitted, b) /\ Covers(window', admitted')
  <2>0. n \in Nat
    BY LimitsAssumption
  <2>1. CASE b.age = Window
    BY <1>1, <1>3, <2>1 DEF Calibrated, Readmitted, Lowered
  <2>2. CASE b.age # Window
    <3>1. b.age < Window
      <4>1. b.age \in 0..Window
        BY ActiveOpen DEF Batches
      <4> QED BY <2>2, <4>1, ServiceConstants
    <3>2. PICK x \in Nat : x = Size(b.texts)
      BY <1>1, <3>1, PaidCovers
    <3>3. window' = [window EXCEPT ![b.age] = window[b.age] - Size(b.texts) + n]
      BY <1>3, <2>2 DEF Calibrated
    <3>4. CASE n > x
      <4>1. admitted' = admitted
        BY <1>3, <3>2, <3>4 DEF Readmitted
      <4>2. Covers(window', admitted')
        BY <1>1, <2>0, <3>1, <3>2, <3>3, <3>4, <4>1, CoversCounted
      <4> QED BY <4>1, <4>2 DEF Lowered
    <3>5. CASE ~(n > x)
      <4>1. admitted' = [admitted EXCEPT ![b.age] = admitted[b.age] - Size(b.texts) + n]
        BY <1>3, <2>2, <3>2, <3>5 DEF Readmitted
      <4>2. Covers(window', admitted')
        BY <1>1, <2>0, <3>1, <3>3, <4>1, CoversCounted
      <4>3. n <= Size(b.texts)
        BY <2>0, <3>2, <3>5
      <4> QED BY <2>0, <3>1, <4>1, <4>2, <4>3 DEF Lowered
    <3> QED BY <3>4, <3>5
  <2> QED BY <2>1, <2>2
<1> QED BY <1>2, <1>3 DEF Charge

LEMMA FinishStep ==
    ASSUME ServiceInv, NEW b \in active, NEW outcome \in RequestOutcomes(b), Finish(b, outcome)
    PROVE  ServiceInv'
<1>1. /\ active' = active \ {b}
      /\ Charge(b, outcome) /\ Feedback(outcome)
      /\ UNCHANGED <<cache, open, map, opens>>
  BY DEF Finish
<1>2. open # "closed" /\ b \in Batches
  BY ActiveOpen
<1>3. Lowered(admitted', admitted, b) /\ Covers(window', admitted')
  BY <1>1, ChargeIs
<1>4. Sound(queue, active, cache, call, admitted) /\ Lined(queue, active, cache)
  BY DEF ServiceInv, Sound
<1>5. b.answer \in {"sent", "stored"}
  BY <1>4 DEF Lined
<1>6. Sound(queue', active', cache, call', admitted')
  <2>1. CASE Retries(b, outcome)
    <3>1. queue' = Append(queue, [b EXCEPT !.due = 1, !.age = 0, !.answer = "none"]) /\ call' = call
      BY <2>1 DEF Finish
    <3>2. b.answer = "sent" /\ b.attempt < MaxTries
      BY <1>5, <2>1 DEF Retries, RequestOutcomes
    <3>3. PICK s : s = [b EXCEPT !.due = 1, !.age = 0, !.answer = "none"]
      OBVIOUS
    <3>4. /\ s \in Batches /\ s.texts = b.texts /\ s.attempt = b.attempt /\ s.age = 0
          /\ s.answer = "none"
      <4>1. 0 \in 0..Window /\ 1 \in 0..1
        BY ServiceConstants
      <4> QED BY <1>2, <3>3, <4>1 DEF Batches
    <3>5. queue' = Append(queue, s)
      BY <3>1, <3>3
    <3>6. Sound(queue', active', cache, call, admitted')
      BY <1>1, <1>3, <1>4, <3>2, <3>4, <3>5, SoundRetried
    <3> QED BY <3>1, <3>6
  <2>2. CASE ~Retries(b, outcome)
    <3>1. Answered(TextsOf(b), outcome # "stored") /\ queue' = queue
      BY <2>2 DEF Finish
    <3>2. PICK error \in BOOLEAN : error = (outcome # "stored")
      OBVIOUS
    <3>3. call' = Told(call, TextsOf(b), error)
      BY <3>1, <3>2 DEF Answered, Told
    <3>4. ~error => b.answer = "stored"
      BY <3>2 DEF RequestOutcomes
    <3>5. Sound(queue, active', cache, call', admitted')
      BY <1>1, <1>3, <1>4, <3>3, <3>4, SoundFinished
    <3> QED BY <3>1, <3>5
  <2> QED BY <2>1, <2>2
<1>7. Sound(queue, active, cache, call, admitted)'
  BY <1>1, <1>6
<1>8. tight' \in BOOLEAN /\ faults' \in 0..MaxFaults
  BY <1>1, OneMore, ServiceConstants DEF ServiceInv, Shape, Feedback
<1>9. Shape' /\ ClosedIsQuiet'
  BY <1>1, <1>2, <1>3, <1>8 DEF ServiceInv, Shape, ClosedIsQuiet
<1> QED BY <1>7, <1>9 DEF ServiceInv

LEMMA FinishLogFailsStep ==
    ASSUME ServiceInv, NEW b \in active, FinishLogFails(b)
    PROVE  ServiceInv'
<1>1. /\ faults < MaxFaults /\ faults' = faults + 1 /\ open' = "closing"
      /\ active' = active \ {b}
      /\ Answered(TextsOf(b), TRUE)
      /\ UNCHANGED <<cache, queue, tight, map, opens>>
  BY DEF FinishLogFails
<1>2. Lowered(admitted', admitted, b) /\ Covers(window', admitted')
  BY ChargeIs DEF FinishLogFails
<1>3. call' = Told(call, TextsOf(b), TRUE)
  BY <1>1 DEF Answered, Told
<1>4. Sound(queue, active, cache, call, admitted)
  BY DEF ServiceInv
<1>5. Sound(queue, active', cache, call', admitted')
  BY <1>1, <1>2, <1>3, <1>4, SoundFinished
<1>6. Sound(queue, active, cache, call, admitted)'
  BY <1>1, <1>5
<1>7. faults' \in 0..MaxFaults
  BY <1>1, OneMore, ServiceConstants DEF ServiceInv, Shape
<1>8. Shape' /\ ClosedIsQuiet'
  BY <1>1, <1>2, <1>7 DEF ServiceInv, Shape, ClosedIsQuiet
<1> QED BY <1>6, <1>8 DEF ServiceInv

LEMMA TickStep ==
    ASSUME ServiceInv, Tick
    PROVE  ServiceInv'
<1>1. /\ window' = [age \in DOMAIN window |-> IF age = 0 THEN 0 ELSE window[age - 1]]
      /\ admitted' = [age \in DOMAIN admitted |-> IF age = 0 THEN 0 ELSE admitted[age - 1]]
      /\ active' = {Older(b) : b \in active}
      /\ queue' = [k \in DOMAIN queue |-> [queue[k] EXCEPT !.due = 0]]
      /\ UNCHANGED <<cache, open, call, tight, map, faults, opens>>
  BY DEF Tick
<1>2. Sound(queue, active, cache, call, admitted) /\ queue \in Seq(Batches)
  BY DEF ServiceInv, Sound
<1>3. PICK n \in Nat : n = Len(queue) /\ DOMAIN queue = 1..n
  BY <1>2, LenProperties
<1>4. \A k \in 1..n : queue[k] \in Batches
  BY <1>2, <1>3, ElementOfSeq
<1>5. ASSUME NEW a \in Batches, NEW b, b = [a EXCEPT !.due = 0]
      PROVE  /\ b \in Batches /\ b.texts = a.texts /\ b.attempt = a.attempt
             /\ b.age = a.age /\ b.answer = a.answer
  BY <1>5 DEF Batches
<1>6. ASSUME NEW k \in 1..n
      PROVE  /\ queue'[k] \in Batches
             /\ queue'[k].texts = queue[k].texts /\ queue'[k].attempt = queue[k].attempt
             /\ queue'[k].age = queue[k].age /\ queue'[k].answer = queue[k].answer
  <2>1. PICK a \in Batches : a = queue[k]
    BY <1>4
  <2>2. queue'[k] = [a EXCEPT !.due = 0]
    BY <1>1, <1>3, <2>1
  <2> QED BY <1>5, <2>1, <2>2
<1>7. queue' \in Seq(Batches) /\ Len(queue') = n
  <2>1. queue' \in [1..n -> Batches]
    BY <1>1, <1>3, <1>6
  <2> QED BY <2>1, SeqDef, LenProperties
<1>8. Sound(queue', active', cache, call, admitted')
  <2>1. PICK r \in Seq(Batches) : r = queue'
    BY <1>7
  <2>2. Len(r) = Len(queue)
    BY <1>3, <1>7, <2>1
  <2>3. \A i \in 1..Len(queue) :
           /\ r[i].texts = queue[i].texts /\ r[i].attempt = queue[i].attempt
           /\ r[i].age = queue[i].age /\ r[i].answer = queue[i].answer
    BY <1>3, <1>6, <2>1
  <2>4. PICK D : D = {Older(b) : b \in active}
    OBVIOUS
  <2>5. PICK v : v = [age \in DOMAIN admitted |-> IF age = 0 THEN 0 ELSE admitted[age - 1]]
    OBVIOUS
  <2>6. Sound(r, D, cache, call, v)
    BY <1>2, <2>2, <2>3, <2>4, <2>5, SoundOlder
  <2>7. active' = D /\ admitted' = v
    BY <1>1, <2>4, <2>5
  <2> QED BY <2>1, <2>6, <2>7
<1>9. Sound(queue, active, cache, call, admitted)'
  BY <1>1, <1>8
<1>10. Shape'
  <2>1. admitted \in Windows /\ Covers(window, admitted)
    BY DEF ServiceInv, Sound, Shape
  <2>2. Covers(window', admitted')
    BY <1>1, <2>1, CoversShift
  <2> QED BY <1>1, <2>2 DEF ServiceInv, Shape
<1>11. ClosedIsQuiet'
  <2>1. ASSUME open = "closed" PROVE queue' = <<>> /\ active' = {}
    <3>1. queue = <<>> /\ active = {}
      BY <2>1 DEF ServiceInv, ClosedIsQuiet
    <3>2. n = 0
      BY <1>3, <3>1
    <3>3. queue' = <<>>
      BY <1>7, <3>2, EmptySeq
    <3>4. active' = {}
      BY <1>1, <3>1
    <3> QED BY <3>3, <3>4
  <2> QED BY <1>1, <2>1 DEF ServiceInv, ClosedIsQuiet
<1> QED BY <1>9, <1>10, <1>11 DEF ServiceInv

LEMMA RecoverStep ==
    ASSUME ServiceInv, Recover
    PROVE  ServiceInv'
<1>1. Shape'
  BY DEF ServiceInv, Shape, Recover
<1> QED BY <1>1, QuietStep DEF Recover

LEMMA CloseStep ==
    ASSUME ServiceInv, Close
    PROVE  ServiceInv'
<1>1. Shape'
  BY DEF ServiceInv, Shape, Close
<1> QED BY <1>1, QuietStep DEF Close

\* A service opens, or dies: all but the cache is lost.
LEMMA FreshStep ==
    ASSUME ServiceInv, Fresh, cache' = cache
    PROVE  /\ Sound(queue, active, cache, call, admitted)' /\ ClosedIsQuiet'
           /\ Covers(window', admitted')
           /\ tight' \in BOOLEAN
           /\ map' \in [pc : {"idle", "run", "unwind"}, yielded : Nat, submitted : Nat]
<1>1. /\ call' = [c \in Calls |-> NoCall]
      /\ queue' = <<>> /\ active' = {} /\ tight' = FALSE /\ map' = NoMap
      /\ window' = NoCharge /\ admitted' = NoCharge
  BY DEF Fresh
<1>2. cache \in SUBSET Texts
  BY DEF ServiceInv, Sound
<1>3. Sound(<<>>, {}, cache, call', NoCharge)
  BY <1>1, <1>2, SoundFresh
<1>4. Sound(queue, active, cache, call, admitted)'
  BY <1>1, <1>3
<1>5. \A c \in Range(Mapped) : c \in Calls
  BY DEF Calls
<1>6. ClosedIsQuiet'
  BY <1>1, <1>5 DEF ClosedIsQuiet, NoCall
<1>7. map' \in [pc : {"idle", "run", "unwind"}, yielded : Nat, submitted : Nat]
  BY <1>1 DEF NoMap
<1> QED BY <1>1, <1>4, <1>6, <1>7, NothingCovered

LEMMA OpenStep ==
    ASSUME ServiceInv, Open
    PROVE  ServiceInv'
<1>1. /\ open' = "up" /\ opens < MaxOpens /\ opens' = opens + 1 /\ Fresh
      /\ cache' = cache /\ faults' = faults
  BY DEF Open
<1>2. opens' \in 0..MaxOpens
  BY <1>1, OneMore, ServiceConstants DEF ServiceInv, Shape
<1>3. Shape'
  BY <1>1, <1>2, FreshStep DEF ServiceInv, Shape
<1> QED BY <1>1, <1>3, FreshStep DEF ServiceInv

LEMMA ServiceDiesStep ==
    ASSUME ServiceInv, ServiceDies
    PROVE  ServiceInv'
<1>1. /\ open' = "closed" /\ faults < MaxFaults /\ faults' = faults + 1 /\ Fresh
      /\ cache' = cache /\ opens' = opens
  BY DEF ServiceDies
<1>2. faults' \in 0..MaxFaults
  BY <1>1, OneMore, ServiceConstants DEF ServiceInv, Shape
<1>3. Shape'
  BY <1>1, <1>2, FreshStep DEF ServiceInv, Shape
<1> QED BY <1>1, <1>3, FreshStep DEF ServiceInv

LEMMA ServiceStep ==
    ASSUME ServiceInv, [ServiceNext]_serviceVars
    PROVE  ServiceInv'
<1>1. ASSUME NEW c \in Calls, Embed(c) \/ EmbedRefused(c) \/ EmbedLogFails(c)
      PROVE  ServiceInv'
  BY <1>1, EmbedStep, EmbedRefusedStep, EmbedLogFailsStep
<1>2. ASSUME StartMap \/ MapSubmit \/ MapYield \/ MapUnwind \/ MapEnd
      PROVE  ServiceInv'
  BY <1>2, StartMapStep, MapSubmitStep, MapYieldStep, MapUnwindStep, MapEndStep
<1>3. ASSUME Dispatch \/ DispatchFails \/ DrainQueue
      PROVE  ServiceInv'
  BY <1>3, DispatchStep, DispatchFailsStep, DrainQueueStep
<1>4. ASSUME NEW b \in active, Perform(b) \/ FinishLogFails(b)
      PROVE  ServiceInv'
  BY <1>4, StoreStep, FinishStep, FinishLogFailsStep DEF Perform
<1>5. ASSUME Recover \/ Tick \/ Open \/ Close \/ Closed \/ ServiceDies
      PROVE  ServiceInv'
  BY <1>5, RecoverStep, TickStep, OpenStep, CloseStep, ClosedStep, ServiceDiesStep
<1>6. CASE UNCHANGED serviceVars
  <2>1. Shape'
    BY <1>6 DEF serviceVars, ServiceInv, Shape
  <2> QED BY <1>6, <2>1, QuietStep DEF serviceVars
<1>7. CASE ServiceNext
  BY <1>1, <1>2, <1>3, <1>4, <1>5, <1>7 DEF ServiceNext
<1> QED BY <1>6, <1>7

------------------------------------------------------------------------------
(* What the invariant is for                                                    *)

\* As many batches as places: no batch is queued twice.
LEMMA QueueIsASet ==
    ASSUME ServiceInv
    PROVE  Cardinality(Range(queue)) = Len(queue)
<1>1. queue \in Seq(Batches) /\ Lined(queue, active, cache)
  BY DEF ServiceInv, Sound
<1>2. PICK n \in Nat : n = Len(queue)
  BY <1>1, LenProperties
<1>3. PICK T : T = Range(queue)
  OBVIOUS
<1>4. \A b : b \in T <=> \E i \in 1..n : queue[i] = b
  BY <1>1, <1>2, <1>3, SeqRange
<1>5. ASSUME NEW i \in 1..n, NEW j \in 1..n, queue[i] = queue[j] PROVE i = j
  <2>1. TextsOf(queue[i]) # {}
    <3>1. PICK b \in Batches : b = queue[i] /\ b.texts # <<>>
      BY <1>1, <1>2, ElementOfSeq DEF Lined
    <3>2. b.texts \in Seq(Texts)
      BY DEF Batches
    <3>3. b.texts[1] \in Range(b.texts)
      BY <3>1, <3>2, SeqRange
    <3> QED BY <3>1, <3>3 DEF TextsOf
  <2>2. i # j => TextsOf(queue[i]) \cap TextsOf(queue[j]) = {}
    BY <1>1, <1>2 DEF Lined
  <2> QED BY <1>5, <2>1, <2>2
<1>6. PICK f : f = [i \in 1..n |-> queue[i]]
  OBVIOUS
<1>7. f \in Surjection(1..n, T)
  BY <1>4, <1>6 DEF Surjection
<1>8. f \in Injection(1..n, T)
  <2>1. f \in [1..n -> T]
    BY <1>4, <1>6
  <2>2. \A i, j \in 1..n : f[i] = f[j] => i = j
    BY <1>5, <1>6
  <2> QED BY <2>1, <2>2 DEF Injection, IsInjective
<1>9. f \in Bijection(1..n, T)
  BY <1>7, <1>8 DEF Bijection
<1>10. Cardinality(T) = Cardinality(1..n)
  BY <1>9, FS_Interval, FS_Bijection DEF ExistsBijection
<1>11. Cardinality(1..n) = n
  BY FS_Interval
<1> QED BY <1>2, <1>3, <1>10, <1>11

LEMMA InvPaidOnce == ServiceInv => TextsPaidOnce
<1> SUFFICES ASSUME ServiceInv PROVE TextsPaidOnce
  OBVIOUS
<1>1. queue \in Seq(Batches) /\ Lined(queue, active, cache)
  BY DEF ServiceInv, Sound
<1>2. \A b : b \in Range(queue) <=> \E i \in 1..Len(queue) : queue[i] = b
  BY <1>1, SeqRange
<1>3. ASSUME NEW a \in Range(queue) \cup active, NEW b \in Range(queue) \cup active, a # b
      PROVE  TextsOf(a) \cap TextsOf(b) = {}
  <2>1. CASE a \in Range(queue)
    <3>1. PICK i \in 1..Len(queue) : a = queue[i]
      BY <1>2, <2>1
    <3>2. CASE b \in Range(queue)
      <4>1. PICK j \in 1..Len(queue) : b = queue[j]
        BY <1>2, <3>2
      <4> QED BY <1>1, <1>3, <3>1, <4>1 DEF Lined
    <3>3. CASE b \in active
      BY <1>1, <3>1, <3>3 DEF Lined
    <3> QED BY <3>2, <3>3
  <2>2. CASE a \in active
    <3>1. CASE b \in Range(queue)
      <4>1. PICK j \in 1..Len(queue) : b = queue[j]
        BY <1>2, <3>1
      <4> QED BY <1>1, <2>2, <4>1 DEF Lined
    <3>2. CASE b \in active
      BY <1>1, <1>3, <2>2, <3>2 DEF Lined
    <3> QED BY <3>1, <3>2
  <2> QED BY <2>1, <2>2
<1>4. ASSUME NEW b \in Range(queue) \cup active, b.answer # "stored"
      PROVE  TextsOf(b) \cap cache = {}
  <2>1. CASE b \in Range(queue)
    BY <1>1, <1>2, <2>1 DEF Lined
  <2>2. CASE b \in active
    BY <1>1, <1>4, <2>2 DEF Lined
  <2> QED BY <2>1, <2>2
<1> QED BY <1>3, <1>4, QueueIsASet DEF TextsPaidOnce

LEMMA InvAccounted == ServiceInv => TextsAreAccounted
<1> SUFFICES ASSUME ServiceInv PROVE TextsAreAccounted
  OBVIOUS
<1>1. CallsSound(call, Held(queue, active), cache)
  BY DEF ServiceInv, Sound
<1>2. NoOrphans /\ ReturnsAreStored
  BY <1>1 DEF CallsSound, NoOrphans, ReturnsAreStored, Pending, Held
<1> QED BY <1>2, ServiceTyped, InvPaidOnce DEF TextsAreAccounted, ServiceInv

LEMMA InvBudget == ServiceInv => BudgetIsKept
<1> SUFFICES ASSUME ServiceInv PROVE BudgetIsKept
  OBVIOUS
<1>1. admitted \in Windows /\ Kept(active, admitted)
  BY DEF ServiceInv, Sound
<1>2. PICK all : all = Total([k \in 1..Window |-> admitted[k - 1]])
  OBVIOUS
<1>3. all = Total(Charges(admitted))
  BY <1>2 DEF Charges
<1>4. CASE all <= Budget
  BY <1>2, <1>4 DEF BudgetIsKept
<1>5. CASE ~(all <= Budget)
  <2>1. PICK t \in Texts, k \in 0..(Window - 1), x \in Nat :
           /\ admitted = [NoCharge EXCEPT ![k] = x]
           /\ Budget < Tokens[t] /\ x <= Tokens[t]
           /\ \A b \in active : b.age < Window => b.texts = <<t>>
    BY <1>1, <1>3, <1>5 DEF Kept
  <2>2. all = x
    BY <1>3, <2>1, OneCharge
  <2>3. Tokens[t] > Budget /\ all <= Tokens[t]
    BY <2>1, <2>2, ServiceConstants
  <2> QED BY <1>2, <2>1, <2>3 DEF BudgetIsKept
<1> QED BY <1>4, <1>5

\* For all texts, token counts, limits, windows, calls of any length and numbers
\* of faults and openings: each text is stored, or in one batch that answers for
\* it, or asked for by nobody; no call waits for a text without a batch, and what
\* returned is in the durable cache (embedding_service.py:299-341, :386-442).
THEOREM TextsInOneHand == ServiceSpec => []TextsAreAccounted
<1>1. ServiceInit => ServiceInv
  BY ServiceStarts
<1>2. ServiceInv /\ [ServiceNext]_serviceVars => ServiceInv'
  BY ServiceStep
<1>3. ServiceInv => TextsAreAccounted
  BY InvAccounted
<1> QED BY <1>1, <1>2, <1>3, PTL DEF ServiceSpec

\* Whatever tokens a provider counts for its answers, and also when it lowers the
\* budget in between: what is admitted within a window keeps to the budget
\* configured, counted at the estimates or lower, unless it is one text larger than
\* the budget that has the window for itself (embedding_service.py:102-159, :331-341).
THEOREM BudgetHolds == ServiceSpec => []BudgetIsKept
<1>1. ServiceInit => ServiceInv
  BY ServiceStarts
<1>2. ServiceInv /\ [ServiceNext]_serviceVars => ServiceInv'
  BY ServiceStep
<1>3. ServiceInv => BudgetIsKept
  BY InvBudget
<1> QED BY <1>1, <1>2, <1>3, PTL DEF ServiceSpec
==============================================================================
