------------------------------ MODULE DailProofs ------------------------------
(* Proofs about DailVersion.  The heart of the argument: what a process believes  *)
(* of a sample agrees with the attempts recorded for it, so a round is recorded   *)
(* only for what its samples went through; and a second round is only ever begun  *)
(* after A is recorded, which fixes the parent it is credited to.                 *)
EXTENDS DailVersion, FiniteSetTheorems, SequenceTheorems, TLAPS

Has(q, e) == \E k \in DOMAIN q : q[k] = e
LastIs(q, e) == q # <<>> /\ q[Len(q)] = e

SampleStates == {"idle", "loop", "sent"} \cup Settled
TaskStates == {"none", "gen", "done", "raised"}

\* A sample in state x agrees with its attempts q; pc is the task of its round, up
\* whether the process runs the composite.
Fits(q, x, pc, up) ==
    /\ Len(q) <= MaxAttempts
    /\ \A k \in DOMAIN q : q[k] = "success" => k = Len(q)
    /\ x = "won" => Has(q, "success")
    /\ x \notin {"idle", "won"} => ~Has(q, "success")
    /\ x = "loop" => Len(q) < MaxAttempts
    /\ x = "sent" => q # <<>>
    /\ x \in {"loop", "sent"} => pc = "gen"
    /\ x = "failed" => Len(q) = MaxAttempts \/ Has(q, "local")
    /\ pc = "none" => x = "idle"
    /\ pc = "gen" => x # "idle"
    /\ up /\ LastIs(q, "open") => x \in {"sent", "raised"}

SamplesSound ==
    \A r \in Rounds, s \in Samples :
        Fits(tried[r][s], sample[r][s], task[r].pc, phase = "up")

\* The parent of a second round: A if A retrieved its examples.
ParentOf(r) == IF result[A].next = r.ids THEN A ELSE B

Earned(r) ==
    /\ \A s \in Samples : \/ Has(tried[r][s], "success") \/ Has(tried[r][s], "local")
                           \/ Len(tried[r][s]) = MaxAttempts
    /\ r.no = 2 => \E s \in Samples : ~Has(tried[r][s], "success")

ResultsSound ==
    \A r \in Rounds :
        /\ r.no = 1 => (result[r].status = "success" <=> result[r].next \in Lists)
        /\ r.no = 1 /\ result[r].status # "success" => result[r].next = None
        /\ r.no = 2 /\ Recorded(r) => Recorded(A) /\ result[r].parent = ParentOf(r)
        /\ result[r].status = "failed" => Earned(r)

TasksSound ==
    \A r \in Rounds :
        /\ task[r].pc = "gen" => ~Recorded(r)
        /\ task[r].pc = "done" => Recorded(r)
        /\ task[r].pc # "none" /\ r.no = 1 => task[r].parent = NoRound
        /\ task[r].pc # "none" /\ r.no = 2 =>
              /\ Recorded(A) /\ task[r].parent = ParentOf(r)
              /\ result[task[r].parent].status = "success"
              /\ result[task[r].parent].next = r.ids

RegisteredSound ==
    /\ \A f \in registered : task[f].pc = "done"
    /\ A \in registered => \A r \in SecondRounds :
           result[A].next = r.ids => task[r].pc # "none"

ProcessSound ==
    phase # "up" => /\ task = [r \in Rounds |-> NoTask] /\ sample = Idle
                    /\ registered = {}

SealSound == sealed => \A m \in Modes : Decided(m)

IInv ==
    /\ TypeOK
    /\ refused = FALSE
    /\ SamplesSound
    /\ ResultsSound
    /\ TasksSound
    /\ RegisteredSound
    /\ ProcessSound
    /\ SealSound

------------------------------------------------------------------------------
(* Attempts.                                                                     *)

LEMMA RoundFacts ==
    /\ A \in Rounds /\ B \in Rounds /\ A # B /\ A.no = 1 /\ B.no = 1
    /\ \A r \in Rounds : \/ r.no = 1 /\ r \in FirstRounds /\ r \notin SecondRounds
                         \/ r.no = 2 /\ r \in SecondRounds /\ r \notin FirstRounds
    /\ \A r \in SecondRounds : r.no = 2 /\ r \in Rounds /\ r.ids \in Lists
    /\ \A r \in FirstRounds : r.no = 1 /\ r \in Rounds /\ (r = A \/ r = B)
    /\ NoRound \notin Rounds
  BY DEF A, B, Rounds, FirstRounds, SecondRounds, NoRound

LEMMA BudgetUsed ==
    ASSUME NEW n \in Nat, n <= MaxAttempts, n >= MaxAttempts
    PROVE  n = MaxAttempts
  BY BudgetAssumption

\* A further attempt is begun.
LEMMA SentFits ==
    ASSUME NEW q \in Seq(Endings), Fits(q, "loop", "gen", TRUE)
    PROVE  LET p == Append(q, "open")
           IN p \in Seq(Endings) /\ Fits(p, "sent", "gen", TRUE)
<1> DEFINE p == Append(q, "open")
<1>1. p \in Seq(Endings) /\ Len(p) = Len(q) + 1 /\ Len(q) \in Nat
  BY AppendProperties DEF Endings
<1>2. p[Len(p)] = "open" /\ \A k \in 1..Len(q) : p[k] = q[k]
  BY <1>1, AppendProperties
<1>3. DOMAIN p = 1..Len(p) /\ DOMAIN q = 1..Len(q)
  BY <1>1, LenProperties
<1>4. Len(q) < MaxAttempts /\ ~Has(q, "success")
  BY DEF Fits
<1>5. ~Has(p, "success")
  BY <1>1, <1>2, <1>3, <1>4 DEF Has
<1>6. Len(p) <= MaxAttempts
  BY <1>1, <1>4, BudgetAssumption
<1>7. p # <<>>
  BY <1>1
<1> QED BY <1>1, <1>5, <1>6, <1>7 DEF Fits, Has

\* p is q with another last member.
Ends(q, p, e) ==
    /\ p \in Seq(Endings) /\ Len(p) = Len(q) /\ p # <<>> /\ p[Len(p)] = e
    /\ \A k \in DOMAIN q : k # Len(q) => p[k] = q[k]

LEMMA EndedLast ==
    ASSUME NEW q \in Seq(Endings), q # <<>>, NEW e \in Endings
    PROVE  Ends(q, [q EXCEPT ![Len(q)] = e], e)
<1> DEFINE p == [q EXCEPT ![Len(q)] = e]
<1>1. Len(q) \in Nat \ {0} /\ DOMAIN q = 1..Len(q) /\ q \in [1..Len(q) -> Endings]
  BY EmptySeq, LenProperties
<1>2. p \in [1..Len(q) -> Endings] /\ p[Len(q)] = e
  BY <1>1
<1>3. p \in Seq(Endings) /\ Len(p) = Len(q)
  BY <1>1, <1>2, SeqDef, LenProperties
<1>4. p # <<>>
  BY <1>1, <1>3
<1> QED BY <1>1, <1>2, <1>3, <1>4 DEF Ends

\* An attempt ends and the sample goes on, or is settled, accordingly.
LEMMA EndedFits ==
    ASSUME NEW q \in Seq(Endings), Fits(q, "sent", "gen", TRUE), NEW e \in Endings, e # "open",
           NEW p, Ends(q, p, e), NEW x \in SampleStates \ {"idle", "sent"},
           x = "won" <=> e = "success",
           x = "loop" => Len(q) < MaxAttempts,
           x = "failed" => Len(q) >= MaxAttempts \/ e = "local"
    PROVE  Fits(p, x, "gen", TRUE)
<1>1. /\ Len(q) \in Nat /\ DOMAIN q = 1..Len(q) /\ DOMAIN p = 1..Len(q) /\ Len(p) = Len(q)
      /\ Len(q) <= MaxAttempts /\ ~Has(q, "success")
  BY LenProperties DEF Ends, Fits
<1>2. \A k \in DOMAIN p : p[k] = "success" => k = Len(p) /\ e = "success"
  BY <1>1 DEF Has, Ends
<1>3. Has(p, e)
  BY <1>1, EmptySeq DEF Has, Ends
<1>4. Len(q) >= MaxAttempts => Len(q) = MaxAttempts
  BY <1>1, BudgetUsed
<1>5. ~LastIs(p, "open")
  BY DEF LastIs, Ends
<1> QED BY <1>1, <1>2, <1>3, <1>4, <1>5 DEF Fits, Has, Ends

\* A sample that is not answered is over without a result.
LEMMA SettledFits ==
    ASSUME NEW q \in Seq(Endings), NEW x \in {"loop", "sent"}, Fits(q, x, "gen", TRUE),
           NEW y \in {"raised", "paused"}, y = "paused" => x = "loop"
    PROVE  Fits(q, y, "gen", TRUE)
  BY DEF Fits

\* What a process finds open it records as interrupted; nothing else changes.
LEMMA InterruptedFits ==
    ASSUME NEW q \in Seq(Endings), Fits(q, "idle", "none", FALSE), LastIs(q, "open"),
           NEW p, Ends(q, p, "interrupted")
    PROVE  /\ Fits(p, "idle", "none", FALSE)
           /\ Has(q, "local") => Has(p, "local")
           /\ Has(q, "success") => Has(p, "success")
<1>1. /\ Len(q) \in Nat /\ DOMAIN q = 1..Len(q) /\ DOMAIN p = 1..Len(q) /\ Len(p) = Len(q)
      /\ q[Len(q)] = "open" /\ p[Len(p)] = "interrupted"
  BY LenProperties DEF Ends, LastIs
<1>2. \A k \in DOMAIN q : k # Len(q) => p[k] = q[k]
  BY DEF Ends
<1>3. \A k \in DOMAIN p : p[k] = "success" => k = Len(p)
  BY <1>1, <1>2 DEF Fits
<1>4. (Has(q, "local") => Has(p, "local")) /\ (Has(q, "success") => Has(p, "success"))
  BY <1>1, <1>2 DEF Has
<1> QED BY <1>1, <1>3, <1>4 DEF Fits

\* A round that starts takes each sample as its attempts left it.
LEMMA RestoredFits ==
    ASSUME NEW r \in Rounds, NEW s \in Samples, tried[r][s] \in Seq(Endings),
           Fits(tried[r][s], "idle", "none", FALSE), ~LastIs(tried[r][s], "open")
    PROVE  /\ Restored(r, s) \in SampleStates
           /\ Fits(tried[r][s], Restored(r, s), "gen", TRUE)
<1>1. Won(r, s) <=> Has(tried[r][s], "success")
  BY DEF Won, Has
<1>2. Len(tried[r][s]) \in Nat /\ Len(tried[r][s]) <= MaxAttempts
  BY LenProperties DEF Fits
<1>3. CASE Won(r, s)
  BY <1>1, <1>3 DEF Restored, Fits, SampleStates, Settled
<1>4. CASE ~Won(r, s) /\ Len(tried[r][s]) >= MaxAttempts
  BY <1>1, <1>2, <1>4, BudgetAssumption DEF Restored, Fits, SampleStates, Settled
<1>5. CASE ~Won(r, s) /\ ~(Len(tried[r][s]) >= MaxAttempts)
  BY <1>1, <1>2, <1>5, BudgetAssumption DEF Restored, Fits, SampleStates, Settled, Has
<1> QED BY <1>3, <1>4, <1>5

LEMMA InitSound == Init => IInv
<1> SUFFICES ASSUME Init PROVE IInv
  OBVIOUS
<1>1. <<>> \in Seq(Endings) /\ Len(<<>>) = 0 /\ DOMAIN <<>> = {}
  BY EmptySeq
<1>2. TypeOK
  <2>1. tried \in [Rounds -> [Samples -> Seq(Endings)]]
    BY <1>1 DEF Init
  <2>2. result \in [Rounds -> [status : {None, "success", "failed"}, parent : Parents,
                               next : {None} \cup Lists]]
    BY DEF Init, NoResult, Parents
  <2>3. modes \in [Modes -> [status : {None, "succeeded", "failed", "dependency_failed"},
                             second : {NoRound} \cup SecondRounds]]
    BY DEF Init, NoMode
  <2>4. task \in [Rounds -> [pc : {"none", "gen", "done", "raised"}, parent : Parents]]
    BY DEF Init, NoTask, Parents
  <2>5. sample \in [Rounds -> [Samples -> {"idle", "loop", "sent"} \cup Settled]]
    BY DEF Init, Idle
  <2>6. 0 \in 0..MaxFaults /\ 0 \in 0..MaxStops
    BY BudgetAssumption
  <2> QED BY <2>1, <2>2, <2>3, <2>4, <2>5, <2>6 DEF Init, TypeOK
<1>3. SamplesSound
  BY <1>1, BudgetAssumption DEF Init, SamplesSound, Fits, Has, LastIs, Idle, NoTask
<1>4. ResultsSound
  BY ListsAssumption DEF Init, ResultsSound, NoResult, Recorded, None
<1>5. TasksSound /\ RegisteredSound
  <2>1. \A r \in SecondRounds : r.ids # None
    BY RoundFacts, ListsAssumption
  <2> QED BY <2>1, RoundFacts DEF Init, TasksSound, RegisteredSound, NoTask
<1>6. ProcessSound /\ SealSound /\ refused = FALSE
  BY DEF Init, ProcessSound, SealSound
<1> QED BY <1>2, <1>3, <1>4, <1>5, <1>6 DEF IInv

------------------------------------------------------------------------------
(* Steps of a sample.                                                            *)

TriedType == [Rounds -> [Samples -> Seq(Endings)]]
SampleType == [Rounds -> [Samples -> SampleStates]]
TaskType == [Rounds -> [pc : TaskStates, parent : Parents]]

\* One sample moves on, with or without a word in the records.
LEMMA SampleMoves ==
    ASSUME IInv, NEW r \in Rounds, NEW s \in Samples, sample[r][s] \in {"loop", "sent"},
           NEW q \in Seq(Endings), NEW x \in SampleStates, Fits(q, x, "gen", TRUE),
           tried' = [tried EXCEPT ![r][s] = q], sample' = [sample EXCEPT ![r][s] = x],
           refused' = FALSE, stop' \in BOOLEAN, faults' \in 0..MaxFaults,
           UNCHANGED <<result, modes, sealed, phase, cancelled, task, registered, stops>>
    PROVE  IInv'
<1>1. TypeOK /\ tried \in TriedType /\ sample \in SampleType
  BY DEF IInv, TypeOK, TriedType, SampleType, SampleStates
<1>2. task[r].pc = "gen" /\ ~Recorded(r) /\ phase = "up"
  BY DEF IInv, SamplesSound, Fits, TasksSound, ProcessSound, NoTask
<1>3. tried' \in TriedType /\ sample' \in SampleType
  BY <1>1 DEF TriedType, SampleType
<1>4. /\ tried'[r][s] = q /\ sample'[r][s] = x
      /\ \A u \in Rounds, v \in Samples : u # r \/ v # s =>
             tried'[u][v] = tried[u][v] /\ sample'[u][v] = sample[u][v]
  BY <1>1 DEF TriedType, SampleType
<1>5. TypeOK'
  <2>1. /\ tried' \in [Rounds -> [Samples -> Seq(Endings)]]
        /\ sample' \in [Rounds -> [Samples -> {"idle", "loop", "sent"} \cup Settled]]
    BY <1>3 DEF TriedType, SampleType, SampleStates
  <2> QED BY <1>1, <2>1 DEF TypeOK
<1>6. SamplesSound'
  <2> SUFFICES ASSUME NEW u \in Rounds, NEW v \in Samples
               PROVE  Fits(tried'[u][v], sample'[u][v], task[u].pc, phase = "up")
    BY DEF SamplesSound
  <2>1. CASE u = r /\ v = s
    BY <1>2, <1>4, <2>1
  <2>2. CASE u # r \/ v # s
    BY <1>4, <2>2 DEF IInv, SamplesSound
  <2> QED BY <2>1, <2>2
<1>7. ResultsSound'
  <2>1. \A u \in Rounds : result[u].status = "failed" => u # r
    BY <1>2 DEF Recorded, None
  <2>2. \A u \in Rounds : u # r => tried'[u] = tried[u]
    BY <1>1 DEF TriedType
  <2> QED BY <2>1, <2>2 DEF IInv, ResultsSound, Earned, Recorded, ParentOf
<1>8. TasksSound' /\ RegisteredSound' /\ ProcessSound' /\ SealSound'
  BY <1>2 DEF IInv, TasksSound, RegisteredSound, ProcessSound, SealSound, Recorded,
              ParentOf, Decided
<1> QED BY <1>5, <1>6, <1>7, <1>8 DEF IInv

\* A sample that has its request out, or has yet to send it.
LEMMA SampleAgrees ==
    ASSUME IInv, NEW r \in Rounds, NEW s \in Samples, sample[r][s] \in {"loop", "sent"}
    PROVE  /\ tried[r][s] \in Seq(Endings) /\ Fits(tried[r][s], sample[r][s], "gen", TRUE)
           /\ ~Recorded(r) /\ refused = FALSE /\ stop \in BOOLEAN /\ faults \in 0..MaxFaults
           /\ [tried EXCEPT ![r][s] = tried[r][s]] = tried
<1>1. task[r].pc = "gen" /\ ~Recorded(r) /\ phase = "up"
  BY DEF IInv, SamplesSound, Fits, TasksSound, ProcessSound, NoTask
<1>2. tried \in TriedType
  BY DEF IInv, TypeOK, TriedType
<1>3. tried[r][s] \in Seq(Endings) /\ [tried EXCEPT ![r][s] = tried[r][s]] = tried
  BY <1>2 DEF TriedType
<1>4. Fits(tried[r][s], sample[r][s], task[r].pc, phase = "up")
  BY DEF IInv, SamplesSound
<1>5. Fits(tried[r][s], sample[r][s], "gen", TRUE)
  BY <1>1, <1>4 DEF Fits
<1> QED BY <1>1, <1>3, <1>5 DEF IInv, TypeOK

LEMMA FaultBounded == ASSUME IInv, Fault PROVE faults' \in 0..MaxFaults /\ UNCHANGED stops
  BY BudgetAssumption DEF Fault, IInv, TypeOK

LEMMA SendSound ==
    ASSUME IInv, NEW r \in Rounds, NEW s \in Samples, Send(r, s)
    PROVE  IInv'
<1>1. sample[r][s] = "loop" /\ UNCHANGED <<stop, faults, stops>>
  BY DEF Send, counts
<1>2. tried[r][s] \in Seq(Endings) /\ Fits(tried[r][s], "loop", "gen", TRUE) /\ ~Recorded(r)
      /\ refused = FALSE /\ stop \in BOOLEAN /\ faults \in 0..MaxFaults
  BY <1>1, SampleAgrees
<1>3. PICK q : q = Append(tried[r][s], "open")
  OBVIOUS
<1>4. q \in Seq(Endings) /\ Fits(q, "sent", "gen", TRUE)
  BY <1>2, <1>3, SentFits
<1>5. AttemptValid(r, s)
  BY <1>2 DEF AttemptValid, Fits, Won, Has
<1>6. refused' = FALSE
  BY <1>2, <1>5 DEF Send
<1>7. tried' = [tried EXCEPT ![r][s] = q] /\ sample' = [sample EXCEPT ![r][s] = "sent"]
  BY <1>3 DEF Send, Move
<1>8. "sent" \in SampleStates
  BY DEF SampleStates
<1>9. UNCHANGED <<result, modes, sealed, phase, cancelled, task, registered, stops>>
  BY <1>1 DEF Send, SampleFrame
<1> QED BY <1>1, <1>2, <1>4, <1>6, <1>7, <1>8, <1>9, SampleMoves

\* A sample that ends without an answer of its attempt.
LEMMA UnansweredSound ==
    ASSUME IInv, NEW r \in Rounds, NEW s \in Samples, sample[r][s] \in {"loop", "sent"},
           NEW x \in {"raised", "paused"}, x = "paused" => sample[r][s] = "loop", Move(r, s, x),
           UNCHANGED <<tried, refused>>, stop' \in BOOLEAN, faults' \in 0..MaxFaults,
           SampleFrame, UNCHANGED stops
    PROVE  IInv'
<1>1. /\ tried[r][s] \in Seq(Endings) /\ Fits(tried[r][s], sample[r][s], "gen", TRUE)
      /\ refused = FALSE /\ [tried EXCEPT ![r][s] = tried[r][s]] = tried
  BY SampleAgrees
<1>2. Fits(tried[r][s], x, "gen", TRUE) /\ x \in SampleStates
  BY <1>1, SettledFits DEF SampleStates, Settled
<1> QED BY <1>1, <1>2, SampleMoves DEF Move, SampleFrame

\* An attempt ends.
LEMMA EndSound ==
    ASSUME IInv, NEW r \in Rounds, NEW s \in Samples, sample[r][s] = "sent",
           NEW e \in Endings, e # "open", End(r, s, e),
           NEW x \in SampleStates \ {"idle", "sent"}, Move(r, s, x),
           x = "won" <=> e = "success",
           x = "loop" => ~OutOfBudget(r, s),
           x = "failed" => OutOfBudget(r, s) \/ e = "local",
           UNCHANGED refused, stop' \in BOOLEAN, faults' \in 0..MaxFaults,
           SampleFrame, UNCHANGED stops
    PROVE  IInv'
<1>1. tried[r][s] \in Seq(Endings) /\ Fits(tried[r][s], "sent", "gen", TRUE) /\ refused = FALSE
  <2>1. sample[r][s] \in {"loop", "sent"}
    OBVIOUS
  <2> QED BY <2>1, SampleAgrees
<1>2. PICK q : q = [tried[r][s] EXCEPT ![Len(tried[r][s])] = e]
  OBVIOUS
<1>3. tried[r][s] # <<>>
  BY <1>1 DEF Fits
<1>4. Ends(tried[r][s], q, e)
  BY <1>1, <1>2, <1>3, EndedLast
<1>5. x = "loop" => Len(tried[r][s]) < MaxAttempts
  BY <1>1, LenProperties, BudgetAssumption DEF OutOfBudget
<1>6. Fits(q, x, "gen", TRUE) /\ q \in Seq(Endings)
  BY <1>1, <1>4, <1>5, EndedFits DEF OutOfBudget, Ends
<1>7. tried' = [tried EXCEPT ![r][s] = q]
  BY <1>2 DEF End
<1> QED BY <1>1, <1>6, <1>7, SampleMoves DEF Move, SampleFrame

LEMMA AnswerSound ==
    ASSUME IInv, NEW r \in Rounds, NEW s \in Samples, NEW answer \in Answers,
           Answer(r, s, answer)
    PROVE  IInv'
<1>1. PICK x : x = CASE answer = "success" -> "won"
                     [] answer = "local" -> "failed"
                     [] answer = "transient" -> IF OutOfBudget(r, s) THEN "failed" ELSE "loop"
                     [] answer = "configuration" -> IF OutOfBudget(r, s) THEN "failed" ELSE "paused"
  OBVIOUS
<1>2. /\ x \in {"won", "failed", "loop", "paused"}
      /\ x = "won" <=> answer = "success"
      /\ x = "loop" => ~OutOfBudget(r, s)
      /\ x = "failed" => OutOfBudget(r, s) \/ answer = "local"
  BY <1>1 DEF Answers
<1>3. sample[r][s] = "sent" /\ End(r, s, answer) /\ Move(r, s, x)
  BY <1>1 DEF Answer
<1>4. faults' \in 0..MaxFaults /\ UNCHANGED stops
  BY FaultBounded DEF Answer, counts, IInv, TypeOK
<1>5. stop' \in BOOLEAN
  BY DEF Answer, IInv, TypeOK
<1>6. answer \in Endings /\ answer # "open" /\ x \in SampleStates \ {"idle", "sent"}
  BY <1>2 DEF Endings, Answers, SampleStates, Settled
<1> QED BY <1>2, <1>3, <1>4, <1>5, <1>6, EndSound DEF Answer

LEMMA InterruptSound ==
    ASSUME IInv, NEW r \in Rounds, NEW s \in Samples, Interrupt(r, s)
    PROVE  IInv'
<1>1. PICK x \in {"raised", "failed", "paused"} : Move(r, s, x) /\ (x = "failed" => OutOfBudget(r, s))
  BY DEF Interrupt
<1>2. "interrupted" \in Endings /\ x \in SampleStates \ {"idle", "sent"}
  BY DEF Endings, SampleStates, Settled
<1>3. stop' \in BOOLEAN /\ faults' \in 0..MaxFaults /\ UNCHANGED stops
  BY DEF Interrupt, IInv, TypeOK, counts
<1> QED BY <1>1, <1>2, <1>3, EndSound DEF Interrupt

LEMMA MarkRecordingSound ==
    ASSUME IInv, NEW r \in Rounds, NEW s \in Samples, MarkRecording(r, s)
    PROVE  IInv'
<1>1. PICK x : x = IF OutOfBudget(r, s) THEN "failed" ELSE "paused"
  OBVIOUS
<1>2. "recording" \in Endings /\ x \in SampleStates \ {"idle", "sent"}
  BY <1>1 DEF Endings, SampleStates, Settled
<1>3. stop' \in BOOLEAN /\ faults' \in 0..MaxFaults /\ UNCHANGED stops
  BY FaultBounded DEF MarkRecording
<1> QED BY <1>1, <1>2, <1>3, EndSound DEF MarkRecording

LEMMA NotSentSound ==
    ASSUME IInv, NEW r \in Rounds, NEW s \in Samples, NotSent(r, s) \/ Unwind(r, s)
    PROVE  IInv'
  BY UnansweredSound DEF NotSent, Unwind, IInv, TypeOK, counts

LEMMA FailWriteSound ==
    ASSUME IInv, NEW r \in Rounds, NEW s \in Samples, FailWrite(r, s)
    PROVE  IInv'
<1>1. PICK x \in {"raised", "paused"} : Move(r, s, x) /\ (x = "paused" => sample[r][s] = "loop")
  BY DEF FailWrite
<1>2. sample[r][s] \in {"loop", "sent"} /\ SampleFrame /\ UNCHANGED <<tried, refused>> /\ stop' \in BOOLEAN
      /\ Fault
  BY DEF FailWrite
<1> QED BY <1>1, <1>2, UnansweredSound, FaultBounded

------------------------------------------------------------------------------
(* Steps of a round.                                                             *)

ResultType == [status : {None, "success", "failed"}, parent : Parents,
               next : {None} \cup Lists]

\* The samples of a round that is over keep agreeing with their attempts.
LEMMA OverFits ==
    ASSUME NEW q, NEW x \in Settled, NEW up \in BOOLEAN, Fits(q, x, "gen", up),
           NEW pc \in {"raised", "done"}
    PROVE  Fits(q, x, pc, up)
  BY DEF Fits, Settled

\* The records accept the result of a round, and a round gets one.
LEMMA RecordSound ==
    ASSUME IInv, NEW r \in Rounds, task[r].pc = "gen", \A s \in Samples : sample[r][s] \in Settled,
           NEW new \in ResultType, new.status # None, new.parent = task[r].parent,
           new.status = "success" => \A s \in Samples : sample[r][s] = "won",
           (r.no = 1 /\ new.status = "success") <=> new.next \in Lists,
           new.status = "failed" => Earned(r),
           RecordRound(r, new)
    PROVE  IInv'
<1>1. /\ TypeOK /\ task \in TaskType /\ result \in [Rounds -> ResultType] /\ sample \in SampleType
      /\ ~Recorded(r) /\ phase = "up"
  BY DEF IInv, TypeOK, TaskType, TaskStates, ResultType, SampleType, SampleStates,
         TasksSound, ProcessSound, NoTask
<1>2. \A s \in Samples : sample[r][s] = "won" <=> Won(r, s)
  <2> SUFFICES ASSUME NEW s \in Samples PROVE sample[r][s] = "won" <=> Won(r, s)
    OBVIOUS
  <2>1. Fits(tried[r][s], sample[r][s], "gen", phase = "up")
    BY DEF IInv, SamplesSound
  <2>2. Won(r, s) <=> Has(tried[r][s], "success")
    BY DEF Won, Has
  <2> QED BY <2>1, <2>2 DEF Fits
<1>3. /\ r.no = 1 => task[r].parent = NoRound
      /\ r.no = 2 => /\ Recorded(A) /\ task[r].parent = ParentOf(r)
                     /\ result[task[r].parent].status = "success"
                     /\ result[task[r].parent].next = r.ids
  BY DEF IInv, TasksSound
<1>4. RoundValid(r, new)
  <2>1. new.status = "success" => (r.no = 1 <=> new.next # None)
    BY ListsAssumption DEF ResultType
  <2> QED BY <1>1, <1>2, <1>3, <2>1 DEF RoundValid
<1>5. refused' = FALSE /\ result' = [result EXCEPT ![r] = new]
  BY <1>4 DEF RecordRound, IInv
<1>6. PICK pc \in {"raised", "done"} : task' = [task EXCEPT ![r].pc = pc]
  BY DEF RecordRound, Goto
<1>7. UNCHANGED <<tried, modes, sealed, phase, stop, cancelled, sample, registered, faults, stops>>
  BY DEF RecordRound, counts
<1>8. /\ task' \in TaskType /\ task'[r].pc = pc
      /\ \A u \in Rounds : /\ task'[u].parent = task[u].parent
                           /\ u # r => task'[u] = task[u]
  BY <1>1, <1>6 DEF TaskType, TaskStates
<1>9. /\ result' \in [Rounds -> ResultType] /\ result'[r] = new
      /\ \A u \in Rounds : u # r => result'[u] = result[u]
  BY <1>1, <1>5
<1>10. TypeOK'
  <2>1. /\ result' \in [Rounds -> [status : {None, "success", "failed"}, parent : Parents,
                                   next : {None} \cup Lists]]
        /\ task' \in [Rounds -> [pc : {"none", "gen", "done", "raised"}, parent : Parents]]
    BY <1>8, <1>9 DEF ResultType, TaskType, TaskStates
  <2> QED BY <1>1, <1>5, <1>7, <2>1 DEF TypeOK
<1>11. SamplesSound'
  <2> SUFFICES ASSUME NEW u \in Rounds, NEW v \in Samples
               PROVE  Fits(tried[u][v], sample[u][v], task'[u].pc, phase = "up")
    BY <1>7 DEF SamplesSound
  <2>1. Fits(tried[u][v], sample[u][v], task[u].pc, phase = "up")
    BY DEF IInv, SamplesSound
  <2>2. CASE u = r
    BY <1>8, <2>1, <2>2, OverFits
  <2>3. CASE u # r
    BY <1>8, <2>1, <2>3
  <2> QED BY <2>2, <2>3
<1>12. r = A => \A u \in Rounds : u.no = 2 => task[u].pc = "none" /\ ~Recorded(u)
  BY <1>1 DEF IInv, TasksSound, ResultsSound
<1>13. \A u \in Rounds : /\ Recorded(u) => result'[u] = result[u]
                         /\ Recorded(u) => u # r
  BY <1>1, <1>9
<1>14. Recorded(A) => result'[A] = result[A]
  BY <1>13, RoundFacts
<1>15. A \in Rounds
  BY RoundFacts
<1>16. ResultsSound'
  <2> SUFFICES ASSUME NEW u \in Rounds
               PROVE  /\ u.no = 1 => (result'[u].status = "success" <=> result'[u].next \in Lists)
                      /\ u.no = 1 /\ result'[u].status # "success" => result'[u].next = None
                      /\ u.no = 2 /\ result'[u].status # None =>
                            /\ result'[A].status # None
                            /\ result'[u].parent = IF result'[A].next = u.ids THEN A ELSE B
                      /\ result'[u].status = "failed" => Earned(u)
    BY <1>7 DEF ResultsSound, Recorded, ParentOf, Earned
  <2>1. CASE u = r
    <3>1. u.no = 2 => result'[A] = result[A] /\ result[A].status # None
      BY <1>3, <1>14, <2>1 DEF Recorded
    <3>2. new.next \in Lists \/ new.next = None
      BY DEF ResultType
    <3> QED BY <1>3, <1>9, <2>1, <3>1, <3>2 DEF ParentOf
  <2>2. CASE u # r
    <3>1. result'[u] = result[u]
      BY <1>9, <2>2
    <3>2. u.no = 2 /\ Recorded(u) => Recorded(A) /\ result'[A] = result[A]
      BY <1>14 DEF IInv, ResultsSound
    <3> QED BY <3>1, <3>2 DEF IInv, ResultsSound, Recorded, ParentOf
  <2> QED BY <2>1, <2>2
<1>17. TasksSound'
  <2> SUFFICES ASSUME NEW u \in Rounds
               PROVE  /\ task'[u].pc = "gen" => result'[u].status = None
                      /\ task'[u].pc = "done" => result'[u].status # None
                      /\ task'[u].pc # "none" /\ u.no = 1 => task'[u].parent = NoRound
                      /\ task'[u].pc # "none" /\ u.no = 2 =>
                            /\ result'[A].status # None
                            /\ task'[u].parent = IF result'[A].next = u.ids THEN A ELSE B
                            /\ result'[task'[u].parent].status = "success"
                            /\ result'[task'[u].parent].next = u.ids
    BY DEF TasksSound, Recorded, ParentOf
  <2>1. task'[u].pc # "none" => task[u].pc # "none"
    BY <1>8
  <2>2. ASSUME task[u].pc # "none", u.no = 2
        PROVE  /\ result'[A].status # None
               /\ task'[u].parent = IF result'[A].next = u.ids THEN A ELSE B
               /\ result'[task'[u].parent].status = "success"
               /\ result'[task'[u].parent].next = u.ids
    <3>1. /\ Recorded(A) /\ task[u].parent = ParentOf(u)
          /\ result[task[u].parent].status = "success"
          /\ result[task[u].parent].next = u.ids
      BY <2>2 DEF IInv, TasksSound
    <3>2. task[u].parent \in Rounds
      BY <3>1, RoundFacts DEF ParentOf
    <3>3. result'[task[u].parent] = result[task[u].parent] /\ result'[A] = result[A]
      BY <1>13, <1>14, <3>1, <3>2 DEF Recorded, None
    <3> QED BY <1>8, <3>1, <3>3 DEF ParentOf, Recorded
  <2>3. /\ task'[u].pc = "gen" => result'[u].status = None
        /\ task'[u].pc = "done" => result'[u].status # None
        /\ task'[u].pc # "none" /\ u.no = 1 => task'[u].parent = NoRound
    BY <1>8, <1>9, <2>1 DEF IInv, TasksSound, Recorded
  <2> QED BY <2>1, <2>2, <2>3
<1>18. RegisteredSound'
  <2>1. \A f \in registered : f # r /\ f \in Rounds /\ task[f].pc = "done" /\ Recorded(f)
    BY <1>1, RoundFacts DEF IInv, RegisteredSound, TypeOK, TasksSound
  <2>2. \A f \in registered : task'[f].pc = "done"
    BY <1>8, <2>1
  <2>3. ASSUME A \in registered, NEW u \in SecondRounds, result'[A].next = u.ids
        PROVE  task'[u].pc # "none"
    <3>1. result'[A] = result[A] /\ u \in Rounds
      BY <1>14, <2>1, <2>3, RoundFacts
    <3>2. task[u].pc # "none"
      BY <2>3, <3>1 DEF IInv, RegisteredSound
    <3> QED BY <1>8, <3>1, <3>2
  <2> QED BY <1>7, <2>2, <2>3 DEF RegisteredSound
<1>19. ProcessSound' /\ SealSound'
  BY <1>1, <1>7 DEF IInv, ProcessSound, SealSound, Decided
<1> QED BY <1>5, <1>10, <1>11, <1>16, <1>17, <1>18, <1>19 DEF IInv

LEMMA PauseRoundSound ==
    ASSUME IInv, NEW r \in Rounds, PauseRound(r)
    PROVE  IInv'
<1>1. /\ TypeOK /\ task \in TaskType /\ task[r].pc = "gen" /\ phase = "up"
      /\ \A s \in Samples : sample[r][s] \in Settled
      /\ UNCHANGED <<tried, result, modes, sealed, phase, stop, cancelled, sample,
                     registered, refused, faults, stops>>
      /\ task' = [task EXCEPT ![r].pc = "raised"]
  BY DEF PauseRound, GroupSettled, Goto, durable, counts, IInv, TypeOK, TaskType, TaskStates,
         ProcessSound, NoTask
<1>2. /\ task' \in TaskType /\ task'[r].pc = "raised"
      /\ \A u \in Rounds : /\ task'[u].parent = task[u].parent
                           /\ u # r => task'[u] = task[u]
  BY <1>1 DEF TaskType, TaskStates
<1>3. TypeOK'
  BY <1>1, <1>2 DEF TypeOK, TaskType, TaskStates
<1>4. SamplesSound'
  <2> SUFFICES ASSUME NEW u \in Rounds, NEW v \in Samples
               PROVE  Fits(tried[u][v], sample[u][v], task'[u].pc, phase = "up")
    BY <1>1 DEF SamplesSound
  <2>1. Fits(tried[u][v], sample[u][v], task[u].pc, phase = "up")
    BY DEF IInv, SamplesSound
  <2>2. CASE u = r
    BY <1>1, <1>2, <2>1, <2>2, OverFits
  <2>3. CASE u # r
    BY <1>2, <2>1, <2>3
  <2> QED BY <2>2, <2>3
<1>5. ResultsSound' /\ ProcessSound' /\ SealSound'
  BY <1>1 DEF IInv, ResultsSound, Recorded, ParentOf, Earned, ProcessSound, SealSound, Decided
<1>6. TasksSound'
  BY <1>1, <1>2 DEF IInv, TasksSound, Recorded, ParentOf
<1>7. RegisteredSound'
  <2>1. \A f \in registered : f # r /\ f \in Rounds
    BY <1>1, RoundFacts DEF IInv, RegisteredSound, TypeOK
  <2>2. \A u \in SecondRounds : u \in Rounds /\ (task[u].pc # "none" => task'[u].pc # "none")
    BY <1>2, RoundFacts
  <2> QED BY <1>1, <1>2, <2>1, <2>2 DEF IInv, RegisteredSound
<1> QED BY <1>1, <1>3, <1>4, <1>5, <1>6, <1>7 DEF IInv

LEMMA FailRoundSound ==
    ASSUME IInv, NEW r \in Rounds, FailRound(r)
    PROVE  IInv'
<1>1. task[r].pc = "gen" /\ \A s \in Samples : sample[r][s] \in Settled
  BY DEF FailRound, GroupSettled
<1>2. PICK s \in Samples : sample[r][s] # "won"
  BY DEF FailRound
<1>3. \A v \in Samples : sample[r][v] \in {"won", "failed"}
  BY <1>1 DEF FailRound, Pausing, Some, Settled
<1>4. Earned(r)
  <2>1. \A v \in Samples : Fits(tried[r][v], sample[r][v], task[r].pc, phase = "up")
    BY DEF IInv, SamplesSound
  <2>2. ASSUME NEW v \in Samples
        PROVE  \/ Has(tried[r][v], "success") \/ Has(tried[r][v], "local")
               \/ Len(tried[r][v]) = MaxAttempts
    BY <1>3, <2>1 DEF Fits
  <2>3. ~Has(tried[r][s], "success")
    BY <1>2, <1>3, <2>1 DEF Fits
  <2> QED BY <2>2, <2>3 DEF Earned
<1>5. PICK new : new = [status |-> "failed", parent |-> task[r].parent, next |-> None]
  OBVIOUS
<1>6. /\ new \in ResultType /\ new.status = "failed" /\ new.status # None
      /\ new.parent = task[r].parent /\ new.next \notin Lists
  BY <1>5, ListsAssumption DEF ResultType, IInv, TypeOK, None
<1>7. RecordRound(r, new)
  BY <1>5 DEF FailRound
<1> QED BY <1>1, <1>4, <1>6, <1>7, RecordSound

LEMMA FinishRoundSound ==
    ASSUME IInv, NEW r \in Rounds, FinishRound(r)
    PROVE  IInv'
<1>1. task[r].pc = "gen" /\ \A s \in Samples : sample[r][s] = "won"
  BY DEF FinishRound
<1>2. \A s \in Samples : Has(tried[r][s], "success")
  BY <1>1 DEF IInv, SamplesSound, Fits
<1>3. \A s \in Samples : sample[r][s] \in Settled
  BY <1>1 DEF Settled
<1>4. r.no \in {1, 2}
  BY RoundFacts
<1>5. PICK status \in {"success", "failed"}, next \in {None} \cup Lists :
          /\ RecordRound(r, [status |-> status, parent |-> task[r].parent, next |-> next])
          /\ (r.no = 1 /\ status = "success") <=> next \in Lists
          /\ status = "failed" => r.no = 1
  BY <1>4, ListsAssumption DEF FinishRound
<1>6. PICK new : new = [status |-> status, parent |-> task[r].parent, next |-> next]
  OBVIOUS
<1>7. /\ new \in ResultType /\ new.status = status /\ new.status # None
      /\ new.parent = task[r].parent /\ new.next = next
  BY <1>6 DEF ResultType, IInv, TypeOK, None
<1>8. new.status = "failed" => Earned(r)
  BY <1>2, <1>5, <1>7 DEF Earned
<1> QED BY <1>1, <1>3, <1>5, <1>6, <1>7, <1>8, RecordSound

------------------------------------------------------------------------------
(* Steps of the composite and of its process.                                    *)

\* The samples of a process that runs the composite.
SamplesAgree ==
    \A r \in Rounds, s \in Samples : Fits(tried[r][s], sample[r][s], task[r].pc, TRUE)

\* The rounds may be begun for this parent.
Launchable(launched, parent) ==
    \A r \in launched :
        /\ task[r].pc = "none"
        /\ r.no = 1 => parent = NoRound
        /\ r.no = 2 => /\ Recorded(A) /\ parent = ParentOf(r)
                       /\ result[parent].status = "success"
                       /\ result[parent].next = r.ids

LaunchFrame ==
    UNCHANGED <<tried, result, modes, sealed, stop, cancelled, refused, faults, stops>>

\* Rounds that no process of this run has begun are begun.
LEMMA LaunchSound ==
    ASSUME IInv, NEW launched \in SUBSET Rounds, NEW parent \in Parents, Launch(launched, parent),
           SamplesAgree, Launchable(launched, parent), LaunchFrame,
           phase' = "up", RegisteredSound', registered' \subseteq FirstRounds
    PROVE  IInv'
<1>0. UNCHANGED <<tried, result, modes, sealed, stop, cancelled, refused, faults, stops>>
  BY DEF LaunchFrame
<1>1. TypeOK /\ task \in TaskType /\ tried \in TriedType /\ sample \in SampleType
  BY DEF IInv, TypeOK, TaskType, TaskStates, TriedType, SampleType, SampleStates
<1>2. ASSUME NEW r \in launched, NEW s \in Samples
      PROVE  /\ Restored(r, s) \in SampleStates
             /\ Fits(tried[r][s], Restored(r, s), "gen", TRUE)
             /\ sample[r][s] = "idle" /\ Fits(tried[r][s], "idle", "done", TRUE)
  <2>1. r \in Rounds /\ tried[r][s] \in Seq(Endings) /\ task[r].pc = "none"
        /\ Fits(tried[r][s], sample[r][s], "none", TRUE)
    BY <1>1 DEF TriedType, SamplesAgree, Launchable
  <2>2. sample[r][s] = "idle" /\ Fits(tried[r][s], "idle", "none", FALSE)
        /\ ~LastIs(tried[r][s], "open") /\ Fits(tried[r][s], "idle", "done", TRUE)
    BY <2>1 DEF Fits
  <2> QED BY <2>1, <2>2, RestoredFits
<1>3. \A r \in Rounds :
          /\ r \in launched => /\ task'[r].pc = (IF Recorded(r) THEN "done" ELSE "gen")
                               /\ task'[r].parent = parent
          /\ r \notin launched => task'[r] = task[r]
  BY DEF Launch
<1>4. task' \in TaskType
  BY <1>1 DEF Launch, TaskType, TaskStates
<1>5. \A r \in Rounds, s \in Samples :
          sample'[r][s] = IF r \in launched /\ ~Recorded(r) THEN Restored(r, s) ELSE sample[r][s]
  BY DEF Launch
<1>6. sample' \in SampleType
  <2>1. sample' = [r \in Rounds |-> IF r \in launched /\ ~Recorded(r)
                    THEN [s \in Samples |-> Restored(r, s)] ELSE sample[r]]
    BY DEF Launch
  <2>2. \A r \in launched : [s \in Samples |-> Restored(r, s)] \in [Samples -> SampleStates]
    BY <1>2
  <2> QED BY <1>1, <2>1, <2>2 DEF SampleType
<1>7. TypeOK'
  <2>1. /\ task' \in [Rounds -> [pc : {"none", "gen", "done", "raised"}, parent : Parents]]
        /\ sample' \in [Rounds -> [Samples -> {"idle", "loop", "sent"} \cup Settled]]
    BY <1>4, <1>6 DEF TaskType, TaskStates, SampleType, SampleStates
  <2> QED BY <1>0, <1>1, <2>1 DEF TypeOK
<1>8. SamplesSound'
  <2> SUFFICES ASSUME NEW r \in Rounds, NEW s \in Samples
               PROVE  Fits(tried[r][s], sample'[r][s], task'[r].pc, TRUE)
    BY <1>0 DEF SamplesSound
  <2>1. CASE r \in launched /\ ~Recorded(r)
    <3>1. sample'[r][s] = Restored(r, s) /\ task'[r].pc = "gen"
      BY <1>3, <1>5, <2>1
    <3>2. Fits(tried[r][s], Restored(r, s), "gen", TRUE)
      BY <1>2, <2>1
    <3> QED BY <3>1, <3>2
  <2>2. CASE r \in launched /\ Recorded(r)
    <3>1. sample'[r][s] = sample[r][s] /\ task'[r].pc = "done"
      BY <1>3, <1>5, <2>2
    <3>2. sample[r][s] = "idle" /\ Fits(tried[r][s], "idle", "done", TRUE)
      BY <1>2, <2>2
    <3> QED BY <3>1, <3>2
  <2>3. CASE r \notin launched
    BY <1>3, <1>5, <2>3 DEF SamplesAgree
  <2> QED BY <2>1, <2>2, <2>3
<1>9. ResultsSound' /\ ProcessSound' /\ SealSound'
  BY <1>0 DEF IInv, ResultsSound, Recorded, ParentOf, Earned, ProcessSound, SealSound, Decided
<1>10. TasksSound'
  <2> SUFFICES ASSUME NEW r \in Rounds
               PROVE  /\ task'[r].pc = "gen" => ~Recorded(r)
                      /\ task'[r].pc = "done" => Recorded(r)
                      /\ task'[r].pc # "none" /\ r.no = 1 => task'[r].parent = NoRound
                      /\ task'[r].pc # "none" /\ r.no = 2 =>
                            /\ Recorded(A) /\ task'[r].parent = ParentOf(r)
                            /\ result[task'[r].parent].status = "success"
                            /\ result[task'[r].parent].next = r.ids
    BY <1>0 DEF TasksSound, Recorded, ParentOf
  <2>1. CASE r \in launched
    BY <1>3, <2>1 DEF Launchable
  <2>2. CASE r \notin launched
    BY <1>3, <2>2 DEF IInv, TasksSound
  <2> QED BY <2>1, <2>2
<1> QED BY <1>0, <1>7, <1>8, <1>9, <1>10 DEF IInv

\* Open says the same of the records as LastIs.
LEMMA OpenIsLast ==
    ASSUME NEW r, NEW s
    PROVE  Open(r, s) <=> LastIs(tried[r][s], "open")
  BY DEF Open, LastIs

LEMMA RunCompositeSound ==
    ASSUME IInv, RunComposite
    PROVE  IInv'
<1>1. /\ phase = "recover" /\ Unanswered = {} /\ phase' = "up"
      /\ task = [r \in Rounds |-> NoTask] /\ sample = Idle /\ registered = {}
      /\ UNCHANGED <<tried, result, modes, sealed, stop, cancelled, registered, refused,
                     faults, stops>>
  BY DEF RunComposite, IInv, ProcessSound, durable, counts
<1>2. SamplesAgree
  <2> SUFFICES ASSUME NEW r \in Rounds, NEW s \in Samples
               PROVE  Fits(tried[r][s], sample[r][s], task[r].pc, TRUE)
    BY DEF SamplesAgree
  <2>1. <<r, s>> \notin Unanswered
    BY <1>1
  <2>2. ~LastIs(tried[r][s], "open")
    BY <2>1, OpenIsLast DEF Unanswered
  <2>3. Fits(tried[r][s], sample[r][s], task[r].pc, phase = "up")
    BY DEF IInv, SamplesSound
  <2> QED BY <2>2, <2>3 DEF Fits
<1>3. PICK launched \in {{}, FirstRounds} : Launch(launched, NoRound)
  <2>1. CASE UNCHANGED <<task, sample>>
    <3>1. task' = [r \in Rounds |-> task[r]] /\ sample' = [r \in Rounds |-> sample[r]]
      BY <1>1, <2>1 DEF Idle
    <3>2. Launch({}, NoRound)
      BY <3>1 DEF Launch
    <3> QED BY <3>2
  <2>2. CASE Launch(FirstRounds, NoRound)
    BY <2>2
  <2> QED BY <2>1, <2>2 DEF RunComposite
<1>4. launched \in SUBSET Rounds /\ NoRound \in Parents
      /\ \A r \in launched : task[r].pc = "none" /\ r.no = 1
  BY <1>1, RoundFacts DEF NoTask, Parents
<1>6. Launchable(launched, NoRound)
  BY <1>4 DEF Launchable
<1>7. LaunchFrame
  BY <1>1 DEF LaunchFrame
<1>5. RegisteredSound' /\ registered' \subseteq FirstRounds
  BY <1>1 DEF RegisteredSound
<1> QED BY <1>1, <1>2, <1>3, <1>4, <1>5, <1>6, <1>7, LaunchSound

\* B registers after A, so the second rounds it still finds unregistered are not A's.
LEMMA RegisterSound ==
    ASSUME IInv, NEW f \in FirstRounds, Register(f)
    PROVE  IInv'
<1>1. /\ task[f].pc = "done" /\ Turn(f) /\ registered' = registered \cup {f}
      /\ registered \subseteq FirstRounds /\ f \in Rounds /\ Recorded(f) /\ f.no = 1
      /\ UNCHANGED <<tried, result, modes, sealed, stop, cancelled, refused, faults, stops, phase>>
      /\ Launch(Unregistered(f), f) /\ phase = "up"
  BY RoundFacts DEF Register, IInv, TypeOK, TasksSound, durable, counts, ProcessSound, NoTask
<1>2. PICK launched : launched = Unregistered(f)
  OBVIOUS
<1>3. \A r \in launched : /\ r \in SecondRounds /\ r \in Rounds /\ r.no = 2 /\ task[r].pc = "none"
                          /\ result[f].status = "success" /\ result[f].next = r.ids
  BY <1>2, RoundFacts DEF Unregistered
<1>4. launched \in SUBSET Rounds /\ f \in Parents
  BY <1>3 DEF Parents
<1>5. SamplesAgree
  <2> SUFFICES ASSUME NEW r \in Rounds, NEW s \in Samples
               PROVE  Fits(tried[r][s], sample[r][s], task[r].pc, TRUE)
    BY DEF SamplesAgree
  <2>1. Fits(tried[r][s], sample[r][s], task[r].pc, phase = "up")
    BY DEF IInv, SamplesSound
  <2> QED BY <1>1, <2>1 DEF Fits
<1>6. ASSUME NEW r \in launched PROVE Recorded(A) /\ f = ParentOf(r)
  <2>1. CASE f = A
    BY <1>1, <1>3, <2>1 DEF ParentOf
  <2>2. CASE f # A
    <3>1. f = B /\ A \in registered /\ result[A].next # r.ids
      BY <1>1, <1>3, <1>6, <2>2, RoundFacts DEF Turn, IInv, RegisteredSound
    <3>2. Recorded(A)
      BY <3>1, RoundFacts DEF IInv, RegisteredSound, TasksSound
    <3> QED BY <3>1, <3>2 DEF ParentOf
  <2> QED BY <2>1, <2>2
<1>7. \A r \in Rounds : /\ r \in launched => task'[r].pc = (IF Recorded(r) THEN "done" ELSE "gen")
                        /\ r \notin launched => task'[r] = task[r]
  BY <1>1, <1>2 DEF Launch
<1>8. RegisteredSound'
  <2>1. \A g \in registered' : g \in Rounds /\ g \notin launched /\ task[g].pc = "done"
    BY <1>1, <1>3, RoundFacts DEF IInv, RegisteredSound
  <2>2. \A g \in registered' : task'[g].pc = "done"
    BY <1>7, <2>1
  <2>3. ASSUME A \in registered', NEW r \in SecondRounds, result[A].next = r.ids
        PROVE  task'[r].pc # "none"
    <3>1. r \in Rounds /\ r.ids \in Lists
      BY RoundFacts
    <3>2. CASE task[r].pc # "none"
      BY <1>7, <3>1, <3>2
    <3>3. CASE task[r].pc = "none"
      <4>1. A = f
        BY <1>1, <2>3, <3>3 DEF IInv, RegisteredSound
      <4>2. result[A].status = "success"
        BY <2>3, <3>1, RoundFacts DEF IInv, ResultsSound
      <4>3. r \in launched
        BY <1>2, <2>3, <3>3, <4>1, <4>2 DEF Unregistered
      <4> QED BY <1>7, <3>1, <4>3
    <3> QED BY <3>2, <3>3
  <2> QED BY <1>1, <2>2, <2>3 DEF RegisteredSound
<1>9. registered' \subseteq FirstRounds
  BY <1>1
<1>10. Launch(launched, f)
  BY <1>1, <1>2
<1>11. Launchable(launched, f)
  BY <1>3, <1>6 DEF Launchable
<1>12. LaunchFrame /\ phase' = "up"
  BY <1>1 DEF LaunchFrame
<1> QED BY <1>4, <1>5, <1>8, <1>9, <1>10, <1>11, <1>12, LaunchSound

\* The records accept the outcome of a mode: its rounds are recorded by then.
LEMMA ModeAccepted ==
    ASSUME IInv, NEW m \in Modes, ~Decided(m), RoundsDone(m)
    PROVE  /\ ModeValid(m, ModeResult(m)) /\ ModeResult(m).status # None
           /\ ModeResult(m) \in [status : {None, "succeeded", "failed", "dependency_failed"},
                                 second : {NoRound} \cup SecondRounds]
<1>1. PICK f \in FirstRounds : f = FirstOf(m)
  BY DEF FirstOf, FirstRounds
<1>2. f \in registered /\ f \in Rounds /\ f.no = 1
  BY <1>1, RoundFacts DEF RoundsDone
<1>3. Recorded(f) /\ result[f].status \in {None, "success", "failed"}
  BY <1>2 DEF IInv, RegisteredSound, TasksSound, TypeOK
<1>4. CASE result[f].status = "failed"
  BY <1>1, <1>3, <1>4 DEF ModeResult, ModeValid, None
<1>5. CASE result[f].status = "success"
  <2>1. PICK second : second = SecondOf(m, result[f].next)
    OBVIOUS
  <2>2. result[f].next \in Lists
    BY <1>2, <1>5 DEF IInv, ResultsSound
  <2>3. second \in SecondRounds /\ second.ids = result[f].next /\ second.no = 2
        /\ second \in Rounds /\ second # NoRound
    BY <2>1, <2>2, RoundFacts DEF SecondOf, SecondRounds, NoRound, Rounds
  <2>4. Recorded(second)
    BY <1>1, <1>5, <2>1, <2>3 DEF RoundsDone, IInv, TasksSound
  <2>5. ModeResult(m) = [status |-> IF result[second].status = "success" THEN "succeeded"
                                    ELSE "failed", second |-> second]
    BY <1>1, <1>5, <2>1 DEF ModeResult
  <2> QED BY <1>1, <1>3, <1>5, <2>3, <2>4, <2>5 DEF ModeValid, None
<1> QED BY <1>3, <1>4, <1>5 DEF Recorded

LEMMA FinishModeSound ==
    ASSUME IInv, NEW m \in Modes, FinishMode(m)
    PROVE  IInv'
<1>1. /\ modes' = [modes EXCEPT ![m] = ModeResult(m)] /\ ~Decided(m) /\ RoundsDone(m)
      /\ UNCHANGED <<tried, result, sealed, phase, stop, cancelled, task, sample, registered,
                     faults, stops>>
      /\ refused' = (refused \/ ~ModeValid(m, ModeResult(m)))
  BY DEF FinishMode, process, counts
<1>2. PICK new : new = ModeResult(m)
  OBVIOUS
<1>3. /\ ModeValid(m, new)
      /\ new \in [status : {None, "succeeded", "failed", "dependency_failed"},
                  second : {NoRound} \cup SecondRounds]
  BY <1>1, <1>2, ModeAccepted
<1>4. refused' = FALSE
  BY <1>1, <1>2, <1>3 DEF IInv
<1>5. modes' \in [Modes -> [status : {None, "succeeded", "failed", "dependency_failed"},
                            second : {NoRound} \cup SecondRounds]]
  BY <1>1, <1>2, <1>3 DEF IInv, TypeOK
<1>6. TypeOK'
  BY <1>1, <1>4, <1>5 DEF IInv, TypeOK
<1>7. SamplesSound' /\ ResultsSound' /\ TasksSound' /\ RegisteredSound' /\ ProcessSound'
  BY <1>1 DEF IInv, SamplesSound, ResultsSound, TasksSound, RegisteredSound, ProcessSound,
              Recorded, ParentOf, Earned
<1>8. SealSound'
  BY <1>1 DEF IInv, SealSound
<1> QED BY <1>4, <1>6, <1>7, <1>8 DEF IInv

\* Stopping its requests, pausing, cancelling and sealing say nothing of a process's
\* rounds.
LEMMA StopSound ==
    ASSUME IInv, Pause \/ Cancel \/ StopShared \/ Seal
    PROVE  IInv'
<1>1. /\ UNCHANGED <<tried, result, modes, phase, task, sample, registered, refused, faults>>
      /\ cancelled' \in BOOLEAN /\ stop' \in BOOLEAN
  BY DEF Pause, Cancel, StopShared, Seal, durable, counts, Halt, IInv, TypeOK
<1>2. stops' \in 0..MaxStops
  BY BudgetAssumption DEF Pause, Cancel, StopShared, Seal, counts, Halt, IInv, TypeOK
<1>3. sealed' \in BOOLEAN /\ (sealed' => sealed \/ \A m \in Modes : Decided(m))
  <2>1. \/ sealed' = sealed
        \/ sealed' = TRUE /\ \A m \in Modes : Decided(m)
    BY DEF Pause, Cancel, StopShared, Seal, durable, Complete
  <2>2. sealed \in BOOLEAN
    BY DEF IInv, TypeOK
  <2>3. CASE sealed' = sealed
    BY <2>2, <2>3
  <2>4. CASE sealed' = TRUE /\ \A m \in Modes : Decided(m)
    BY <2>4
  <2> QED BY <2>1, <2>3, <2>4
<1>4. TypeOK'
  BY <1>1, <1>2, <1>3 DEF IInv, TypeOK
<1>5. SamplesSound' /\ ResultsSound' /\ TasksSound' /\ RegisteredSound' /\ ProcessSound'
  BY <1>1 DEF IInv, SamplesSound, ResultsSound, TasksSound, RegisteredSound, ProcessSound,
              Recorded, ParentOf, Earned
<1>6. SealSound'
  BY <1>1, <1>3 DEF IInv, SealSound, Decided
<1> QED BY <1>1, <1>4, <1>5, <1>6 DEF IInv

\* A process that leaves, or dies, takes its tasks along; what its samples had
\* tried agrees with a process that has begun none.
LEMMA DownSound ==
    ASSUME IInv, Leave \/ Crash
    PROVE  IInv'
<1>1. /\ UNCHANGED <<tried, result, modes, sealed, refused, faults>>
      /\ phase' = "down" /\ stop' = FALSE /\ cancelled' = FALSE
      /\ task' = [r \in Rounds |-> NoTask] /\ sample' = Idle /\ registered' = {}
  BY DEF Leave, Crash, Clean, durable, counts, Halt
<1>2. stops' \in 0..MaxStops
  BY BudgetAssumption DEF Leave, Crash, counts, Halt, IInv, TypeOK
<1>3. /\ task' \in [Rounds -> [pc : {"none", "gen", "done", "raised"}, parent : Parents]]
      /\ sample' \in [Rounds -> [Samples -> {"idle", "loop", "sent"} \cup Settled]]
  BY <1>1 DEF NoTask, Parents, Idle
<1>4. TypeOK'
  BY <1>1, <1>2, <1>3 DEF IInv, TypeOK
<1>5. SamplesSound'
  <2> SUFFICES ASSUME NEW r \in Rounds, NEW s \in Samples
               PROVE  Fits(tried[r][s], sample'[r][s], task'[r].pc, FALSE)
    BY <1>1 DEF SamplesSound
  <2>1. sample'[r][s] = "idle" /\ task'[r].pc = "none"
    BY <1>1 DEF Idle, NoTask
  <2>2. Fits(tried[r][s], sample[r][s], task[r].pc, phase = "up")
    BY DEF IInv, SamplesSound
  <2>3. Fits(tried[r][s], "idle", "none", FALSE)
    BY <2>2 DEF Fits
  <2> QED BY <2>1, <2>3
<1>6. ResultsSound' /\ SealSound'
  BY <1>1 DEF IInv, ResultsSound, Recorded, ParentOf, Earned, SealSound, Decided
<1>7. TasksSound' /\ RegisteredSound' /\ ProcessSound'
  BY <1>1 DEF TasksSound, RegisteredSound, ProcessSound, NoTask
<1> QED BY <1>1, <1>4, <1>5, <1>6, <1>7 DEF IInv

LEMMA ResumeSound ==
    ASSUME IInv, Resume
    PROVE  IInv'
<1>1. /\ phase = "down" /\ phase' = "recover"
      /\ UNCHANGED <<tried, result, modes, sealed, stop, cancelled, task, sample, registered,
                     refused, faults, stops>>
  BY DEF Resume, durable, counts
<1>2. TypeOK' /\ refused' = FALSE
  BY <1>1 DEF IInv, TypeOK
<1>3. SamplesSound'
  <2>1. (phase = "up") = FALSE /\ (phase' = "up") = FALSE
    BY <1>1
  <2> QED BY <1>1, <2>1 DEF IInv, SamplesSound
<1>4. ResultsSound' /\ SealSound' /\ TasksSound' /\ RegisteredSound' /\ ProcessSound'
  BY <1>1 DEF IInv, ResultsSound, Recorded, ParentOf, Earned, SealSound, Decided,
              TasksSound, RegisteredSound, ProcessSound
<1> QED BY <1>2, <1>3, <1>4 DEF IInv

\* An attempt that ends in another way is not a success.
LEMMA EndsNoSuccess ==
    ASSUME NEW q \in Seq(Endings), NEW p, Ends(q, p, "interrupted"), ~Has(q, "success")
    PROVE  ~Has(p, "success")
<1>1. DOMAIN p = DOMAIN q
  BY LenProperties DEF Ends
<1> QED BY <1>1 DEF Ends, Has

LEMMA InterruptUnansweredSound ==
    ASSUME IInv, NEW r \in Rounds, NEW s \in Samples, InterruptUnanswered(r, s)
    PROVE  IInv'
<1>1. /\ phase = "recover" /\ LastIs(tried[r][s], "open")
      /\ UNCHANGED <<result, modes, sealed, phase, stop, cancelled, task, sample, registered,
                     refused, faults, stops>>
  BY OpenIsLast DEF InterruptUnanswered, Unanswered, process, counts
<1>2. tried \in TriedType /\ tried[r][s] \in Seq(Endings) /\ tried[r][s] # <<>>
  BY <1>1 DEF IInv, TypeOK, TriedType, LastIs
<1>3. PICK p : p = [tried[r][s] EXCEPT ![Len(tried[r][s])] = "interrupted"]
  OBVIOUS
<1>4. Ends(tried[r][s], p, "interrupted")
  BY <1>2, <1>3, EndedLast DEF Endings
<1>5. task[r].pc = "none" /\ sample[r][s] = "idle"
  BY <1>1 DEF IInv, ProcessSound, NoTask, Idle
<1>6. Fits(tried[r][s], "idle", "none", FALSE)
  <2>1. Fits(tried[r][s], sample[r][s], task[r].pc, phase = "up")
    BY DEF IInv, SamplesSound
  <2>2. (phase = "up") = FALSE
    BY <1>1
  <2> QED BY <1>5, <2>1, <2>2
<1>7. /\ Fits(p, "idle", "none", FALSE) /\ p \in Seq(Endings) /\ Len(p) = Len(tried[r][s])
      /\ Has(tried[r][s], "local") => Has(p, "local")
      /\ Has(tried[r][s], "success") => Has(p, "success")
  BY <1>1, <1>2, <1>4, <1>6, InterruptedFits DEF Ends
<1>8. tried' = [tried EXCEPT ![r][s] = p]
  BY <1>2, <1>3 DEF InterruptUnanswered, TriedType
<1>9. /\ tried' \in TriedType /\ tried'[r][s] = p
      /\ \A u \in Rounds, v \in Samples : u # r \/ v # s => tried'[u][v] = tried[u][v]
  BY <1>2, <1>7, <1>8 DEF TriedType
<1>10. TypeOK' /\ refused' = FALSE
  BY <1>1, <1>9 DEF IInv, TypeOK, TriedType
<1>11. SamplesSound'
  <2> SUFFICES ASSUME NEW u \in Rounds, NEW v \in Samples
               PROVE  Fits(tried'[u][v], sample[u][v], task[u].pc, phase = "up")
    BY <1>1 DEF SamplesSound
  <2>1. CASE u = r /\ v = s
    <3>1. (phase = "up") = FALSE
      BY <1>1
    <3> QED BY <1>5, <1>7, <1>9, <2>1, <3>1
  <2>2. CASE u # r \/ v # s
    BY <1>9, <2>2 DEF IInv, SamplesSound
  <2> QED BY <2>1, <2>2
<1>12. \A u \in Rounds : Earned(u) => Earned(u)'
  <2> SUFFICES ASSUME NEW u \in Rounds, Earned(u) PROVE Earned(u)'
    OBVIOUS
  <2>1. ASSUME NEW v \in Samples
        PROVE  /\ Len(tried[u][v]) = MaxAttempts => Len(tried'[u][v]) = MaxAttempts
               /\ Has(tried[u][v], "local") => Has(tried'[u][v], "local")
               /\ Has(tried[u][v], "success") => Has(tried'[u][v], "success")
    BY <1>7, <1>9
  <2>2. ASSUME NEW v \in Samples, ~Has(tried[u][v], "success")
        PROVE  ~Has(tried'[u][v], "success")
    <3>1. CASE u = r /\ v = s
      BY <1>2, <1>4, <1>9, <2>2, <3>1, EndsNoSuccess
    <3>2. CASE u # r \/ v # s
      BY <1>9, <2>2, <3>2
    <3> QED BY <3>1, <3>2
  <2>3. \A v \in Samples : \/ (Has(tried[u][v], "success"))' \/ (Has(tried[u][v], "local"))'
                           \/ (Len(tried[u][v]) = MaxAttempts)'
    BY <2>1 DEF Earned
  <2> QED BY <2>2, <2>3 DEF Earned
<1>13. ResultsSound'
  BY <1>1, <1>12 DEF IInv, ResultsSound, Recorded, ParentOf
<1>14. SealSound' /\ TasksSound' /\ RegisteredSound' /\ ProcessSound'
  BY <1>1 DEF IInv, SealSound, Decided, TasksSound, RegisteredSound, ProcessSound, Recorded,
              ParentOf
<1> QED BY <1>10, <1>11, <1>13, <1>14 DEF IInv

LEMMA StutterSound == IInv /\ UNCHANGED vars => IInv'
<1> SUFFICES ASSUME IInv, UNCHANGED vars PROVE IInv'
  OBVIOUS
<1>1. UNCHANGED <<tried, result, modes, sealed, phase, stop, cancelled, task, sample, registered,
                  refused, faults, stops>>
  BY DEF vars, durable, process, counts
<1> QED BY <1>1 DEF IInv, TypeOK, SamplesSound, ResultsSound, TasksSound, RegisteredSound,
                    ProcessSound, SealSound, Recorded, ParentOf, Earned, Decided

LEMMA NextSound == IInv /\ [Next]_vars => IInv'
<1> SUFFICES ASSUME IInv, [Next]_vars PROVE IInv'
  OBVIOUS
<1>1. ASSUME NEW r \in Rounds, Round(r) PROVE IInv'
  <2>1. ASSUME NEW s \in Samples, Sample(r, s) PROVE IInv'
    BY <2>1, SendSound, NotSentSound, InterruptSound, AnswerSound DEF Sample
  <2> QED BY <1>1, <2>1, PauseRoundSound, FailRoundSound, FinishRoundSound DEF Round
<1>2. CASE Composite
  BY <1>2, RegisterSound, FinishModeSound, StopSound DEF Composite
<1>3. CASE Process
  BY <1>1, <1>2, <1>3, ResumeSound, RunCompositeSound, DownSound, InterruptUnansweredSound
     DEF Process
<1>4. CASE Failure
  BY <1>4, StopSound, DownSound, MarkRecordingSound, FailWriteSound DEF Failure
<1>5. CASE UNCHANGED vars
  BY <1>5, StutterSound
<1> QED BY <1>3, <1>4, <1>5 DEF Next

LEMMA InvariantHolds == Spec => []IInv
  BY InitSound, NextSound, PTL DEF Spec

------------------------------------------------------------------------------
(* What follows.                                                                 *)

LEMMA InvariantSuffices == IInv => RecordsAreSound
<1> SUFFICES ASSUME IInv PROVE RecordsAreSound
  OBVIOUS
<1>1. TypeOK /\ NeverRefused
  BY DEF IInv, NeverRefused
<1>2. SuccessIsLast
  BY DEF IInv, SamplesSound, Fits, SuccessIsLast
<1>3. OneParent
  BY RoundFacts DEF IInv, ResultsSound, ParentOf, OneParent
<1>4. FailureIsEarned
  <2>1. \A r \in Rounds, s \in Samples : Won(r, s) <=> Has(tried[r][s], "success")
    BY DEF Won, Has
  <2>2. \A r \in Rounds, s \in Samples :
            GivenUp(r, s) <=> Len(tried[r][s]) = MaxAttempts \/ Has(tried[r][s], "local")
    BY DEF GivenUp, Has
  <2> QED BY <2>1, <2>2 DEF IInv, ResultsSound, Earned, FailureIsEarned
<1> QED BY <1>1, <1>2, <1>3, <1>4 DEF RecordsAreSound

\* For any number of samples, attempts and example lists, over every sequence of
\* processes that paused, were cancelled, stopped or died: the records never refuse an
\* event, nothing is requested after its success, a second round has the same parent
\* whichever first round answered first, and no round is recorded failed while a sample
\* that did not succeed has attempts left, unless its error cannot be repaired.
THEOREM RecordsStaySound == Spec => []RecordsAreSound
  BY InvariantHolds, InvariantSuffices, PTL

------------------------------------------------------------------------------
(* The port the campaign sees.                                                   *)

Outcome == [m \in Modes |-> modes[m].status]

LEMMA PortInit == Init => Port!Init
  BY DEF Init, NoMode, Port!Init, None, Port!None

LEMMA PortDecides ==
    ASSUME IInv, NEW m \in Modes, FinishMode(m)
    PROVE  Port!Next
<1>1. /\ modes' = [modes EXCEPT ![m] = ModeResult(m)] /\ ~Decided(m) /\ RoundsDone(m)
      /\ UNCHANGED sealed
  BY DEF FinishMode
<1>2. ModeResult(m).status \in {"succeeded", "failed", "dependency_failed"}
  BY <1>1, ModeAccepted DEF None
<1>3. ~sealed
  BY <1>1 DEF IInv, SealSound
<1>4. Outcome[m] = None /\ Outcome' = [Outcome EXCEPT ![m] = ModeResult(m).status]
  BY <1>1 DEF Outcome, Decided, IInv, TypeOK
<1>5. Port!Decide(m)
  BY <1>1, <1>2, <1>3, <1>4 DEF Outcome, Port!Decide, None, Port!None
<1> QED BY <1>5 DEF Port!Next

LEMMA PortSeals == ASSUME IInv, Seal PROVE Port!Next
<1>1. Port!Seal
  BY DEF Seal, Complete, Decided, Port!Seal, None, Port!None
<1> QED BY <1>1 DEF Port!Next

LEMMA PortStep == IInv /\ [Next]_vars => [Port!Next]_(Port!vars)
<1> SUFFICES ASSUME IInv, [Next]_vars PROVE Port!Next \/ UNCHANGED Port!vars
  OBVIOUS
<1>1. CASE UNCHANGED <<modes, sealed>>
  BY <1>1 DEF Port!vars
<1>2. ASSUME NEW r \in Rounds, Round(r) PROVE UNCHANGED <<modes, sealed>>
  BY <1>2 DEF Round, PauseRound, FailRound, FinishRound, RecordRound, Sample, Send, NotSent,
              Interrupt, Unwind, Answer, SampleFrame, durable
<1>3. ASSUME NEW r \in Rounds, NEW s \in Samples,
             MarkRecording(r, s) \/ FailWrite(r, s) \/ InterruptUnanswered(r, s)
      PROVE  UNCHANGED <<modes, sealed>>
  BY <1>3 DEF MarkRecording, FailWrite, InterruptUnanswered, SampleFrame
<1>4. ASSUME Resume \/ RunComposite \/ Pause \/ Leave \/ Cancel \/ StopShared \/ Crash
             \/ \E f \in FirstRounds : Register(f)
      PROVE  UNCHANGED <<modes, sealed>>
  BY <1>4 DEF Resume, RunComposite, Pause, Leave, Cancel, StopShared, Crash, Register, durable
<1>5. CASE UNCHANGED vars
  BY <1>1, <1>5 DEF vars, durable
<1>6. CASE Composite
  BY <1>1, <1>4, <1>6, PortDecides, PortSeals DEF Composite
<1>7. CASE Process
  BY <1>1, <1>2, <1>3, <1>4, <1>6, <1>7 DEF Process
<1>8. CASE Failure
  BY <1>1, <1>3, <1>4, <1>8 DEF Failure
<1> QED BY <1>5, <1>7, <1>8 DEF Next

\* However its rounds, samples and processes interleave, a version is to the campaign
\* what the port promises: each mode gets one outcome, which stays, none after the
\* version is sealed, and it is sealed only when all of them have one.
THEOREM VersionIsImplemented == Spec => ImplementsPort
<1>1. Init => Port!Init
  BY PortInit
<1> QED BY <1>1, PortStep, InvariantHolds, PTL DEF Spec, ImplementsPort, Port!Spec
=============================================================================
