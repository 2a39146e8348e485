----------------------------- MODULE DailVersion -----------------------------
(* One version of one question in scripts/baseline_adapters/dail_sql: the four   *)
(* modes of composite.py over two first rounds and the second rounds they share, *)
(* each round's samples as transport.py requests them, and the records they are  *)
(* rebuilt from after a pause or a crash.                                        *)
(*                                                                               *)
(* A round is named by what its identifier hashes: its number, the examples in   *)
(* its prompt and whether the contract is injected.                              *)
EXTENDS Integers, Sequences, FiniteSets

CONSTANTS Samples,      \* sample positions of a round (5 in the code)
          MaxAttempts,  \* attempts of a sample (5 in the code)
          Lists,        \* example lists a first round may retrieve
          MaxFaults,    \* bound: error answers and failed writes
          MaxStops      \* bound: crashes, cancellations and stops by other questions

ASSUME BudgetAssumption == MaxAttempts \in Nat \ {0} /\ MaxFaults \in Nat /\ MaxStops \in Nat

Initial == "initial"    \* the prepared examples of the first rounds
None == "none"

ASSUME ListsAssumption == Initial \notin Lists /\ None \notin Lists

Modes == {"native", "rc_first", "rc_second", "rc_both"}

A == [no |-> 1, ids |-> Initial, rc |-> FALSE]
B == [no |-> 1, ids |-> Initial, rc |-> TRUE]
FirstRounds == {A, B}
SecondRounds == [no : {2}, ids : Lists, rc : BOOLEAN]
Rounds == FirstRounds \cup SecondRounds

\* No round at all.
NoRound == [no |-> 0, ids |-> None, rc |-> FALSE]

FirstOf(m) == IF m \in {"rc_first", "rc_both"} THEN B ELSE A
SecondOf(m, ids) == [no |-> 2, ids |-> ids, rc |-> m \in {"rc_second", "rc_both"}]

VARIABLES
    \* durable: the events of the version
    tried,      \* per round and sample, how each attempt ended
    result,     \* per round, its round_result
    modes,      \* per mode, its mode_result
    sealed,
    \* the process
    phase,      \* "down", "recover" or "up"
    stop,       \* the dispatcher refuses requests
    cancelled,  \* the question is being cancelled: everything drains
    task,       \* per round, the task running it and the parent it was given
    sample,     \* per round and sample, its task
    registered, \* first rounds whose second rounds are registered
    \* bookkeeping of the model
    refused,    \* the records refused an event
    faults, stops

durable == <<tried, result, modes, sealed>>
process == <<phase, stop, cancelled, task, sample, registered>>
counts == <<faults, stops>>
vars == <<durable, process, refused, counts>>

\* "open" has no result; "recording" is a result that says only that recording
\* the request failed.
Answers == {"success", "transient", "local", "configuration"}
Endings == Answers \cup {"open", "interrupted", "recording"}

NoResult == [status |-> None, parent |-> NoRound, next |-> None]
NoMode == [status |-> None, second |-> NoRound]
NoTask == [pc |-> "none", parent |-> NoRound]

Parents == {NoRound} \cup FirstRounds
Settled == {"won", "failed", "paused", "raised"}

TypeOK ==
    /\ tried \in [Rounds -> [Samples -> Seq(Endings)]]
    /\ result \in [Rounds -> [status : {None, "success", "failed"}, parent : Parents,
                              next : {None} \cup Lists]]
    /\ modes \in [Modes -> [status : {None, "succeeded", "failed", "dependency_failed"},
                            second : {NoRound} \cup SecondRounds]]
    /\ sealed \in BOOLEAN
    /\ phase \in {"down", "recover", "up"} /\ stop \in BOOLEAN /\ cancelled \in BOOLEAN
    /\ task \in [Rounds -> [pc : {"none", "gen", "done", "raised"},
                            parent : Parents]]
    /\ sample \in [Rounds -> [Samples -> {"idle", "loop", "sent"} \cup Settled]]
    /\ registered \subseteq FirstRounds
    /\ refused \in BOOLEAN
    /\ faults \in 0..MaxFaults /\ stops \in 0..MaxStops

Idle == [r \in Rounds |-> [s \in Samples |-> "idle"]]

Init ==
    /\ tried = [r \in Rounds |-> [s \in Samples |-> <<>>]]
    /\ result = [r \in Rounds |-> NoResult]
    /\ modes = [m \in Modes |-> NoMode]
    /\ sealed = FALSE
    /\ phase = "down" /\ stop = FALSE /\ cancelled = FALSE
    /\ task = [r \in Rounds |-> NoTask]
    /\ sample = Idle
    /\ registered = {}
    /\ refused = FALSE /\ faults = 0 /\ stops = 0

Fault == faults < MaxFaults /\ faults' = faults + 1 /\ UNCHANGED stops

Halt == stops < MaxStops /\ stops' = stops + 1 /\ UNCHANGED faults

Recorded(r) == result[r].status # None
Decided(m) == modes[m].status # None

------------------------------------------------------------------------------
(* What the records check of an event before they append it.                    *)

Open(r, s) == tried[r][s] # <<>> /\ tried[r][s][Len(tried[r][s])] = "open"
Won(r, s) == \E k \in DOMAIN tried[r][s] : tried[r][s][k] = "success"

AttemptValid(r, s) ==
    Len(tried[r][s]) < MaxAttempts /\ ~Recorded(r) /\ ~Won(r, s)

\* The samples of a result agree with the attempts that were recorded.
RoundValid(r, new) ==
    /\ ~Recorded(r)
    /\ r.no = 1 => new.parent = NoRound
    /\ r.no = 2 => /\ result[new.parent].status = "success"
                   /\ result[new.parent].next = r.ids
    /\ \A s \in Samples : sample[r][s] = "won" <=> Won(r, s)
    /\ new.status = "success" => /\ \A s \in Samples : Won(r, s)
                                 /\ r.no = 1 <=> new.next # None

ModeValid(m, new) ==
    /\ ~Decided(m)
    /\ LET first == result[FirstOf(m)]
       IN /\ first.status # None
          /\ new.second # NoRound => /\ first.status = "success" /\ first.next = new.second.ids
                                  /\ Recorded(new.second)
          /\ new.status = "succeeded" => /\ new.second # NoRound
                                         /\ result[new.second].status = "success"

------------------------------------------------------------------------------
(* A process over the version.                                                  *)

Clean ==
    /\ stop' = FALSE /\ cancelled' = FALSE
    /\ task' = [r \in Rounds |-> NoTask]
    /\ sample' = Idle
    /\ registered' = {}

Resume ==
    /\ phase = "down" /\ ~sealed
    /\ phase' = "recover"
    /\ UNCHANGED <<durable, stop, cancelled, task, sample, registered, refused, counts>>

Unanswered == {p \in Rounds \X Samples : Open(p[1], p[2])}

\* What was in flight when the last process ended is recorded as interrupted.
InterruptUnanswered(r, s) ==
    /\ phase = "recover" /\ <<r, s>> \in Unanswered
    /\ tried' = [tried EXCEPT ![r][s][Len(tried[r][s])] = "interrupted"]
    /\ UNCHANGED <<result, modes, sealed, process, refused, counts>>

------------------------------------------------------------------------------
(* A round: run_round, and the group of samples it requests.                    *)

Goto(r, pc) == task' = [task EXCEPT ![r].pc = pc]
Move(r, s, pc) == sample' = [sample EXCEPT ![r][s] = pc]

\* Mutant: a success recorded earlier does not count.
Restored_Again(r, s) == IF Len(tried[r][s]) >= MaxAttempts THEN "failed" ELSE "loop"

\* A sample as its attempts leave it.  An explicit resume retries a configuration
\* error, and only a first process has no history.
Restored(r, s) ==
    LET Has(e) == \E k \in DOMAIN tried[r][s] : tried[r][s][k] = e
    IN CASE Won(r, s) -> "won"
         [] ~Won(r, s) /\ Len(tried[r][s]) >= MaxAttempts -> "failed"
         [] OTHER -> IF Has("local") THEN "failed"
                     ELSE IF Has("recording") THEN "paused" ELSE "loop"

\* A recorded round is returned as it is; any other asks for its samples.
Launch(launched, parent) ==
    /\ task' = [r \in Rounds |-> IF r \in launched
            THEN [pc |-> IF Recorded(r) THEN "done" ELSE "gen", parent |-> parent]
            ELSE task[r]]
    /\ sample' = [r \in Rounds |-> IF r \in launched /\ ~Recorded(r)
            THEN [s \in Samples |-> Restored(r, s)] ELSE sample[r]]

\* One sample that raises cancels the others of its group.
GroupCancelled(r) == cancelled \/ \E s \in Samples : sample[r][s] = "raised"

SampleFrame == UNCHANGED <<result, modes, sealed, phase, cancelled, task, registered>>

\* The attempt is durable before the request is sent.
Send(r, s) ==
    /\ sample[r][s] = "loop" /\ ~stop /\ ~GroupCancelled(r)
    /\ tried' = [tried EXCEPT ![r][s] = Append(@, "open")]
    /\ refused' = (refused \/ ~AttemptValid(r, s))
    /\ Move(r, s, "sent")
    /\ SampleFrame /\ UNCHANGED <<stop, counts>>

\* The stop event is seen at the boundary of an attempt, or by the dispatcher
\* with the request still queued.
NotSent(r, s) ==
    /\ sample[r][s] = "loop" /\ stop /\ ~GroupCancelled(r)
    /\ Move(r, s, "paused")
    /\ SampleFrame /\ UNCHANGED <<tried, stop, refused, counts>>

End(r, s, ending) == tried' = [tried EXCEPT ![r][s][Len(tried[r][s])] = ending]

\* An attempt that used up the budget ends the sample for good, whatever it ended in.
OutOfBudget(r, s) == Len(tried[r][s]) >= MaxAttempts

Answer(r, s, answer) ==
    /\ sample[r][s] = "sent"
    /\ End(r, s, answer)
    /\ Move(r, s, CASE answer = "success" -> "won"
                    [] answer = "local" -> "failed"
                    [] answer = "transient" -> IF OutOfBudget(r, s) THEN "failed" ELSE "loop"
                    [] answer = "configuration" -> IF OutOfBudget(r, s) THEN "failed" ELSE "paused")
    /\ stop' = (stop \/ answer = "configuration")
    /\ IF answer = "success" THEN UNCHANGED counts ELSE Fault
    /\ SampleFrame /\ UNCHANGED refused

\* What is in flight is cancelled and recorded as interrupted.  A cancelled task
\* raises; one whose request the stopped dispatcher cancelled returns, and has
\* spent its attempt.
Interrupt(r, s) ==
    /\ sample[r][s] = "sent"
    /\ End(r, s, "interrupted")
    /\ \/ GroupCancelled(r) /\ Move(r, s, "raised")
       \/ stop /\ Move(r, s, IF OutOfBudget(r, s) THEN "failed" ELSE "paused")
    /\ SampleFrame /\ UNCHANGED <<stop, refused, counts>>

Unwind(r, s) ==
    /\ sample[r][s] = "loop" /\ GroupCancelled(r)
    /\ Move(r, s, "raised")
    /\ SampleFrame /\ UNCHANGED <<tried, stop, refused, counts>>

\* The answer came and its telemetry could not be recorded, but the failure was.
MarkRecording(r, s) ==
    /\ sample[r][s] = "sent" /\ Fault
    /\ End(r, s, "recording")
    /\ Move(r, s, IF OutOfBudget(r, s) THEN "failed" ELSE "paused")
    /\ stop' = TRUE
    /\ SampleFrame /\ UNCHANGED refused

\* A write fails: of the queued event or of the result of the attempt, which
\* raises, or of the start of the attempt, which is then not sent.
FailWrite(r, s) ==
    /\ sample[r][s] \in {"loop", "sent"} /\ Fault
    /\ \/ Move(r, s, "raised")
       \/ sample[r][s] = "loop" /\ Move(r, s, "paused")
    /\ stop' = TRUE
    /\ SampleFrame /\ UNCHANGED <<tried, refused>>

GroupSettled(r) ==
    task[r].pc = "gen" /\ \A s \in Samples : sample[r][s] \in Settled

Some(r, pc) == \E s \in Samples : sample[r][s] = pc

\* Mutant: a sample that was stopped counts as failed.
Pausing_Raised(r) == Some(r, "raised")

\* A pause or a cancellation is no result.
Pausing(r) == Some(r, "raised") \/ Some(r, "paused")

PauseRound(r) ==
    /\ GroupSettled(r) /\ Pausing(r)
    /\ Goto(r, "raised")
    /\ UNCHANGED <<durable, phase, stop, cancelled, sample, registered, refused, counts>>

\* A result is appended in a thread that is drained before a cancellation goes on.
RecordRound(r, new) ==
    /\ result' = [result EXCEPT ![r] = new]
    /\ refused' = (refused \/ ~RoundValid(r, new))
    /\ Goto(r, IF cancelled THEN "raised" ELSE "done")
    /\ UNCHANGED <<tried, modes, sealed, phase, stop, cancelled, sample, registered,
                   counts>>

FailRound(r) ==
    /\ GroupSettled(r) /\ ~Pausing(r) /\ \E s \in Samples : sample[r][s] # "won"
    /\ RecordRound(r, [status |-> "failed", parent |-> task[r].parent, next |-> None])

\* The SQL of the samples is executed and put to the vote.  The winner of a first
\* round retrieves the examples of the second, or has no skeleton to retrieve
\* them by.
FinishRound(r) ==
    /\ task[r].pc = "gen" /\ \A s \in Samples : sample[r][s] = "won"
    /\ LET parent == task[r].parent
       IN IF r.no = 2
          THEN RecordRound(r, [status |-> "success", parent |-> parent, next |-> None])
          ELSE \/ \E ids \in Lists :
                    RecordRound(r, [status |-> "success", parent |-> parent, next |-> ids])
               \/ RecordRound(r, [status |-> "failed", parent |-> parent, next |-> None])

------------------------------------------------------------------------------
(* The composite.                                                               *)

\* Recorded modes are kept, and the first rounds started for the others.
RunComposite ==
    /\ phase = "recover" /\ Unanswered = {}
    /\ phase' = "up"
    /\ IF \A m \in Modes : Decided(m) THEN UNCHANGED <<task, sample>>
       ELSE Launch(FirstRounds, NoRound)
    /\ UNCHANGED <<durable, stop, cancelled, registered, refused, counts>>

\* Mutant: the round that answers first registers its second rounds first.
Turn_Any(f) == TRUE

\* Mutant: B waits for the second rounds of A, also when there are none.
Turn_Success(f) == f = A \/ (A \in registered /\ result[A].status = "success")

\* A registers its second rounds before B, which may share them.
Turn(f) == f = A \/ result[f].status = "failed" \/ A \in registered

Unregistered(f) ==
    {r \in SecondRounds : result[f].status = "success" /\ r.ids = result[f].next
                          /\ task[r].pc = "none"}

Register(f) ==
    /\ task[f].pc = "done" /\ f \notin registered /\ ~cancelled /\ Turn(f)
    /\ registered' = registered \cup {f}
    /\ Launch(Unregistered(f), f)
    /\ UNCHANGED <<durable, phase, stop, cancelled, refused, counts>>

\* The mode's outcome is what its two rounds say.
ModeResult(m) ==
    LET first == result[FirstOf(m)]
        second == SecondOf(m, first.next)
    IN IF first.status = "failed" THEN [status |-> "dependency_failed", second |-> NoRound]
       ELSE [status |-> IF result[second].status = "success" THEN "succeeded" ELSE "failed",
             second |-> second]

RoundsDone(m) ==
    LET f == FirstOf(m)
    IN /\ f \in registered
       /\ result[f].status = "success" => task[SecondOf(m, result[f].next)].pc = "done"

FinishMode(m) ==
    /\ ~Decided(m) /\ RoundsDone(m)
    /\ modes' = [modes EXCEPT ![m] = ModeResult(m)]
    /\ refused' = (refused \/ ~ModeValid(m, ModeResult(m)))
    /\ UNCHANGED <<tried, result, sealed, process, counts>>

\* A round the mode waits for was paused, or B's turn never comes.
Doomed(m) ==
    LET f == FirstOf(m)
    IN \/ task[f].pc = "raised"
       \/ task[f].pc = "done" /\ f \notin registered /\ ~Turn(f) /\ task[A].pc = "raised"
       \/ /\ f \in registered /\ result[f].status = "success"
          /\ task[SecondOf(m, result[f].next)].pc = "raised"

\* Independent outcomes are drained before a pause is raised.
Pause ==
    /\ phase = "up" /\ ~cancelled
    /\ \A m \in Modes : Decided(m) \/ Doomed(m)
    /\ \E m \in Modes : ~Decided(m)
    /\ cancelled' = TRUE
    /\ UNCHANGED <<durable, phase, stop, task, sample, registered, refused, counts>>

\* Mutant: the version is sealed once the modes that can be decided are.
Complete_Drained == \A m \in Modes : Decided(m) \/ Doomed(m)

Complete == \A m \in Modes : Decided(m)

Seal ==
    /\ phase = "up" /\ ~cancelled /\ ~sealed /\ Complete
    /\ sealed' = TRUE
    /\ cancelled' = TRUE
    /\ UNCHANGED <<tried, result, modes, phase, stop, task, sample, registered, refused, counts>>

\* What is in flight is recorded before the process ends; nothing else is begun.
Leave ==
    /\ phase = "up" /\ cancelled
    /\ \A r \in Rounds, s \in Samples : sample[r][s] # "sent"
    /\ phase' = "down"
    /\ Clean
    /\ UNCHANGED <<durable, refused, counts>>

------------------------------------------------------------------------------
(* What may go wrong around it.                                                 *)

\* The campaign is interrupted, or another of its questions failed.
Cancel ==
    /\ phase = "up" /\ ~cancelled /\ Halt
    /\ cancelled' = TRUE
    /\ UNCHANGED <<durable, phase, stop, task, sample, registered, refused>>

\* Another question of the campaign stops the dispatcher they share: it got a
\* configuration error, or could not record.
StopShared ==
    /\ phase = "up" /\ ~stop /\ Halt
    /\ stop' = TRUE
    /\ UNCHANGED <<durable, phase, cancelled, task, sample, registered, refused>>

Crash ==
    /\ phase # "down" /\ Halt
    /\ phase' = "down"
    /\ Clean
    /\ UNCHANGED <<durable, refused>>

------------------------------------------------------------------------------

Sample(r, s) ==
    \/ Send(r, s) \/ NotSent(r, s) \/ Interrupt(r, s) \/ Unwind(r, s)
    \/ \E answer \in Answers : Answer(r, s, answer)

Round(r) == \/ PauseRound(r) \/ FailRound(r) \/ FinishRound(r)
            \/ \E s \in Samples : Sample(r, s)

Composite == \/ \E f \in FirstRounds : Register(f)
             \/ \E m \in Modes : FinishMode(m)
             \/ Pause \/ Seal

Process == \/ Resume \/ RunComposite \/ Composite \/ Leave
           \/ \E r \in Rounds : Round(r)
           \/ \E r \in Rounds, s \in Samples : InterruptUnanswered(r, s)

Failure == \/ Cancel \/ StopShared \/ Crash
           \/ \E r \in Rounds, s \in Samples : MarkRecording(r, s) \/ FailWrite(r, s)

Next == Process \/ Failure

Spec == Init /\ [][Next]_vars

\* The event loop runs whatever is ready, and a paused version is resumed.
FairSpec == Spec /\ WF_vars(Process)

------------------------------------------------------------------------------
(* Properties                                                                   *)

\* The records accept every event of every process: what is rebuilt after a pause
\* or a crash never contradicts what was recorded before it.
NeverRefused == ~refused

\* A sample that succeeded is never requested again, by any process.
SuccessIsLast ==
    \A r \in Rounds, s \in Samples : \A k \in DOMAIN tried[r][s] :
        tried[r][s][k] = "success" => k = Len(tried[r][s])

\* A second round is credited to A whenever A retrieved its examples, whichever
\* first round answered first and in whichever process.
OneParent ==
    \A r \in SecondRounds :
        Recorded(r) => /\ Recorded(A)
                       /\ result[r].parent = IF result[A].next = r.ids THEN A ELSE B

\* A sample has nothing left to try: its attempts are used up, those cut short
\* included, or it got an error nobody can repair.
GivenUp(r, s) == \/ Len(tried[r][s]) = MaxAttempts
                 \/ \E k \in DOMAIN tried[r][s] : tried[r][s][k] = "local"

\* A round is recorded failed only once every sample that did not succeed has
\* nothing left to try, or when the vote of a first round yields no examples.  A
\* pause, a cancellation or a crash costs a sample the attempt it cuts short; one
\* with attempts to spare never makes a round fail (composite.py:100-104).
FailureIsEarned ==
    \A r \in Rounds : result[r].status = "failed" =>
        /\ \A s \in Samples : Won(r, s) \/ GivenUp(r, s)
        /\ r.no = 2 => \E s \in Samples : ~Won(r, s)

\* What a version records over all its processes is accepted, earned, and the same
\* in whichever order its rounds answered.
RecordsAreSound ==
    /\ TypeOK
    /\ NeverRefused
    /\ SuccessIsLast
    /\ OneParent
    /\ FailureIsEarned

\* To the campaign a version is a VersionPort.
Port == INSTANCE VersionPort WITH
    Modes <- Modes, Outcomes <- {"succeeded", "failed", "dependency_failed"},
    outcome <- [m \in Modes |-> modes[m].status], sealed <- sealed

ImplementsPort == Port!Spec

\* Faults being finitely many, a version that is resumed is sealed -- unless the
\* failure to record an answer was itself recorded: that sample is restored as
\* paused in every later process, and the version pauses for ever.
SealsUnlessRecordingFailed ==
    <>(sealed \/ \E r \in Rounds, s \in Samples :
                    \E k \in DOMAIN tried[r][s] : tried[r][s][k] = "recording")
=============================================================================
