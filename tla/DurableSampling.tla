-------------------------- MODULE DurableSampling --------------------------
(* One sampling group: the per-sample retry loop of app/llm/sampling.py over the *)
(* append-only checkpoints of scripts/baseline_adapters/deepeye/run_sampling.py. *)
(*                                                                               *)
(* A sample's attempt is started durably before its request, so that a process   *)
(* that dies with the request in flight has spent the attempt; the next session  *)
(* over the same stage input restores the history, marks such attempts uncertain *)
(* and goes on with what is left of the budget.  An operator may renew exhausted *)
(* samples between sessions.                                                     *)
EXTENDS Integers, Sequences, FiniteSets

CONSTANTS Samples,       \* sample indices of the group
          MaxAttempts,   \* the group's max_attempts, first attempt included
          Renewal,       \* attempts granted by a renewal (4 in the code)
          MaxFaults,     \* bound: crashes and requested stops
          MaxRenewals    \* bound: renewal commands

ASSUME BudgetAssumption == MaxAttempts \in Nat \ {0} /\ Renewal \in Nat \ {0}
ASSUME BoundAssumption == MaxFaults \in Nat /\ MaxRenewals \in Nat

VARIABLES
    \* durable
    starts,      \* per sample, one entry per started attempt: how it ended
    prior,       \* per sample, the outcome in its latest terminal event
    limit,       \* per sample, the attempts it may use
    renewedAt,   \* per sample, starts at its latest renewal, -1 without one
    committed,   \* the stage attempt succeeded: nothing samples here again
    \* the process
    session,     \* "closed", "binding" or "open"
    thread,      \* per sample, the scheduler leaf running execute_sample
    stop,        \* the run's stop event
    \* bookkeeping of the model
    sent,        \* requests that reached the remote model
    poisoned,    \* an event was committed that re-indexing would reject
    faults, renewals

durable == <<starts, prior, limit, renewedAt, committed>>
vars == <<durable, session, thread, stop, sent, poisoned, faults, renewals>>

\* How the request of an attempt ends.  "fatal" is an API error that is neither
\* transient nor a retryable data inspection; "rejected" stands for an empty
\* response or one the parser refuses.
Answers == {"succeeded", "transient", "fatal", "rejected"}
Endings == Answers \cup {"started", "uncertain"}

Outcomes == [attempts : Seq(Endings), succeeded : BOOLEAN, fatal : BOOLEAN]
Fresh == [attempts |-> <<>>, succeeded |-> FALSE, fatal |-> FALSE]

PCs == {"idle", "queued", "loop", "request", "sent", "answered", "result",
        "done", "paused"}
Idle == [pc |-> "idle", outcome |-> Fresh, limit |-> 0]

TypeOK ==
    /\ starts \in [Samples -> Seq(Endings)]
    /\ prior \in [Samples -> Outcomes]
    /\ limit \in [Samples -> Nat]
    /\ renewedAt \in [Samples -> Nat \cup {-1}]
    /\ committed \in BOOLEAN
    /\ session \in {"closed", "binding", "open"}
    /\ thread \in [Samples -> [pc : PCs, outcome : Outcomes, limit : Nat]]
    /\ stop \in BOOLEAN
    /\ sent \in [Samples -> Nat]
    /\ poisoned \in BOOLEAN
    /\ faults \in 0..MaxFaults
    /\ renewals \in 0..MaxRenewals

Init ==
    /\ starts = [s \in Samples |-> <<>>]
    /\ prior = [s \in Samples |-> Fresh]
    /\ limit = [s \in Samples |-> MaxAttempts]
    /\ renewedAt = [s \in Samples |-> -1]
    /\ committed = FALSE
    /\ session = "closed"
    /\ thread = [s \in Samples |-> Idle]
    /\ stop = FALSE
    /\ sent = [s \in Samples |-> 0]
    /\ poisoned = FALSE
    /\ faults = 0
    /\ renewals = 0

------------------------------------------------------------------------------
(* What the index checks of an event it is about to publish.                    *)

StartValid(s, number) == /\ number = Len(starts[s]) + 1
                         /\ number <= limit[s]
                         /\ ~prior[s].succeeded

TerminalValid(s, outcome) ==
    LET number == Len(outcome.attempts)
    IN /\ number \in DOMAIN starts[s]
       /\ starts[s][number] \in {"started", "uncertain"}
       /\ outcome.succeeded <=> outcome.attempts[number] = "succeeded"
       /\ ~prior[s].succeeded

\* A sample renewal may extend: it used up its limit, or ended fatally after
\* the latest renewal, and has not succeeded.
Renewable(s) ==
    /\ ~prior[s].succeeded
    /\ \/ Len(starts[s]) >= limit[s]
       \/ prior[s].fatal /\ Len(starts[s]) > renewedAt[s]

------------------------------------------------------------------------------
(* A session: one stage attempt over the group.                                 *)

\* The group is bound on first use; re-binding an existing group is a no-op.
OpenSession ==
    /\ session = "closed" /\ ~committed
    /\ session' = "binding"
    /\ stop' = FALSE
    /\ UNCHANGED <<durable, thread, sent, poisoned, faults, renewals>>

\* run_samples queues every sample of the group, unless already stopped.
RunSamples ==
    /\ session = "binding"
    /\ session' = "open"
    /\ thread' = [s \in Samples |->
            [Idle EXCEPT !.pc = IF stop THEN "paused" ELSE "queued"]]
    /\ UNCHANGED <<durable, stop, sent, poisoned, faults, renewals>>

\* What restore() makes of the history: the latest outcome, then the attempts
\* that never got a terminal event.
Pending(s) == {k \in DOMAIN starts[s] : starts[s][k] \in {"started", "uncertain"}}

\* Mutant: lost attempts are forgotten.
Restored_Forgets(s) == prior[s]

\* Mutant: lost attempts are taken for transient errors.
Restored_AsTransient(s) ==
    LET known == prior[s].attempts
    IN [prior[s] EXCEPT
          !.attempts = known \o [k \in 1..(Len(starts[s]) - Len(known)) |-> "transient"]]

\* Mutant: a renewal does not clear the fatal answer before it.
Restored_StillFatal(s) ==
    LET known == prior[s].attempts
    IN [prior[s] EXCEPT
          !.attempts = known \o [k \in 1..(Len(starts[s]) - Len(known)) |-> "uncertain"]]

Restored(s) ==
    LET known == prior[s].attempts
        lost == [k \in 1..(Len(starts[s]) - Len(known)) |-> "uncertain"]
        attempts == known \o lost
    IN IF prior[s].succeeded THEN prior[s]
       ELSE [prior[s] EXCEPT
                !.attempts = attempts,
                !.fatal = @ /\ Len(attempts) # renewedAt[s]]

Restore(s) ==
    /\ thread[s].pc = "queued" /\ ~stop
    /\ thread' = [thread EXCEPT ![s] =
            [pc |-> "loop", outcome |-> Restored(s), limit |-> limit[s]]]
    /\ starts' = [starts EXCEPT ![s] = [k \in DOMAIN @ |->
            IF k \in Pending(s) /\ ~prior[s].succeeded THEN "uncertain" ELSE @[k]]]
    /\ UNCHANGED <<prior, limit, renewedAt, committed, session, stop, sent,
                   poisoned, faults, renewals>>

\* Mutant: one attempt more than the limit.
Spent_OneMore(t) ==
    t.outcome.succeeded \/ t.outcome.fatal \/ Len(t.outcome.attempts) > t.limit

\* The loop is over: success, a fatal answer, or no attempt left.
Spent(t) == t.outcome.succeeded \/ t.outcome.fatal \/ Len(t.outcome.attempts) >= t.limit

StartAttempt(s) ==
    LET t == thread[s]
        number == Len(t.outcome.attempts) + 1
    IN /\ t.pc = "loop" /\ ~Spent(t) /\ ~stop
       /\ starts' = [starts EXCEPT ![s] = Append(@, "started")]
       /\ poisoned' = (poisoned \/ ~StartValid(s, number))
       /\ thread' = [thread EXCEPT ![s].pc = "request"]
       /\ UNCHANGED <<prior, limit, renewedAt, committed, session, stop, sent,
                      faults, renewals>>

\* Mutant: a queued request does not notice the stop event.
Pause_NotQueued(s) ==
    /\ thread[s].pc = "loop" /\ ~Spent(thread[s]) /\ stop
    /\ thread' = [thread EXCEPT ![s].pc = "paused"]
    /\ UNCHANGED <<durable, session, stop, sent, poisoned, faults, renewals>>

\* The stop event is seen at the boundary, or by the dispatcher with the
\* request still queued: the leaf unwinds and its started attempt stays open.
Pause(s) ==
    /\ thread[s].pc \in {"queued", "request"}
          \/ (thread[s].pc = "loop" /\ ~Spent(thread[s]))
    /\ stop
    /\ thread' = [thread EXCEPT ![s].pc = "paused"]
    /\ UNCHANGED <<durable, session, stop, sent, poisoned, faults, renewals>>

\* Mutant: the client repeats the request under the same attempt.
Send_Retries(s) ==
    /\ thread[s].pc \in {"request", "sent"} /\ ~stop
    /\ sent[s] <= Len(starts[s])
    /\ sent' = [sent EXCEPT ![s] = @ + 1]
    /\ thread' = [thread EXCEPT ![s].pc = "sent"]
    /\ UNCHANGED <<durable, session, stop, poisoned, faults, renewals>>

Send(s) ==
    /\ thread[s].pc = "request" /\ ~stop
    /\ sent' = [sent EXCEPT ![s] = @ + 1]
    /\ thread' = [thread EXCEPT ![s].pc = "sent"]
    /\ UNCHANGED <<durable, session, stop, poisoned, faults, renewals>>

\* Mutant: transient errors are fatal as well.
Fatal_AnyError(answer) == answer \in {"fatal", "transient"}

Fatal(answer) == answer = "fatal"

\* The response is classified in memory.  A fatal one may stop the whole run.
Answer(s, answer) ==
    /\ thread[s].pc = "sent"
    /\ thread' = [thread EXCEPT
            ![s].pc = "answered",
            ![s].outcome.attempts = Append(@, answer),
            ![s].outcome.succeeded = (answer = "succeeded"),
            ![s].outcome.fatal = Fatal(answer)]
    /\ stop' \in IF answer = "fatal" THEN {stop, TRUE} ELSE {stop}
    /\ UNCHANGED <<durable, session, sent, poisoned, faults, renewals>>

FinishAttempt(s) ==
    LET outcome == thread[s].outcome
        number == Len(outcome.attempts)
    IN /\ thread[s].pc = "answered"
       /\ starts' = [starts EXCEPT ![s][number] = outcome.attempts[number]]
       /\ prior' = [prior EXCEPT ![s] = outcome]
       /\ poisoned' = (poisoned \/ ~TerminalValid(s, outcome))
       /\ thread' = [thread EXCEPT ![s].pc = "loop"]
       /\ UNCHANGED <<limit, renewedAt, committed, session, stop, sent, faults,
                      renewals>>

EmitResult(s) ==
    /\ thread[s].pc = "loop" /\ Spent(thread[s])
    /\ thread' = [thread EXCEPT ![s].pc = "done"]
    /\ UNCHANGED <<durable, session, stop, sent, poisoned, faults, renewals>>

\* run_samples waits for every sibling.  Unless a leaf paused or the stop event
\* is set, the stage then succeeds or fails on what the group returned.
CloseSession ==
    /\ session = "open"
    /\ \A s \in Samples : thread[s].pc \in {"done", "paused"}
    /\ session' = "closed"
    /\ thread' = [s \in Samples |-> Idle]
    /\ committed' \in IF stop \/ \E s \in Samples : thread[s].pc = "paused"
                      THEN {FALSE} ELSE BOOLEAN
    /\ stop' = FALSE
    /\ UNCHANGED <<starts, prior, limit, renewedAt, sent, poisoned, faults, renewals>>

------------------------------------------------------------------------------
(* The operator and the environment.                                            *)

\* renew-samples, under the writer lock and so with no session alive.
Renew ==
    LET S == {s \in Samples : Renewable(s)}
    IN /\ session = "closed" /\ ~committed
       /\ renewals < MaxRenewals
       /\ S # {}
       /\ limit' = [s \in Samples |->
             IF s \in S THEN Len(starts[s]) + Renewal ELSE limit[s]]
       /\ renewedAt' = [s \in Samples |->
             IF s \in S THEN Len(starts[s]) ELSE renewedAt[s]]
       /\ renewals' = renewals + 1
       /\ UNCHANGED <<starts, prior, committed, session, thread, stop, sent,
                      poisoned, faults>>

RequestStop ==
    /\ session # "closed" /\ ~stop
    /\ faults < MaxFaults
    /\ faults' = faults + 1
    /\ stop' = TRUE
    /\ UNCHANGED <<durable, session, thread, sent, poisoned, renewals>>

Crash ==
    /\ session # "closed"
    /\ faults < MaxFaults
    /\ faults' = faults + 1
    /\ session' = "closed"
    /\ thread' = [s \in Samples |-> Idle]
    /\ stop' = FALSE
    /\ UNCHANGED <<durable, sent, poisoned, renewals>>

------------------------------------------------------------------------------

Leaf(s) == \/ Restore(s) \/ StartAttempt(s) \/ Pause(s) \/ Send(s)
           \/ (\E answer \in Answers : Answer(s, answer))
           \/ FinishAttempt(s) \/ EmitResult(s)

Session == OpenSession \/ RunSamples \/ CloseSession

Next == \/ Session
        \/ \E s \in Samples : Leaf(s)
        \/ Renew \/ RequestStop \/ Crash

Spec == Init /\ [][Next]_vars

\* Leaves are scheduled, and the stage is resumed until it is settled.
FairSpec == Spec /\ WF_vars(Session) /\ \A s \in Samples : WF_vars(Leaf(s))

------------------------------------------------------------------------------
(* Safety                                                                       *)

\* Every event ever committed passes the index's own checks, so a later process
\* can always rebuild the index from the log.
LogIsIndexable == ~poisoned

\* The history a leaf carries in memory is the durable one, attempt by attempt,
\* whatever mixture of sessions and crashes wrote it.
MemoryMatchesLog ==
    \A s \in Samples : thread[s].pc = "loop" =>
        thread[s].outcome.attempts = starts[s]

\* The latest outcome agrees with the attempts it summarises.
OutcomeMatchesAttempts ==
    \A s \in Samples :
        LET n == Len(prior[s].attempts)
        IN n > 0 => /\ prior[s].attempts = SubSeq(starts[s], 1, n)
                    /\ prior[s].succeeded <=> starts[s][n] = "succeeded"
                    /\ prior[s].fatal <=> starts[s][n] = "fatal"

\* The log, the index made of it and the memory of the leaves tell one history,
\* whatever mixture of sessions, crashes and renewals wrote it.
HistoryIsConsistent ==
    /\ TypeOK
    /\ LogIsIndexable
    /\ MemoryMatchesLog
    /\ OutcomeMatchesAttempts

\* The abstract promise on every sample's budget.
Budget == INSTANCE SampleBudget WITH
    spent <- [s \in Samples |-> Len(starts[s])],
    made <- sent,
    won <- [s \in Samples |-> prior[s].succeeded]

ImplementsBudget == Budget!Spec

\* A leaf that gives its sample up although its allowance has attempts left.
GivesUp(s) == LET t == thread[s]
              IN /\ t.pc \in {"loop", "done"} /\ Spent(t)
                 /\ ~t.outcome.succeeded /\ Len(t.outcome.attempts) < t.limit

\* It does so for two reasons only: the latest attempt ended fatally, and after the
\* renewal; or the first attempt since the renewal was cut short by a crash or a
\* pause, and the answer before it was fatal, so that restore(), which compares the
\* attempts with those of the renewal, finds one more and lets the old answer end the
\* new allowance (run_sampling.py:309, app/llm/sampling.py:247-249).
AllowanceIsUsable ==
    \A s \in Samples :
        LET n == Len(starts[s])
        IN GivesUp(s) => \/ starts[s][n] = "fatal" /\ n > renewedAt[s]
                         \/ /\ starts[s][n] = "uncertain" /\ n = renewedAt[s] + 1
                            /\ prior[s].fatal

------------------------------------------------------------------------------
(* Liveness                                                                     *)

\* Faults being finitely many, every sample is settled: it has succeeded, ended
\* fatally, or used up its attempts.
EverySampleSettles ==
    <>[](\A s \in Samples : \/ prior[s].succeeded \/ Restored(s).fatal
                            \/ Len(starts[s]) >= limit[s])
=============================================================================
