---------------------------- MODULE GoldAnnotation ----------------------------
(* The gold schema-linking annotation: run_annotations of                         *)
(* scripts/rc_evaluation/schema_linking_gold/runner.py, one thread that admits    *)
(* batches to a pool of request workers and collects their answers, over the      *)
(* AnnotationStore of store.py. Nothing keeps two runs from one store but the     *)
(* store's transactions, so several runners share it here.                        *)
(*                                                                                *)
(* A batch stands for its tasks: they are accepted in one transaction.            *)
EXTENDS Integers, Sequences, FiniteSets

CONSTANTS Runners,      \* processes that may run the store
          NumBatches,   \* batches of the frozen plan, in order
          PilotSize,    \* the batches of the pilot phase, which come first
          Workers,      \* request workers
          MaxAttempts,  \* persisted attempts of a batch (4 in the code)
          MaxFaults     \* bound on crashes

ASSUME AnnotationAssumption ==
    /\ NumBatches \in Nat \ {0} /\ PilotSize \in 0..NumBatches
    /\ Workers \in Nat \ {0} /\ MaxAttempts \in Nat \ {0} /\ MaxFaults \in Nat
    /\ IsFiniteSet(Runners)

Batches == 1..NumBatches
Unlabelled == 0

VARIABLES
    \* durable
    attempts,   \* per batch, the status of its attempts
    label,      \* per batch, the attempt its annotations were accepted from
    \* per runner
    pc,         \* "off", "planned", "admit", "collect" or "accept"
    scope,      \* the batches of the run
    queue,      \* those to be started
    flight,     \* the requests that were made, as <<batch, attempt>>
    done,       \* those found done, not collected yet
    accepting,  \* the one whose annotations are to be accepted
    stop,       \* a permanent failure stopped the admission
    exhausted,  \* batches given up
    \* bookkeeping of the model
    mine,       \* per runner, the batches its run had accepted
    refused,    \* the store refused a run something no other run explains
    faults

store == <<attempts, label>>
run == <<scope, queue, flight, done, accepting, stop, exhausted>>
vars == <<store, pc, run, mine, refused, faults>>

Requests == Batches \X (1..(MaxAttempts + Cardinality(Runners)))
NoRequest == <<0, 0>>

Statuses == {"started", "failed", "succeeded"}

TypeOK ==
    /\ attempts \in [Batches -> Seq(Statuses)]
    /\ label \in [Batches -> Nat]
    /\ \A b \in Batches : label[b] \in {Unlabelled} \cup DOMAIN attempts[b]
    /\ pc \in [Runners -> {"off", "planned", "admit", "collect", "accept"}]
    /\ scope \in [Runners -> SUBSET Batches]
    /\ queue \in [Runners -> Seq(Batches)]
    /\ flight \in [Runners -> SUBSET Requests]
    /\ done \in [Runners -> SUBSET Requests]
    /\ accepting \in [Runners -> Requests \cup {NoRequest}]
    /\ stop \in [Runners -> BOOLEAN]
    /\ exhausted \in [Runners -> 0..NumBatches]
    /\ mine \in [Runners -> SUBSET Batches]
    /\ \A r \in Runners :
          /\ queue[r] \in Seq(scope[r]) /\ mine[r] \subseteq scope[r]
          /\ done[r] \subseteq flight[r] /\ Cardinality(flight[r]) <= Workers
    /\ refused \in BOOLEAN /\ faults \in 0..MaxFaults

Idle(x) == [r \in Runners |-> x]

Init ==
    /\ attempts = [b \in Batches |-> <<>>] /\ label = [b \in Batches |-> Unlabelled]
    /\ pc = Idle("off") /\ scope = Idle({}) /\ queue = Idle(<<>>) /\ flight = Idle({})
    /\ done = Idle({}) /\ accepting = Idle(NoRequest) /\ stop = Idle(FALSE)
    /\ exhausted = Idle(0) /\ mine = Idle({}) /\ refused = FALSE /\ faults = 0

Refuse(sound) == refused' = (refused \/ ~sound)

------------------------------------------------------------------------------
(* The start of a run                                                           *)

Phase(name) == CASE name = "pilot" -> 1..PilotSize
                 [] name = "rest" -> (PilotSize + 1)..NumBatches
                 [] name = "all" -> Batches

\* Mutant: a batch that was answered is not pending.
Pending_Unanswered ==
    {b \in Batches : \A k \in DOMAIN attempts[b] : attempts[b][k] # "succeeded"}

Pending == {b \in Batches : label[b] = Unlabelled}

\* The batches of S in the order of the plan: the one ascending enumeration.
Planned(S) ==
    {order \in [1..Cardinality(S) -> S] :
        /\ {order[i] : i \in DOMAIN order} = S
        /\ \A i, j \in DOMAIN order : i < j => order[i] < order[j]}

\* A limit keeps the first batches of the phase.
Limited(S) == {S} \cup {{b \in S : b <= last} : last \in S}

Plan(r, S) ==
    /\ pc[r] = "off" /\ pc' = [pc EXCEPT ![r] = "planned"]
    /\ scope' = [scope EXCEPT ![r] = S]
    /\ \E order \in Planned(S) : queue' = [queue EXCEPT ![r] = order]
    /\ UNCHANGED <<store, flight, done, accepting, stop, exhausted, mine, refused, faults>>

PlanPhase(r, name) == \E S \in Limited(Phase(name) \cap Pending) : Plan(r, S)

\* Mutant: attempts that never got an outcome are not counted.
Tried_Finished(b) == Cardinality({k \in DOMAIN attempts[b] : attempts[b][k] # "started"})

\* Every attempt that was started counts.
Tried(b) == Len(attempts[b])

\* Batches without an attempt left are given up before the first request.
Enter(r) ==
    LET spent(b) == Tried(b) >= MaxAttempts
    IN /\ pc[r] = "planned"
       /\ \E order \in Planned({b \in scope[r] : ~spent(b)}) :
              queue' = [queue EXCEPT ![r] = order]
       /\ exhausted' = [exhausted EXCEPT ![r] = Cardinality({b \in scope[r] : spent(b)})]
       /\ pc' = [pc EXCEPT ![r] = "admit"]
       /\ UNCHANGED <<store, scope, flight, done, accepting, stop, mine, refused, faults>>

------------------------------------------------------------------------------
(* The loop of run_annotations                                                  *)

\* A run ends: what is left in flight ends unrecorded.
Leave(r) ==
    /\ pc' = [pc EXCEPT ![r] = "off"]
    /\ scope' = [scope EXCEPT ![r] = {}] /\ queue' = [queue EXCEPT ![r] = <<>>]
    /\ flight' = [flight EXCEPT ![r] = {}] /\ done' = [done EXCEPT ![r] = {}]
    /\ accepting' = [accepting EXCEPT ![r] = NoRequest]
    /\ stop' = [stop EXCEPT ![r] = FALSE] /\ exhausted' = [exhausted EXCEPT ![r] = 0]
    /\ mine' = [mine EXCEPT ![r] = {}]

Admissible(r) == queue[r] # <<>> /\ Cardinality(flight[r]) < Workers

\* Mutant: the number of an attempt that has no outcome yet is given again.
NextAttempt_Finished(b) == Tried_Finished(b) + 1

NextAttempt(b) == Len(attempts[b]) + 1

\* The attempt is durable before its request is sent.
Start(r) ==
    LET b == Head(queue[r])
    IN /\ pc[r] = "admit" /\ Admissible(r) /\ label[b] = Unlabelled
       /\ attempts' = [attempts EXCEPT ![b] = Append(@, "started")]
       /\ queue' = [queue EXCEPT ![r] = Tail(@)]
       /\ flight' = [flight EXCEPT ![r] = @ \cup {<<b, NextAttempt(b)>>}]
       /\ UNCHANGED <<label, pc, scope, done, accepting, stop, exhausted, mine, refused,
                      faults>>

\* start_attempt: another run had the batch accepted.
Overtaken(r) ==
    /\ pc[r] = "admit" /\ Admissible(r) /\ label[Head(queue[r])] # Unlabelled
    /\ Refuse(Head(queue[r]) \notin mine[r])
    /\ Leave(r)
    /\ UNCHANGED <<store, faults>>

\* The requests that ended by the time the loop looks; at least one.
Wait(r) ==
    /\ pc[r] = "admit" /\ ~Admissible(r)
    /\ \E S \in (SUBSET flight[r]) \ {{}} : done' = [done EXCEPT ![r] = S]
    /\ pc' = [pc EXCEPT ![r] = "collect"]
    /\ UNCHANGED <<store, scope, queue, flight, accepting, stop, exhausted, mine, refused,
                   faults>>

\* Mutant: a request stays in flight after it was collected.
Landed_Never(r, request) == flight[r]

Landed(r, request) == flight[r] \ {request}

\* The loop goes back to admission when it has collected all it found.
Onward(r, left) == pc' = [pc EXCEPT ![r] = IF left = {} THEN "admit" ELSE "collect"]

Collected(r, request) ==
    /\ pc[r] = "collect" /\ request \in done[r]
    /\ done' = [done EXCEPT ![r] = @ \ {request}]
    /\ flight' = [flight EXCEPT ![r] = Landed(r, request)]

\* finish_attempt: an attempt has one outcome.
Finish(request, status) ==
    LET b == request[1]
        k == request[2]
    IN /\ attempts' = [attempts EXCEPT ![b][k] = status]
       /\ Refuse(attempts[b][k] = "started")

\* A batch whose attempt failed is queued again, last.
Again(r, k) == k < MaxAttempts /\ ~stop[r]

\* A parse failure or a transient request failure.
FailRetryably(r, request) ==
    /\ Collected(r, request) /\ Finish(request, "failed") /\ Onward(r, done'[r])
    /\ IF Again(r, request[2])
       THEN /\ queue' = [queue EXCEPT ![r] = Append(@, request[1])]
            /\ UNCHANGED exhausted
       ELSE /\ exhausted' = [exhausted EXCEPT ![r] = @ + 1]
            /\ UNCHANGED queue
    /\ UNCHANGED <<label, scope, accepting, stop, mine, faults>>

\* Mutant: a permanent failure does not count as a batch given up.
GivenUp_None(r) == 0

GivenUp(r) == 1

\* A permanent failure: what is in flight is drained, the rest is dropped.
FailPermanently(r, request) ==
    /\ Collected(r, request) /\ Finish(request, "failed") /\ Onward(r, done'[r])
    /\ exhausted' = [exhausted EXCEPT ![r] = @ + GivenUp(r)]
    /\ stop' = [stop EXCEPT ![r] = TRUE]
    /\ queue' = [queue EXCEPT ![r] = <<>>]
    /\ UNCHANGED <<label, scope, accepting, mine, faults>>

Succeed(r, request) ==
    /\ Collected(r, request) /\ Finish(request, "succeeded")
    /\ accepting' = [accepting EXCEPT ![r] = request]
    /\ pc' = [pc EXCEPT ![r] = "accept"]
    /\ UNCHANGED <<label, scope, queue, stop, exhausted, mine, faults>>

\* Mutant: accepted annotations are replaced.
Free_Any(b) == TRUE

\* UNIQUE (cache_key)
Free(b) == label[b] = Unlabelled

\* Mutant: annotations are taken for the newest attempt's.
Answered_Latest(r) == Len(attempts[accepting[r][1]])

Answered(r) == accepting[r][2]

Accept(r) ==
    LET b == accepting[r][1]
    IN /\ pc[r] = "accept" /\ Free(b)
       /\ label' = [label EXCEPT ![b] = Answered(r)]
       /\ mine' = [mine EXCEPT ![r] = @ \cup {b}]
       /\ accepting' = [accepting EXCEPT ![r] = NoRequest]
       /\ Onward(r, done[r])
       /\ UNCHANGED <<attempts, scope, queue, flight, done, stop, exhausted, refused, faults>>

\* accept_annotations: another run was first.
Outrun(r) ==
    /\ pc[r] = "accept" /\ ~Free(accepting[r][1])
    /\ Refuse(accepting[r][1] \notin mine[r])
    /\ Leave(r)
    /\ UNCHANGED <<store, faults>>

Emptied(r) == pc[r] = "admit" /\ queue[r] = <<>> /\ flight[r] = {}

\* The report: a run without a batch given up was a success.
Success(r) == Emptied(r) /\ exhausted[r] = 0

Return(r) == Emptied(r) /\ Leave(r) /\ UNCHANGED <<store, refused, faults>>

Crash(r) ==
    /\ pc[r] # "off"
    /\ faults < MaxFaults /\ faults' = faults + 1
    /\ Leave(r)
    /\ UNCHANGED <<store, refused>>

------------------------------------------------------------------------------

Collect(r) ==
    \E request \in done[r] :
        FailRetryably(r, request) \/ FailPermanently(r, request) \/ Succeed(r, request)

Step(r) ==
    \/ Enter(r) \/ Start(r) \/ Overtaken(r) \/ Wait(r) \/ Collect(r)
    \/ Accept(r) \/ Outrun(r) \/ Return(r)

PlanRest == Pending # {} /\ \E r \in Runners : Plan(r, Pending)

Next == \E r \in Runners :
            \/ Step(r) \/ Crash(r)
            \/ \E name \in {"pilot", "rest", "all"} : PlanPhase(r, name)

Spec == Init /\ [][Next]_vars

\* Requests end, the runs go on with what they have to do, and among those that are
\* started while labels are missing some have no limit.
FairSpec ==
    Spec /\ SF_vars(PlanRest) /\ WF_vars(\E r \in Runners : Step(r))

------------------------------------------------------------------------------
(* Properties                                                                   *)

\* A run is refused an attempt or an acceptance only because another run was first,
\* and never an outcome.
RefusedOnlyWhenOvertaken == ~refused

\* Labels come from a finished successful attempt of the batch.
LabelsAreEarned ==
    \A b \in Batches : label[b] # Unlabelled => attempts[b][label[b]] = "succeeded"

\* Once accepted, labels are never replaced, and no further request is paid for but
\* those already made.
LabelsAreFinal ==
    [][\A b \in Batches : label[b] # Unlabelled =>
          label'[b] = label[b] /\ Len(attempts'[b]) = Len(attempts[b])]_vars

\* Whatever crashes, a batch is sent four times; each further run at the same time
\* may add one.
AttemptsBounded ==
    \A b \in Batches : Len(attempts[b]) <= MaxAttempts + Cardinality(Runners) - 1

\* An attempt is in the hands of one run, and no run has two for one batch.
OneRequestPerBatch ==
    \A r \in Runners :
        /\ \A x, y \in flight[r] : x[1] = y[1] => x = y
        /\ \A s \in Runners \ {r} : flight[r] \cap flight[s] = {}
        /\ \A x \in flight[r] : /\ attempts[x[1]][x[2]] = "started"
                                /\ \A i \in DOMAIN queue[r] : queue[r][i] # x[1]

\* A run that returns success labelled every batch of its scope.
SuccessIsComplete ==
    \A r \in Runners : Success(r) => \A b \in scope[r] : label[b] # Unlabelled

\* With several runs on one store and any crash, attempts are bounded and owned,
\* labels are earned, and success means that the scope is labelled.
AnnotationIsSound ==
    /\ TypeOK
    /\ RefusedOnlyWhenOvertaken
    /\ LabelsAreEarned
    /\ AttemptsBounded
    /\ OneRequestPerBatch
    /\ SuccessIsComplete

\* Every batch is labelled in the end or has spent its attempts.
EveryBatchSettles ==
    <>[](\A b \in Batches : label[b] # Unlabelled \/ Len(attempts[b]) >= MaxAttempts)
=============================================================================
