--------------------------- MODULE RequestDispatch ---------------------------
(* scripts/baseline_adapters/shared/transport.py: one event loop on a thread of  *)
(* its own that sends every model request of a run.                              *)
(*                                                                               *)
(* Callers submit from other threads or loops; what they post runs on the loop   *)
(* in the order posted.  A pump admits queued requests, one group after another, *)
(* under the in-flight cap and the pacing of starts; each admitted request is a  *)
(* task that passes the pre-send hook, where its start is recorded durably, and  *)
(* the header hook before anything reaches the wire.  A request can be cancelled *)
(* queued, before its task has entered, or on the wire; the run's stop event can *)
(* be set by anyone at any moment; closing drains what was accepted.             *)
EXTENDS Integers, Sequences, FiniteSets

CONSTANTS Requests,     \* request identities
          Groups,       \* group identities
          GroupOf,      \* the group of a request
          Delayed,      \* requests with attempt_no > 1: they wait retry_delay
          Cap,          \* min(request_limit, http_connections)
          MaxTroubles   \* bound: stops from outside, callers cancelled while they
                        \* wait, redirects, failing durable callbacks

ASSUME RequestAssumption == IsFiniteSet(Requests)
ASSUME GroupAssumption == GroupOf \in [Requests -> Groups] /\ Delayed \subseteq Requests
ASSUME CapAssumption == Cap \in Nat \ {0}
ASSUME BoundAssumption == MaxTroubles \in Nat

VARIABLES
    \* shared with the callers
    stop,        \* the run's stop event
    closed,      \* close() was called: nothing is accepted any more
    inbox,       \* call_soon_threadsafe callbacks not run yet, oldest first
    \* the loop
    stage,       \* per request, where it is
    eligible,    \* per request, its retry delay has passed
    cancelling,  \* per request, its task was cancelled and has not noticed
    queues,      \* per group, the requests queued
    rotation,    \* the groups with a queue, in turn
    pump,        \* what the pump does next
    paced,       \* the next start has to wait for its turn
    active,      \* the in-flight counter
    client,      \* the HTTP client of the run
    drain,       \* the drain coroutine of close
    \* the waiting side
    asked,       \* per request, its waiting caller was cancelled
    result,      \* per request, what its caller gets: an answer or an
                 \* error of its own, or that it was stopped
    \* bookkeeping of the model
    recorded,    \* per request, calls of on_started
    settles,     \* per request, how often its result was set
    passed,      \* per group, the groups admitted while it waited
    troubles

control == <<stop, closed, inbox>>
loop == <<eligible, queues, rotation, pump, paced, client, drain>>
core == <<control, loop, stage, cancelling, active, asked, result, recorded,
          settles, troubles>>
vars == <<core, passed>>

InFlight == {"prep", "sent", "wire"}
Outstanding == {"posted", "queued", "created"} \cup InFlight
Stages == {"new", "settled"} \cup Outstanding

\* The set _work of the code: enqueued and not settled.
Work == {r \in Requests : stage[r] \in {"queued", "created"} \cup InFlight}

Callbacks == [kind : {"enqueue", "cancel"}, of : Requests]
             \cup [kind : {"apply", "drain"}]

TypeOK ==
    /\ stop \in BOOLEAN /\ closed \in BOOLEAN
    /\ inbox \in Seq(Callbacks)
    /\ stage \in [Requests -> Stages]
    /\ eligible \in [Requests -> BOOLEAN]
    /\ cancelling \in [Requests -> BOOLEAN]
    /\ queues \in [Groups -> Seq(Requests)]
    /\ rotation \in Seq(Groups)
    /\ pump \in {"run", "await", "gone"}
    /\ paced \in BOOLEAN
    /\ active \in 0..Cardinality(Requests)
    /\ client \in {"none", "open", "closed"}
    /\ drain \in {"none", "posted", "waiting", "done"}
    /\ asked \in [Requests -> BOOLEAN]
    /\ result \in [Requests -> {"none", "answered", "stopped"}]
    /\ recorded \in [Requests -> 0..(MaxTroubles + 1)]
    /\ settles \in [Requests -> 0..2]
    /\ passed \in [Groups -> SUBSET Groups]
    /\ troubles \in 0..MaxTroubles

Init ==
    /\ stop = FALSE /\ closed = FALSE /\ inbox = <<>>
    /\ stage = [r \in Requests |-> "new"]
    /\ eligible = [r \in Requests |-> FALSE]
    /\ cancelling = [r \in Requests |-> FALSE]
    /\ queues = [g \in Groups |-> <<>>]
    /\ rotation = <<>>
    /\ pump = "run" /\ paced = FALSE /\ active = 0
    /\ client = "none" /\ drain = "none"
    /\ asked = [r \in Requests |-> FALSE]
    /\ result = [r \in Requests |-> "none"]
    /\ recorded = [r \in Requests |-> 0]
    /\ settles = [r \in Requests |-> 0]
    /\ passed = [g \in Groups |-> {}]
    /\ troubles = 0

Trouble == troubles < MaxTroubles /\ troubles' = troubles + 1

------------------------------------------------------------------------------
(* The callers: call_chat, stop, close, make_client.                            *)

Post(message) == inbox' = Append(inbox, message)

\* stop(cancel_active=TRUE): the event first, then a callback unless already
\* closed.  Without cancel_active the callback only wakes the pump.
StopAll ==
    /\ stop' = TRUE
    /\ IF closed THEN UNCHANGED inbox ELSE Post([kind |-> "apply"])

\* Mutant: the acceptance test is dropped.
Admissible_Always == TRUE

Admissible == ~closed /\ ~stop

\* The test and the post are one critical section of _lock; when the test fails
\* the caller gets the error and nothing has changed.
Submit(r) ==
    /\ stage[r] = "new" /\ client # "none"
    /\ Admissible
    /\ stage' = [stage EXCEPT ![r] = "posted"]
    /\ Post([kind |-> "enqueue", of |-> r])
    /\ UNCHANGED <<stop, closed, loop, cancelling, active, asked, result, recorded,
                   settles, troubles>>

\* The coroutine that waits is cancelled: it asks the loop to cancel the request
\* and goes on waiting, shielded, until the result is there.
CancelCall(r) ==
    /\ stage[r] \in Outstanding /\ ~asked[r]
    /\ Trouble
    /\ asked' = [asked EXCEPT ![r] = TRUE]
    /\ Post([kind |-> "cancel", of |-> r])
    /\ UNCHANGED <<stop, closed, loop, stage, cancelling, active, result,
                   recorded, settles>>

\* A caller with its result returns, unless on_finished cannot record the end:
\* then everything is stopped.
FinishFails(r) ==
    /\ stage[r] = "settled"
    /\ Trouble
    /\ StopAll
    /\ UNCHANGED <<closed, loop, stage, cancelling, active, asked, result, recorded,
                   settles>>

Stop ==
    /\ Trouble
    /\ StopAll \/ (stop' = TRUE /\ UNCHANGED inbox)
    /\ UNCHANGED <<closed, loop, stage, cancelling, active, asked, result,
                   recorded, settles>>

\* The run's client is made on the loop before the first request; a type it does
\* not know, or a failure, stops the run.
MakeClient ==
    /\ client = "none" /\ ~closed
    /\ \/ client' = "open" /\ UNCHANGED stop
       \/ client' = "closed" /\ stop' = TRUE
    /\ UNCHANGED <<closed, inbox, eligible, queues, rotation, pump, paced, drain,
                   stage, cancelling, active, asked, result, recorded, settles, troubles>>

Close ==
    /\ ~closed
    /\ closed' = TRUE
    /\ drain' = "posted"
    /\ Post([kind |-> "drain"])
    /\ UNCHANGED <<stop, eligible, queues, rotation, pump, paced, client, stage,
                   cancelling, active, asked, result, recorded, settles, troubles>>

------------------------------------------------------------------------------
(* Callbacks on the loop.                                                        *)

\* The ways to list the numbers in K in ascending order: there is one.
Ascending(K) ==
    {e \in [1..Cardinality(K) -> K] :
        /\ \A i, j \in DOMAIN e : i < j => e[i] < e[j]
        /\ \A k \in K : \E i \in DOMAIN e : e[i] = k}

\* The sequence q without the members of R, in the order of q.
Without(q, R) ==
    LET kept == {i \in DOMAIN q : q[i] \notin R}
        e == CHOOSE e \in Ascending(kept) : TRUE
    IN [i \in 1..Cardinality(kept) |-> q[e[i]]]

\* Requests leave the queues, and a group without requests leaves the rotation.
Dequeued(R) ==
    /\ queues' = [g \in Groups |-> Without(queues[g], R)]
    /\ rotation' = Without(rotation, {g \in Groups : queues'[g] = <<>>})

\* Results are set; asking twice is an error the code must never make.
SetResults(R, value) ==
    /\ result' = [r \in Requests |-> IF r \in R THEN value ELSE result[r]]
    /\ settles' = [r \in Requests |-> IF r \in R THEN settles[r] + 1 ELSE settles[r]]

\* Mutant: a cancelled request is rejected even when its task is running.
Rejectable_Created(R) == {r \in R : stage[r] \in {"queued", "created"}}

\* _cancel takes a request out of the queue, or cancels its task once.
Rejectable(R) == {r \in R : stage[r] = "queued"}

Cancel(R) ==
    LET rejected == Rejectable(R)
    IN /\ cancelling' = [r \in Requests |->
            cancelling[r] \/ (r \in R /\ stage[r] \in {"created"} \cup InFlight)]
       /\ stage' = [r \in Requests |->
            IF r \in rejected /\ stage[r] = "queued" THEN "settled" ELSE stage[r]]
       /\ Dequeued(rejected)
       /\ SetResults(rejected, "stopped")

Enqueue(r) ==
    /\ stage' = [stage EXCEPT ![r] = "queued"]
    /\ eligible' = [eligible EXCEPT ![r] = r \notin Delayed]
    /\ queues' = [queues EXCEPT ![GroupOf[r]] = Append(@, r)]
    /\ rotation' = IF queues[GroupOf[r]] = <<>> THEN Append(rotation, GroupOf[r])
                                                ELSE rotation

RunCallback ==
    /\ inbox # <<>> /\ drain # "done"
    /\ inbox' = Tail(inbox)
    /\ LET message == Head(inbox)
       IN \/ /\ message.kind = "enqueue"
             /\ Enqueue(message.of)
             /\ UNCHANGED <<cancelling, result, settles, client, drain>>
          \/ /\ message.kind = "cancel"
             /\ Cancel({message.of} \cap Work)
             /\ UNCHANGED <<eligible, client, drain>>
          \/ /\ message.kind = "apply"
             /\ Cancel(Work)
             /\ UNCHANGED <<eligible, client, drain>>
          \/ /\ message.kind = "drain"
             /\ drain' = "waiting"
             /\ UNCHANGED <<eligible, queues, rotation, stage, cancelling, result,
                            settles, client>>
    /\ UNCHANGED <<stop, closed, pump, paced, active, asked, recorded, troubles>>

\* Mutant: close waits for the requests in flight, not for the queued ones.
Drained_InFlight == \A r \in Requests : stage[r] \notin {"created"} \cup InFlight

Drained == Work = {}

DrainDone ==
    /\ drain = "waiting" /\ Drained
    /\ drain' = "done"
    /\ pump' = "gone"
    /\ client' = IF client = "open" THEN "closed" ELSE client
    /\ UNCHANGED <<control, eligible, queues, rotation, paced, stage, cancelling,
                   active, asked, result, recorded, settles, troubles>>

------------------------------------------------------------------------------
(* The pump.                                                                     *)

Ready(g) == \E i \in DOMAIN queues[g] : eligible[queues[g][i]]

\* The first group in turn with a request that may start.
Turn == {i \in DOMAIN rotation :
            Ready(rotation[i]) /\ \A j \in 1..(i - 1) : ~Ready(rotation[j])}

Candidate(g) ==
    LET q == queues[g]
        i == CHOOSE i \in DOMAIN q :
                eligible[q[i]] /\ \A j \in 1..(i - 1) : ~eligible[q[j]]
    IN q[i]

\* Mutant: a group that was served keeps its turn.
Rotated_Sticky(i, left) ==
    IF left = <<>> THEN SubSeq(rotation, i + 1, Len(rotation)) \o SubSeq(rotation, 1, i - 1)
                   ELSE SubSeq(rotation, i, Len(rotation)) \o SubSeq(rotation, 1, i - 1)

\* The groups passed over go behind; the served one last, if it has more.
Rotated(i, left) ==
    SubSeq(rotation, i + 1, Len(rotation)) \o SubSeq(rotation, 1, i - 1)
    \o (IF left = <<>> THEN <<>> ELSE <<rotation[i]>>)

\* Mutant: the cap is not tested before a start.
Room_Always == TRUE

Room == active < Cap

\* With the stop event set everything queued is rejected; else the next request
\* in turn is started, unless the pace makes it wait, and the pump waits for its
\* task to enter.  (A stop set inside an iteration is met by Enter.)
PumpRejects ==
    /\ pump = "run" /\ stop /\ rotation # <<>>
    /\ LET R == {r \in Requests : stage[r] = "queued"}
       IN /\ stage' = [r \in Requests |-> IF r \in R THEN "settled" ELSE stage[r]]
          /\ Dequeued(R)
          /\ SetResults(R, "stopped")
    /\ UNCHANGED <<control, eligible, pump, paced, client, drain, cancelling, active,
                   asked, recorded, troubles>>

PumpStarts ==
    /\ pump = "run" /\ ~stop /\ Room
    /\ \E i \in Turn :
        LET g == rotation[i]
            r == Candidate(g)
            left == Without(queues[g], {r})
        IN IF paced
           THEN /\ rotation' = SubSeq(rotation, i, Len(rotation))
                               \o SubSeq(rotation, 1, i - 1)
                /\ queues' = [queues EXCEPT ![g] = <<r>> \o left]
                /\ UNCHANGED <<pump, stage>>
           ELSE /\ pump' = "await"
                /\ rotation' = Rotated(i, left)
                /\ queues' = [queues EXCEPT ![g] = left]
                /\ stage' = [stage EXCEPT ![r] = "created"]
    /\ UNCHANGED <<control, eligible, paced, client, drain, cancelling, active,
                   asked, result, recorded, settles, troubles>>

\* Time passes: the retry delay of a request, the interval between two starts.
BackoffElapses(r) ==
    /\ stage[r] = "queued" /\ ~eligible[r]
    /\ eligible' = [eligible EXCEPT ![r] = TRUE]
    /\ UNCHANGED <<control, queues, rotation, pump, paced, client, drain, stage,
                   cancelling, active, asked, result, recorded, settles, troubles>>

PaceElapses ==
    /\ paced
    /\ paced' = FALSE
    /\ UNCHANGED <<control, eligible, queues, rotation, pump, client, drain, stage,
                   cancelling, active, asked, result, recorded, settles, troubles>>

Pump == PumpRejects \/ PumpStarts \/ PaceElapses \/ \E r \in Requests : BackoffElapses(r)

------------------------------------------------------------------------------
(* The task of a request.                                                        *)

TaskFrame == UNCHANGED <<closed, inbox, eligible, queues, rotation, client, drain, asked>>

\* It ends: the permit is returned and the result set, whatever happened.
Leave(r, value) ==
    /\ stage' = [stage EXCEPT ![r] = "settled"]
    /\ active' = active - 1
    /\ SetResults({r}, value)

\* The task runs for the first time.  Cancelled before that it never enters its
\* own clean-up, and the done callback rejects the request in its place.
Enter(r) ==
    /\ stage[r] = "created"
    /\ pump' = "run"
    /\ IF cancelling[r] \/ stop
       THEN /\ stage' = [stage EXCEPT ![r] = "settled"]
            /\ SetResults({r}, "stopped")
            /\ UNCHANGED <<active, paced>>
       ELSE /\ stage' = [stage EXCEPT ![r] = "prep"]
            /\ active' = active + 1
            /\ paced' = TRUE
            /\ UNCHANGED <<result, settles>>
    /\ TaskFrame /\ UNCHANGED <<stop, cancelling, recorded, troubles>>

Running(r, where) == stage[r] = where /\ ~cancelling[r]

\* Mutant: the hook records a start on every hop of a redirected request.
MustRecord_EveryHop(r) == TRUE

MustRecord(r) == recorded[r] = 0

\* _before_http_send: the stop event, then the durable record of the start.  A
\* failure of the record is fatal to the run.
BeforeSend(r) ==
    /\ Running(r, "prep")
    /\ \/ /\ stop
          /\ Leave(r, "stopped")
          /\ UNCHANGED <<stop, recorded, troubles>>
       \/ /\ ~stop
          /\ recorded' = [recorded EXCEPT ![r] = IF MustRecord(r) THEN @ + 1 ELSE @]
          /\ stage' = [stage EXCEPT ![r] = "sent"]
          /\ UNCHANGED <<stop, active, result, settles, troubles>>
       \/ /\ ~stop /\ MustRecord(r)
          /\ Trouble
          /\ Leave(r, "answered")
          /\ stop' = TRUE
          /\ UNCHANGED recorded
    /\ TaskFrame /\ UNCHANGED <<pump, paced, cancelling>>

\* The header hook looks at the stop event once more.
WireStart(r) ==
    /\ Running(r, "sent")
    /\ IF stop
       THEN Leave(r, "stopped")
       ELSE /\ stage' = [stage EXCEPT ![r] = "wire"]
            /\ UNCHANGED <<active, result, settles>>
    /\ TaskFrame /\ UNCHANGED <<stop, pump, paced, cancelling, recorded, troubles>>

\* A redirect makes another HTTP request under the same admission.
Redirect(r) ==
    /\ Running(r, "wire") /\ Trouble
    /\ stage' = [stage EXCEPT ![r] = "prep"]
    /\ TaskFrame /\ UNCHANGED <<stop, pump, paced, cancelling, active, result,
                                recorded, settles>>

\* An answer, an error or the deadline; an error may be fatal by policy.
Respond(r) ==
    /\ \E where \in InFlight : Running(r, where)
    /\ Leave(r, "answered")
    /\ stop' \in {stop, TRUE}
    /\ TaskFrame /\ UNCHANGED <<pump, paced, cancelling, recorded, troubles>>

CancelLands(r) ==
    /\ cancelling[r] /\ stage[r] \in InFlight
    /\ Leave(r, "stopped")
    /\ TaskFrame /\ UNCHANGED <<stop, pump, paced, cancelling, recorded, troubles>>

Task(r) == \/ Enter(r) \/ BeforeSend(r) \/ WireStart(r) \/ Redirect(r)
           \/ Respond(r) \/ CancelLands(r)

------------------------------------------------------------------------------
\* What the machine does by itself: callbacks, the pump, tasks and time.
Progress == \/ RunCallback \/ DrainDone \/ Pump
            \/ \E r \in Requests : Task(r)

Environment == \/ \E r \in Requests : Submit(r) \/ CancelCall(r) \/ FinishFails(r)
               \/ Stop
               \/ MakeClient
               \/ Close

\* A group is served when the pump creates the task of one of its requests.
Served(g) == \E r \in Requests :
                GroupOf[r] = g /\ stage[r] = "queued" /\ stage'[r] = "created"

\* Who was served since the group last was, or last had nothing ready.
Passing ==
    passed' = [h \in Groups |->
        IF Ready(h) /\ Ready(h)' /\ ~Served(h)
        THEN passed[h] \cup {g \in Groups : Served(g)}
        ELSE {}]

Next == (Progress \/ Environment) /\ Passing

Spec == Init /\ [][Next]_vars

\* The loop thread runs, time passes, HTTP ends by its deadline.  One condition
\* is enough: every such step brings some request or the drain nearer to its end,
\* so none can be put off for ever.
FairSpec == Spec /\ WF_vars(Progress /\ Passing)

------------------------------------------------------------------------------
(* Properties.                                                                   *)

\* A request gets exactly one result: _cancel, the pump's rejection, the clean-up
\* of _execute and the done callback never both set it, although the set of the
\* second would raise on the loop and leave a caller or the drain waiting.
SettledOnce ==
    \A r \in Requests : /\ settles[r] <= 1
                        /\ settles[r] = 1 <=> stage[r] = "settled"
                        /\ settles[r] = 1 <=> result[r] # "none"

\* The in-flight counter is the number of tasks between entry and clean-up, on
\* every path of cancellation, rejection and failure, and never exceeds the cap.
PermitsAreReturned ==
    /\ active = Cardinality({r \in Requests : stage[r] \in InFlight})
    /\ active <= Cap

\* A start is recorded durably before anything is sent for a request, and once
\* however many HTTP requests a redirect makes of it: a budget counts records.
RecordedOnceBeforeSend ==
    \A r \in Requests : /\ recorded[r] <= 1
                        /\ stage[r] \in {"sent", "wire"} => recorded[r] = 1

\* When close has drained, every accepted request has its result, no callback
\* with a request is left on the dead loop, and the client is closed.
DrainLosesNothing ==
    drain = "done" =>
        /\ \A r \in Requests : stage[r] \in {"new", "settled"}
        /\ client \in {"none", "closed"}
        /\ \A i \in DOMAIN inbox : inbox[i].kind = "cancel"

\* Through cancellations, stops, faults and closing, each request has one start,
\* one result and one permit, given back.
RequestsAreAccounted ==
    /\ TypeOK
    /\ SettledOnce
    /\ PermitsAreReturned
    /\ RecordedOnceBeforeSend
    /\ DrainLosesNothing

\* No group starts two requests while another has one ready to start all along:
\* neither a large group nor one whose retries wait holds up the others.
TurnsAlternate ==
    [][\A g, h \in Groups : Served(g) /\ g # h /\ Ready(h) => g \notin passed[h]]_vars

Port == INSTANCE RequestPort WITH
    phase <- [r \in Requests |->
                 IF stage[r] \in {"posted", "queued", "created"} THEN "accepted"
                 ELSE IF stage[r] \in InFlight THEN "admitted" ELSE stage[r]],
    stopped <- stop,
    port <- IF drain = "done" THEN "shut" ELSE IF closed THEN "closing" ELSE "open"

\* The event loop with its queues, tasks and callbacks is an implementation of
\* the port its callers rely on, liveness included.
ImplementsPort == Port!Spec
=============================================================================
