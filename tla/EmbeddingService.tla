-------------------------- MODULE EmbeddingService --------------------------
(* scripts/baseline_adapters/deepeye/embedding_service.py over the vector cache   *)
(* of precompute_cache.py: callers of embed() share the requests for the texts    *)
(* they have in common, a scheduler thread admits batches under a limit and a     *)
(* rolling token budget, requests are retried through the queue, and every vector *)
(* answered is in a durable cache before its caller is woken.  map() runs calls   *)
(* in a pool of its own, in order.                                               *)
(*                                                                               *)
(* One service is open at a time.  Time is kept only as far as the budget needs   *)
(* it: the window is Window ticks long.  The pacing within a second, a finite     *)
(* wait between two requests, is left out, and so are the vectors themselves and  *)
(* the empty text, which is sent alone.                                          *)
EXTENDS Integers, FiniteSets, Sequences, SequencesExt

CONSTANTS Texts,          \* the distinct texts
          Tokens,         \* text -> estimated tokens
          Direct,         \* threads that call embed() by themselves
          Mapped,         \* the calls of one map(), in order
          Want,           \* call -> the texts it asks for, without repetition
          BatchSize,      \* limits.batch_size
          Target,         \* what a batch may add up to
          Cap,            \* requests in flight
          MapWorkers,     \* calls of a map() in flight
          Budget,         \* tokens per window, as configured
          TightBudget,    \* and after the provider asked for less
          Window,         \* ticks in the window: the code's 60 s
          Counts,         \* what a provider may count an answer as
          MaxTries,       \* limits.max_attempts
          MaxFaults,      \* bound: deaths, failed log writes, throttles
          MaxOpens        \* bound: services opened on the cache

Calls == Direct \cup Range(Mapped)

ASSUME TextsAssumption == /\ Tokens \in [Texts -> Nat \ {0}]
                          /\ Mapped \in Seq(Range(Mapped))
                          /\ Want \in [Calls -> Seq(Texts)]
                          /\ \A c \in Calls : IsInjective(Want[c])
ASSUME LimitsAssumption == /\ {BatchSize, Target, Cap, MapWorkers, Window, MaxTries,
                               TightBudget, Budget} \subseteq Nat \ {0}
                           /\ TightBudget <= Budget /\ Target <= Budget
                           /\ Counts \subseteq Nat
ASSUME OpensAssumption == MaxFaults \in Nat /\ MaxOpens \in Nat

VARIABLES cache,        \* durable: the texts whose vectors are stored
          open,         \* "closed", "up", or "closing"
          call,         \* per call: where it is, the futures it waits for
          queue,        \* batches waiting for admission
          active,       \* batches given to the request pool
          window,       \* tokens charged, by the ticks since the admission
          admitted,     \* history: the same by the rule of BudgetIsKept
          tight,        \* the budget is reduced
          map,          \* the map(): position of the next yield and submission
          faults, opens

serviceVars == <<cache, open, call, queue, active, window, admitted, tight, map, faults, opens>>

\* A batch: its texts, the attempt it is in, the ticks it backs off; once
\* active, the ticks since its admission and whether its vectors are stored.
Batches == [texts : Seq(Texts), attempt : 0..MaxTries, due : 0..1, age : 0..Window,
            answer : {"none", "sent", "stored"}]

NoCall == [pc |-> "idle", waits |-> {}, failed |-> FALSE]

ServiceTypeOK ==
    /\ cache \subseteq Texts
    /\ open \in {"closed", "up", "closing"}
    /\ call \in [Calls -> [pc : {"idle", "submitted", "waiting", "ok", "error", "cancelled"},
                           waits : SUBSET Texts, failed : BOOLEAN]]
    /\ queue \in Seq(Batches)
    /\ \A b \in active : b \in Batches
    /\ {window, admitted} \subseteq [0..(Window - 1) -> Nat]
    /\ tight \in BOOLEAN
    /\ map \in [pc : {"idle", "run", "unwind"}, yielded : Nat, submitted : Nat]
    /\ faults \in 0..MaxFaults /\ opens \in 0..MaxOpens

NoCharge == [age \in 0..(Window - 1) |-> 0]

NoMap == [pc |-> "idle", yielded |-> 0, submitted |-> 0]

\* The cache is whatever earlier services left.
ServiceInit ==
    /\ cache \in SUBSET Texts
    /\ open = "closed"
    /\ call = [c \in Calls |-> NoCall]
    /\ queue = <<>> /\ active = {}
    /\ window = NoCharge /\ admitted = NoCharge
    /\ tight = FALSE
    /\ map = NoMap
    /\ faults = 0 /\ opens = 0

------------------------------------------------------------------------------
(* Batches                                                                      *)

TextsOf(b) == Range(b.texts)

\* What a sequence of numbers adds up to.
Total(s) == LET sum[k \in 0..Len(s)] == IF k = 0 THEN 0 ELSE sum[k - 1] + s[k]
            IN sum[Len(s)]

Size(texts) == Total([k \in 1..Len(texts) |-> Tokens[texts[k]]])

\* _pending: the texts some batch will answer for.
Pending == UNION {TextsOf(b) : b \in Range(queue) \cup active}

NewBatch(texts) == [texts |-> texts, attempt |-> 0, due |-> 0, age |-> 0, answer |-> "none"]

\* Texts are put in the batch being filled until it is full.
Pack(acc, t) ==
    IF acc.part # <<>> /\ (Len(acc.part) = BatchSize \/ Size(acc.part) + Tokens[t] > Target)
    THEN [out |-> Append(acc.out, NewBatch(acc.part)), part |-> <<t>>]
    ELSE [acc EXCEPT !.part = Append(@, t)]

\* The texts that are owned, in the order they were asked for.
Packed(texts, owned) ==
    LET acc[k \in 0..Len(texts)] ==
            IF k = 0 THEN [out |-> <<>>, part |-> <<>>]
            ELSE IF texts[k] \in owned THEN Pack(acc[k - 1], texts[k]) ELSE acc[k - 1]
        end == acc[Len(texts)]
    IN IF end.part = <<>> THEN end.out ELSE Append(end.out, NewBatch(end.part))

\* A call returns when every future it waits for is done, the failed ones too.
Waiting(missing, failed) ==
    IF missing # {} THEN [pc |-> "waiting", waits |-> missing, failed |-> failed]
    ELSE [NoCall EXCEPT !.pc = IF failed THEN "error" ELSE "ok"]

\* The waiters of these texts get the vectors, or the error, of their batch.
Answered(texts, error) ==
    call' = [c \in Calls |-> IF call[c].waits \cap texts = {} THEN call[c]
                            ELSE Waiting(call[c].waits \ texts, call[c].failed \/ error)]

------------------------------------------------------------------------------
(* embed()                                                                      *)

Enter(c) == \/ c \in Direct /\ call[c].pc \in {"idle", "ok", "error"} /\ open # "closed"
            \/ c \in Range(Mapped) /\ call[c].pc = "submitted"

\* Mutant: texts already asked for are asked for again.
Owned_Pending(c) == Range(Want[c]) \ cache

\* What nobody has asked for yet.
Owned(c) == Range(Want[c]) \ (cache \cup Pending)

\* Under the lock: the cache and what is pending are read, and what is missing is
\* queued.
Embed(c) ==
    /\ Enter(c) /\ open = "up"
    /\ call' = [call EXCEPT ![c] = Waiting(Range(Want[c]) \ cache, FALSE)]
    /\ queue' = queue \o Packed(Want[c], Owned(c))
    /\ UNCHANGED <<cache, open, active, window, admitted, tight, map, faults, opens>>

EmbedRefused(c) ==
    /\ Enter(c) /\ open = "closing"
    /\ call[c].pc # "error"
    /\ call' = [call EXCEPT ![c] = [NoCall EXCEPT !.pc = "error"]]
    /\ UNCHANGED <<cache, open, queue, active, window, admitted, tight, map, faults, opens>>

\* The event cannot be written: the call fails before it queues anything, and
\* the service closes.
EmbedLogFails(c) ==
    /\ Enter(c) /\ open = "up" /\ faults < MaxFaults
    /\ faults' = faults + 1
    /\ open' = "closing"
    /\ call' = [call EXCEPT ![c] = [NoCall EXCEPT !.pc = "error"]]
    /\ UNCHANGED <<cache, queue, active, window, admitted, tight, map, opens>>

------------------------------------------------------------------------------
(* map(): a window of submissions, yielded in order.                            *)

StartMap ==
    /\ map.pc = "idle" /\ open = "up" /\ Mapped # <<>>
    /\ map' = [NoMap EXCEPT !.pc = "run"]
    /\ UNCHANGED <<cache, open, call, queue, active, window, admitted, tight, faults, opens>>

\* A submission to a service that closes raises out of the loop.
MapSubmit ==
    /\ map.pc = "run"
    /\ map.submitted < Len(Mapped)
    /\ map.submitted - map.yielded < MapWorkers
    /\ IF open = "up"
       THEN /\ map' = [map EXCEPT !.submitted = @ + 1]
            /\ call' = [call EXCEPT ![Mapped[map.submitted + 1]] = [NoCall EXCEPT !.pc = "submitted"]]
       ELSE map' = [map EXCEPT !.pc = "unwind"] /\ UNCHANGED call
    /\ UNCHANGED <<cache, open, queue, active, window, admitted, tight, faults, opens>>

MapYield ==
    /\ map.pc = "run"
    /\ map.yielded < map.submitted
    /\ LET pc == call[Mapped[map.yielded + 1]].pc
       IN \/ pc = "ok" /\ map' = [map EXCEPT !.yielded = @ + 1]
          \/ pc \in {"error", "cancelled"} /\ map' = [map EXCEPT !.pc = "unwind"]
    /\ UNCHANGED <<cache, open, call, queue, active, window, admitted, tight, faults, opens>>

InMap == {Mapped[k] : k \in (map.yielded + 1)..map.submitted}

Unstarted == {c \in InMap : call[c].pc = "submitted"}

Cancelled(S) == [c \in Calls |-> IF c \in S THEN [NoCall EXCEPT !.pc = "cancelled"] ELSE call[c]]

\* What has not started is cancelled; what has is waited for.
MapUnwind ==
    /\ map.pc = "unwind" /\ Unstarted # {}
    /\ call' = Cancelled(Unstarted)
    /\ UNCHANGED <<cache, open, queue, active, window, admitted, tight, map, faults, opens>>

MapEnd ==
    /\ \/ map.pc = "run" /\ map.yielded = Len(Mapped)
       \/ map.pc = "unwind" /\ \A c \in InMap : call[c].pc \notin {"submitted", "waiting"}
    /\ map' = NoMap
    /\ call' = [c \in Calls |-> IF c \in Range(Mapped) THEN NoCall ELSE call[c]]
    /\ UNCHANGED <<cache, open, queue, active, window, admitted, tight, faults, opens>>

------------------------------------------------------------------------------
(* Admission                                                                    *)

Limit == IF tight THEN TightBudget ELSE Budget

Used == Total([k \in 1..Window |-> window[k - 1]])

Unsplittable(b) == Size(b.texts) > Limit

\* Mutant: an unsplittable batch passes the budget.
Fits_Unsplittable(b) == Unsplittable(b) \/ Used + Size(b.texts) <= Limit

\* It fits the window, or needs it for itself.
Fits(b) == IF Unsplittable(b) THEN Used = 0 ELSE Used + Size(b.texts) <= Limit

Ready(k) == queue[k].due = 0 /\ Fits(queue[k])

Barriers == {k \in DOMAIN queue : queue[k].due = 0 /\ Unsplittable(queue[k])}

\* Mutant: whatever is ready first.
Candidates_All == DOMAIN queue

\* Nothing behind the first due unsplittable batch is admitted before it.
Candidates == {k \in DOMAIN queue : \A j \in Barriers : k <= j}

Admissible(k) == k \in Candidates /\ Ready(k)

Dispatch ==
    /\ open = "up" /\ Cardinality(active) < Cap
    /\ \E k \in DOMAIN queue :
          /\ Admissible(k) /\ \A j \in 1..(k - 1) : ~Admissible(j)
          /\ active' = active \cup {[queue[k] EXCEPT !.attempt = @ + 1, !.answer = "sent"]}
          /\ queue' = RemoveAt(queue, k)
          /\ window' = [window EXCEPT ![0] = @ + Size(queue[k].texts)]
          /\ admitted' = [admitted EXCEPT ![0] = @ + Size(queue[k].texts)]
    /\ UNCHANGED <<cache, open, call, tight, map, faults, opens>>

\* Mutant: a charge that left the window is corrected on those still in it.
Calibrated_Expired(b, n) ==
    LET age == IF b.age = Window THEN 0 ELSE b.age
        rest == window[age] + n - Size(b.texts)
    IN [window EXCEPT ![age] = IF rest < 0 THEN 0 ELSE rest]

\* A charge that is still in the window becomes what the provider counted.
Calibrated(b, n) ==
    IF b.age = Window THEN window ELSE [window EXCEPT ![b.age] = @ - Size(b.texts) + n]

\* The history takes the lower of the estimate and the count.
Readmitted(b, n) ==
    IF b.age = Window \/ n > Size(b.texts) THEN admitted
    ELSE [admitted EXCEPT ![b.age] = @ - Size(b.texts) + n]

\* The request pool has no thread to give: nothing was sent and nothing is charged.
DispatchFails ==
    /\ open = "up" /\ Cardinality(active) < Cap /\ faults < MaxFaults
    /\ faults' = faults + 1
    /\ \E k \in DOMAIN queue :
          /\ Admissible(k) /\ \A j \in 1..(k - 1) : ~Admissible(j)
          /\ queue' = RemoveAt(queue, k)
          /\ Answered(TextsOf(queue[k]), TRUE)
    /\ UNCHANGED <<cache, open, active, window, admitted, tight, map, opens>>

------------------------------------------------------------------------------
(* _perform(): the request and the cache outside the lock, the rest inside.      *)

Stored(b) == active' = (active \ {b}) \cup {[b EXCEPT !.answer = "stored"]}

\* Mutant: the vectors are stored after the callers are told.
Store_Late(b) ==
    /\ b \in active /\ b.answer = "sent"
    /\ Stored(b)
    /\ UNCHANGED <<cache, open, call, queue, window, admitted, tight, map, faults, opens>>

Store(b) ==
    /\ b \in active /\ b.answer = "sent"
    /\ cache' = cache \cup TextsOf(b)
    /\ Stored(b)
    /\ UNCHANGED <<open, call, queue, window, admitted, tight, map, faults, opens>>

\* How a request ended: stored, with an error that may be tried again (also one
\* that asks for fewer tokens), or with one that may not: a malformed answer, a
\* refusal, a failure of the cache.
RequestOutcomes(b) == IF b.answer = "stored" THEN {"stored"} ELSE {"retryable", "throttled", "fatal"}

Retries(b, outcome) ==
    outcome \in {"retryable", "throttled"} /\ b.attempt < MaxTries /\ open = "up"

\* The charge becomes whatever the provider counted, if it answered and said so.
Charge(b, outcome) ==
    \/ UNCHANGED <<window, admitted>>
    \/ /\ outcome # "throttled"
       /\ \E n \in Counts : window' = Calibrated(b, n) /\ admitted' = Readmitted(b, n)

\* The budget is cut once per feedback window.
Feedback(outcome) ==
    IF outcome = "throttled"
    THEN ~tight /\ faults < MaxFaults /\ tight' = TRUE /\ faults' = faults + 1
    ELSE UNCHANGED <<tight, faults>>

\* The batch goes back to the queue, behind the others, or its futures are set.
Finish(b, outcome) ==
    /\ b \in active /\ outcome \in RequestOutcomes(b)
    /\ active' = active \ {b}
    /\ Charge(b, outcome)
    /\ Feedback(outcome)
    /\ IF Retries(b, outcome)
       THEN /\ queue' = Append(queue, [b EXCEPT !.due = 1, !.age = 0, !.answer = "none"])
            /\ UNCHANGED call
       ELSE Answered(TextsOf(b), outcome # "stored") /\ UNCHANGED queue
    /\ UNCHANGED <<cache, open, map, opens>>

\* Its event cannot be written: its callers fail, also when the vectors are
\* stored, and the service closes.
FinishLogFails(b) ==
    /\ b \in active /\ faults < MaxFaults
    /\ faults' = faults + 1
    /\ open' = "closing"
    /\ active' = active \ {b}
    /\ \E outcome \in RequestOutcomes(b) : Charge(b, outcome)
    /\ Answered(TextsOf(b), TRUE)
    /\ UNCHANGED <<cache, queue, tight, map, opens>>

\* After a while without trouble the reduction is taken back.
Recover ==
    /\ tight /\ tight' = FALSE
    /\ UNCHANGED <<cache, open, call, queue, active, window, admitted, map, faults, opens>>

------------------------------------------------------------------------------
(* Time, opening and closing                                                    *)

Older(b) == [b EXCEPT !.age = IF @ = Window THEN @ ELSE @ + 1]

Tick ==
    /\ \/ Used > 0
       \/ \E b \in active : b.age < Window
       \/ \E b \in Range(queue) : b.due > 0
    /\ window' = [age \in DOMAIN window |-> IF age = 0 THEN 0 ELSE window[age - 1]]
    /\ admitted' = [age \in DOMAIN admitted |-> IF age = 0 THEN 0 ELSE admitted[age - 1]]
    /\ active' = {Older(b) : b \in active}
    /\ queue' = [k \in DOMAIN queue |-> [queue[k] EXCEPT !.due = 0]]
    /\ UNCHANGED <<cache, open, call, tight, map, faults, opens>>

Fresh == /\ call' = [c \in Calls |-> NoCall]
         /\ queue' = <<>> /\ active' = {}
         /\ window' = NoCharge /\ admitted' = NoCharge
         /\ tight' = FALSE
         /\ map' = NoMap

Open ==
    /\ open = "closed" /\ opens < MaxOpens
    /\ opens' = opens + 1
    /\ open' = "up"
    /\ Fresh
    /\ UNCHANGED <<cache, faults>>

Close ==
    /\ open = "up" /\ open' = "closing"
    /\ UNCHANGED <<cache, call, queue, active, window, admitted, tight, map, faults, opens>>

\* Mutant: what is queued is forgotten.
DrainQueue_Silent ==
    /\ open = "closing" /\ queue # <<>>
    /\ queue' = <<>>
    /\ UNCHANGED <<cache, open, call, active, window, admitted, tight, map, faults, opens>>

\* Mutant: it is answered only when a request ends.
DrainQueue_Woken ==
    /\ open = "closing" /\ queue # <<>> /\ active # {}
    /\ Answered(UNION {TextsOf(b) : b \in Range(queue)}, TRUE)
    /\ queue' = <<>>
    /\ UNCHANGED <<cache, open, active, window, admitted, tight, map, faults, opens>>

\* The scheduler answers what is queued with an error.
DrainQueue ==
    /\ open = "closing" /\ queue # <<>>
    /\ Answered(UNION {TextsOf(b) : b \in Range(queue)}, TRUE)
    /\ queue' = <<>>
    /\ UNCHANGED <<cache, open, active, window, admitted, tight, map, faults, opens>>

\* Mutant: the pools are shut down without waiting.
Quiet_Now == queue = <<>>

\* Nothing queued, no request in flight, no call running in the map pool.
Quiet == /\ queue = <<>> /\ active = {}
         /\ \A c \in Range(Mapped) : call[c].pc # "waiting"

\* The scheduler has ended and the pools have drained; the client is closed.
Closed ==
    /\ open = "closing" /\ Quiet
    /\ open' = "closed"
    /\ call' = Cancelled({c \in Range(Mapped) : call[c].pc = "submitted"})
    /\ UNCHANGED <<cache, queue, active, window, admitted, tight, map, faults, opens>>

ServiceDies ==
    /\ open # "closed" /\ faults < MaxFaults
    /\ faults' = faults + 1
    /\ open' = "closed"
    /\ Fresh
    /\ UNCHANGED <<cache, opens>>

Scheduler == Dispatch \/ DrainQueue

Perform(b) == Store(b) \/ \E outcome \in RequestOutcomes(b) : Finish(b, outcome)

MapLoop == MapSubmit \/ MapYield \/ MapUnwind \/ MapEnd

ServiceNext ==
    \/ \E c \in Calls : Embed(c) \/ EmbedRefused(c) \/ EmbedLogFails(c)
    \/ StartMap \/ MapSubmit \/ MapYield \/ MapUnwind \/ MapEnd
    \/ Dispatch \/ DispatchFails \/ DrainQueue
    \/ \E b \in active : Perform(b) \/ FinishLogFails(b)
    \/ Recover \/ Tick
    \/ Open \/ Close \/ Closed \/ ServiceDies

ServiceSpec == ServiceInit /\ [][ServiceNext]_serviceVars

\* The scheduler and the pools run, requests end by their timeout, time passes, a
\* map() is read to its end, and the owner of a service that closes waits for it.
\* Nothing is assumed of the callers.
FairService ==
    /\ ServiceSpec
    /\ WF_serviceVars(Scheduler \/ Closed)
    /\ \A t \in Texts : WF_serviceVars(\E b \in active : t \in TextsOf(b) /\ Perform(b))
    /\ WF_serviceVars(Tick)
    /\ WF_serviceVars(MapLoop \/ \E c \in Range(Mapped) : Embed(c) \/ EmbedRefused(c))

------------------------------------------------------------------------------
(* Properties                                                                   *)

\* No text is paid for twice: one batch at most answers for it, and none is out
\* for a text whose vector is stored, although the cache is read and written
\* under different locks (embedding_service.py:299, :326, :438).
TextsPaidOnce ==
    LET all == Range(queue) \cup active
    IN /\ Cardinality(Range(queue)) = Len(queue)
       /\ \A a, b \in all : a # b => TextsOf(a) \cap TextsOf(b) = {}
       /\ \A b \in all : b.answer # "stored" => TextsOf(b) \cap cache = {}

\* A call waits only for texts that some batch will answer: no future is left
\* without an owner, by a retry, a failed submission or a closing
\* (embedding_service.py:326, :386, :399).
NoOrphans == \A c \in Calls : call[c].waits \subseteq Pending

\* A call that returned vectors found them all in the durable cache, also those
\* another call had paid for (embedding_service.py:346, :438).
ReturnsAreStored == \A c \in Calls : call[c].pc = "ok" => Range(Want[c]) \subseteq cache

\* What is admitted within a window adds up to the configured budget, each batch
\* at its estimate or at what the provider counted if that is less; or it is one
\* text larger than the budget that had the window for itself, and no other
\* request of the window is in flight.  So the charges exceed the budget only by
\* what providers count above the estimates, although they are corrected, reduced
\* and forgotten while requests are out (embedding_service.py:102-123, :153-159).
BudgetIsKept ==
    LET all == Total([k \in 1..Window |-> admitted[k - 1]])
    IN \/ all <= Budget
       \/ \E t \in Texts :
             /\ Tokens[t] > Budget /\ all <= Tokens[t]
             /\ \A b \in active : b.age < Window => b.texts = <<t>>

\* Once close() has returned nothing of the service runs: no request is in flight
\* or queued and no call runs in the map pool, so that the client and the cache
\* can be closed (embedding_service.py:492-499).
ClosedIsQuiet ==
    open = "closed" =>
        /\ queue = <<>> /\ active = {}
        /\ \A c \in Range(Mapped) : call[c].pc \notin {"submitted", "waiting"}

\* A text is always in one hand: stored, in one batch that will answer for it, or
\* asked for by nobody; and with the service closed in none.
TextsAreAccounted ==
    /\ ServiceTypeOK
    /\ TextsPaidOnce
    /\ NoOrphans
    /\ ReturnsAreStored
    /\ ClosedIsQuiet

\* A text larger than the budget is not overtaken for ever by texts that keep the
\* window filled: its request is made and answered.  For an ordinary batch the
\* code makes no such promise (embedding_service.py:135-140).
LargeTextsAreServed ==
    \A t \in Texts : Tokens[t] > Budget => (t \in Pending ~> t \notin Pending)

\* close() returns, whatever is queued, backing off or in flight.
CloseEnds == open = "closing" ~> open = "closed"
=============================================================================
