---------------------------- MODULE CampaignPlan ----------------------------
(* plan_tick of scripts/rc_evaluation/deepeye/campaign/planning.py over the      *)
(* tables of ledger.py: what a campaign decides from what its runs report.       *)
(*                                                                               *)
(* The first-pass job runs every question natively.  When enough of them have    *)
(* ended, the first RC stage opens and the failures get one retry job; a stage's *)
(* first dispatched jobs are its anchor, and the next stage opens when enough of *)
(* the anchor has ended.  Every native success is evaluated once at every stage. *)
(* A tick is one transaction, so a controller that dies during one leaves no     *)
(* trace of it.                                                                  *)
EXTENDS Integers, FiniteSets

CONSTANTS NItems,            \* questions of the campaign
          NStages,           \* stages evaluated with a specification
          TailNum, TailDen   \* tail_fraction, as a ratio

ASSUME SizeAssumption == NItems \in Nat \ {0} /\ NStages \in Nat \ {0}
ASSUME TailAssumption == /\ TailNum \in Nat \ {0} /\ TailDen \in Nat \ {0}
                         /\ TailNum <= TailDen

Items == 1..NItems
Stages == 1..NStages

VARIABLES jobs,        \* claimed jobs; a job is what its identifier digests
          started,     \* jobs whose run directory is prepared
          run,         \* per started job and item, what its run store says
          observed,    \* the statuses the ledger has recorded
          canonical,   \* the native job chosen as each question's source
          opened,      \* stages whose gate is open
          anchors,     \* per stage, the anchor jobs
          complete,    \* what the last tick returned
          rejected     \* a tick raised: the campaign is blocked

planVars == <<jobs, started, run, observed, canonical, opened, anchors, complete, rejected>>

Statuses == {"open", "succeeded", "failed"}

First == [kind |-> "native_first", stage |-> 0, items |-> Items, source |-> <<>>]
RetryJob(S) == [kind |-> "native_retry", stage |-> 0, items |-> S, source |-> <<>>]
RCJob(stage, S, source) ==
    [kind |-> "rc", stage |-> stage, items |-> S, source |-> <<source.kind, source.items>>]

Natives == {First} \cup {RetryJob(S) : S \in SUBSET Items}
SourceOf(job) == CHOOSE n \in Natives : <<n.kind, n.items>> = job.source

\* Claims are unique per item and scope: the stage of an RC job, or its kind.
Scope(job) == IF job.kind = "rc" THEN <<"rc", job.stage>> ELSE <<job.kind, 0>>

PlanTypeOK ==
    /\ \A j \in jobs : /\ j.items \in (SUBSET Items) \ {{}}
                       /\ j.kind = "rc" => j.stage \in Stages
                       /\ j.kind # "rc" => j \in Natives
    /\ started \subseteq jobs
    /\ DOMAIN run = started
    /\ \A j \in started : run[j] \in [j.items -> Statuses]
    /\ DOMAIN observed \subseteq started
    /\ \A j \in DOMAIN observed : observed[j] \in [j.items -> Statuses]
    /\ canonical \subseteq Items \X Natives
    /\ opened \subseteq Stages
    /\ anchors \in [Stages -> SUBSET jobs]
    /\ complete \in BOOLEAN
    /\ rejected \in BOOLEAN

\* create() claims the first-pass job together with the configuration.
PlanInit ==
    /\ jobs = {First}
    /\ started = {}
    /\ run = <<>>
    /\ observed = <<>>
    /\ canonical = {}
    /\ opened = {}
    /\ anchors = [k \in Stages |-> {}]
    /\ complete = FALSE
    /\ rejected = FALSE

------------------------------------------------------------------------------
(* The runs.                                                                    *)

\* A supervisor prepared the job's run directory.
StartJob(j) ==
    /\ j \in jobs \ started
    /\ started' = started \cup {j}
    /\ run' = [k \in started \cup {j} |->
                  IF k = j THEN [i \in j.items |-> "open"] ELSE run[k]]
    /\ UNCHANGED <<jobs, observed, canonical, opened, anchors, complete, rejected>>

\* Mutant: the run is resumed without --unfinished-only, so a failed question
\* may be taken up again and end otherwise.
EndItem_Reopened(j, i, status) ==
    /\ j \in started /\ i \in j.items
    /\ run[j][i] \in {"open", "failed"}
    /\ run' = [run EXCEPT ![j][i] = status]
    /\ UNCHANGED <<jobs, started, observed, canonical, opened, anchors, complete, rejected>>

\* A question of the run ends.  Runs are resumed with --unfinished-only, which
\* leaves ended questions alone.
EndItem(j, i, status) ==
    /\ j \in started /\ i \in j.items
    /\ run[j][i] = "open"
    /\ run' = [run EXCEPT ![j][i] = status]
    /\ UNCHANGED <<jobs, started, observed, canonical, opened, anchors, complete, rejected>>

------------------------------------------------------------------------------
(* A tick.  The operators below are its local variables, in order.              *)

\* Mutant: rounded down, an anchor may open the next stage early.
TailCount_Floor(n) == (TailNum * n) \div TailDen

\* ceil(tail_fraction * n)
TailCount(n) == (TailNum * n + TailDen - 1) \div TailDen

\* Every started job is read, each from one snapshot of its store.  The snapshots
\* are taken one after the other; reading them at once loses nothing, since what a
\* run ends after its own snapshot it might as well have ended after the tick.
Ended(obs, job, status) ==
    IF job \in DOMAIN obs THEN {i \in job.items : obs[job][i] = status} ELSE {}

Terminal(obs, job) == Ended(obs, job, "succeeded") \cup Ended(obs, job, "failed")

\* _ingest refuses a recorded outcome that changed.
OutcomeChanged == \E j \in DOMAIN observed : \E i \in j.items :
                     observed[j][i] # "open" /\ run[j][i] # observed[j][i]

Retries(js) == {j \in js : j.kind = "native_retry"}
FailedFirst(obs) == Ended(obs, First, "failed")

\* The successes that serve as sources: of the first pass, or of the retry of a
\* question whose first pass failed.
Sources(obs) ==
    LET failed == FailedFirst(obs)
    IN (Ended(obs, First, "succeeded") \X {First})
          \cup UNION {(Ended(obs, j, "succeeded") \cap failed) \X {j} : j \in Retries(jobs)}

\* A canonical source would be replaced by another one.
SourceReplaced(sources) == \E s \in sources, c \in canonical : s[1] = c[1] /\ s[2] # c[2]

OpenFirst(obs) == IF Cardinality(Terminal(obs, First)) >= TailCount(NItems) THEN {1} ELSE {}

\* Mutant: questions already being retried are not left out.
RetryKeys_Again(obs) == FailedFirst(obs)

RetryKeys(obs) == {i \in FailedFirst(obs) : \A j \in Retries(jobs) : i \notin j.items}

NewRetry(obs) == IF 1 \in opened \cup OpenFirst(obs) /\ RetryKeys(obs) # {}
                 THEN {RetryJob(RetryKeys(obs))} ELSE {}

\* How much of a stage's anchor there is, and how much of it has ended.
Members(k) == {m \in anchors[k] \X Items : m[2] \in m[1].items}
EndedMembers(obs, k) == {m \in Members(k) : m[2] \in Terminal(obs, m[1])}

\* Mutant: a gate waits for more than its fraction.
OpenNext_Strict(obs) ==
    {k \in Stages : /\ k > 1 /\ anchors[k - 1] # {}
                    /\ Cardinality(EndedMembers(obs, k - 1)) > TailCount(Cardinality(Members(k - 1)))}

\* Only anchors dispatched by earlier ticks advance a gate.
OpenNext(obs) ==
    {k \in Stages : /\ k > 1 /\ anchors[k - 1] # {}
                    /\ Cardinality(EndedMembers(obs, k - 1)) >= TailCount(Cardinality(Members(k - 1)))}

Gates(obs) == opened \cup OpenFirst(obs) \cup OpenNext(obs)

Evaluations(js, k) == {j \in js : j.kind = "rc" /\ j.stage = k}

Claimed(k) == UNION {j.items : j \in Evaluations(jobs, k)}

\* Mutant: the cohort is not split by the run its inputs come from.
Dispatched_OneSource(sources, k) ==
    LET items == {s[1] : s \in sources} \ Claimed(k)
    IN IF items = {} THEN {} ELSE {RCJob(k, items, First)}

\* One job per native run that unclaimed successes come from.
Dispatched(sources, k) ==
    LET claimed == Claimed(k)
        fresh == {s \in sources : s[1] \notin claimed}
    IN {RCJob(k, {i \in Items : <<i, source>> \in fresh}, source) :
            source \in {s[2] : s \in fresh}}

\* The first jobs dispatched for a stage are its anchor.
Anchor(dispatched, k) == IF anchors[k] = {} THEN dispatched ELSE anchors[k]

\* Every source was evaluated at every stage.
Evaluated(obs, js, sources) ==
    \A k \in Stages :
        LET ended == UNION {Terminal(obs, j) : j \in Evaluations(js, k)}
        IN \A s \in sources : s[1] \in ended

\* Mutant: retries that are still running are forgotten.
Complete_IgnoresRetries(obs, js, sources) ==
    Terminal(obs, First) = Items /\ Evaluated(obs, js, sources)

Complete(obs, js, sources) ==
    /\ Terminal(obs, First) = Items
    /\ \A i \in FailedFirst(obs) : \E j \in Retries(js) : i \in Terminal(obs, j)
    /\ Evaluated(obs, js, sources)

\* A claim of an item that its scope already has violates the claims table.
Collide(js) == \E j, k \in js : j # k /\ Scope(j) = Scope(k) /\ j.items \cap k.items # {}

\* Whatever raises rolls the transaction back, and the controller blocks.
Rejects(sources, js) == OutcomeChanged \/ SourceReplaced(sources) \/ Collide(js)

Tick ==
    LET sources == Sources(run)
        gates == Gates(run)
        dispatched == [k \in Stages |-> IF k \in gates THEN Dispatched(sources, k) ELSE {}]
        js == jobs \cup NewRetry(run) \cup UNION {dispatched[k] : k \in Stages}
    IN /\ ~rejected
       /\ IF Rejects(sources, js)
          THEN /\ rejected' = TRUE
               /\ UNCHANGED <<jobs, observed, canonical, opened, anchors, complete>>
          ELSE /\ observed' = run
               /\ canonical' = canonical \cup sources
               /\ jobs' = js
               /\ opened' = gates
               /\ anchors' = [k \in Stages |-> Anchor(dispatched[k], k)]
               /\ complete' = Complete(run, js, sources)
               /\ UNCHANGED rejected
       /\ UNCHANGED <<started, run>>

------------------------------------------------------------------------------

Runs == \E j \in jobs : \/ StartJob(j)
                        \/ \E i \in j.items : \E s \in {"succeeded", "failed"} : EndItem(j, i, s)

PlanNext == Runs \/ Tick

PlanSpec == PlanInit /\ [][PlanNext]_planVars

\* Supervisors carry their runs to the end and the controller keeps polling.
FairPlan == PlanSpec /\ WF_planVars(Runs) /\ WF_planVars(Tick)

------------------------------------------------------------------------------
(* Properties                                                                   *)

\* Planning never raises on the campaign's own runs, so never blocks it: however
\* outcomes trickle in over the ticks, no question is claimed twice for a retry or
\* for a stage, and no recorded outcome or source changes.
NeverRejected == ~rejected

\* What an evaluation takes for its native input is a success of exactly the run
\* it names, and stays so.
SourcesAreSuccesses ==
    \A j \in jobs : j.kind = "rc" =>
        /\ SourceOf(j) \in started
        /\ \A i \in j.items : run[SourceOf(j)][i] = "succeeded"

HasEnded(j, i) == j \in started /\ run[j][i] # "open"

\* A stage is open only if enough of the previous stage's anchor has ended, and
\* the anchor is fixed from the day it is dispatched.
GatesFollowAnchors ==
    /\ \A k \in opened : k > 1 =>
          /\ anchors[k - 1] # {}
          /\ Cardinality({m \in Members(k - 1) : HasEnded(m[1], m[2])}) * TailDen
                >= TailNum * Cardinality(Members(k - 1))
    /\ \A j \in jobs : j.kind = "rc" => j.stage \in opened

\* A campaign reported complete has nothing left: every job's questions have
\* ended, and every question either failed twice or was evaluated at every stage.
CompleteIsFinal ==
    complete =>
        /\ \A j \in jobs : \A i \in j.items : HasEnded(j, i)
        /\ \A i \in Items :
              \/ \A k \in Stages : \E j \in jobs : j.kind = "rc" /\ j.stage = k /\ i \in j.items
              \/ /\ run[First][i] = "failed"
                 /\ \E j \in Retries(jobs) : i \in j.items /\ run[j][i] = "failed"

\* Whatever the order in which outcomes come in, planning never raises, gates are
\* justified, sources are successes, and a complete campaign has nothing left.
PlanIsSound ==
    /\ PlanTypeOK
    /\ NeverRejected
    /\ GatesFollowAnchors
    /\ SourcesAreSuccesses
    /\ CompleteIsFinal

\* Every campaign gets there.
CampaignCompletes == <>[]complete
=============================================================================
