# Verification of the Result-Specification runners

TLA+ models of the durable parts of this repository, the TLC runs that check
them on small instances, and TLAPS proofs that hold for every instance. The
repository evaluates Result Specifications on three text-to-SQL systems
(DeepEye-SQL, DAIL-SQL, DIN-SQL). Each question costs many paid model calls, so
the runners are built to be killed, paused and resumed: what has been paid for
and committed must not be paid for again, must not be mixed with failed work,
and must not be lost. That is what this project is about.

## Inventory

Paths are under `src/scripts/` unless they start with `src/`.

| Part | State | Operations | Talks to | Hard behaviour | Correct when |
|---|---|---|---|---|---|
| Run store, `baseline_adapters/deepeye/run_store.py` | SQLite tables attempts, events, finishes; writer lock | begin_attempt, append_event, finish_attempt, read back, verify, export | everything below | process death between two writes | rows are only added; an attempt ends once |
| Native pipeline, `…/deepeye/run_pipeline.py`, `deepeye_run.py` | per question: restored state, identity, links; pending queue; halted flag | prepare_run, select_unfinished, admission loop, execute, close | run store, slots, recorder, native stages | a thread per question, stop event, halting, crash, resume | committed stages are never run again; inputs are committed lineages; masters record their lineage |
| Pipeline slots, `…/deepeye/run_slots.py` | tickets, occupied slots, limit | try_acquire, release | pipeline, admission | several threads | distinct slots, within the limit, released after the outcome is durable |
| Durable sampling, `src/baselines/DeepEye-SQL/app/llm/sampling.py`, `…/deepeye/run_sampling.py`, `…/deepeye/run_operations.py` | index of group, start, terminal, uncertain and renewal events; one outcome per sample | group, restore, start_attempt, finish_sample_attempt, renew | run store, dispatcher | crash with a request in flight, pause, renewal | requests never exceed durable starts; the log always re-indexes; budgets hold |
| Sample scheduler, `…/deepeye/sampling.py` | queue of groups, active leaves | run_samples, pump, close | durable sampling | failing submissions, siblings | every leaf ends before its group unwinds |
| Runtime resources, `…/deepeye/run_resources.py` | client, pools | bind, context, close | scheduler, dispatcher | order of closing | nothing is closed under live work |
| Adaptive admission, `…/deepeye/run_admission.py` | limit, windows, in-flight count | acquire, observe, release | no production command | limit falls under load | – |
| Request dispatcher, `baseline_adapters/shared/transport.py`, `…/deepeye/request_dispatch.py` | queue, active requests | submit, cancel, stop | model API | stop and cancel races | each request completes, fails or pauses once |
| Trace recorder, `…/deepeye/run_trace.py`, `run_usage.py` | first error, stop event | context, append, raise_if_failed | run store | errors from any thread | no observation is lost silently |
| Campaign, `rc_evaluation/deepeye/campaign/` | ledger database, control file, processes | plan, launch, observe, supervise, pause | run store, operating system | controller death around a launch | no job is run twice or forgotten |
| RC stage experiment, `rc_evaluation/deepeye/` | a run directory per condition | inject, run, score | pipeline | as the pipeline | contracts reach only the target stage |
| Preparation, `…/deepeye/precompute_*.py`, `preparation_store.py`, `embedding_service.py` | caches, prepared inputs | build, validate, serve | databases | interrupted builds, batching | a cache in place is complete |
| DAIL, `baseline_adapters/dail_sql/`, `rc_evaluation/dail_sql/` | records of rounds and modes per version, index of versions in force | run, resume, rerun, record, seal, publish | model API | shared rounds, two stores, gates between groups | at most five requests a sample; a version in force is sealed and complete |
| DIN, `baseline_adapters/din_sql*/`, `rc_evaluation/din_sql*/` | records of nodes per version, launch file | run, resume, rerun, import | model API | interrupted launches and copies | one version per rerun; successes are carried over |
| Schema-linking gold, `rc_evaluation/schema_linking_gold/` | annotation store | start attempt, finish, accept | model API | several runs on one store, interrupted calls | labels are earned and final; attempts are bounded |
| Generation of specifications, `generate_rc.py`, `prepare_rc_gold.py`, `filter_meta.py` | `rc.json`, the gold file, the filtered metadata | generate, correct, filter | model API, thread pool | death between two rewrites, revised questions | nothing saved is lost or asked again; contracts never mix versions |
| Preprocessing, analysis, reporting | files | one pass | – | none | data only |
| Vendored systems, `src/baselines/` | – | – | – | third-party | out of scope, except the rewritten sampling loop |

How they interact: a command opens the run store with the writer lock, prepares
every question, and starts one thread per admitted question. A stage's native
code asks for groups of samples; the sampling loop records each attempt in the
same store before the request leaves through the dispatcher. The stop event is
shared by the pipeline, the recorder, the sampling session and the dispatcher.
A process that dies leaves only the store.

## Modules

| Module | Models |
|---|---|
| `RunStoreRows` | the run store as one sequence of rows per question: the three writes, and the queries made of them |
| `DeepEyePipeline` | `run_pipeline.py`: preparation, selection, sealing, admission, `execute()` write by write, halting, pausing, crash; with the fixed-limit slots |
| `QuestionLedger` | abstract: what a store promises its reader when every run after the first is `--unfinished-only` |
| `DurableSampling` | one sampling group: `execute_sample` and the checkpoints, over sessions, crashes, pauses and renewals |
| `SampleBudget` | abstract: what durable sampling promises about a sample's budget |
| `SamplingRuntime` | `run_resources.py` and `sampling.py`: the thread pools, the round-robin of samples, the closing of runners |
| `RequestDispatch` | `shared/transport.py`: the event loop every model request goes through |
| `RequestPort` | abstract: what the dispatcher promises to those who wait on it |
| `CampaignPlan` | `plan_tick`: what a campaign claims, opens and calls complete from what its runs report |
| `CampaignControl` | `run`, `resume`, `pause`, the supervisors and their children, over the ledger, the records, the locks and `control.json` |
| `DailVersion` | one version of a DAIL question: `composite.py`, the samples of its rounds, the records |
| `VersionPort` | abstract: what a version promises the campaign that asks for it |
| `DailCampaign` | the DAIL campaign: commands, groups, gates, tasks, the index of versions in force |
| `DinBatch` | a DIN batch: commands, launch file, recovery, reuse, nodes and their requests |
| `GoldAnnotation` | the gold schema-linking annotation: several runners over one store |
| `ContractGeneration` | `generate_rc.py`, `prepare_rc_gold.py`, `filter_meta.py` over the files of a split |
| `EmbeddingService` | the shared embedding service over the vector cache |
| `PipelineProofs`, `DispatchProofs`, `DailProofs`, `DinProofs`, `GoldProofs` | theorems about `DeepEyePipeline`, `RequestDispatch`, `DailVersion`, `DinBatch` and `GoldAnnotation`, with their proofs |
| `SamplingProofs` | theorems about the two sampling modules, `DurableSampling` and `SamplingRuntime`, with their proofs |
| `CampaignProofs` | theorems about the three campaign modules, `CampaignPlan`, `CampaignControl` and `DailCampaign`, with their proofs |
| `PreparationProofs` | theorems about the modules of what is prepared before a run, `ContractGeneration` and `EmbeddingService`, with their proofs |
| `MC…` | the constants of the instances TLC checks |

Four pairs are refinements: `DeepEyePipeline` implements `QuestionLedger`,
`DurableSampling` implements `SampleBudget`, `RequestDispatch` implements
`RequestPort`, and `DailVersion` implements `VersionPort`. The last two are also how
components are composed: `SamplingRuntime` runs over `RequestPort`, taking its
actions for what a leaf's request does, and `DailCampaign` over what `VersionPort`
shows of each version, so that neither carries the states of the other side.

### The pipeline

`attempts` is the durable part. A row is an attempt with its events and its
finish record; its identifier is its position. The code chains SHA-256
fingerprints: the input of a stage hashes the input and the output of the stage
before it. Since a checkpoint's payload holds its own wall time and metrics,
that hash tells apart which *attempts* produced the input, and this is what the
field `input` keeps: the identifiers of the committed attempts, in order.

One process is alive at a time, because the store's writer lock is exclusive.
`work[i]` is the thread of question `i`; its `pc` names the write of `execute()`
it will make next. Every store transaction is an action, and a crash may come
between any two. Three points are worth naming:

- `CommitStage`, `FailStage` and `PauseStage` are what may happen when the native
  method returns. The stop event is tested after the return and before the
  commit, so a stop during the work discards the output.
- `DropPending` and `Exit` follow the admission loop and its `finally`. `Exit`
  reports "complete" when no question was paused, as the final report of
  `_run_pipeline` does.
- `Resume` does `prepare_run` and, for `--unfinished-only`, `select_unfinished`.
  A preparation that raises leaves the store alone, so a refused resume is a
  stuttering step. The seals that selection decides are made one write at a time
  by `SealEvent` and `SealFinish`.

### Sampling

`starts[s]` has one entry per `sample_attempt_started` event with how that
attempt ended; `prior[s]` is the outcome in the latest terminal event, which is
what the index keeps; `limit` and `renewedAt` are the allowance and the starts at
the latest renewal. A leaf goes through `Restore`, `StartAttempt`, `Send`,
`Answer`, `FinishAttempt`, and back to the loop. `poisoned` is set when an event
is committed that `_index` would reject: the code commits first and indexes
afterwards, so such an event would stay in the log and stop every later process.
`sent` counts requests that left; no durable record has it, and it is there for
`SampleBudget` to say that a request is spent before it is made.

An answer is one of four: success, a transient API error, a fatal API error, or
a response that is empty or that the parser refuses. A fatal answer may set the
stop event, since the dispatcher stops the run on some of them.

### The campaign

`CampaignPlan` has one action for a tick, because `plan_tick` is one transaction:
either all of it is kept or, when it raises, nothing is and the controller blocks
the campaign (`rejected`). A job is identified by its kind, stage, questions and
source, which is what its identifier digests. `StartJob` and `EndItem` are what
supervisors and runs do meanwhile; runs are resumed with `--unfinished-only`, so a
question that ended stays ended. The claims table makes a question unique in its
scope, and a tick that claims one twice raises: `NeverRejected`, a part of
`PlanIsSound`, says that none does.

`CampaignControl` takes the jobs as given and models the processes. `ctl.pc` names
the next durable write or look of the controller: reading a job's row and record,
probing its lock and looking up the process are three steps, as in the code, and
blocking a job and blocking the campaign are two. `sup[s]` is a supervisor, `kid[s]`
the child it runs. A dead process is noticed only through what it left: the lock is
free, and `process_identity` no longer matches the record. The launch tokens are
unique in the code; a command launches a job at most once, so the command's number
stands for the token. A termination signal to the controller does what `pause`
does. Not modelled here: the cursor over infrastructure faults, the validation of
the configuration, a signal sent to a supervisor directly.

### The dispatcher

`RequestDispatch` has the callers, the event loop and the closing thread as
separate actors. `inbox` holds what `call_soon_threadsafe` posted and the loop has
not run; `queues` and `rotation` are the groups in turn; `stage[r]` follows the task
of a request from its creation over entry, the pre-send hook that records the
start, the header hook, the wire, and its done callback. A cancelled task learns of
it at its next await (`cancelling`), and `Leave` is the clean-up that gives the
permit back. The stop event can be set by anyone at any moment; `closed` and `drain`
are `close()`, which refuses new work under the lock and then waits on the loop.
`RequestPort` has three variables: the phase of each request, the stop, and whether
the port is open, closing or shut.

### The runtime

A question is a workflow thread that submits branches to the coordinator pool and
waits. A branch that calls another runs it inline on its own thread, which is what
keeps the pool from waiting on itself; one with samples queues them as a group.
`groups` and `active` belong to the scheduler; `leaf[l]` goes from pending over the
sample pool and the port to its result, and only then, in the done callback, gives
its worker back: the two are separate steps, as in the code. `main` is the main
thread on its way through `stop`, the drain of the workflows, clean-up, undoing of
the tracing, clients, and the pools one by one. `cleaned` records who was cleaned up.

### DAIL

In `DailVersion` a round is named by what its identifier hashes: number, retrieved
examples, contract. `tried` is the log of attempts, `result` and `modes` the results
recorded, `sealed` the seal; the rest is one process, which dies with `phase`
"down" and rebuilds itself in `Recover`. Both first rounds may retrieve the same
list and then share a second round; `registered` is what makes its parent independent
of the order of the answers. An attempt may end as interrupted, or as "recording":
the answer came and could not be recorded. `stop` is the dispatcher all questions
share, set here or by another question (`StopShared`): a request it cuts short ends
as interrupted and its sample pauses the round, or counts as failed if that was its
last attempt. A cancellation raises through the group instead.

In `DailCampaign` the records of versions and the index are two stores, written one
after the other with a crash possible in between. `lease` is a claim, `current` the
version in force, `assign` what a question was assigned. The loop keeps `counts` by
notifications (`told`) and sleeps on `changed`. Not modelled: fingerprints and
digests, selection of examples, and `set_waiting`, which marks a group for display.

### DIN

`rows[q]` are the versions of a question: state, parent, and per node its status,
the attempts and the recorded answer; `given` are the nodes copied or imported.
`launch` is the launch file, written before anything is begun. `Setup` steps begin
missing versions, start events, and copy reusable nodes one at a time. A crash, a
signal, an error that pauses the dispatcher and a failed write end the process the
same way. A write already in a thread lands before the process ends, which equals a
stop just after it. Abstracted: the events `node_input`, `attempt_queued` and
`request_dispatch`, which no decision reads. The imported and prepared inputs are
taken as partial or complete only before the launch. Not modelled: the checks of
frozen endpoint and implementation, which refuse a command before it does anything.

### Gold annotation

`attempts[b]` and `label[b]` are the tables of the store; each transaction is an
action. A runner plans once (`Plan` reads the pending batches and their attempts),
admits up to `Workers`, collects, and accepts. Nothing but the transactions excludes
a second runner, so there are two. A batch stands for its tasks, which are accepted
in one transaction. An exception in a runner leaves its in-flight attempts without
an outcome, as a crash does.

### Generation

`file` is `rc.json`, `gold` and `filtered` the two other files. A command reads its
inputs into `given` and `memory`, keeps one thread per question under a limit that
grows, and rewrites its whole output after each batch of answers. A version stands
for the question as it reads; a contract is represented by the version it was made
from, so that a contract left beside one it does not derive from is seen. A revision
changes the question and may come while a command runs. Answers in flight or
collected and not yet saved are lost in a crash.

### The embedding service

Calls share the batches that carry their texts. `queue` and `active` are batches
with their attempt, `call[c].waits` the futures a call still waits for, `window` the
tokens charged by their age in ticks, `tight` the reduced budget after a refusal of
the provider. An answer is stored (`Store`) before the callers wake (`Feedback`,
`Finish`), and the log is written in between and may fail, which closes the service.
A charge begins as an estimate and becomes whatever the provider counts, which may be
less or more (`Calibrated`, `Counts`). `admitted` is a history variable that no action
reads: the same charges, each at the lower of estimate and count. The scheduler works
from estimates, and `admitted` is what it can answer for; `window` is above it by what
providers count beyond the estimates. One service is open at a time. Left out: the
vectors, the pacing within a second, the empty text, which is sent alone.

## Runs

| Run | Instance | Shows |
|---|---|---|
| `pipeline_cohort` | 2 questions of 2 stages on 2 slots, 2 processes, `--unfinished-only` | stages are committed once, on committed inputs; masters own their lineage; no selection is refused; a slot outlasts its work; refinement of `QuestionLedger` with its fairness |
| `sampling` | 2 samples, 1 attempt, a renewal of 2, 1 fault | log, index and memory agree; attempts are left for two reasons only; refinement of `SampleBudget`; every sample settles |
| `plan_ticks` | 2 questions, 2 stages, tail 1/2 | planning is sound and never raises; every campaign completes |
| `control` | 1 job, 3 commands, 1 pause, 2 faults among five kinds | one supervisor per job, finished is done, a pause returns to quiet, a command returns unless a job is stranded |
| `dispatch` | 3 requests of 2 groups, one a delayed retry, cap 1; 2 troubles: stops, cancelled callers, redirects, failing callbacks | starts, results and permits are accounted for; groups take turns; refinement of `RequestPort` with its liveness |
| `runtime` | 2 questions, 4 branches in two nests, 1 and 3 samples, 2 coordinators, 1 worker, 2 runners, 1 fault | everything unwinds in the order of its use; groups alternate; everything ends |
| `dail_version` | 1 sample, 2 attempts, 1 retrievable list, 1 fault and 1 crash, cancellation or stop by another question | recorded results are accepted, earned and independent of the order; refinement of `VersionPort`; a version is sealed unless a recording failed |
| `dail_campaign` | groups of 2 and 1 questions, 2 modes, share 1/4, 1 rerun, 1 fault | index, records and memory agree; the loop never sleeps over work; every question is answered |
| `din_batch` | 2 groups of 1 question, 4 nodes, one question with imported nodes, share 1/2, 2 attempts, 2 reruns, 2 faults | one version per rerun, in one lineage of earned results; nothing is paid for twice; the scope of the last command is finished |
| `gold` | 2 runners, 2 batches with a pilot of 1, 2 workers, 2 attempts, 1 crash | labels are earned and final; attempts are bounded; every batch settles |
| `generation` | 2 questions, 2 commands on an empty or a released file, limit 1 growing to 2, 2 attempts, 1 revision or removal and its restoration | the file is sound after every write; nothing paid for is lost; commands end |
| `embedding` | a caller with 2 texts and a map of 2 calls that share one over the budget; any cache; 2 requests in flight, window of 2, 2 attempts, 1 fault | each text is in one hand; admissions keep to the budget, whatever is counted; the large text is served; closing ends |

Deadlock checking is on for `CampaignPlan`, `DinBatch` and `GoldAnnotation`. The
other systems do stop: when the allowed commands have returned and their processes
are gone, the last process has exited, or everything submitted is settled and closed.

A state invariant that belongs together is one property made of named parts:
`HistoryIsConsistent`, `PlanIsSound`, `JobsAreSound`, `RequestsAreAccounted`,
`UnwindsInOrder`, `RecordsAreSound`, `IndexIsSound`, `VersionsAreSound`,
`AnnotationIsSound`, `FileIsSound` and `TextsAreAccounted` each join the type
invariant of their module with the invariants defined before them, every one with
its own statement. Most parts have a mutant of their own in `PROJECT.json`.

### Bounds

- Faults and commands. `MaxRuns`, `MaxReruns`, `MaxOpens` bound processes, commands
  and services; `MaxFaults`, `MaxMishaps`, `MaxHitches`, `MaxStops`, `MaxTroubles`, `MaxPauses`,
  `MaxEdits`, `MaxRenewals` bound what the environment does. In the pipeline, faults need a
  further process to be allowed, so the last one runs to its end. A fault may fall at
  every step, so one or two reach every pair of a death and what follows it; where a
  repair can itself be interrupted (`control`, `din_batch`) there are two, and in
  `dail_version` one of each kind, an error or failed write and a crash, cancellation
  or stop by another question. No mutant's shortest counterexample needs more.
- Pipeline: two stages give a prefix, a failure behind a prefix and a reused link;
  the code has four, and the proofs cover every number. Questions share the slots,
  the queue, the stop event and the halted flag; two on two slots contend for numbers.
- Sampling: the code has 4 attempts and renewals of 4. One attempt and a renewal of
  two reach an exhausted sample, a renewed one, and one cut short after its renewal.
- `plan_ticks`: with a tail of 1/2 and cohorts of one or two, the fraction rounds up
  and does not; two questions let the first pass fail in two ticks. Two stages are one
  gate on an anchor; the other two gates of the code are the same loop body.
- `dispatch`: two requests of one group and one of another, with one permit, are the
  least in which a turn can be taken unfairly; a retry adds the delayed queue head.
- `runtime`: one worker and four samples in two groups make every group wait; two
  coordinators and four branches nested in pairs would exhaust the pool without the
  inline rule.
- DAIL: two first rounds sharing a list is the only way rounds are shared, so one list
  suffices; the four modes are all there in `dail_version`, and two in the campaign,
  whose loop treats them alike. A share of 1/4 or 1/2 of groups of one or two rounds
  up; the code's is 4/5.
- DIN: all four kinds of node and both shapes of dependency are in the two questions;
  two reruns are needed for a rerun over an interrupted rerun.
- Gold: two runners are the least that overtake each other.
- Generation: two commands on a file that is empty or released are each pair of
  kinds, or one that was interrupted and its repetition. Restoring a question that
  was dropped is free, so one may come back while a command runs.
- Embedding: the window of two ticks, a budget of 3 and a text of 5 tokens reach an
  empty window, a full one and the exception for a single text. An answer is counted as
  0, below every estimate, or as 4: above the estimate of the ordinary batch, and for
  the large text between the budget and the estimate. One service is opened
  on any cache an earlier one may have left, which is all that survives it.

### Fairness

Every fairness condition is weak unless said otherwise, and on the code's own
threads, loops and processes, which are scheduled and poll; requests and native code
are taken to return, which request timeouts ensure. Nothing is asked of faults,
answers, callers, operators or the outcome of a stage.

- Pipeline: the process and every thread; a store that is not finished is resumed.
  Sampling: every leaf and the session.
- `CampaignPlan`: the runs together and the tick. `CampaignControl`: the controller,
  each supervisor and each child; no command is promised.
- `RequestDispatch`: one condition on the loop and the passing of time together.
  `SamplingRuntime`: one on the threads together; that one suffices means that no
  step can be repeated for ever while another waits.
- `DailVersion`, `DinBatch`: the process, including that an interrupted one is
  resumed. `DailCampaign`: the process, and separately the preparation of groups.
- `GoldAnnotation`: the runners together, and strong fairness of a run of the remaining
  batches, which other runs may disable in between.
- `ContractGeneration`: the main thread and the worker threads together.
- `EmbeddingService`: the scheduler with the return of `close()`, the loop of `map()`
  with its calls, each text's request, and the clock.

## Proofs

TLC checks one instance; the theorems below hold for every value of the constants
under the assumptions that the modules name (`ASSUME …Assumption`), which TLC
evaluates in every run. They are those of the code: budgets, limits and shares are
positive, a question belongs to one group, a request to one group, a call of the
embedding service asks for a text once, and what a batch of texts may add up to is at
most the budget. Bounds on faults, commands and processes are any natural numbers.
Every invariant a run checks is a theorem.

Each component has an inductive invariant (`IInv`; `PlanInv`, `DailInv`, `RuntimeInv` and
`ServiceInv` for the plan, the DAIL campaign, the sampling runtime and the embedding
service), checked by TLC on the instance of the run before it was proved, and the same
layout: what the operators return; one lemma per action, or per variable that several
actions write; one for a step; one for the invariant; and the theorems. What a property needs beyond itself
is always what some process *believes*: that what it read, counted or holds agrees
with what is durable until it writes.

| Module | Theorems | Why it is inductive |
|---|---|---|
| `PipelineProofs` | `TypeCorrect`, `StageCommittedOnce`, `CommittedInputsOnly`, `MastersAreOwners`, `MemoryAgreesWithLog`, `CohortNeverRefused`, `SlotsAreHeld`, `CampaignIsALedger` | below |
| `SamplingProofs` (durable) | `HistoryHolds`, `AllowanceHolds`, `SamplingIsABudget` | per sample: the outcome in the index tells a prefix of the attempts, what follows was cut short (`LogSound`); a leaf between attempts, in one, and after its answer knows the log that far (`LeafSound`) |
| `SamplingProofs` (runtime) | `RuntimeUnwinds`, `GroupsTakeTheirTurns` | below |
| `CampaignProofs` (plan) | `PlanStaysSound` | only failures of the first pass are retried; an evaluation takes its input from a run that may be the source; hence a question has one source, nothing collides, and no tick is rejected; gates stay justified because the anchor is fixed and endings only grow |
| `CampaignProofs` (control) | `JobsStaySound`, `ReturnsInQuiet` | the ledger names the launch of every living supervisor; what the controller has read, probed and concluded of a job stays true until it acts on it |
| `DispatchProofs` | `RequestsStayAccounted`, `QueuedIsFound`, `GroupsTakeTurns`, `PortIsImplemented` | each request is in one place of the loop; a group is in the rotation exactly when it has a queue; the rotation ahead of a waiting group only shrinks |
| `CampaignProofs` (DAIL) | `IndexStaysSound`, `NeverWaitsInVain` | `DailInv`: an assignment that is not settled holds a claim that expects the version in force; every version is paid for by a rerun or a mishap, the next one included; what a task has done and was told of agrees with the index; only an event the loop is woken for changes what it would enter |
| `DailProofs` | `RecordsStaySound`, `VersionIsImplemented` | what a process believes of a sample fits the attempts recorded; a second round is begun only after A is recorded |
| `DinProofs` | `VersionsStaySound`, `NothingIsPaidTwice` | the versions of a question stand by themselves as one line (`Line`); the launch file tells which version a rerun still owes (`Scoped`); a running task has a started version filled from its parent, so that nothing the parent had is asked for (`Ready`); the loop's counts lag the records only by results on their way back (`Loop`) |
| `GoldProofs` | `AnnotationStaysSound`, `LabelsStayFinal` | a batch is in one place of a run; an attempt in flight is the last of its batch or was overtaken by another run |
| `PreparationProofs` (generation) | `FileStaysSound`, `NothingIsEverLost` | a worker holds the rounds before its own, of the version it was given, and the memory of the command is the file or newer |
| `PreparationProofs` (embedding) | `TextsInOneHand`, `BudgetHolds` | below |

Four of the theorems are refinements. `SamplingIsABudget` and `VersionIsImplemented`
state the whole abstract specification, which has no fairness. `CampaignIsALedger` and
`PortIsImplemented` state its initial states and steps; the fairness of `QuestionLedger`
and of `RequestPort` remains with TLC (`ImplementsLedger`, `ImplementsPort`).
`ReturnsInQuiet`, `GroupsTakeTurns`, `LabelsStayFinal`, `NothingIsEverLost`,
`NothingIsPaidTwice`, `GroupsTakeTheirTurns` and `SlotsAreHeld` are action properties.

### The pipeline

The theorems hold for any number of stages, questions, slots and processes. Without
an assumption on the commands: a stage of a question is committed at most once; every
stage attempt was given a chain of committed stages ending just before it; every
finished master records the lineage of its status; what the process holds agrees with
the log; and slots are held until the outcome is durable.

Their invariant is the conjunction `IInv`. The three
properties of the log are not inductive by themselves: that `BeginStage` and
`CommitStage` keep them depends on what the thread holds in memory. `ThreadsConsistent`
says it: the chain a thread carries is the *frontier* of its question (a commit
chain with nothing committed beyond it), its open attempts are its own, and the
local list of links is the lineage it is about to record. `Resume` establishes
the frontier from what `prepare_run` accepts, each write maintains it, and a
crash empties it. General lemmas about the three writes carry it: a begun row is fresh
and interrupted; an event or a finish changes one row; what is committed stays
committed and keeps its input.

`CohortNeverRefused` and `CampaignIsALedger` assume `OnlyUnfinished`, that is
`Modes \subseteq {"unfinished_only"}`: the commands of a campaign resume in no other
way (campaign/processes.py). Under plain resume both are false, as the second item of the next
section says. `CInv` adds to `IInv` what selection reads: stages fail only at the end of
the chain, a log ends in a master that the cohort accepts, and what a thread has written
so far tells how the question stands. `HInv` says that a thread's master is the last of
its log and still open while it executes, and that before a slot is given back the
question is terminal or its pause is recorded; with distinct slot numbers this gives
`SlotsAreHeld`.

### The sampling runtime

The theorems hold for any questions, tree of branches, number of samples per branch and
size of the three pools. Their invariant is `RuntimeInv`. `QueueIsSound` says that each
group in the queue is the rest of the samples of one branch that waits for them, that no
branch has two groups, and that what is queued is what is pending. `WorkersAreHeld` counts
the leaves in hand and has the worker count to the full while anything is queued; it is
what makes every call of `_pump` one of three: nothing to admit (`PumpedIdle`), one worker
given back and one leaf taken (`PumpedOne`), or a group queued alone that is served until
it or the workers are used up (`PumpedGroup`). The loop of `_pump` is a recursive function;
those lemmas give its value without induction over a parameter, from an explicit solution
and the least turn at which the two would differ (`PumpedIs`). `TurnsAreKept` is what makes
the turns fair: a group that was served while another waited stands behind it.
`SamplesHaveBranches` ties leaves to branches that wait or have waited, and `CleanupSoFar`
says for each step of the closing main thread what has been cleaned up by then.

### The embedding service

The theorems hold for any texts and token counts, any calls, and every value of the
limits. Their invariant is `ServiceInv`. `TextsInOneHand` needs two of its parts. `Lined`
says of the batches what `TextsAreAccounted` says of texts, with what an action relies on:
no two batches share a text, a queued batch is unsent and has attempts left, and of an
active one nothing or all is in the cache, as its answer is not stored yet or is.
`CallsSound` says that a call waits only for what some batch answers for, and that what it
waits for is all it lacks unless it has failed already, which is why a call that returns
finds everything stored.

`BudgetHolds` needs `Paid` and `Kept`, both of `admitted`. A correction downwards subtracts
a batch's estimate from the charge of its age, which several batches of one tick share; it
is the sum of the active batches of an age that lies below that charge (`Paid`), so that
no correction takes from what another batch has paid. `Kept` says that the admissions add
up to the budget at most, or are a single text and no other active batch is charged: the
second case is left only by the correction of that text or by its leaving the window. What
the scheduler compares with the budget is `window`, which is never below `admitted`
(`Covers`), so that counts above the estimates only make it admit less. A batch over the
budget is a single text because `Packed` closes a part before it exceeds the target
(`Made`, `PackedMade`).

Sums are recursive functions (`Total`) with their running sums (`Sums`). That those exist
and are the only ones, and with it what appending, removing, shifting or replacing an
entry does to a sum, is proved by induction over a *set* of numbers (`ReachesAll`, from
the well-foundedness of the naturals), which needs no operator as a parameter.

### What stays with TLC

- Liveness under fairness, which is beyond the prover: `EverySampleSettles`,
  `CampaignCompletes`, `ReturnsUnlessStranded`, `EverythingEnds`,
  `SealsUnlessRecordingFailed`, `CampaignSettles`, `ScopeSettles`, `EveryBatchSettles`,
  `CommandsEnd`, `LargeTextsAreServed`, `CloseEnds`, and the fair halves of the two
  refinements above.

## What the models show of the code

No property of the project is violated, because the statements are of what the code
does. These are the places where that is less than a reader might expect.

Pipeline and sampling
- Plain `resume` reports a question as succeeded (run_pipeline.py:291) whose master
  attempt stays interrupted, when a process died between the last stage and the
  finish of the master; the docstring (run_pipeline.py:250) speaks of completion.
  `--unfinished-only` seals the master. The proofs cover both commands, the run only
  the second.
- If a failed question is reopened by plain `resume` and that run is interrupted,
  `select_unfinished` refuses the whole cohort. The campaign uses
  `--unfinished-only` throughout.
- A renewed sample can lose its allowance: if its first new attempt is cut short,
  `restore()` no longer takes the old fatal answer for older than the renewal, and
  the operator has to renew once more. `AllowanceIsUsable` states exactly this: a
  sample with attempts left is given up for a fatal answer to its latest attempt, made
  after the renewal, or in that case, and in no other.
- The signal handler of a run stops the dispatcher in the main thread and takes a
  lock that is not reentrant (transport.py:374): a signal that arrives while that
  thread holds it blocks for ever. Actions of separate threads do not express it.

Campaign (`Stranded` in `CampaignControl` lists what a command may poll over for ever)
- A job that `resume` put back to prepared, when a pause comes before its relaunch,
  counts as busy: the controller does not return and keeps `controller.lock`.
- A launch that is never acknowledged stays pending, and no command relaunches it.
- A controller that dies between blocking a job and blocking the campaign leaves a
  campaign that polls over the blocked job.
- A clean finish may block the campaign, when the record is read, the lock probed
  and the process looked up around the supervisor's last moments; it needs a resume.
- A child may escape the check of resume, since it runs before its identity is
  recorded; the writer lock of the run store keeps two children from writing at once.
- A child still stopping when the campaign is resumed has its early exit taken for a
  fault. A directory whose preparation was killed before its store was committed is
  taken for a prepared run, and blocks the job until it is removed.

DAIL and DIN
- An attempt cut short counts. A sample stopped in its last one is exhausted, and its
  round is recorded failed for good: by the same process after a stop of the dispatcher
  (transport.py:232, composite.py:100), by the next one after a crash. `FailureIsEarned`
  promises no more than that a sample with attempts left is not given up for a stop.
- When recording an answer fails and that failure is recorded, the sample is restored
  as paused in every later process: the version is never sealed. Each resume of the
  campaign then cancels the other questions, whose interrupted attempts count.
- A permanent refusal, or a result without its outcome, recorded just before a stop is
  requested again in DIN, within the budget. `resume --all-pending` drops the targets
  of an interrupted rerun that were not begun.

Gold annotation
- Two runs on one store are not excluded by a lock. `AttemptsBounded` allows one
  attempt more per further run. A crash between an outcome and its acceptance loses a
  paid answer, and the batch is sent again.

Generation
- There is no lock on `rc.json` and its temporary name is fixed: two commands at once
  overwrite each other, so the model runs one at a time.
- A question that comes back to the split while a command runs that read the split
  without it loses its record, or its filtering, at the command's next write.
  `SuccessesAreKept` excepts it.
- Round 3 is reused although the gold SQL changed, rounds 1 and 2 although the
  metadata did, a filtering although its contract was corrected again: none of these
  is part of what is compared. The gold file is matched by database and question.

Embedding
- The tokens of a window exceed the budget when a provider counts more than the byte
  estimate: a charge is corrected after its request was let through. `BudgetIsKept`
  bounds what is admitted; the excess is made up by admitting less until it expires.
- Fairness is given to a text over the budget only. A batch that fits the budget and
  not what is left of it may be overtaken by smaller ones without end.

## Not modelled

- Adaptive admission: the production commands build slots with a limit equal to the
  population, and only the PostgreSQL executor takes a `FixedAdmission`.
- The trace recorder, whose state is a first error and a buffer; the pipeline takes
  from it that a failed append raises in its thread.
- The DeepEye stage experiment (`rc_evaluation/deepeye/` without its campaign), which
  prepares directories and runs the pipeline modelled here.
- Run store: creation, checksums, verification, export. Construction and closing of
  native runners. Group identities and source versions of sampling.
- Preparation: `preparation_store.py`, the keyword checkpoints and the precomputation
  commands. DIN schema linking (`din_sql_linking`), the two-node variant of DIN.
- Campaign: the cursor over infrastructure faults, validation of the configuration, a
  signal sent to a supervisor directly.
- Gold: source validation, manifest checksums, `verify()`, reporting. Generation:
  records of an older format, the console reporter, the `qh` mode.
- Prompts, parsing, SQL and scoring; preprocessing, analysis and reporting, which are
  sequential transformations of files; the vendored systems under `src/baselines/`,
  except the sampling loop.

A large part of the repository is of the last kind, which is why the modules cover a
minor share of its lines.

## Plan

Modelled, checked and, but for liveness, proved: everything in the module table. Left
are models of `preparation_store.py` with its keyword checkpoints, `run_trace.py`, the
DIN schema-linking variant and the stage experiment's directories; the selection and
retrieval algorithms against reference definitions; verification and export of the run
store.
