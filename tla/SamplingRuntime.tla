--------------------------- MODULE SamplingRuntime ---------------------------
(* The thread pools of a run: run_resources.SamplingRuntime, the sample          *)
(* scheduler of sampling.py and the closing of native runners, over the port     *)
(* that request dispatch implements (RequestDispatch refines RequestPort).       *)
(*                                                                               *)
(* A question is a workflow thread.  Its stage submits branches to the           *)
(* coordinator pool and waits for them; a branch may submit another, which then  *)
(* runs inline on the same thread; a branch with samples queues them as a group  *)
(* and waits.  The scheduler admits leaves from the groups in turn to its own    *)
(* pool, and a leaf waits for the port.  Three pools wait on one another here,   *)
(* and the main thread may stop or close everything at any moment.               *)
EXTENDS Integers, Sequences, FiniteSets, Functions

CONSTANTS Questions,     \* workflows the main thread may submit
          Branches,      \* coordinator tasks
          ParentOf,      \* the question or branch that submits a branch
          SamplesOf,     \* how many samples a branch draws
          Runners,       \* native stage runners, closed at the end
          Coordinators,  \* coordinator_workers
          Workers,       \* request_workers: threads of the sample pool
          RequestCap,    \* in-flight cap of the dispatcher
          MaxHitches     \* bound: threads that do not start, failing clean-ups, interrupts

ASSUME TreeAssumption == /\ ParentOf \in [Branches -> Questions \cup Branches]
                         /\ SamplesOf \in [Branches -> Nat]
                         /\ Questions \cap Branches = {}
ASSUME PoolAssumption == /\ Coordinators \in Nat \ {0} /\ Workers \in Nat \ {0}
                         /\ RequestCap \in Nat \ {0} /\ MaxHitches \in Nat

Leaves == UNION {{<<b, i>> : i \in 1..SamplesOf[b]} : b \in Branches}
LeavesOf(b) == {l \in Leaves : l[1] = b}

VARIABLES workflow,   \* per question, its future in the workflow pool
          branch,     \* per branch, its coordinator task
          groups,     \* the scheduler's groups with queued leaves, in turn
          active,     \* the scheduler's count of submitted leaves
          leaf,       \* per leaf
          stopped,    \* the run's stop event
          main,       \* what the main thread is closing
          cleaned,    \* clean-up actions performed, as <<runner, action>>
          phase, port,   \* the port's view of the leaves' requests
          passed,     \* per branch, the groups served while its group waited
          hitches

requests == <<phase, port>>
runtimeVars == <<workflow, branch, groups, active, leaf, stopped, main, cleaned, requests,
          passed, hitches>>

Dispatch == INSTANCE RequestPort WITH
    Requests <- Leaves, Cap <- RequestCap, phase <- phase, stopped <- stopped, port <- port

Tasks == Questions \cup Branches
Children(t) == {b \in Branches : ParentOf[b] = t}

\* The main thread: running, then close_runners, then runtime.close step by step.
Closing == <<"running", "drain", "cleanup", "undo", "clients", "workflows",
             "coordinators", "samples", "dispatch", "closed">>
Reached(where) == \E i, j \in DOMAIN Closing :
                     Closing[i] = where /\ Closing[j] = main /\ i <= j

RuntimeTypeOK ==
    /\ workflow \in [Questions -> {"idle", "running", "waiting", "done"}]
    /\ branch \in [Branches -> {"none", "queued", "running", "sampling", "done"}]
    /\ groups \in Seq(Seq(Leaves))
    /\ active \in Nat
    /\ leaf \in [Leaves -> {"none", "pending", "pooled", "asking", "resulted", "done"}]
    /\ stopped \in BOOLEAN
    /\ main \in Range(Closing)
    /\ cleaned \subseteq Runners \X {"cleanup", "undo", "client"}
    /\ phase \in [Leaves -> {"new", "accepted", "admitted", "settled"}]
    /\ port \in {"open", "closing", "shut"}
    /\ passed \in [Branches -> SUBSET Branches]
    /\ hitches \in 0..MaxHitches

RuntimeInit ==
    /\ workflow = [q \in Questions |-> "idle"]
    /\ branch = [b \in Branches |-> "none"]
    /\ groups = <<>> /\ active = 0
    /\ leaf = [l \in Leaves |-> "none"]
    /\ main = "running" /\ cleaned = {}
    /\ passed = [b \in Branches |-> {}]
    /\ hitches = 0
    /\ Dispatch!Init

------------------------------------------------------------------------------
(* Workflows and coordinators.                                                   *)

Alive(q) == workflow[q] \in {"running", "waiting"}
Busy(b) == branch[b] \in {"queued", "running", "sampling"}
Inline(b) == ParentOf[b] \in Branches

PoolFrame == UNCHANGED <<groups, active, leaf, main, cleaned, requests, passed, hitches>>

\* submit_workflow refuses once stopped or closing; the pool has one thread for
\* every unfinished question.
SubmitWorkflow(q) ==
    /\ main = "running" /\ ~stopped
    /\ workflow[q] = "idle"
    /\ workflow' = [workflow EXCEPT ![q] = "running"]
    /\ UNCHANGED <<branch, stopped>> /\ PoolFrame

\* Mutant: a nested submission queues for a coordinator thread of its own.
Starts_Queued(b) == "queued"

\* A coordinator's own submission runs inline; a workflow's goes to the pool.
Starts(b) == IF Inline(b) THEN "running" ELSE "queued"

Submitting(t) == IF t \in Questions THEN workflow[t] = "running"
                                    ELSE branch[t] = "running"

\* submit_coordinator: a workflow thread may still submit while the runtime is
\* closing, nobody once the run is stopped.
SubmitBranch(t, b) ==
    /\ Submitting(t) /\ ~stopped /\ main # "closed"
    /\ b \in Children(t) /\ branch[b] = "none"
    /\ \A c \in Children(t) : Inline(c) => ~Busy(c)
    /\ branch' = [branch EXCEPT ![b] = Starts(b)]
    /\ UNCHANGED <<workflow, stopped>> /\ PoolFrame

\* With everything submitted, or a submission refused, the stage waits for the
\* branches it started (native_stage_work).
AwaitBranches(q) ==
    /\ workflow[q] = "running"
    /\ stopped \/ \A b \in Children(q) : branch[b] # "none"
    /\ workflow' = [workflow EXCEPT ![q] = "waiting"]
    /\ UNCHANGED <<branch, stopped>> /\ PoolFrame

\* Mutant: a branch that was refused is waited for.
BranchesOver_Never(q) == \A b \in Children(q) : branch[b] = "done"

BranchesOver(q) == \A b \in Children(q) : ~Busy(b)

EndWorkflow(q) ==
    /\ workflow[q] = "waiting" /\ BranchesOver(q)
    /\ workflow' = [workflow EXCEPT ![q] = "done"]
    /\ UNCHANGED <<branch, stopped>> /\ PoolFrame

\* Coordinator threads in use: inline branches run on their parent's.
Threads == Cardinality({b \in Branches : branch[b] \in {"running", "sampling"}
                                         /\ (~Inline(b) \/ Starts(b) = "queued")})

StartBranch(b) ==
    /\ branch[b] = "queued" /\ Threads < Coordinators
    /\ branch' = [branch EXCEPT ![b] = "running"]
    /\ UNCHANGED <<workflow, stopped>> /\ PoolFrame

\* A nested call that waits, or everything refused, leads on to the samples.
Childless(b) == \A c \in Children(b) : ~Busy(c) /\ (stopped \/ branch[c] = "done")

------------------------------------------------------------------------------
(* The sample scheduler.                                                         *)

\* Mutant: the group that was served goes first again.
Pop_Sticky(s) == LET left == Tail(Head(s.groups))
                 IN [groups |-> IF left = <<>> THEN Tail(s.groups)
                                               ELSE <<left>> \o Tail(s.groups),
                     active |-> s.active + 1,
                     taken |-> Append(s.taken, Head(Head(s.groups)))]

\* One leaf admitted by _pump: its group goes to the end of the turn.
Pop(s) == LET left == Tail(Head(s.groups))
          IN [groups |-> IF left = <<>> THEN Tail(s.groups)
                                        ELSE Append(Tail(s.groups), left),
              active |-> s.active + 1,
              taken |-> Append(s.taken, Head(Head(s.groups)))]

\* Mutant: one leaf more than there are workers.
HasWorker_OffByOne(s) == s.active <= Workers

HasWorker(s) == s.active < Workers

\* One turn of the loop of _pump.
Turn(s) == IF s.groups # <<>> /\ HasWorker(s) THEN Pop(s) ELSE s

\* _pump: leaves are admitted while a worker is free, which takes at most Workers
\* turns.  (A leaf whose thread cannot start gets that error as its result and its
\* worker back; then it counts for nothing, which TakeLeaf models.)
Pumped(s) ==
    LET pump[n \in 0..Workers] == IF n = 0 THEN s ELSE Turn(pump[n - 1])
    IN pump[Workers]

Admitting(s) ==
    LET after == Pumped(s)
    IN /\ groups' = after.groups
       /\ active' = after.active
       /\ leaf' = [l \in Leaves |->
              IF l \in Range(after.taken) THEN "pooled"
              ELSE IF l \in UNION {Range(after.groups[i]) : i \in DOMAIN after.groups}
              THEN "pending" ELSE leaf[l]]
       /\ passed' = [b \in Branches |->
              IF \E i \in DOMAIN after.groups : Head(after.groups[i])[1] = b
                 /\ ~\E l \in Range(after.taken) : l[1] = b
              THEN passed[b] \cup {l[1] : l \in Range(after.taken)}
              ELSE {}]

\* run_samples queues the group of a branch, unless stopped or closed.
QueueSamples(b) ==
    /\ branch[b] = "running" /\ Childless(b)
    /\ SamplesOf[b] > 0 /\ ~stopped /\ ~Reached("samples")
    /\ branch' = [branch EXCEPT ![b] = "sampling"]
    /\ Admitting([groups |-> Append(groups, [i \in 1..SamplesOf[b] |-> <<b, i>>]),
                  active |-> active, taken |-> <<>>])
    /\ UNCHANGED <<workflow, stopped, main, cleaned, requests, hitches>>

\* Mutant: the first sample that raises ends the wait of its group.
GroupOver_First(b) == \E l \in LeavesOf(b) : leaf[l] \in {"resulted", "done"}

GroupOver(b) == \A l \in LeavesOf(b) : leaf[l] \in {"resulted", "done"}

EndBranch(b) ==
    /\ \/ /\ branch[b] = "running" /\ Childless(b)
          /\ SamplesOf[b] = 0 \/ stopped \/ Reached("samples")
       \/ branch[b] = "sampling" /\ GroupOver(b)
    /\ branch' = [branch EXCEPT ![b] = "done"]
    /\ UNCHANGED <<workflow, stopped>> /\ PoolFrame

LeafFrame == UNCHANGED <<workflow, branch, main, cleaned, port>>

\* execute_sample asks the port, unless the run was stopped; or its thread did
\* not start.
TakeLeaf(l) ==
    /\ leaf[l] = "pooled"
    /\ \/ /\ Dispatch!Accept(l)
          /\ leaf' = [leaf EXCEPT ![l] = "asking"]
          /\ UNCHANGED hitches
       \/ /\ \/ stopped /\ UNCHANGED hitches
             \/ hitches < MaxHitches /\ hitches' = hitches + 1
          /\ leaf' = [leaf EXCEPT ![l] = "resulted"]
          /\ UNCHANGED <<phase, stopped>>
    /\ UNCHANGED <<groups, active, passed>> /\ LeafFrame

\* The result of the leaf is set before its worker is given back.
LeafResult(l) ==
    /\ leaf[l] = "asking" /\ phase[l] = "settled"
    /\ leaf' = [leaf EXCEPT ![l] = "resulted"]
    /\ UNCHANGED <<groups, active, passed, phase, stopped, hitches>> /\ LeafFrame

\* Mutant: a worker given back does not admit the next leaf.
Released_Quiet(l) == /\ active' = active - 1
                     /\ leaf' = [leaf EXCEPT ![l] = "done"]
                     /\ UNCHANGED <<groups, passed>>

\* The done callback gives the worker back and pumps, under the lock.
Released(l) ==
    LET after == Pumped([groups |-> groups, active |-> active - 1, taken |-> <<>>])
    IN /\ groups' = after.groups
       /\ active' = after.active
       /\ leaf' = [m \in Leaves |->
              IF m = l THEN "done"
              ELSE IF m \in Range(after.taken) THEN "pooled" ELSE leaf[m]]
       /\ passed' = [b \in Branches |->
              IF \E i \in DOMAIN after.groups : Head(after.groups[i])[1] = b
                 /\ ~\E m \in Range(after.taken) : m[1] = b
              THEN passed[b] \cup {m[1] : m \in Range(after.taken)}
              ELSE {}]

LeafDone(l) ==
    /\ leaf[l] = "resulted"
    /\ Released(l)
    /\ UNCHANGED <<phase, stopped, hitches>> /\ LeafFrame

LeafMoves(l) == TakeLeaf(l) \/ LeafResult(l) \/ LeafDone(l)

\* What the port does by itself.
Port(l) ==
    /\ Dispatch!Admit(l) \/ (l \in Dispatch!InPhase("accepted")
                                   \cup Dispatch!InPhase("admitted")
                             /\ Dispatch!Settle({l}))
    /\ UNCHANGED <<workflow, branch, groups, active, leaf, main, cleaned, passed, hitches>>

------------------------------------------------------------------------------
(* The main thread closes: close_runners, then SamplingRuntime.close.            *)

MainFrame == UNCHANGED <<workflow, branch, groups, active, leaf, stopped, phase, passed>>

\* A pipeline closes its runners first; a preparation only closes the runtime.
BeginClose ==
    /\ main = "running"
    /\ main' \in {"drain", "workflows"}
    /\ UNCHANGED <<cleaned, port, hitches>> /\ MainFrame

\* Mutant: an interrupt ends the wait for the questions.
Drained_Interrupted == \/ \A t \in Questions : ~Alive(t)
                       \/ hitches > 0

\* wait_for_work records an interrupt and waits on.
Drained == \A q \in Questions : ~Alive(q)

Interrupt ==
    /\ main = "drain" /\ hitches < MaxHitches
    /\ hitches' = hitches + 1
    /\ UNCHANGED <<main, cleaned, port>> /\ MainFrame

DrainRunners ==
    /\ main = "drain" /\ Drained
    /\ main' = "cleanup"
    /\ UNCHANGED <<cleaned, port, hitches>> /\ MainFrame

Actions == [cleanup |-> "cleanup", undo |-> "undo", clients |-> "client"]
NextOf(where) == CHOOSE s \in Range(Closing) :
                    \E i \in 1..(Len(Closing) - 1) :
                        Closing[i] = where /\ Closing[i + 1] = s

\* Each action is performed, whether or not an earlier one raised.
Perform(r) ==
    /\ main \in DOMAIN Actions
    /\ <<r, Actions[main]>> \notin cleaned
    /\ cleaned' = cleaned \cup {<<r, Actions[main]>>}
    /\ UNCHANGED hitches \/ (hitches < MaxHitches /\ hitches' = hitches + 1)
    /\ UNCHANGED <<main, port>> /\ MainFrame

Performed == \A r \in Runners : <<r, Actions[main]>> \in cleaned

NextKind ==
    /\ main \in DOMAIN Actions /\ Performed
    /\ main' = NextOf(main)
    /\ UNCHANGED <<cleaned, port, hitches>> /\ MainFrame

\* Mutant: the coordinator pool is shut before the workflows that use it.
PoolEmpty_Swapped(where) ==
    CASE where = "workflows" -> \A b \in Branches : ~Busy(b)
      [] where = "coordinators" -> \A q \in Questions : ~Alive(q)
      [] where = "samples" -> \A l \in Leaves : leaf[l] \in {"none", "done"}

\* shutdown(wait=True) of one pool after the other.
PoolEmpty(where) ==
    CASE where = "workflows" -> \A q \in Questions : ~Alive(q)
      [] where = "coordinators" -> \A b \in Branches : ~Busy(b)
      [] where = "samples" -> \A l \in Leaves : leaf[l] \in {"none", "done"}

ShutPool ==
    /\ main \in {"workflows", "coordinators", "samples"} /\ PoolEmpty(main)
    /\ main' = NextOf(main)
    /\ UNCHANGED <<cleaned, port, hitches>> /\ MainFrame

CloseDispatch ==
    /\ main = "dispatch"
    /\ \/ Dispatch!Close /\ main' = main
       \/ Dispatch!Shut /\ main' = main
       \/ port = "shut" /\ main' = "closed" /\ UNCHANGED <<phase, stopped, port>>
    /\ UNCHANGED <<workflow, branch, groups, active, leaf, passed, cleaned, hitches>>

Main == \/ DrainRunners \/ (\E r \in Runners : Perform(r)) \/ NextKind \/ ShutPool
        \/ CloseDispatch

\* A signal, the recorder or the controller sets the shared event.
Stop == /\ ~stopped /\ stopped' = TRUE
        /\ UNCHANGED <<workflow, branch>> /\ PoolFrame

------------------------------------------------------------------------------
Progress ==
    \/ \E q \in Questions : AwaitBranches(q) \/ EndWorkflow(q)
    \/ \E t \in Tasks, b \in Branches : SubmitBranch(t, b)
    \/ \E b \in Branches : StartBranch(b) \/ QueueSamples(b) \/ EndBranch(b)
    \/ \E l \in Leaves : LeafMoves(l) \/ Port(l)
    \/ Main

RuntimeNext == \/ Progress
        \/ \E q \in Questions : SubmitWorkflow(q)
        \/ BeginClose \/ Interrupt \/ Stop

RuntimeSpec == RuntimeInit /\ [][RuntimeNext]_runtimeVars

\* Threads run and the port settles what it accepted (RequestPort, which request
\* dispatch implements).  Every step of Progress takes something nearer its end.
FairRuntime == RuntimeSpec /\ WF_runtimeVars(Progress)

------------------------------------------------------------------------------
(* Properties.                                                                   *)

\* A queued leaf means a full sample pool: no schedule of submissions, results
\* and done callbacks leaves a worker idle while a group waits for one.
WorkConserving == groups # <<>> => active = Workers

\* The scheduler's count is that of the leaves it handed out, and bounded.
LeavesAreCounted ==
    /\ active = Cardinality({l \in Leaves : leaf[l] \in {"pooled", "asking", "resulted"}})
    /\ active <= Workers

\* Nobody returns before those it started: a branch has all its samples' results
\* (their session unwinds with it), a question has all its branches.
NobodyLeavesWorkBehind ==
    /\ \A b \in Branches : branch[b] = "done" =>
          \A l \in LeavesOf(b) : leaf[l] \in {"none", "resulted", "done"}
    /\ \A q \in Questions : workflow[q] = "done" => \A b \in Children(q) : ~Busy(b)

\* A pool is shut only when nobody who submits to it is left, so that no thread
\* of an ending run meets a closed pool or a closed dispatcher.
PoolsOutliveTheirUsers ==
    /\ Reached("coordinators") => \A q \in Questions : ~Alive(q)
    /\ Reached("samples") => \A b \in Branches : ~Busy(b)
    /\ Reached("dispatch") => \A l \in Leaves : leaf[l] \in {"none", "done"}
    /\ main = "closed" => port = "shut"

\* Native clean-up resets services of the process: it starts when no question of
\* any runner is alive, whatever interrupts the wait; undoing the tracing waits
\* for all of it, and the clients for the tracing.
CleanupAfterWork ==
    /\ cleaned # {} => \A q \in Questions : ~Alive(q)
    /\ \A r, s \in Runners : <<r, "undo">> \in cleaned => <<s, "cleanup">> \in cleaned
    /\ \A r, s \in Runners : <<r, "client">> \in cleaned => <<s, "undo">> \in cleaned
    /\ cleaned # {} /\ Reached("workflows") => cleaned = Runners \X {"cleanup", "undo", "client"}

\* Threads, pools, runners and clients are used to the full while they work and
\* given up in the order in which they lean on one another.
UnwindsInOrder ==
    /\ RuntimeTypeOK
    /\ WorkConserving
    /\ LeavesAreCounted
    /\ NobodyLeavesWorkBehind
    /\ PoolsOutliveTheirUsers
    /\ CleanupAfterWork

\* A leaf of g goes to the pool in this step.
Admitted(g) == \E l \in LeavesOf(g) : leaf[l] \in {"none", "pending"} /\ leaf'[l] = "pooled"

\* No group gets a second worker while another has waited for its first since
\* before: a large group does not monopolise workers as they come free.
GroupsAlternate ==
    [][\A g, h \in Branches :
          Admitted(g) /\ ~Admitted(h) /\ (\E l \in LeavesOf(h) : leaf[l] = "pending")
          => g \notin passed[h]]_runtimeVars

\* A question that was submitted ends: coordinators that wait for coordinators,
\* for workers and for requests never exhaust the threads they wait for.
WorkflowsEnd == \A q \in Questions : workflow[q] = "running" ~> workflow[q] = "done"

\* Closing ends, whatever is queued, running or failing.
CloseEnds == main = "workflows" ~> main = "closed"

\* No question and no closing waits for ever for a thread, a worker or a request.
EverythingEnds ==
    /\ WorkflowsEnd
    /\ CloseEnds
=============================================================================
