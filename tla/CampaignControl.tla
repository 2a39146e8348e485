--------------------------- MODULE CampaignControl ---------------------------
(* run, resume and pause of scripts/rc_evaluation/deepeye/campaign/controller.py *)
(* with the supervisors of supervisor.py and the children they run.              *)
(*                                                                               *)
(* Controller, supervisors and children are processes of their own, and survive  *)
(* each other.  What they know of each other is durable: the jobs of the ledger, *)
(* the identity record and the lock of each job, and the mode in control.json.   *)
(* The jobs are fixed here; CampaignPlan says how they come to be.               *)
EXTENDS Integers, FiniteSets

CONSTANTS NJobs,       \* jobs of the campaign
          MaxRuns,     \* bound: run and resume commands
          MaxPauses,   \* bound: pause commands
          MaxFaults,   \* bound: deaths and failures
          Faults       \* the kinds of them that occur

ASSUME BoundsAssumption == /\ NJobs \in Nat \ {0} /\ MaxRuns \in Nat \ {0}
                           /\ MaxPauses \in Nat /\ MaxFaults \in Nat
ASSUME FaultsAssumption ==
    Faults \subseteq {"controller", "launch", "supervisor", "child", "spawn"}

Jobs == 1..NJobs

\* A launch token is unique.  A command launches a job at most once, so its
\* number serves as the token; 0 stands for empty process metadata.
Tokens == 1..MaxRuns
Launches == Jobs \X Tokens

VARIABLES mode,      \* control.json
          ledger,    \* per job, its state and launch token
          record,    \* per job, the identity record of its last supervisor
          dir,       \* per job, its run directory
          done,      \* jobs whose questions are all terminal in the run store
          ctl,       \* the controller
          sup,       \* per launch, its supervisor
          kid,       \* per launch, the child it last ran
          runs, pauses, faults

vars == <<mode, ledger, record, dir, done, ctl, sup, kid, runs, pauses, faults>>
durable == <<ledger, record, dir, done>>
bounds == <<runs, pauses, faults>>

Modes == {"configured", "running", "paused", "blocked", "complete"}
JobStates == {"planned", "prepared", "running", "finished", "blocked", "paused"}
Phases == {"none", "acknowledged", "preparing", "prepared", "running",
           "finished", "paused", "blocked"}
CtlPCs == {"down", "read", "probe", "judge", "block", "reset", "start", "plan",
           "launch", "spawn", "raise"}
SupPCs == {"none", "start", "lock", "claim", "acknowledged", "fork_prepare",
           "mark_prepare", "wait_prepare", "prepared", "fork_run", "mark_run",
           "wait_run", "fault", "block", "exit", "gone"}
KidPCs == {"none", "prepare", "making", "run", "stopping", "ok", "bad"}
Records == [token : {0} \cup Tokens, phase : Phases, child : BOOLEAN]

TypeOK ==
    /\ mode \in Modes
    /\ ledger \in [Jobs -> [state : JobStates, token : {0} \cup Tokens]]
    /\ record \in [Jobs -> Records]
    /\ dir \in [Jobs -> {"none", "partial", "ready"}]
    /\ done \subseteq Jobs
    /\ ctl \in [pc : CtlPCs, at : Jobs, booting : BOOLEAN, resume : BOOLEAN,
                states : [Jobs -> JobStates \cup {"pending"}],
                rec : Records, held : BOOLEAN]
    /\ sup \in [Launches -> SupPCs]
    /\ kid \in [Launches -> KidPCs]
    /\ runs \in 0..MaxRuns /\ pauses \in 0..MaxPauses /\ faults \in 0..MaxFaults

NoRecord == [token |-> 0, phase |-> "none", child |-> FALSE]

Off == [pc |-> "down", at |-> 1, booting |-> FALSE, resume |-> FALSE,
        states |-> [j \in Jobs |-> "pending"], rec |-> NoRecord, held |-> FALSE]

Init ==
    /\ mode = "configured"
    /\ ledger = [j \in Jobs |-> [state |-> "planned", token |-> 0]]
    /\ record = [j \in Jobs |-> NoRecord]
    /\ dir = [j \in Jobs |-> "none"]
    /\ done = {}
    /\ ctl = Off
    /\ sup = [s \in Launches |-> "none"]
    /\ kid = [s \in Launches |-> "none"]
    /\ runs = 0 /\ pauses = 0 /\ faults = 0

------------------------------------------------------------------------------
(* What one process can see of another.                                         *)

Alive(s) == sup[s] \notin {"none", "gone"}
KidAlive(s) == kid[s] \in {"prepare", "making", "run", "stopping"}

\* The holder of a job's lock; closing the descriptor or dying releases it.
Owns(s) == Alive(s) /\ sup[s] \notin {"start", "lock"}
lock_held(j) == \E t \in Tokens : Owns(<<j, t>>)

\* verified_identity of the record's supervisor, and of its child.
SupervisorVerified(j, rec) == rec.token # 0 /\ Alive(<<j, rec.token>>)
ChildVerified(j, rec) == rec.token # 0 /\ rec.child /\ KidAlive(<<j, rec.token>>)

stopping_requested == mode \in {"paused", "blocked"}

\* Mutant: the exit code of the child is believed.
all_terminal_ExitCode(j) == TRUE

all_terminal(j) == j \in done

------------------------------------------------------------------------------
(* The controller.                                                              *)

Goto(pc) == ctl' = [ctl EXCEPT !.pc = pc]

\* The next tick starts from nothing.
NextTick == [Off EXCEPT !.pc = "read"]

\* run or resume takes controller.lock and reconciles.
Begin(resume) ==
    /\ ctl.pc = "down" /\ runs < MaxRuns
    /\ runs' = runs + 1
    /\ ctl' = [Off EXCEPT !.pc = "read", !.booting = TRUE, !.resume = resume]
    /\ UNCHANGED <<mode, durable, sup, kid, pauses, faults>>

\* Where the controller goes once every job is reconciled.
Reconciled ==
    CASE ~ctl.booting -> "plan"
      [] ctl.booting /\ ctl.resume -> "reset"
      [] ctl.booting /\ ~ctl.resume -> IF stopping_requested THEN "down" ELSE "start"

\* On to the next job, or past the last one.
Past(j, pc, states, after) ==
    ctl' = IF j < NJobs THEN [ctl EXCEPT !.pc = pc, !.at = j + 1, !.states = states,
                                         !.rec = NoRecord, !.held = FALSE]
           ELSE IF after = "down" THEN Off
           ELSE IF after = "read" THEN NextTick
           ELSE [ctl EXCEPT !.pc = after, !.at = 1, !.states = states,
                            !.rec = NoRecord, !.held = FALSE]

Classified(state) ==
    LET j == ctl.at IN Past(j, "read", [ctl.states EXCEPT ![j] = state], Reconciled)

\* Mutant: a job whose launch was never acknowledged may be launched again.
Unacknowledged_Resumable(j) == "paused"

Unacknowledged(j) == "pending"

\* The row of the job, then its identity record.
ReadRecord ==
    LET j == ctl.at
        row == ledger[j]
    IN /\ ctl.pc = "read"
       /\ IF row.state = "finished" \/ row.token = 0 THEN Classified(row.state)
          ELSE IF record[j].token # row.token THEN Classified(Unacknowledged(j))
          ELSE ctl' = [ctl EXCEPT !.pc = "probe", !.rec = record[j]]
       /\ UNCHANGED <<mode, durable, sup, kid, bounds>>

ProbeLock ==
    /\ ctl.pc = "probe"
    /\ ctl' = [ctl EXCEPT !.pc = "judge", !.held = lock_held(ctl.at)]
    /\ UNCHANGED <<mode, durable, sup, kid, bounds>>

\* Mutant: a launch whose supervisor is gone is waited for.
Judgement_Patient(j, rec, held) ==
    IF ~held /\ rec.phase = "finished" /\ all_terminal(j) THEN "finished"
    ELSE IF ~held /\ rec.phase = "paused" THEN "paused" ELSE "pending"

\* What a record read earlier and a lock probed since say of the job now.
Judgement(j, rec, held) ==
    IF held
    THEN IF ~SupervisorVerified(j, rec) THEN "blocked"
         ELSE IF rec.phase \in {"prepared", "running"} THEN rec.phase ELSE "pending"
    ELSE IF rec.phase = "finished" /\ all_terminal(j) THEN "finished"
         ELSE IF rec.phase = "paused" THEN "paused" ELSE "blocked"

Judge ==
    LET j == ctl.at
        judged == Judgement(j, ctl.rec, ctl.held)
    IN /\ ctl.pc = "judge"
       /\ ledger' = IF judged \in {"finished", "paused", "blocked"}
                    THEN [ledger EXCEPT ![j].state = judged] ELSE ledger
       /\ IF judged = "blocked" /\ ledger[j].state # "blocked" THEN Goto("block")
          ELSE Classified(judged)
       /\ UNCHANGED <<mode, record, dir, done, sup, kid, bounds>>

\* The campaign is blocked in a write of its own.
Block ==
    /\ ctl.pc = "block"
    /\ mode' = "blocked"
    /\ LET j == ctl.at
           after == IF ctl.booting /\ ~ctl.resume THEN "down" ELSE Reconciled
       IN Past(j, "read", [ctl.states EXCEPT ![j] = "blocked"], after)
    /\ UNCHANGED <<durable, sup, kid, bounds>>

Stoppable == {"blocked", "paused"}

\* resume forgets the launch of a job that nothing owns any more, and raises if
\* something does.
Reset ==
    LET j == ctl.at
        owned == \/ lock_held(j)
                 \/ SupervisorVerified(j, record[j]) \/ ChildVerified(j, record[j])
        state == IF dir[j] = "none" THEN "planned" ELSE "prepared"
    IN /\ ctl.pc = "reset"
       /\ IF ctl.states[j] \in Stoppable /\ owned
          THEN ctl' = Off /\ UNCHANGED ledger
          ELSE /\ ledger' = IF ctl.states[j] \in Stoppable
                            THEN [ledger EXCEPT ![j] = [state |-> state, token |-> 0]]
                            ELSE ledger
               /\ Past(j, "reset", ctl.states, "start")
       /\ UNCHANGED <<mode, record, dir, done, sup, kid, bounds>>

Start ==
    /\ ctl.pc = "start"
    /\ mode' = "running"
    /\ ctl' = NextTick
    /\ UNCHANGED <<durable, sup, kid, bounds>>

\* A run directory without a committed store; opening it raises.
Unreadable(j) ==
    /\ dir[j] = "partial"
    /\ record[j].phase \in {"prepared", "running", "finished", "paused", "blocked"}

\* Mutant: a launch that is not acknowledged yet is not waited for.
Busy_Acknowledged == {"running", "prepared"}

Busy == {"pending", "running", "prepared"}

\* The runs are observed, and the tick planned.
Plan ==
    /\ ctl.pc = "plan"
    /\ IF \E j \in Jobs : Unreadable(j) THEN Goto("raise") /\ UNCHANGED mode
       ELSE IF \A j \in Jobs : ledger[j].state = "finished" THEN mode' = "complete" /\ ctl' = Off
       ELSE /\ UNCHANGED mode
            /\ ctl' = IF mode = "running" THEN [ctl EXCEPT !.pc = "launch"]
                      ELSE IF \A j \in Jobs : ctl.states[j] \notin Busy THEN Off
                      ELSE NextTick
    /\ UNCHANGED <<durable, sup, kid, bounds>>

Launchable(j) == ledger[j].state \in {"planned", "prepared"} /\ ledger[j].token = 0

\* The launch is committed to the ledger first.
Launch ==
    LET j == ctl.at
    IN /\ ctl.pc = "launch"
       /\ IF Launchable(j) /\ mode = "running"
          THEN /\ ledger' = [ledger EXCEPT ![j] = [state |-> "running", token |-> runs]]
               /\ Goto("spawn")
          ELSE UNCHANGED ledger /\ Past(j, "launch", ctl.states, "read")
       /\ UNCHANGED <<mode, record, dir, done, sup, kid, bounds>>

Spawn ==
    LET j == ctl.at
    IN /\ ctl.pc = "spawn"
       /\ sup' = [sup EXCEPT ![<<j, runs>>] = "start"]
       /\ Past(j, "launch", ctl.states, "read")
       /\ UNCHANGED <<mode, durable, kid, bounds>>

Fault(kind) == kind \in Faults /\ faults < MaxFaults /\ faults' = faults + 1

SpawnFails ==
    /\ ctl.pc = "spawn" /\ Fault("spawn")
    /\ ledger' = [ledger EXCEPT ![ctl.at] = [state |-> "blocked", token |-> 0]]
    /\ Goto("raise")
    /\ UNCHANGED <<mode, record, dir, done, sup, kid, runs, pauses>>

\* An exception in the loop blocks the campaign and ends the controller.
RaiseBlocked ==
    /\ ctl.pc = "raise"
    /\ mode' = "blocked"
    /\ ctl' = Off
    /\ UNCHANGED <<durable, sup, kid, bounds>>

------------------------------------------------------------------------------
(* A supervisor, launch s of job s[1].                                          *)

\* One step: the process, its record, its child, the mode.
SupGoto(s, pc) == sup' = [sup EXCEPT ![s] = pc]
Record(s, phase, child) ==
    record' = [record EXCEPT ![s[1]] = [token |-> s[2], phase |-> phase, child |-> child]]

SupFrame == UNCHANGED <<ledger, dir, done, ctl, bounds>>

\* It ends unless the ledger still names its token.
CheckToken(s) ==
    /\ sup[s] = "start"
    /\ SupGoto(s, IF ledger[s[1]].token = s[2] THEN "lock" ELSE "gone")
    /\ SupFrame /\ UNCHANGED <<mode, record, kid>>

\* Taking the lock does not wait for it.
TakeLock(s) ==
    /\ sup[s] = "lock"
    /\ SupGoto(s, IF lock_held(s[1]) THEN "gone" ELSE "claim")
    /\ SupFrame /\ UNCHANGED <<mode, record, kid>>

\* The token is checked again under the lock.
Acknowledge(s) ==
    /\ sup[s] = "claim"
    /\ IF ledger[s[1]].token = s[2]
       THEN SupGoto(s, "acknowledged") /\ Record(s, "acknowledged", FALSE)
       ELSE SupGoto(s, "gone") /\ UNCHANGED record
    /\ SupFrame /\ UNCHANGED <<mode, kid>>

\* A stop is honoured before preparation, which is skipped if the directory exists.
Acknowledged(s) ==
    /\ sup[s] = "acknowledged"
    /\ IF stopping_requested THEN SupGoto(s, "exit") /\ Record(s, "paused", FALSE)
       ELSE IF dir[s[1]] = "none" THEN SupGoto(s, "fork_prepare") /\ Record(s, "preparing", FALSE)
       ELSE SupGoto(s, "prepared") /\ Record(s, "prepared", FALSE)
    /\ SupFrame /\ UNCHANGED <<mode, kid>>

\* The child exists before its identity is recorded.
Fork(s, at, child, next) ==
    /\ sup[s] = at
    /\ kid' = [kid EXCEPT ![s] = child]
    /\ SupGoto(s, next)
    /\ SupFrame /\ UNCHANGED <<mode, record>>

MarkChild(s, at, next) ==
    /\ sup[s] = at
    /\ Record(s, record[s[1]].phase, TRUE)
    /\ SupGoto(s, next)
    /\ SupFrame /\ UNCHANGED <<mode, kid>>

\* Preparation is never interrupted.
WaitPrepare(s) ==
    /\ sup[s] = "wait_prepare" /\ ~KidAlive(s)
    /\ IF kid[s] = "ok" THEN SupGoto(s, "prepared") /\ Record(s, "prepared", FALSE)
       ELSE SupGoto(s, "fault") /\ UNCHANGED record
    /\ SupFrame /\ UNCHANGED <<mode, kid>>

\* The prepared run is observed, then a stop is honoured once more.
Prepared(s) ==
    /\ sup[s] = "prepared"
    /\ IF dir[s[1]] # "ready" THEN SupGoto(s, "fault") /\ UNCHANGED record
       ELSE IF stopping_requested THEN SupGoto(s, "exit") /\ Record(s, "paused", FALSE)
       ELSE SupGoto(s, "fork_run") /\ Record(s, "running", FALSE)
    /\ SupFrame /\ UNCHANGED <<mode, kid>>

\* The request to stop is forwarded to the child.
Forward(s) ==
    /\ sup[s] = "wait_run" /\ kid[s] = "run" /\ stopping_requested
    /\ kid' = [kid EXCEPT ![s] = "stopping"]
    /\ SupFrame /\ UNCHANGED <<mode, record, sup>>

WaitRun(s) ==
    /\ sup[s] = "wait_run" /\ ~KidAlive(s)
    /\ IF kid[s] = "ok" /\ all_terminal(s[1])
       THEN SupGoto(s, "exit") /\ Record(s, "finished", FALSE)
       ELSE IF stopping_requested THEN SupGoto(s, "exit") /\ Record(s, "paused", FALSE)
       ELSE SupGoto(s, "fault") /\ UNCHANGED record
    /\ SupFrame /\ UNCHANGED <<mode, kid>>

\* A fault is recorded, then blocks the campaign.
RecordFault(s) ==
    /\ sup[s] = "fault"
    /\ Record(s, "blocked", record[s[1]].child)
    /\ SupGoto(s, "block")
    /\ SupFrame /\ UNCHANGED <<mode, kid>>

BlockCampaign(s) ==
    /\ sup[s] = "block"
    /\ mode' = "blocked"
    /\ SupGoto(s, "exit")
    /\ SupFrame /\ UNCHANGED <<record, kid>>

Leave(s) ==
    /\ sup[s] = "exit"
    /\ SupGoto(s, "gone")
    /\ SupFrame /\ UNCHANGED <<mode, record, kid>>

------------------------------------------------------------------------------
(* The children.                                                                *)

KidFrame == UNCHANGED <<mode, ledger, record, ctl, sup, bounds>>

\* The directory is made before the store in it is committed.
MakeDirectory(s) ==
    /\ kid[s] = "prepare"
    /\ IF dir[s[1]] = "none"
       THEN dir' = [dir EXCEPT ![s[1]] = "partial"] /\ kid' = [kid EXCEPT ![s] = "making"]
       ELSE UNCHANGED dir /\ kid' = [kid EXCEPT ![s] = "bad"]
    /\ KidFrame /\ UNCHANGED done

CommitStore(s) ==
    /\ kid[s] = "making"
    /\ dir' = [dir EXCEPT ![s[1]] = "ready"]
    /\ kid' = [kid EXCEPT ![s] = "ok"]
    /\ KidFrame /\ UNCHANGED done

\* The run store's writer lock: an older run of the same job has it.
StoreHeld(s) == \E t \in Tokens : t < s[2] /\ kid[<<s[1], t>>] \in {"run", "stopping"}

FinishRun(s) ==
    /\ kid[s] \in {"run", "stopping"} /\ ~StoreHeld(s)
    /\ done' = done \cup {s[1]}
    /\ kid' = [kid EXCEPT ![s] = "ok"]
    /\ KidFrame /\ UNCHANGED dir

\* It stopped early, as asked to.
StopRun(s) ==
    /\ kid[s] = "stopping"
    /\ kid' = [kid EXCEPT ![s] = "ok"]
    /\ KidFrame /\ UNCHANGED <<dir, done>>

RefuseRun(s) ==
    /\ kid[s] \in {"run", "stopping"} /\ StoreHeld(s)
    /\ kid' = [kid EXCEPT ![s] = "bad"]
    /\ KidFrame /\ UNCHANGED <<dir, done>>

------------------------------------------------------------------------------
(* The operator, and what may go wrong.                                         *)

pause ==
    /\ pauses < MaxPauses
    /\ pauses' = pauses + 1
    /\ mode' = "paused"
    /\ UNCHANGED <<durable, ctl, sup, kid, runs, faults>>

ControllerDies ==
    /\ ctl.pc # "down"
    /\ Fault(IF ctl.pc = "spawn" THEN "launch" ELSE "controller")
    /\ ctl' = Off
    /\ UNCHANGED <<mode, durable, sup, kid, runs, pauses>>

\* Its child lives on.
SupervisorDies(s) ==
    /\ Alive(s)
    /\ Fault(IF sup[s] \in {"start", "lock", "claim"} THEN "launch" ELSE "supervisor")
    /\ SupGoto(s, "gone")
    /\ UNCHANGED <<mode, durable, ctl, kid, runs, pauses>>

ChildFails(s) ==
    /\ KidAlive(s) /\ Fault("child")
    /\ kid' = [kid EXCEPT ![s] = "bad"]
    /\ UNCHANGED <<mode, durable, ctl, sup, runs, pauses>>

------------------------------------------------------------------------------

Controller ==
    \/ ReadRecord \/ ProbeLock \/ Judge \/ Block \/ Reset \/ Start
    \/ Plan \/ Launch \/ Spawn \/ RaiseBlocked

Supervisor(s) ==
    \/ CheckToken(s) \/ TakeLock(s) \/ Acknowledge(s) \/ Acknowledged(s)
    \/ Fork(s, "fork_prepare", "prepare", "mark_prepare")
    \/ MarkChild(s, "mark_prepare", "wait_prepare") \/ WaitPrepare(s)
    \/ Prepared(s)
    \/ Fork(s, "fork_run", "run", "mark_run")
    \/ MarkChild(s, "mark_run", "wait_run") \/ Forward(s) \/ WaitRun(s)
    \/ RecordFault(s) \/ BlockCampaign(s) \/ Leave(s)

Child(s) == \/ MakeDirectory(s) \/ CommitStore(s)
            \/ FinishRun(s) \/ StopRun(s) \/ RefuseRun(s)

Operator == pause \/ \E resume \in BOOLEAN : Begin(resume)

Failure == \/ SpawnFails \/ ControllerDies
           \/ \E s \in Launches : SupervisorDies(s) \/ ChildFails(s)

Next == \/ Controller \/ Operator \/ Failure
        \/ \E s \in Launches : Supervisor(s) \/ Child(s)

Spec == Init /\ [][Next]_vars

\* Processes that are alive go on; the operator need do nothing.
FairSpec ==
    /\ Spec
    /\ WF_vars(Controller)
    /\ \A s \in Launches : WF_vars(Supervisor(s)) /\ WF_vars(Child(s))

------------------------------------------------------------------------------
(* Properties                                                                   *)

\* A job never has two supervisors, however commands, pauses and deaths fall: a
\* launch that was committed is not repeated unless its supervisor acknowledged
\* it and is gone.
LaunchedOnce ==
    \A j \in Jobs : Cardinality({t \in Tokens : Alive(<<j, t>>)}) <= 1

Working(j) == \E t \in Tokens : Alive(<<j, t>>) /\ sup[<<j, t>>] # "exit"

\* A job the ledger calls finished has every question terminal in its store, and
\* no supervisor works on it any more.
FinishedIsDone ==
    \A j \in Jobs : ledger[j].state = "finished" => j \in done /\ ~Working(j)

\* Whatever dies at whatever moment, no job has two supervisors and none is taken
\* for finished before it is.
JobsAreSound ==
    /\ TypeOK
    /\ LaunchedOnce
    /\ FinishedIsDone

\* A controller that returns because the campaign is paused or blocked leaves no
\* supervisor behind: whatever was launched has acknowledged the stop.
QuietOnReturn ==
    [][Plan /\ ctl'.pc = "down" => \A j \in Jobs : ~Working(j)]_vars

\* A job that keeps the controller waiting although nothing works on it: put back
\* by resume and not launched before the campaign stopped; launched, and its
\* supervisor dead before it acknowledged; or blocked or paused in the ledger
\* while the campaign runs.
Stranded(j) ==
    \/ stopping_requested /\ Launchable(j)
    \/ /\ ledger[j].token # 0
       /\ record[j].token # ledger[j].token
       /\ ~Alive(<<j, ledger[j].token>>)
    \/ mode = "running" /\ ledger[j].state \in Stoppable

\* Those are the only jobs for which a command may poll for ever (controller.py:262):
\* whatever dies and whenever the pauses fall, it returns or one job is stranded.
ReturnsUnlessStranded ==
    [](ctl.pc # "down" => <>(ctl.pc = "down" \/ \E j \in Jobs : Stranded(j)))
=============================================================================
