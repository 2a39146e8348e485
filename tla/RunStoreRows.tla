---------------------------- MODULE RunStoreRows ----------------------------
(* The append-only attempt log of scripts/baseline_adapters/deepeye/run_store.py *)
(* as one sequence of rows per item.  A row is an attempt together with the      *)
(* events appended to it and its finish record; an attempt's identifier is its   *)
(* position, so the order of the sequence is the order of the table's rowid.     *)
(*                                                                               *)
(* Data kept: the stage, the input (the identifiers of the committed attempts    *)
(* whose outputs the attempt was given, which is what the chained fingerprint of *)
(* run_pipeline.py distinguishes), the status, and for a master attempt the      *)
(* links its events recorded and the links and failed stage of its finish        *)
(* payload.  Checksums, timestamps and payload bytes are left out.               *)
EXTENDS Integers, Sequences, FiniteSets

CONSTANT NStages        \* the native stages, in order: 1..NStages

ASSUME NStagesAssumption == NStages \in Nat \ {0}

Stages == 1..NStages

\* The stage name of the attempt that stands for the whole question.
Master == 0

\* An attempt without a finish record is read back as interrupted.
Statuses == {"interrupted", "succeeded", "failed"}

\* Events the pipeline appends, besides the two that carry links.
EventKinds == {"pipeline_admitted", "stage_paused", "pipeline_release_intent",
               "pipeline_paused", "pipeline_recovery_seal"}

Rows == [stage : Stages \cup {Master},
         input : Seq(Nat),
         status : Statuses,
         kinds : SUBSET EventKinds,
         recorded : Seq(Nat),          \* links carried by the events
         links : Seq(Nat),             \* stage_attempts of the finish payload
         failedStage : Stages \cup {0}]

------------------------------------------------------------------------------
(* The three writes.  Each is one immediate transaction of the code.            *)

NewRow(stage, input) ==
    [stage |-> stage, input |-> input, status |-> "interrupted", kinds |-> {},
     recorded |-> <<>>, links |-> <<>>, failedStage |-> 0]

\* Mutant: the identity does not advance with the committed stages.
begin_attempt_StaleInput(rows, stage, input) == Append(rows, NewRow(stage, <<>>))

begin_attempt(rows, stage, input) == Append(rows, NewRow(stage, input))

\* Both later writes are refused once the attempt has a finish record.
Open(rows, a) == a \in DOMAIN rows /\ rows[a].status = "interrupted"

append_event(rows, a, kind) == [rows EXCEPT ![a].kinds = @ \cup {kind}]

\* Mutant: a later link replaces the ones before it.
append_links_Overwrite(rows, a, more) == [rows EXCEPT ![a].recorded = more]

append_links(rows, a, more) == [rows EXCEPT ![a].recorded = @ \o more]

finish_attempt(rows, a, status, links, failedStage) ==
    [rows EXCEPT ![a].status = status, ![a].links = links,
                 ![a].failedStage = failedStage]

------------------------------------------------------------------------------
(* Reading the log back.                                                        *)

Masters(rows) == {a \in DOMAIN rows : rows[a].stage = Master}

Latest(S) == CHOOSE a \in S : \A b \in S : b <= a

\* The attempts of a stage that ended with this status.
Ended(rows, stage, status) ==
    {a \in DOMAIN rows : rows[a].stage = stage /\ rows[a].status = status}

\* ... and that were given this input.
EndedOn(rows, stage, input, status) ==
    {a \in Ended(rows, stage, status) : rows[a].input = input}

\* Every stage attempt with a finish record: what prefixes are made of.
Finished(rows) ==
    {a \in DOMAIN rows : rows[a].stage # Master /\ rows[a].status # "interrupted"}
=============================================================================
