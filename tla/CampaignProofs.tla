--------------------------- MODULE CampaignProofs ---------------------------
(* Theorems about a campaign.                                                    *)
(*                                                                               *)
(* CampaignPlan, for any number of questions and stages and any tail fraction:    *)
(* what is claimed is claimed once, on sources that stay.                         *)
(*                                                                               *)
(* CampaignControl: a supervisor lives only for the launch the ledger names; what  *)
(* the controller has read, probed and concluded of a job stays true of it until  *)
(* the controller itself acts on it, whatever supervisors and children do          *)
(* meanwhile and whoever dies.                                                    *)
(*                                                                               *)
(* DailCampaign, for all groups and modes: the index never refuses what the next   *)
(* process makes of a crash, and the loop admits by what the index shows.          *)
EXTENDS CampaignPlan, CampaignControl, DailCampaign, FiniteSetTheorems, TLAPS

------------------------------------------------------------------------------
------------------------------------------------------------------------------
(* Planning: CampaignPlan.  The inductive invariant.                             *)

RetryJobs == {RetryJob(S) : S \in (SUBSET Items) \ {{}}}
RCJobs == {RCJob(k, S, n) : k \in Stages, S \in (SUBSET Items) \ {{}}, n \in Natives}

PlanJobs == {First} \cup RetryJobs \cup RCJobs

\* Of the claims js and what their runs rn say: native n may serve question i as source.
SourceIn(js, rn, i, n) ==
    /\ n \in DOMAIN rn /\ i \in n.items /\ rn[n][i] = "succeeded"
    /\ \/ n = First
       \/ /\ n \in js /\ n.kind = "native_retry"
          /\ First \in DOMAIN rn /\ i \in Items /\ rn[First][i] = "failed"

\* What the ledger has recorded as ended, the run still says.
RecordsStand ==
    \A j \in DOMAIN observed : \A i \in j.items :
        observed[j][i] # "open" => run[j][i] = observed[j][i]

\* Only questions that failed in the first pass are tried again.
RetriesFollowFailures ==
    \A j \in Retries(jobs) : \A i \in j.items :
        First \in started /\ run[First][i] = "failed"

\* An evaluation takes its questions from a run that may be their source.
InputsAreSources ==
    \A j \in jobs : j.kind = "rc" =>
        \E k \in Stages : \E n \in Natives :
            /\ j = RCJob(k, j.items, n)
            /\ \A i \in j.items : SourceIn(jobs, run, i, n)

CanonicalAreSources ==
    \A c \in canonical : SourceIn(jobs, run, c[1], c[2])

PlanInv ==
    /\ PlanTypeOK
    /\ jobs \subseteq PlanJobs /\ First \in jobs
    /\ ~rejected
    /\ ~Collide(jobs)
    /\ RecordsStand
    /\ RetriesFollowFailures
    /\ InputsAreSources
    /\ CanonicalAreSources
    /\ GatesFollowAnchors
    /\ CompleteIsFinal

------------------------------------------------------------------------------
(* The claims.                                                                  *)

LEMMA ItemsFinite == IsFiniteSet(Items) /\ Items # {} /\ 1 \in Stages
<1>1. NItems \in Int /\ NStages \in Int /\ NItems >= 1 /\ NStages >= 1
  BY SizeAssumption
<1>2. IsFiniteSet(Items)
  BY <1>1, FS_Interval DEF Items
<1>3. 1 \in Items /\ 1 \in Stages
  BY <1>1 DEF Items, Stages
<1> QED BY <1>2, <1>3

LEMMA NativesFinite == IsFiniteSet(Natives)
<1>1. PICK f : f = [S \in SUBSET Items |-> RetryJob(S)]
  OBVIOUS
<1>2. f \in Surjection(SUBSET Items, {RetryJob(S) : S \in SUBSET Items})
  BY <1>1 DEF Surjection
<1>3. IsFiniteSet({RetryJob(S) : S \in SUBSET Items})
  BY <1>2, ItemsFinite, FS_SUBSET, FS_Surjection
<1>4. IsFiniteSet({First})
  BY FS_Singleton
<1> QED BY <1>3, <1>4, FS_Union DEF Natives

LEMMA JobsFinite == IsFiniteSet(PlanJobs)
<1>1. PICK P : P = Stages \X ((SUBSET Items) \X Natives)
  OBVIOUS
<1>2. PICK RC : RC = {RCJob(p[1], p[2][1], p[2][2]) : p \in P}
  OBVIOUS
<1>3. PICK f : f = [p \in P |-> RCJob(p[1], p[2][1], p[2][2])]
  OBVIOUS
<1>4. f \in Surjection(P, RC)
  BY <1>2, <1>3 DEF Surjection
<1>5. IsFiniteSet(Stages)
  BY SizeAssumption, FS_Interval DEF Stages
<1>6. IsFiniteSet((SUBSET Items) \X Natives)
  BY ItemsFinite, NativesFinite, FS_SUBSET, FS_Product
<1>7. IsFiniteSet(P)
  BY <1>1, <1>5, <1>6, FS_Product
<1>8. IsFiniteSet(RC \cup Natives)
  BY <1>4, <1>7, NativesFinite, FS_Surjection, FS_Union
<1>9. PlanJobs \subseteq RC \cup Natives
  <2>1. ASSUME NEW k \in Stages, NEW S \in (SUBSET Items) \ {{}}, NEW n \in Natives
        PROVE  RCJob(k, S, n) \in RC
    <3>1. <<k, <<S, n>>>> \in P
      BY <1>1
    <3> QED BY <1>2, <3>1
  <2> QED BY <2>1 DEF PlanJobs, Natives, RetryJobs, RCJobs
<1> QED BY <1>8, <1>9, FS_Subset

\* What a claim is, by its kind.
LEMMA JobShape ==
    ASSUME NEW j \in PlanJobs
    PROVE  /\ j.items \in SUBSET Items /\ j.items # {}
           /\ j.kind \in {"native_first", "native_retry", "rc"}
           /\ j.kind = "native_first" => j = First
           /\ j.kind # "rc" => j \in Natives
           /\ j.kind = "rc" => j.stage \in Stages
<1>1. CASE j = First
  BY <1>1, ItemsFinite DEF First, Natives
<1>2. CASE j \in RetryJobs
  <2>1. PICK S \in (SUBSET Items) \ {{}} : j = RetryJob(S)
    BY <1>2 DEF RetryJobs
  <2>2. j.kind = "native_retry" /\ j.items = S
    BY <2>1 DEF RetryJob
  <2>3. j \in Natives
    BY <2>1 DEF Natives
  <2>4. S \in SUBSET Items /\ S # {}
    BY <2>1
  <2> QED BY <2>2, <2>3, <2>4
<1>3. CASE j \in RCJobs
  <2>1. PICK k \in Stages, S \in (SUBSET Items) \ {{}}, n \in Natives : j = RCJob(k, S, n)
    BY <1>3 DEF RCJobs
  <2>2. j.kind = "rc" /\ j.items = S /\ j.stage = k
    BY <2>1 DEF RCJob
  <2>3. S \in SUBSET Items /\ S # {} /\ k \in Stages
    BY <2>1
  <2> QED BY <2>2, <2>3
<1> QED BY <1>1, <1>2, <1>3 DEF PlanJobs

LEMMA FirstShape ==
    /\ First \in Natives /\ First \in PlanJobs /\ First.kind = "native_first"
    /\ First.items = Items
  BY DEF First, Natives, PlanJobs

LEMMA RetryShape ==
    ASSUME NEW S
    PROVE  RetryJob(S).kind = "native_retry" /\ RetryJob(S).items = S
  BY DEF RetryJob

\* Natives are told apart by their kind and their questions.
LEMMA NativeShape ==
    ASSUME NEW n \in Natives
    PROVE  /\ n.kind \in {"native_first", "native_retry"}
           /\ n.kind = "native_first" => n = First
           /\ n.kind = "native_retry" => n = RetryJob(n.items)
           /\ n.items \subseteq Items
  BY DEF Natives, First, RetryJob

LEMMA RCShape ==
    ASSUME NEW k \in Stages, NEW S, NEW n \in Natives
    PROVE  /\ RCJob(k, S, n).kind = "rc" /\ RCJob(k, S, n).stage = k
           /\ RCJob(k, S, n).items = S /\ SourceOf(RCJob(k, S, n)) = n
<1>1. PICK j : j = RCJob(k, S, n)
  OBVIOUS
<1>2. j.kind = "rc" /\ j.stage = k /\ j.items = S /\ j.source = <<n.kind, n.items>>
  BY <1>1 DEF RCJob
<1>3. ASSUME NEW m \in Natives, <<m.kind, m.items>> = j.source PROVE m = n
  <2>1. m.kind = n.kind /\ m.items = n.items
    BY <1>2, <1>3
  <2> QED BY <2>1, NativeShape
<1>4. SourceOf(j) = n
  BY <1>2, <1>3 DEF SourceOf
<1> QED BY <1>1, <1>2, <1>4

\* Two claims of one scope share no question.
LEMMA Claims ==
    ASSUME NEW js, js \subseteq PlanJobs
    PROVE  ~Collide(js) <=>
              /\ \A j, m \in js : j.kind = m.kind /\ j.kind # "rc" /\ j # m =>
                    j.items \cap m.items = {}
              /\ \A j, m \in js : j.kind = "rc" /\ m.kind = "rc" /\ j.stage = m.stage /\ j # m =>
                    j.items \cap m.items = {}
<1>1. ASSUME NEW j \in js, NEW m \in js
      PROVE  Scope(j) = Scope(m) <=>
                \/ j.kind = m.kind /\ j.kind # "rc"
                \/ j.kind = "rc" /\ m.kind = "rc" /\ j.stage = m.stage
  BY DEF Scope
<1> QED BY <1>1 DEF Collide

------------------------------------------------------------------------------
(* The sources.                                                                 *)

LEMMA SourcesAre ==
    ASSUME jobs \subseteq PlanJobs
    PROVE  /\ Sources(run) \subseteq Items \X Natives
           /\ \A i, n : <<i, n>> \in Sources(run) <=> SourceIn(jobs, run, i, n)
<1>1. ASSUME NEW i, NEW n
      PROVE  <<i, n>> \in Sources(run) <=>
                \/ i \in Ended(run, First, "succeeded") /\ n = First
                \/ n \in Retries(jobs) /\ i \in Ended(run, n, "succeeded") /\ i \in FailedFirst(run)
  BY DEF Sources
<1>2. ASSUME NEW i, NEW n, NEW status
      PROVE  i \in Ended(run, n, status) <=> n \in DOMAIN run /\ i \in n.items /\ run[n][i] = status
  BY DEF Ended
<1>3. ASSUME NEW i, NEW n PROVE <<i, n>> \in Sources(run) <=> SourceIn(jobs, run, i, n)
  <2>1. i \in FailedFirst(run) <=> First \in DOMAIN run /\ i \in Items /\ run[First][i] = "failed"
    BY <1>2, FirstShape DEF FailedFirst
  <2> QED BY <1>1, <1>2, <2>1 DEF SourceIn, Retries
<1>4. ASSUME NEW s \in Sources(run) PROVE s \in Items \X Natives
  <2>1. s = <<s[1], s[2]>>
    BY DEF Sources
  <2>2. SourceIn(jobs, run, s[1], s[2])
    BY <1>3, <2>1
  <2>3. s[2] \in Natives /\ s[1] \in s[2].items
    BY <2>2, FirstShape, JobShape DEF SourceIn
  <2>4. s[1] \in Items
    BY <2>3, NativeShape
  <2> QED BY <2>1, <2>3, <2>4
<1> QED BY <1>3, <1>4

\* A question has one source.
LEMMA OneSource ==
    ASSUME NEW js, js \subseteq PlanJobs, ~Collide(js), NEW rn, NEW i, NEW m, NEW n,
           SourceIn(js, rn, i, m), SourceIn(js, rn, i, n)
    PROVE  m = n
<1>1. ASSUME NEW a, NEW b, SourceIn(js, rn, i, a), SourceIn(js, rn, i, b), a = First
      PROVE  b = First
  BY <1>1 DEF SourceIn
<1>2. CASE m # First /\ n # First
  <2>1. m \in js /\ n \in js /\ m.kind = "native_retry" /\ n.kind = "native_retry"
        /\ i \in m.items \cap n.items
    BY <1>2 DEF SourceIn
  <2> QED BY <2>1, Claims
<1> QED BY <1>1, <1>2

\* The runs only go on, and the claims only grow.
GoesOn(rn, rn1) ==
    /\ DOMAIN rn \subseteq DOMAIN rn1
    /\ \A j \in DOMAIN rn : \A i \in j.items : rn[j][i] # "open" => rn1[j][i] = rn[j][i]

LEMMA SourceStays ==
    ASSUME NEW js, NEW js1, NEW rn, NEW rn1, NEW i, NEW n,
           js \subseteq js1, GoesOn(rn, rn1), SourceIn(js, rn, i, n)
    PROVE  SourceIn(js1, rn1, i, n)
<1>1. rn1[n][i] = "succeeded" /\ n \in DOMAIN rn1
  BY DEF SourceIn, GoesOn
<1>2. ASSUME First \in DOMAIN rn, i \in Items, rn[First][i] = "failed"
      PROVE  First \in DOMAIN rn1 /\ rn1[First][i] = "failed"
  BY <1>2, FirstShape DEF GoesOn
<1> QED BY <1>1, <1>2 DEF SourceIn

------------------------------------------------------------------------------
(* The parts of the invariant while the runs go on.                             *)

LEMMA RecordsGoOn ==
    ASSUME RecordsStand, GoesOn(run, run'), observed' = observed, DOMAIN observed \subseteq DOMAIN run
    PROVE  RecordsStand'
  BY DEF RecordsStand, GoesOn

LEMMA EndedGoOn ==
    ASSUME GoesOn(run, run'), DOMAIN run = started, DOMAIN run' = started',
           NEW j, NEW i \in j.items, HasEnded(j, i)
    PROVE  HasEnded(j, i)' /\ run'[j][i] = run[j][i]
  BY DEF GoesOn, HasEnded

LEMMA MembersFinite ==
    ASSUME PlanTypeOK, jobs \subseteq PlanJobs, NEW k \in Stages
    PROVE  IsFiniteSet(Members(k)) /\ IsFiniteSet(EndedMembers(run, k))
<1>1. IsFiniteSet(anchors[k])
  BY JobsFinite, FS_Subset DEF PlanTypeOK
<1>2. IsFiniteSet(anchors[k] \X Items)
  BY <1>1, ItemsFinite, FS_Product
<1>3. IsFiniteSet(Members(k))
  BY <1>2, FS_Subset DEF Members
<1>4. EndedMembers(run, k) \in SUBSET Members(k)
  BY DEF EndedMembers
<1> QED BY <1>3, <1>4, FS_Subset

\* The gate of stage k + 1 is justified.
Justified(k) ==
    /\ anchors[k] # {}
    /\ Cardinality({m \in Members(k) : HasEnded(m[1], m[2])}) * TailDen
          >= TailNum * Cardinality(Members(k))

LEMMA JustifiedStays ==
    ASSUME PlanTypeOK, jobs \subseteq PlanJobs, NEW k \in Stages, Justified(k),
           anchors'[k] = anchors[k], GoesOn(run, run'), DOMAIN run = started,
           DOMAIN run' = started'
    PROVE  Justified(k)'
<1>1. PICK all : all = Members(k)
  OBVIOUS
<1>2. PICK before : before = {m \in Members(k) : HasEnded(m[1], m[2])}
  OBVIOUS
<1>3. PICK after : after = {m \in Members(k)' : HasEnded(m[1], m[2])'}
  OBVIOUS
<1>4. Members(k)' = all
  BY <1>1 DEF Members
<1>5. before \subseteq after
  <2>1. \A m \in all : m[2] \in m[1].items
    BY <1>1 DEF Members
  <2> QED BY <1>1, <1>2, <1>3, <1>4, <2>1, EndedGoOn
<1>6. IsFiniteSet(all)
  BY <1>1, MembersFinite
<1>7. IsFiniteSet(after)
  BY <1>3, <1>4, <1>6, FS_Subset
<1>8. /\ Cardinality(before) \in Nat /\ Cardinality(after) \in Nat /\ Cardinality(all) \in Nat
      /\ Cardinality(before) <= Cardinality(after)
  BY <1>5, <1>6, <1>7, FS_Subset, FS_CardinalityType
<1>9. Cardinality(before) * TailDen >= TailNum * Cardinality(all) /\ anchors[k] # {}
  BY <1>1, <1>2 DEF Justified
<1>10. Cardinality(after) * TailDen >= Cardinality(before) * TailDen
  <2>1. PICK b \in Nat, c \in Nat : b = Cardinality(before) /\ c = Cardinality(after) - b
    BY <1>8
  <2>2. c * TailDen >= 0 /\ b * TailDen \in Nat /\ c * TailDen \in Nat
    BY TailAssumption
  <2>3. (b + c) * TailDen = b * TailDen + c * TailDen
    BY TailAssumption
  <2>4. Cardinality(after) = b + c
    BY <1>8, <2>1
  <2> QED BY <2>1, <2>2, <2>3, <2>4
<1>11. Cardinality(after) * TailDen >= TailNum * Cardinality(all)
  BY <1>8, <1>9, <1>10, TailAssumption
<1> QED BY <1>3, <1>4, <1>9, <1>11 DEF Justified

\* Every open gate is justified, and no evaluation precedes its gate.
GatesAre ==
    /\ \A k \in opened : k > 1 => Justified(k - 1)
    /\ \A j \in jobs : j.kind = "rc" => j.stage \in opened

LEMMA GatesAreGates == GatesAre <=> GatesFollowAnchors
  BY DEF GatesAre, GatesFollowAnchors, Justified

LEMMA EarlierStage ==
    ASSUME NEW k \in Stages, k > 1 PROVE k - 1 \in Stages
  BY SizeAssumption DEF Stages

------------------------------------------------------------------------------
(* The steps of the runs.                                                       *)

LEMMA RunsGoOn ==
    ASSUME PlanInv, started \subseteq started', started' \subseteq jobs, DOMAIN run' = started',
           \A j \in started' : run'[j] \in [j.items -> Statuses], GoesOn(run, run'),
           UNCHANGED <<jobs, observed, canonical, opened, anchors, complete, rejected>>
    PROVE  PlanInv'
<1>1. /\ PlanTypeOK /\ jobs \subseteq PlanJobs /\ First \in jobs /\ ~Collide(jobs)
      /\ DOMAIN run = started /\ DOMAIN observed \subseteq started /\ opened \subseteq Stages
  BY DEF PlanInv, PlanTypeOK
<1>2. PlanTypeOK'
  BY <1>1 DEF PlanTypeOK
<1>3. RecordsStand'
  BY <1>1, RecordsGoOn DEF PlanInv
<1>4. RetriesFollowFailures'
  <2> SUFFICES ASSUME NEW j \in Retries(jobs), NEW i \in j.items
               PROVE  First \in started' /\ run'[First][i] = "failed"
    BY DEF RetriesFollowFailures, Retries
  <2>1. First \in started /\ run[First][i] = "failed"
    BY DEF PlanInv, RetriesFollowFailures
  <2>2. i \in First.items
    BY <1>1, FirstShape, JobShape DEF Retries
  <2> QED BY <1>1, <2>1, <2>2 DEF GoesOn
<1>5. InputsAreSources'
  <2> SUFFICES ASSUME NEW j \in jobs, j.kind = "rc"
               PROVE  \E k \in Stages : \E n \in Natives :
                         /\ j = RCJob(k, j.items, n)
                         /\ \A i \in j.items : SourceIn(jobs', run', i, n)
    BY DEF InputsAreSources, SourceIn
  <2>1. PICK k \in Stages, n \in Natives :
           j = RCJob(k, j.items, n) /\ \A i \in j.items : SourceIn(jobs, run, i, n)
    BY DEF PlanInv, InputsAreSources
  <2>2. \A i \in j.items : SourceIn(jobs', run', i, n)
    BY <2>1, SourceStays
  <2> QED BY <2>1, <2>2
<1>6. CanonicalAreSources'
  <2>1. \A c \in canonical : SourceIn(jobs', run', c[1], c[2])
    BY SourceStays DEF PlanInv, CanonicalAreSources
  <2> QED BY <2>1 DEF CanonicalAreSources, SourceIn
<1>7. GatesAre'
  <2>1. GatesAre
    BY GatesAreGates DEF PlanInv
  <2>2. ASSUME NEW k \in opened, k > 1 PROVE Justified(k - 1)'
    <3>1. k - 1 \in Stages /\ Justified(k - 1)
      BY <1>1, <2>1, <2>2, EarlierStage DEF GatesAre
    <3> QED BY <1>1, <3>1, JustifiedStays
  <2> QED BY <2>1, <2>2 DEF GatesAre
<1>8. CompleteIsFinal'
  <2> SUFFICES ASSUME complete PROVE CompleteIsFinal'
    BY DEF CompleteIsFinal
  <2>1. \A j \in jobs : \A i \in j.items : HasEnded(j, i)
    BY DEF PlanInv, CompleteIsFinal
  <2>2. \A j \in jobs : \A i \in j.items : HasEnded(j, i)' /\ run'[j][i] = run[j][i]
    BY <1>1, <2>1, EndedGoOn
  <2>3. ASSUME NEW i \in Items
        PROVE  \/ \A k \in Stages : \E j \in jobs : j.kind = "rc" /\ j.stage = k /\ i \in j.items
               \/ /\ run'[First][i] = "failed"
                  /\ \E j \in Retries(jobs) : i \in j.items /\ run'[j][i] = "failed"
    <3>1. \/ \A k \in Stages : \E j \in jobs : j.kind = "rc" /\ j.stage = k /\ i \in j.items
          \/ /\ run[First][i] = "failed"
             /\ \E j \in Retries(jobs) : i \in j.items /\ run[j][i] = "failed"
      BY DEF PlanInv, CompleteIsFinal
    <3>2. run'[First][i] = run[First][i]
      BY <1>1, <2>2, FirstShape
    <3>3. \A j \in Retries(jobs) : j \in jobs
      BY DEF Retries
    <3> QED BY <2>2, <3>1, <3>2, <3>3
  <2> QED BY <2>2, <2>3 DEF CompleteIsFinal, Retries
<1>9. GatesFollowAnchors'
  BY <1>7 DEF GatesAre, GatesFollowAnchors, Justified
<1>10. ~Collide(jobs)'
  BY <1>1 DEF Collide
<1> QED BY <1>1, <1>2, <1>3, <1>4, <1>5, <1>6, <1>8, <1>9, <1>10 DEF PlanInv

LEMMA StartJobSound == ASSUME PlanInv, NEW j \in jobs, StartJob(j) PROVE PlanInv'
<1>1. /\ j \in jobs \ started /\ started' = started \cup {j}
      /\ run' = [k \in started \cup {j} |->
                    IF k = j THEN [i \in j.items |-> "open"] ELSE run[k]]
      /\ UNCHANGED <<jobs, observed, canonical, opened, anchors, complete, rejected>>
  BY DEF StartJob
<1>2. /\ started \subseteq jobs /\ DOMAIN run = started
      /\ \A k \in started : run[k] \in [k.items -> Statuses]
  BY DEF PlanInv, PlanTypeOK
<1>3. [i \in j.items |-> "open"] \in [j.items -> Statuses]
  BY DEF Statuses
<1>4. \A k \in started' : run'[k] \in [k.items -> Statuses]
  BY <1>1, <1>2, <1>3
<1>5. GoesOn(run, run')
  BY <1>1, <1>2 DEF GoesOn
<1>6. started \subseteq started' /\ started' \subseteq jobs /\ DOMAIN run' = started'
  BY <1>1, <1>2
<1> QED BY <1>1, <1>4, <1>5, <1>6, RunsGoOn

LEMMA EndItemSound ==
    ASSUME PlanInv, NEW j \in jobs, NEW i \in j.items, NEW s \in {"succeeded", "failed"},
           EndItem(j, i, s)
    PROVE  PlanInv'
<1>1. /\ j \in started /\ run[j][i] = "open" /\ run' = [run EXCEPT ![j][i] = s]
      /\ UNCHANGED <<jobs, started, observed, canonical, opened, anchors, complete, rejected>>
  BY DEF EndItem
<1>2. /\ started \subseteq jobs /\ DOMAIN run = started
      /\ \A k \in started : run[k] \in [k.items -> Statuses]
  BY DEF PlanInv, PlanTypeOK
<1>3. PICK ends : ends = [run[j] EXCEPT ![i] = s]
  OBVIOUS
<1>4. ends \in [j.items -> Statuses] /\ \A k \in j.items : k # i => ends[k] = run[j][k]
  BY <1>1, <1>2, <1>3 DEF Statuses
<1>5. DOMAIN run' = started /\ run'[j] = ends /\ \A k \in started : k # j => run'[k] = run[k]
  BY <1>1, <1>2, <1>3
<1>6. \A k \in started' : run'[k] \in [k.items -> Statuses]
  BY <1>1, <1>2, <1>4, <1>5
<1>7. GoesOn(run, run')
  BY <1>1, <1>2, <1>4, <1>5 DEF GoesOn
<1> QED BY <1>1, <1>2, <1>5, <1>6, <1>7, RunsGoOn

------------------------------------------------------------------------------
(* The gates.                                                                   *)

LEMMA Quotient ==
    ASSUME NEW p \in Nat, NEW d \in Nat \ {0}
    PROVE  p \div d \in Nat /\ p < (p \div d + 1) * d
<1>1. p \div d \in Nat
  OBVIOUS
<1>2. p = d * (p \div d) + (p % d) /\ (p % d) \in 0..(d - 1)
  OBVIOUS
<1> QED BY <1>1, <1>2

\* As many as the tail asks for are the tail's fraction.
LEMMA TailIsEnough ==
    ASSUME NEW a \in Nat, NEW n \in Nat, a >= TailCount(n) PROVE a * TailDen >= TailNum * n
<1>1. PICK q : q = TailCount(n)
  OBVIOUS
<1>2. TailNum * n \in Nat /\ TailNum * n + TailDen - 1 \in Nat
  BY TailAssumption
<1>3. q \in Nat /\ TailNum * n + TailDen - 1 < (q + 1) * TailDen
  BY <1>1, <1>2, Quotient, TailAssumption DEF TailCount
<1>4. (q + 1) * TailDen = q * TailDen + TailDen /\ q * TailDen \in Nat
  BY <1>3, TailAssumption
<1>5. q * TailDen >= TailNum * n
  BY <1>2, <1>3, <1>4, TailAssumption
<1>6. PICK b \in Nat : b = a - q
  BY <1>1, <1>3
<1>7. a * TailDen = q * TailDen + b * TailDen /\ b * TailDen \in Nat
  <2>1. a = q + b
    BY <1>1, <1>3, <1>6
  <2>2. (q + b) * TailDen = q * TailDen + b * TailDen /\ b * TailDen \in Nat
    BY <1>3, <1>6, TailAssumption
  <2> QED BY <2>1, <2>2
<1> QED BY <1>2, <1>4, <1>5, <1>7

\* A gate a tick opens is justified.
LEMMA OpenedIsJustified ==
    ASSUME PlanTypeOK, jobs \subseteq PlanJobs, NEW k \in OpenNext(run)
    PROVE  k > 1 /\ k - 1 \in Stages /\ Justified(k - 1)
<1>1. PICK e \in Stages : e = k - 1
  BY EarlierStage DEF OpenNext
<1>2. /\ anchors[e] # {} /\ k > 1
      /\ Cardinality(EndedMembers(run, e)) >= TailCount(Cardinality(Members(e)))
  BY <1>1 DEF OpenNext
<1>3. EndedMembers(run, e) = {m \in Members(e) : HasEnded(m[1], m[2])}
  <2>1. ASSUME NEW m \in Members(e)
        PROVE  m[2] \in Terminal(run, m[1]) <=> HasEnded(m[1], m[2])
    <3>1. m[2] \in m[1].items
      BY DEF Members
    <3>2. DOMAIN run = started /\ \A j \in started : run[j] \in [j.items -> Statuses]
      BY DEF PlanTypeOK
    <3>3. m[1] \in started => run[m[1]][m[2]] \in Statuses
      BY <3>1, <3>2
    <3> QED BY <3>1, <3>2, <3>3 DEF Terminal, Ended, HasEnded, Statuses
  <2> QED BY <2>1 DEF EndedMembers
<1>4. /\ Cardinality(Members(e)) \in Nat /\ Cardinality(EndedMembers(run, e)) \in Nat
  BY MembersFinite, FS_CardinalityType
<1>5. Cardinality(EndedMembers(run, e)) * TailDen >= TailNum * Cardinality(Members(e))
  BY <1>2, <1>4, TailIsEnough
<1> QED BY <1>1, <1>2, <1>3, <1>5 DEF Justified

------------------------------------------------------------------------------
(* What a tick claims.                                                          *)

NewDispatch(k) == IF k \in Gates(run) THEN Dispatched(Sources(run), k) ELSE {}
NewJobs == jobs \cup NewRetry(run) \cup UNION {NewDispatch(k) : k \in Stages}

\* The questions stage k has yet to evaluate that have native n as their source.
FreshItems(k, n) == {i \in Items : <<i, n>> \in Sources(run) /\ i \notin Claimed(k)}

LEMMA DispatchShape ==
    ASSUME PlanInv, NEW k \in Stages, NEW j \in NewDispatch(k)
    PROVE  \E n \in Natives :
              /\ j = RCJob(k, FreshItems(k, n), n) /\ FreshItems(k, n) # {}
              /\ k \in Gates(run) /\ j.kind = "rc" /\ j.stage = k /\ j.items = FreshItems(k, n)
              /\ \A i \in j.items : SourceIn(jobs, run, i, n) /\ i \notin Claimed(k)
<1>1. PICK fresh : fresh = {s \in Sources(run) : s[1] \notin Claimed(k)}
  OBVIOUS
<1>2. k \in Gates(run) /\ j \in Dispatched(Sources(run), k)
  BY DEF NewDispatch
<1>3. PICK n \in {s[2] : s \in fresh} : j = RCJob(k, {i \in Items : <<i, n>> \in fresh}, n)
  BY <1>1, <1>2 DEF Dispatched
<1>4. PICK s \in fresh : n = s[2]
  BY <1>3
<1>5. jobs \subseteq PlanJobs
  BY DEF PlanInv
<1>6. s \in Items \X Natives /\ s \in Sources(run) /\ s[1] \notin Claimed(k)
  BY <1>1, <1>4, <1>5, SourcesAre
<1>7. n \in Natives /\ s[1] \in Items /\ <<s[1], n>> = s
  BY <1>4, <1>6
<1>8. {i \in Items : <<i, n>> \in fresh} = FreshItems(k, n)
  BY <1>1 DEF FreshItems
<1>9. s[1] \in FreshItems(k, n)
  BY <1>6, <1>7 DEF FreshItems
<1>10. j = RCJob(k, FreshItems(k, n), n)
  BY <1>3, <1>8
<1>11. j.kind = "rc" /\ j.stage = k /\ j.items = FreshItems(k, n)
  BY <1>7, <1>10, RCShape
<1>12. \A i \in j.items : SourceIn(jobs, run, i, n) /\ i \notin Claimed(k)
  BY <1>5, <1>11, SourcesAre DEF FreshItems
<1> QED BY <1>2, <1>7, <1>9, <1>10, <1>11, <1>12

LEMMA RetryIsNew ==
    ASSUME PlanInv, NEW j \in NewRetry(run)
    PROVE  /\ j \in RetryJobs /\ j.kind = "native_retry" /\ j = RetryJob(RetryKeys(run))
           /\ j.items = RetryKeys(run) /\ j.items # {}
           /\ \A i \in j.items : /\ First \in started /\ run[First][i] = "failed" /\ i \in Items
                                 /\ \A m \in Retries(jobs) : i \notin m.items
<1>1. j = RetryJob(RetryKeys(run)) /\ RetryKeys(run) # {}
  BY DEF NewRetry
<1>2. j.kind = "native_retry" /\ j.items = RetryKeys(run)
  BY <1>1, RetryShape
<1>3. DOMAIN run = started
  BY DEF PlanInv, PlanTypeOK
<1>4. \A i \in RetryKeys(run) : /\ First \in started /\ run[First][i] = "failed" /\ i \in Items
                                /\ \A m \in Retries(jobs) : i \notin m.items
  BY <1>3, FirstShape DEF RetryKeys, FailedFirst, Ended
<1>5. j \in RetryJobs
  BY <1>1, <1>4 DEF RetryJobs
<1> QED BY <1>1, <1>2, <1>4, <1>5

LEMMA NewJobsAre ==
    ASSUME NEW j \in NewJobs
    PROVE  j \in jobs \/ j \in NewRetry(run) \/ \E k \in Stages : j \in NewDispatch(k)
  BY DEF NewJobs

LEMMA NewJobsShaped == ASSUME PlanInv PROVE NewJobs \subseteq PlanJobs
<1> SUFFICES ASSUME NEW j \in NewJobs PROVE j \in PlanJobs
  OBVIOUS
<1>1. CASE j \in jobs
  BY <1>1 DEF PlanInv
<1>2. CASE j \in NewRetry(run)
  BY <1>2, RetryIsNew DEF PlanJobs
<1>3. ASSUME NEW k \in Stages, j \in NewDispatch(k) PROVE j \in PlanJobs
  <2>1. PICK n \in Natives : j = RCJob(k, FreshItems(k, n), n) /\ FreshItems(k, n) # {}
    BY <1>3, DispatchShape
  <2>2. FreshItems(k, n) \in (SUBSET Items) \ {{}}
    BY <2>1 DEF FreshItems
  <2>3. j \in RCJobs
    BY <2>1, <2>2 DEF RCJobs
  <2> QED BY <2>3 DEF PlanJobs
<1> QED BY <1>1, <1>2, <1>3, NewJobsAre

\* No tick claims what is claimed.
LEMMA NothingCollides == ASSUME PlanInv PROVE ~Collide(NewJobs)
<1>1. jobs \subseteq PlanJobs /\ ~Collide(jobs) /\ NewJobs \subseteq PlanJobs
  BY NewJobsShaped DEF PlanInv
<1>2. ASSUME NEW j \in NewJobs, NEW m \in NewJobs, j.kind = "native_retry", m.kind = "native_retry",
             j # m
      PROVE  j.items \cap m.items = {}
  <2>1. \A x \in {j, m} : x \in jobs \/ x \in NewRetry(run)
    BY <1>2, NewJobsAre, DispatchShape
  <2>2. CASE j \in jobs /\ m \in jobs
    BY <1>1, <1>2, <2>2, Claims
  <2>3. CASE j \in NewRetry(run) /\ m \in NewRetry(run)
    BY <1>2, <2>3, RetryIsNew
  <2>4. CASE j \in jobs /\ m \in NewRetry(run)
    <3>1. j \in Retries(jobs)
      BY <1>2, <2>4 DEF Retries
    <3> QED BY <2>4, <3>1, RetryIsNew
  <2>5. CASE j \in NewRetry(run) /\ m \in jobs
    <3>1. m \in Retries(jobs)
      BY <1>2, <2>5 DEF Retries
    <3> QED BY <2>5, <3>1, RetryIsNew
  <2> QED BY <2>1, <2>2, <2>3, <2>4, <2>5
<1>3. ASSUME NEW j \in NewJobs, NEW m \in NewJobs, j.kind = "rc", m.kind = "rc",
             j.stage = m.stage, j # m
      PROVE  j.items \cap m.items = {}
  <2>1. \A x \in {j, m} : x \in jobs \/ \E k \in Stages : x \in NewDispatch(k)
    BY <1>3, NewJobsAre, RetryIsNew
  <2>2. CASE j \in jobs /\ m \in jobs
    BY <1>1, <1>3, <2>2, Claims
  <2>3. ASSUME NEW a \in jobs, a.kind = "rc", NEW k \in Stages, NEW b \in NewDispatch(k),
               a.stage = b.stage
        PROVE  a.items \cap b.items = {}
    <3>1. b.stage = k /\ \A i \in b.items : i \notin Claimed(k)
      BY <2>3, DispatchShape
    <3>2. a \in Evaluations(jobs, k)
      BY <2>3, <3>1 DEF Evaluations
    <3>3. \A i \in a.items : i \in Claimed(k)
      BY <3>2 DEF Claimed
    <3> QED BY <3>1, <3>3
  <2>4. ASSUME NEW k \in Stages, NEW l \in Stages, j \in NewDispatch(k), m \in NewDispatch(l)
        PROVE  j.items \cap m.items = {}
    <3>1. PICK n \in Natives : /\ j = RCJob(k, FreshItems(k, n), n) /\ j.stage = k
                               /\ \A i \in j.items : SourceIn(jobs, run, i, n)
      BY <2>4, DispatchShape
    <3>2. PICK o \in Natives : /\ m = RCJob(l, FreshItems(l, o), o) /\ m.stage = l
                               /\ \A i \in m.items : SourceIn(jobs, run, i, o)
      BY <2>4, DispatchShape
    <3>3. k = l /\ n # o
      BY <1>3, <3>1, <3>2
    <3>4. \A i \in j.items \cap m.items : n = o
      BY <1>1, <3>1, <3>2, OneSource
    <3> QED BY <3>3, <3>4
  <2> QED BY <1>3, <2>1, <2>2, <2>3, <2>4
<1>4. \A j, m \in NewJobs : j.kind = "native_first" /\ m.kind = "native_first" => j = m
  BY <1>1, JobShape
<1>5. ASSUME NEW j \in NewJobs, NEW m \in NewJobs, j.kind = m.kind, j.kind # "rc", j # m
      PROVE  j.items \cap m.items = {}
  <2>1. j.kind \in {"native_first", "native_retry"}
    BY <1>1, <1>5, JobShape
  <2> QED BY <1>2, <1>4, <1>5, <2>1
<1> QED BY <1>1, <1>3, <1>5, Claims

LEMMA NothingRejected == ASSUME PlanInv PROVE ~Rejects(Sources(run), NewJobs)
<1>1. ~OutcomeChanged
  BY DEF PlanInv, RecordsStand, OutcomeChanged
<1>2. ~SourceReplaced(Sources(run))
  <2> SUFFICES ASSUME NEW s \in Sources(run), NEW c \in canonical, s[1] = c[1]
               PROVE  s[2] = c[2]
    BY DEF SourceReplaced
  <2>1. jobs \subseteq PlanJobs /\ ~Collide(jobs) /\ SourceIn(jobs, run, c[1], c[2])
    BY DEF PlanInv, CanonicalAreSources
  <2>2. s \in Items \X Natives
    BY <2>1, SourcesAre
  <2>3. s = <<s[1], s[2]>>
    BY <2>2
  <2>4. SourceIn(jobs, run, s[1], s[2])
    BY <2>1, <2>3, SourcesAre
  <2> QED BY <2>1, <2>4, OneSource
<1> QED BY <1>1, <1>2, NothingCollides DEF Rejects

\* What a tick writes: it never raises.
LEMMA TickWrites ==
    ASSUME PlanInv, Tick
    PROVE  /\ observed' = run /\ canonical' = canonical \cup Sources(run) /\ jobs' = NewJobs
           /\ opened' = Gates(run)
           /\ anchors' = [k \in Stages |-> Anchor(NewDispatch(k), k)]
           /\ complete' = Complete(run, NewJobs, Sources(run))
           /\ UNCHANGED <<rejected, started, run>>
<1>1. PICK dispatched : dispatched = [k \in Stages |-> NewDispatch(k)]
  OBVIOUS
<1>2. dispatched = [k \in Stages |-> IF k \in Gates(run) THEN Dispatched(Sources(run), k) ELSE {}]
  BY <1>1 DEF NewDispatch
<1>3. NewJobs = jobs \cup NewRetry(run) \cup UNION {dispatched[k] : k \in Stages}
  BY <1>1 DEF NewJobs
<1>4. ~Rejects(Sources(run), jobs \cup NewRetry(run) \cup UNION {dispatched[k] : k \in Stages})
  BY <1>3, NothingRejected
<1>5. /\ observed' = run /\ canonical' = canonical \cup Sources(run)
      /\ jobs' = jobs \cup NewRetry(run) \cup UNION {dispatched[k] : k \in Stages}
      /\ opened' = Gates(run)
      /\ anchors' = [k \in Stages |-> Anchor(dispatched[k], k)]
      /\ complete' = Complete(run, jobs \cup NewRetry(run) \cup UNION {dispatched[k] : k \in Stages},
                              Sources(run))
      /\ UNCHANGED <<rejected, started, run>>
  BY <1>2, <1>4 DEF Tick
<1> QED BY <1>1, <1>3, <1>5

LEMMA GatesShape == ASSUME PlanInv PROVE opened \subseteq Gates(run) /\ Gates(run) \subseteq Stages
<1>1. opened \subseteq Stages
  BY DEF PlanInv, PlanTypeOK
<1>2. OpenFirst(run) \subseteq Stages
  BY ItemsFinite DEF OpenFirst
<1>3. OpenNext(run) \subseteq Stages
  BY DEF OpenNext
<1> QED BY <1>1, <1>2, <1>3 DEF Gates

\* A claim the tick adds is of no run yet.
LEMMA NewIsUnstarted ==
    ASSUME PlanInv, NEW j \in NewJobs, j \in started PROVE j \in jobs
  BY DEF PlanInv, PlanTypeOK

LEMMA TickTypes == ASSUME PlanInv, Tick PROVE PlanTypeOK'
<1>1. jobs' = NewJobs /\ jobs \subseteq NewJobs /\ NewJobs \subseteq PlanJobs
  BY TickWrites, NewJobsShaped DEF NewJobs
<1>2. /\ started \subseteq jobs /\ DOMAIN run = started /\ anchors \in [Stages -> SUBSET jobs]
      /\ \A j \in started : run[j] \in [j.items -> Statuses]
      /\ canonical \subseteq Items \X Natives /\ rejected \in BOOLEAN
  BY DEF PlanInv, PlanTypeOK
<1>3. \A j \in jobs' : /\ j.items \in (SUBSET Items) \ {{}}
                       /\ j.kind = "rc" => j.stage \in Stages
                       /\ j.kind # "rc" => j \in Natives
  BY <1>1, JobShape
<1>4. canonical' \subseteq Items \X Natives
  <2>1. Sources(run) \subseteq Items \X Natives
    BY SourcesAre DEF PlanInv
  <2> QED BY <1>2, <2>1, TickWrites
<1>5. opened' \subseteq Stages
  BY GatesShape, TickWrites
<1>6. anchors' \in [Stages -> SUBSET jobs']
  <2>1. ASSUME NEW k \in Stages PROVE Anchor(NewDispatch(k), k) \in SUBSET NewJobs
    <3>1. anchors[k] \subseteq NewJobs
      BY <1>1, <1>2
    <3>2. NewDispatch(k) \subseteq NewJobs
      BY DEF NewJobs
    <3> QED BY <3>1, <3>2 DEF Anchor
  <2> QED BY <1>1, <2>1, TickWrites
<1>7. complete' \in BOOLEAN
  BY TickWrites DEF Complete
<1>8. /\ started' = started /\ run' = run /\ rejected' = rejected /\ observed' = run
  BY TickWrites
<1> QED BY <1>1, <1>2, <1>3, <1>4, <1>5, <1>6, <1>7, <1>8 DEF PlanTypeOK

LEMMA TickRecords == ASSUME PlanInv, Tick PROVE RecordsStand' /\ RetriesFollowFailures'
<1>1. observed' = run /\ run' = run /\ started' = started /\ jobs' = NewJobs
  BY TickWrites
<1>2. RecordsStand'
  BY <1>1 DEF RecordsStand
<1>3. ASSUME NEW j \in NewJobs, j.kind = "native_retry", NEW i \in j.items
      PROVE  First \in started /\ run[First][i] = "failed"
  <2>1. CASE j \in jobs
    BY <1>3, <2>1 DEF PlanInv, RetriesFollowFailures, Retries
  <2>2. CASE j \in NewRetry(run)
    BY <1>3, <2>2, RetryIsNew
  <2>3. \A k \in Stages : j \notin NewDispatch(k)
    BY <1>3, DispatchShape
  <2> QED BY <2>1, <2>2, <2>3, NewJobsAre
<1> QED BY <1>1, <1>2, <1>3 DEF RetriesFollowFailures, Retries

LEMMA TickSources == ASSUME PlanInv, Tick PROVE InputsAreSources' /\ CanonicalAreSources'
<1>1. run' = run /\ jobs' = NewJobs /\ canonical' = canonical \cup Sources(run)
  BY TickWrites
<1>2. ASSUME NEW i, NEW n, SourceIn(jobs, run, i, n) PROVE SourceIn(jobs', run', i, n)
  BY <1>1, <1>2 DEF SourceIn, NewJobs
<1>3. ASSUME NEW j \in NewJobs, j.kind = "rc"
      PROVE  \E k \in Stages : \E n \in Natives :
                j = RCJob(k, j.items, n) /\ \A i \in j.items : SourceIn(jobs', run', i, n)
  <2>1. CASE j \in jobs
    <3>1. PICK k \in Stages, n \in Natives :
             j = RCJob(k, j.items, n) /\ \A i \in j.items : SourceIn(jobs, run, i, n)
      BY <1>3, <2>1 DEF PlanInv, InputsAreSources
    <3> QED BY <1>2, <3>1
  <2>2. ASSUME NEW k \in Stages, j \in NewDispatch(k)
        PROVE  \E n \in Natives :
                  j = RCJob(k, j.items, n) /\ \A i \in j.items : SourceIn(jobs', run', i, n)
    <3>1. PICK n \in Natives : /\ j = RCJob(k, FreshItems(k, n), n) /\ j.items = FreshItems(k, n)
                               /\ \A i \in j.items : SourceIn(jobs, run, i, n)
      BY <2>2, DispatchShape
    <3> QED BY <1>2, <3>1
  <2>3. j \notin NewRetry(run)
    BY <1>3, RetryIsNew
  <2> QED BY <2>1, <2>2, <2>3, NewJobsAre
<1>4. InputsAreSources'
  BY <1>1, <1>3 DEF InputsAreSources, SourceIn
<1>5. ASSUME NEW c \in canonical' PROVE SourceIn(jobs', run', c[1], c[2])
  <2>1. CASE c \in canonical
    BY <1>2, <2>1 DEF PlanInv, CanonicalAreSources
  <2>2. CASE c \in Sources(run)
    <3>1. jobs \subseteq PlanJobs
      BY DEF PlanInv
    <3>2. c \in Items \X Natives
      BY <2>2, <3>1, SourcesAre
    <3>3. c = <<c[1], c[2]>>
      BY <3>2
    <3>4. SourceIn(jobs, run, c[1], c[2])
      BY <2>2, <3>1, <3>3, SourcesAre
    <3> QED BY <1>2, <3>4
  <2> QED BY <1>1, <1>5, <2>1, <2>2
<1>6. CanonicalAreSources'
  BY <1>5 DEF CanonicalAreSources, SourceIn
<1> QED BY <1>4, <1>6

LEMMA TickGates == ASSUME PlanInv, Tick PROVE GatesFollowAnchors'
<1>1. /\ run' = run /\ started' = started /\ jobs' = NewJobs /\ opened' = Gates(run)
      /\ anchors' = [k \in Stages |-> Anchor(NewDispatch(k), k)]
  BY TickWrites
<1>2. /\ PlanTypeOK /\ jobs \subseteq PlanJobs /\ DOMAIN run = started /\ GatesAre
      /\ opened \subseteq Stages
  BY GatesAreGates DEF PlanInv, PlanTypeOK
<1>3. GoesOn(run, run')
  BY <1>1 DEF GoesOn
<1>4. ASSUME NEW k \in Gates(run), k > 1 PROVE Justified(k - 1)'
  <2>1. k - 1 \in Stages /\ Justified(k - 1)
    <3>1. CASE k \in opened
      BY <1>2, <1>4, <3>1, EarlierStage DEF GatesAre
    <3>2. CASE k \in OpenNext(run)
      BY <1>2, <3>2, OpenedIsJustified
    <3>3. k \notin OpenFirst(run)
      BY <1>4 DEF OpenFirst
    <3> QED BY <3>1, <3>2, <3>3 DEF Gates
  <2>2. anchors'[k - 1] = anchors[k - 1]
    BY <1>1, <2>1 DEF Justified, Anchor
  <2>3. DOMAIN run' = started'
    BY <1>1, <1>2
  <2> QED BY <1>2, <1>3, <2>1, <2>2, <2>3, JustifiedStays
<1>5. ASSUME NEW j \in NewJobs, j.kind = "rc" PROVE j.stage \in Gates(run)
  <2>1. CASE j \in jobs
    BY <1>2, <1>5, <2>1, GatesShape DEF GatesAre
  <2>2. ASSUME NEW k \in Stages, j \in NewDispatch(k) PROVE j.stage \in Gates(run)
    BY <2>2, DispatchShape
  <2>3. j \notin NewRetry(run)
    BY <1>5, RetryIsNew
  <2> QED BY <2>1, <2>2, <2>3, NewJobsAre
<1>6. GatesAre'
  BY <1>1, <1>4, <1>5 DEF GatesAre
<1> QED BY <1>6 DEF GatesAre, GatesFollowAnchors, Justified

\* A tick that finds the campaign complete leaves nothing to do.
LEMMA TickCompletes == ASSUME PlanInv, Tick PROVE CompleteIsFinal'
<1> SUFFICES ASSUME complete' PROVE CompleteIsFinal'
  BY DEF CompleteIsFinal
<1>1. run' = run /\ started' = started /\ jobs' = NewJobs
  BY TickWrites
<1>2. /\ Terminal(run, First) = Items
      /\ \A i \in FailedFirst(run) : \E j \in Retries(NewJobs) : i \in Terminal(run, j)
      /\ Evaluated(run, NewJobs, Sources(run))
  BY TickWrites DEF Complete
<1>3. /\ jobs \subseteq PlanJobs /\ ~Collide(NewJobs) /\ NewJobs \subseteq PlanJobs /\ DOMAIN run = started
      /\ First \in jobs /\ jobs \subseteq NewJobs
  BY NothingCollides, NewJobsShaped DEF PlanInv, PlanTypeOK, NewJobs
<1>4. ASSUME NEW j, NEW i PROVE i \in Terminal(run, j) => HasEnded(j, i) /\ i \in j.items
  BY <1>3 DEF Terminal, Ended, HasEnded
<1>5. \A i \in Items : HasEnded(First, i)
  BY <1>2, <1>4
<1>6. ASSUME NEW j \in NewJobs, j.kind = "native_retry", NEW i \in j.items PROVE HasEnded(j, i)
  <2>1. run[First][i] = "failed" /\ First \in started
    BY <1>1, <1>6, TickRecords DEF RetriesFollowFailures, Retries
  <2>2. i \in FailedFirst(run)
    BY <1>3, <1>6, <2>1, FirstShape, JobShape DEF FailedFirst, Ended
  <2>3. PICK m \in Retries(NewJobs) : i \in Terminal(run, m)
    BY <1>2, <2>2
  <2>4. m = j
    BY <1>3, <1>4, <1>6, <2>3, Claims DEF Retries
  <2> QED BY <1>4, <2>3, <2>4
<1>7. ASSUME NEW i, NEW n, SourceIn(jobs, run, i, n), NEW k \in Stages
      PROVE  \E m \in Evaluations(NewJobs, k) : i \in Terminal(run, m)
  <2>1. <<i, n>> \in Sources(run)
    BY <1>3, <1>7, SourcesAre
  <2>2. i \in UNION {Terminal(run, m) : m \in Evaluations(NewJobs, k)}
    <3>1. PICK s \in Sources(run) : s = <<i, n>>
      BY <2>1
    <3>2. s[1] = i
      BY <3>1
    <3> QED BY <1>2, <3>2 DEF Evaluated
  <2> QED BY <2>2
<1>8. ASSUME NEW j \in NewJobs, j.kind = "rc", NEW i \in j.items PROVE HasEnded(j, i)
  <2>1. PICK k \in Stages, n \in Natives : j.stage = k /\ SourceIn(jobs, run, i, n)
    <3>1. CASE j \in jobs
      <4>1. PICK k \in Stages, n \in Natives :
               j = RCJob(k, j.items, n) /\ \A x \in j.items : SourceIn(jobs, run, x, n)
        BY <1>8, <3>1 DEF PlanInv, InputsAreSources
      <4> QED BY <4>1, RCShape
    <3>2. ASSUME NEW k \in Stages, j \in NewDispatch(k)
          PROVE  \E n \in Natives : j.stage = k /\ SourceIn(jobs, run, i, n)
      BY <3>2, DispatchShape
    <3>3. j \notin NewRetry(run)
      BY <1>8, RetryIsNew
    <3> QED BY <3>1, <3>2, <3>3, NewJobsAre
  <2>2. PICK m \in Evaluations(NewJobs, k) : i \in Terminal(run, m)
    BY <1>7, <2>1
  <2>3. m = j
    BY <1>3, <1>4, <1>8, <2>1, <2>2, Claims DEF Evaluations
  <2> QED BY <1>4, <2>2, <2>3
<1>9. \A j \in NewJobs : \A i \in j.items : HasEnded(j, i)
  <2>1. ASSUME NEW j \in NewJobs
        PROVE  j.kind = "rc" \/ j.kind = "native_retry" \/ j = First
    BY <1>3, JobShape
  <2> QED BY <1>5, <1>6, <1>8, <2>1, FirstShape
<1>10. ASSUME NEW i \in Items
       PROVE  \/ \A k \in Stages : \E j \in NewJobs : j.kind = "rc" /\ j.stage = k /\ i \in j.items
              \/ /\ run[First][i] = "failed"
                 /\ \E j \in Retries(NewJobs) : i \in j.items /\ run[j][i] = "failed"
  <2>1. ASSUME NEW n, SourceIn(jobs, run, i, n)
        PROVE  \A k \in Stages : \E j \in NewJobs : j.kind = "rc" /\ j.stage = k /\ i \in j.items
    BY <1>4, <1>7, <2>1 DEF Evaluations
  <2>2. i \in Ended(run, First, "succeeded") \/ i \in Ended(run, First, "failed")
    BY <1>2 DEF Terminal
  <2>3. CASE i \in Ended(run, First, "succeeded")
    <3>1. SourceIn(jobs, run, i, First)
      BY <2>3 DEF Ended, SourceIn
    <3> QED BY <2>1, <3>1
  <2>4. CASE i \in Ended(run, First, "failed")
    <3>1. First \in DOMAIN run /\ run[First][i] = "failed"
      BY <2>4 DEF Ended
    <3>2. PICK j \in Retries(NewJobs) : i \in Terminal(run, j)
      BY <1>2, <2>4 DEF FailedFirst
    <3>3. j \in started /\ i \in j.items /\ run[j][i] \in {"succeeded", "failed"}
      BY <1>3, <3>2 DEF Terminal, Ended
    <3>4. j \in jobs /\ j.kind = "native_retry"
      BY <3>2, <3>3, NewIsUnstarted DEF Retries
    <3>5. CASE run[j][i] = "succeeded"
      <4>1. SourceIn(jobs, run, i, j)
        BY <1>3, <3>1, <3>3, <3>4, <3>5 DEF SourceIn
      <4> QED BY <2>1, <4>1
    <3> QED BY <3>1, <3>2, <3>3, <3>5
  <2> QED BY <2>2, <2>3, <2>4
<1>11. \A j, i : HasEnded(j, i)' <=> HasEnded(j, i)
  BY <1>1 DEF HasEnded
<1> QED BY <1>1, <1>9, <1>10, <1>11 DEF CompleteIsFinal, Retries

LEMMA TickSound == ASSUME PlanInv, Tick PROVE PlanInv'
<1>1. PlanTypeOK' /\ RecordsStand' /\ RetriesFollowFailures' /\ InputsAreSources'
      /\ CanonicalAreSources' /\ GatesFollowAnchors' /\ CompleteIsFinal'
  BY TickTypes, TickRecords, TickSources, TickGates, TickCompletes
<1>2. jobs' = NewJobs /\ rejected' = rejected
  BY TickWrites
<1>3. jobs' \subseteq PlanJobs /\ First \in jobs'
  BY <1>2, NewJobsShaped DEF PlanInv, NewJobs
<1>4. ~Collide(jobs)'
  BY <1>2, NothingCollides DEF Collide
<1> QED BY <1>1, <1>2, <1>3, <1>4 DEF PlanInv

------------------------------------------------------------------------------
(* The invariant holds.                                                         *)

LEMMA PlanInitSound == ASSUME PlanInit PROVE PlanInv
<1>1. /\ jobs = {First} /\ started = {} /\ run = <<>> /\ observed = <<>> /\ canonical = {}
      /\ opened = {} /\ anchors = [k \in Stages |-> {}] /\ complete = FALSE /\ rejected = FALSE
  BY DEF PlanInit
<1>2. DOMAIN run = {} /\ DOMAIN observed = {}
  BY <1>1
<1>3. First.kind = "native_first" /\ First \in PlanJobs /\ First \in Natives /\ First.items = Items
  BY FirstShape
<1>4. PlanTypeOK
  BY <1>1, <1>2, <1>3, ItemsFinite DEF PlanTypeOK
<1>5. ~Collide(jobs)
  BY <1>1 DEF Collide
<1>6. Retries(jobs) = {} /\ \A j \in jobs : j.kind # "rc"
  BY <1>1, <1>3 DEF Retries
<1>7. RecordsStand /\ RetriesFollowFailures
  BY <1>2, <1>6 DEF RecordsStand, RetriesFollowFailures
<1>8. InputsAreSources /\ CanonicalAreSources
  BY <1>1, <1>6 DEF InputsAreSources, CanonicalAreSources
<1>9. GatesFollowAnchors /\ CompleteIsFinal
  BY <1>1, <1>6 DEF GatesFollowAnchors, CompleteIsFinal
<1> QED BY <1>1, <1>3, <1>4, <1>5, <1>7, <1>8, <1>9 DEF PlanInv

LEMMA PlanStutterSound == ASSUME PlanInv, UNCHANGED planVars PROVE PlanInv'
<1>1. UNCHANGED <<jobs, started, run, observed, canonical, opened, anchors, complete, rejected>>
  BY DEF planVars
<1>2. GoesOn(run, run')
  BY <1>1 DEF GoesOn
<1>3. /\ started \subseteq jobs /\ DOMAIN run = started
      /\ \A j \in started : run[j] \in [j.items -> Statuses]
  BY DEF PlanInv, PlanTypeOK
<1> QED BY <1>1, <1>2, <1>3, RunsGoOn

LEMMA PlanNextSound == ASSUME PlanInv, [PlanNext]_planVars PROVE PlanInv'
<1>1. CASE Runs
  BY <1>1, StartJobSound, EndItemSound DEF Runs
<1>2. CASE Tick
  BY <1>2, TickSound
<1>3. CASE UNCHANGED planVars
  BY <1>3, PlanStutterSound
<1> QED BY <1>1, <1>2, <1>3 DEF PlanNext

LEMMA PlanHolds == PlanSpec => []PlanInv
<1>1. PlanInit => PlanInv
  BY PlanInitSound
<1>2. PlanInv /\ [PlanNext]_planVars => PlanInv'
  BY PlanNextSound
<1> QED BY <1>1, <1>2, PTL DEF PlanSpec

\* Whatever the order in which outcomes come in, a tick never raises: no question is
\* claimed twice by a retry or for a stage, recorded outcomes and sources stand, a gate
\* opens only behind enough of the previous stage's anchor, evaluations take successes
\* of the run they name, and a complete campaign has nothing left (plan_tick).
THEOREM PlanStaysSound == PlanSpec => []PlanIsSound
<1>1. ASSUME PlanInv PROVE PlanIsSound
  <2>1. SourcesAreSuccesses
    <3> SUFFICES ASSUME NEW j \in jobs, j.kind = "rc"
                 PROVE  /\ SourceOf(j) \in started
                        /\ \A i \in j.items : run[SourceOf(j)][i] = "succeeded"
      BY DEF SourcesAreSuccesses
    <3>1. PICK k \in Stages, n \in Natives :
             j = RCJob(k, j.items, n) /\ \A i \in j.items : SourceIn(jobs, run, i, n)
      BY <1>1 DEF PlanInv, InputsAreSources
    <3>2. SourceOf(j) = n
      BY <3>1, RCShape
    <3>3. j.items # {} /\ DOMAIN run = started
      BY <1>1, JobShape DEF PlanInv, PlanTypeOK
    <3> QED BY <3>1, <3>2, <3>3 DEF SourceIn
  <2> QED BY <1>1, <2>1 DEF PlanInv, PlanIsSound, NeverRejected
<1> QED BY <1>1, PlanHolds, PTL

------------------------------------------------------------------------------
------------------------------------------------------------------------------
(* Processes: CampaignControl.                                                  *)


\* No supervisor of the job is alive.
Quiet(j) == \A t \in Tokens : ~Alive(<<j, t>>)

\* The supervisor of the launch has written its identity record.
HasAcknowledged(s) == sup[s] \notin {"none", "start", "lock", "claim"}

------------------------------------------------------------------------------
(* The inductive invariant.                                                      *)

\* The ledger names the launch of every living supervisor.
SupervisorsSound ==
    \A s \in Launches : /\ Alive(s) => ledger[s[1]].token = s[2]
                        /\ sup[s] # "none" => s[2] <= runs

\* An identity record was written by the launch it names.
RecordsSound ==
    \A j \in Jobs : record[j].token # 0 => HasAcknowledged(<<j, record[j].token>>)

FinishedSound ==
    \A j \in Jobs : ledger[j].state = "finished" => j \in done /\ Quiet(j)

\* What the controller concluded of a job in this tick.
Seen(j) == \/ ctl.pc \in {"reset", "start", "plan"}
           \/ ctl.pc \in {"read", "probe", "judge", "block"} /\ j < ctl.at

SeenSound == \A j \in Jobs : Seen(j) /\ ctl.states[j] \notin Busy => Quiet(j)

\* Nothing of the command's own number exists before it launches.
CommandSound ==
    /\ ctl.pc # "down" => runs \in Tokens
    /\ ctl.pc \in {"reset", "start"} => ctl.booting
    /\ ctl.pc \in {"plan", "launch", "spawn", "raise"} => ~ctl.booting
    /\ \A j \in Jobs : ctl.pc # "down" /\ sup[<<j, runs>>] # "none" =>
           ~ctl.booting /\ ledger[j].token = runs

ProbeSound ==
    LET s == <<ctl.at, ctl.rec.token>>
    IN /\ ctl.pc \in {"probe", "judge"} =>
              /\ ctl.rec.token # 0 /\ ctl.rec.token = ledger[ctl.at].token
              /\ HasAcknowledged(s)
       /\ ctl.pc = "judge" /\ ~ctl.held => sup[s] = "gone"
       /\ ctl.pc = "block" => Quiet(ctl.at)

SpawnSound ==
    ctl.pc = "spawn" => /\ ledger[ctl.at] = [state |-> "running", token |-> runs]
                        /\ sup[<<ctl.at, runs>>] = "none"

IInv ==
    /\ TypeOK
    /\ SupervisorsSound
    /\ RecordsSound
    /\ FinishedSound
    /\ SeenSound
    /\ CommandSound
    /\ ProbeSound
    /\ SpawnSound

------------------------------------------------------------------------------
(* Steps of supervisors and children.                                            *)

CtlType == [pc : CtlPCs, at : Jobs, booting : BOOLEAN, resume : BOOLEAN,
            states : [Jobs -> JobStates \cup {"pending"}], rec : Records, held : BOOLEAN]

LEMMA TokensArePositive == \A t \in Tokens : t \in Nat /\ t # 0
  BY BoundsAssumption DEF Tokens

LEMMA InitSound == Init => IInv
<1> SUFFICES ASSUME Init PROVE IInv
  OBVIOUS
<1>1. 1 \in Jobs
  BY BoundsAssumption DEF Jobs
<1>2. TypeOK
  BY <1>1, BoundsAssumption DEF Init, TypeOK, Off, NoRecord, Records, Modes, JobStates,
     Phases, CtlPCs, SupPCs, KidPCs
<1>3. SupervisorsSound /\ RecordsSound /\ FinishedSound
  BY DEF Init, SupervisorsSound, RecordsSound, FinishedSound, Alive, Launches, NoRecord
<1>4. SeenSound /\ CommandSound /\ ProbeSound /\ SpawnSound
  BY DEF Init, Off, SeenSound, Seen, CommandSound, ProbeSound, SpawnSound
<1> QED BY <1>2, <1>3, <1>4 DEF IInv

\* A living supervisor goes on: it never loses its acknowledgement, and writes no
\* record before it has one.
LEMMA SupervisorFrame ==
    ASSUME IInv, NEW s \in Launches, NEW pc \in SupPCs \ {"none"}, Alive(s),
           sup' = [sup EXCEPT ![s] = pc],
           HasAcknowledged(s) => pc \notin {"start", "lock", "claim"},
           \/ UNCHANGED record
           \/ /\ pc \notin {"start", "lock", "claim"}
              /\ \E new \in Records : new.token = s[2] /\ record' = [record EXCEPT ![s[1]] = new],
           TypeOK', UNCHANGED <<ledger, done, ctl, runs>>
    PROVE  IInv'
<1>1. sup \in [Launches -> SupPCs] /\ s \in Jobs \X Tokens
  BY DEF IInv, TypeOK, Launches
<1>2. \A x \in Launches : /\ Alive(x)' => Alive(x)
                          /\ HasAcknowledged(x) => HasAcknowledged(x)'
                          /\ sup'[x] = "none" <=> sup[x] = "none"
                          /\ sup[x] = "gone" => sup'[x] = "gone"
  BY <1>1 DEF Alive, HasAcknowledged, SupPCs
<1>3. \A j \in Jobs : Quiet(j) => Quiet(j)'
  BY <1>2 DEF Quiet, Launches
<1>4. SupervisorsSound'
  BY <1>2 DEF IInv, SupervisorsSound
<1>5. RecordsSound'
  <2> DEFINE Before == {"none", "start", "lock", "claim"}
  <2>1. ASSUME NEW j \in Jobs, record'[j].token # 0
        PROVE  sup'[<<j, record'[j].token>>] \notin Before
    <3>1. record \in [Jobs -> Records] /\ record[j].token \in {0} \cup Tokens
      BY DEF IInv, TypeOK, Records
    <3>2. CASE record'[j] = record[j]
      <4>1. HasAcknowledged(<<j, record[j].token>>) /\ <<j, record[j].token>> \in Launches
        BY <2>1, <3>1, <3>2 DEF IInv, RecordsSound, Launches
      <4> QED BY <1>2, <3>2, <4>1 DEF HasAcknowledged
    <3>3. CASE record'[j] # record[j]
      <4>1. j = s[1] /\ record'[j].token = s[2] /\ pc \notin Before
        BY <1>1, <3>1, <3>3
      <4>2. <<j, record'[j].token>> = s
        BY <1>1, <4>1
      <4> QED BY <1>1, <4>1, <4>2
    <3> QED BY <3>2, <3>3
  <2> QED BY <2>1 DEF RecordsSound, HasAcknowledged
<1>6. FinishedSound' /\ SeenSound'
  BY <1>3 DEF IInv, FinishedSound, SeenSound, Seen
<1>7. CommandSound'
  BY <1>2, <1>3 DEF IInv, CommandSound, Launches, Tokens
<1>8. ProbeSound'
  <2>1. ctl.at \in Jobs /\ ctl.rec.token \in {0} \cup Tokens
    BY DEF IInv, TypeOK, Records
  <2>2. ctl.rec.token # 0 => <<ctl.at, ctl.rec.token>> \in Launches
    BY <2>1 DEF Launches
  <2> QED BY <1>2, <1>3, <2>1, <2>2 DEF IInv, ProbeSound
<1>9. SpawnSound'
  <2>1. ctl.pc = "spawn" => <<ctl.at, runs>> \in Launches
    BY DEF IInv, TypeOK, CommandSound, Launches
  <2> QED BY <1>2, <2>1 DEF IInv, SpawnSound
<1> QED BY <1>4, <1>5, <1>6, <1>7, <1>8, <1>9 DEF IInv

\* What leaves the ledger, the records, the controller and the supervisors alone
\* and takes no finished question back.
LEMMA ChildFrame ==
    ASSUME IInv, TypeOK', done \subseteq done', UNCHANGED <<ledger, record, ctl, sup, runs>>
    PROVE  IInv'
<1>1. \A s \in Launches : Alive(s)' = Alive(s) /\ HasAcknowledged(s)' = HasAcknowledged(s)
  BY DEF Alive, HasAcknowledged
<1>2. SupervisorsSound' /\ RecordsSound' /\ ProbeSound'
  BY DEF IInv, SupervisorsSound, RecordsSound, ProbeSound, Alive, HasAcknowledged, Quiet
<1>3. FinishedSound' /\ SeenSound'
  BY DEF IInv, FinishedSound, SeenSound, Seen, Quiet, Alive
<1>4. CommandSound' /\ SpawnSound'
  BY DEF IInv, CommandSound, SpawnSound
<1> QED BY <1>2, <1>3, <1>4 DEF IInv

LEMMA ChildSound ==
    ASSUME IInv, NEW s \in Launches, Child(s)
    PROVE  IInv'
<1>1. /\ dir' \in [Jobs -> {"none", "partial", "ready"}] /\ kid' \in [Launches -> KidPCs]
      /\ done' \subseteq Jobs /\ done \subseteq done'
      /\ UNCHANGED <<mode, ledger, record, ctl, sup, bounds>>
  <2>1. s[1] \in Jobs /\ TypeOK
    BY DEF Launches, IInv
  <2>2. CASE MakeDirectory(s)
    <3>1. UNCHANGED done /\ done \subseteq Jobs /\ UNCHANGED <<mode, ledger, record, ctl, sup, bounds>>
      BY <2>1, <2>2 DEF MakeDirectory, KidFrame, TypeOK
    <3>2. PICK pc \in KidPCs : kid' = [kid EXCEPT ![s] = pc]
      BY <2>2 DEF MakeDirectory, KidPCs
    <3>3. kid' \in [Launches -> KidPCs]
      BY <2>1, <3>2 DEF TypeOK
    <3>4. dir' \in [Jobs -> {"none", "partial", "ready"}]
      BY <2>1, <2>2 DEF MakeDirectory, TypeOK
    <3> QED BY <3>1, <3>3, <3>4
  <2>3. CASE CommitStore(s)
    BY <2>1, <2>3 DEF CommitStore, KidFrame, TypeOK, KidPCs
  <2>4. CASE FinishRun(s)
    BY <2>1, <2>4 DEF FinishRun, KidFrame, TypeOK, KidPCs
  <2>5. CASE StopRun(s) \/ RefuseRun(s)
    BY <2>1, <2>5 DEF StopRun, RefuseRun, KidFrame, TypeOK, KidPCs
  <2> QED BY <2>2, <2>3, <2>4, <2>5 DEF Child
<1>2. TypeOK'
  BY <1>1 DEF IInv, TypeOK, bounds
<1> QED BY <1>1, <1>2, ChildFrame DEF bounds

------------------------------------------------------------------------------
(* The supervisor's steps.                                                       *)

SupStep(s, pc) ==
    /\ Alive(s) /\ sup' = [sup EXCEPT ![s] = pc]
    /\ HasAcknowledged(s) => pc \notin {"start", "lock", "claim"}
    /\ SupFrame

Written(s) == \E new \in Records : new.token = s[2] /\ record' = [record EXCEPT ![s[1]] = new]

LEMMA WrittenRecord ==
    ASSUME NEW s \in Launches, NEW phase \in Phases, NEW child \in BOOLEAN,
           Record(s, phase, child)
    PROVE  Written(s)
<1>1. [token |-> s[2], phase |-> phase, child |-> child] \in Records
  BY DEF Records, Launches
<1> QED BY <1>1 DEF Record, Written

LEMMA SupStepSound ==
    ASSUME IInv, NEW s \in Launches, NEW pc \in SupPCs \ {"none"}, SupStep(s, pc),
           UNCHANGED record \/ (pc \notin {"start", "lock", "claim"} /\ Written(s)),
           mode' \in Modes, kid' \in [Launches -> KidPCs]
    PROVE  IInv'
<1>1. record' \in [Jobs -> Records]
  BY DEF Written, IInv, TypeOK, Launches
<1>2. TypeOK'
  BY <1>1 DEF IInv, TypeOK, SupStep, SupFrame, bounds
<1> QED BY <1>2, SupervisorFrame DEF SupStep, SupFrame, bounds, Written

LEMMA SupervisorSound ==
    ASSUME IInv, NEW s \in Launches, Supervisor(s)
    PROVE  IInv'
<1>1. TypeOK /\ mode \in Modes /\ kid \in [Launches -> KidPCs] /\ s[1] \in Jobs
      /\ record[s[1]] \in Records
  BY DEF IInv, TypeOK, Launches
<1> DEFINE Before == {"start", "lock", "claim"}
<1>2. ASSUME NEW pc \in SupPCs \ {"none"}, SupStep(s, pc),
             UNCHANGED <<record, mode>> \/ (UNCHANGED record /\ mode' = "blocked"),
             kid' \in [Launches -> KidPCs]
      PROVE  IInv'
  BY <1>1, <1>2, SupStepSound DEF Modes
<1>3. ASSUME NEW pc \in SupPCs \ {"none", "start", "lock", "claim"}, SupStep(s, pc),
             NEW phase \in Phases, NEW child \in BOOLEAN, Record(s, phase, child),
             UNCHANGED <<mode, kid>>
      PROVE  IInv'
  BY <1>1, <1>3, WrittenRecord, SupStepSound
<1>4. CASE CheckToken(s)
  <2>1. PICK pc \in {"lock", "gone"} : SupGoto(s, pc)
    BY <1>4 DEF CheckToken
  <2>2. SupStep(s, pc)
    BY <1>4, <2>1 DEF CheckToken, SupStep, SupGoto, Alive, HasAcknowledged
  <2> QED BY <1>1, <1>2, <1>4, <2>2 DEF CheckToken, SupPCs
<1>5. CASE TakeLock(s)
  <2>1. PICK pc \in {"claim", "gone"} : SupGoto(s, pc)
    BY <1>5 DEF TakeLock
  <2>2. SupStep(s, pc)
    BY <1>5, <2>1 DEF TakeLock, SupStep, SupGoto, Alive, HasAcknowledged
  <2> QED BY <1>1, <1>2, <1>5, <2>2 DEF TakeLock, SupPCs
<1>6. CASE Acknowledge(s)
  <2>1. CASE SupGoto(s, "acknowledged") /\ Record(s, "acknowledged", FALSE)
    <3>1. SupStep(s, "acknowledged")
      BY <1>6, <2>1 DEF Acknowledge, SupStep, SupGoto, Alive
    <3> QED BY <1>3, <1>6, <2>1, <3>1 DEF Acknowledge, SupPCs, Phases
  <2>2. CASE SupGoto(s, "gone") /\ UNCHANGED record
    <3>1. SupStep(s, "gone")
      BY <1>6, <2>2 DEF Acknowledge, SupStep, SupGoto, Alive
    <3> QED BY <1>1, <1>2, <1>6, <2>2, <3>1 DEF Acknowledge, SupPCs
  <2> QED BY <1>6, <2>1, <2>2 DEF Acknowledge
<1>7. CASE Acknowledged(s)
  <2>1. PICK pc \in {"exit", "fork_prepare", "prepared"},
             phase \in {"paused", "preparing", "prepared"} :
                 SupGoto(s, pc) /\ Record(s, phase, FALSE)
    BY <1>7 DEF Acknowledged
  <2>2. SupStep(s, pc)
    BY <1>7, <2>1 DEF Acknowledged, SupStep, SupGoto, Alive
  <2> QED BY <1>3, <1>7, <2>1, <2>2 DEF Acknowledged, SupPCs, Phases
<1>8. CASE Fork(s, "fork_prepare", "prepare", "mark_prepare")
  <2>1. SupStep(s, "mark_prepare") /\ kid' \in [Launches -> KidPCs] /\ UNCHANGED <<record, mode>>
    BY <1>1, <1>8 DEF Fork, SupStep, SupGoto, Alive, KidPCs
  <2> QED BY <1>2, <2>1 DEF SupPCs
<1>9. CASE Fork(s, "fork_run", "run", "mark_run")
  <2>1. SupStep(s, "mark_run") /\ kid' \in [Launches -> KidPCs] /\ UNCHANGED <<record, mode>>
    BY <1>1, <1>9 DEF Fork, SupStep, SupGoto, Alive, KidPCs
  <2> QED BY <1>2, <2>1 DEF SupPCs
<1>10. CASE \/ MarkChild(s, "mark_prepare", "wait_prepare")
            \/ MarkChild(s, "mark_run", "wait_run")
  <2>1. PICK pc \in {"wait_prepare", "wait_run"} : SupGoto(s, pc)
    BY <1>10 DEF MarkChild
  <2>2. SupStep(s, pc)
    BY <1>10, <2>1 DEF MarkChild, SupStep, SupGoto, Alive
  <2>3. record[s[1]].phase \in Phases
    BY <1>1 DEF Records
  <2> QED BY <1>3, <1>10, <2>2, <2>3 DEF MarkChild, SupPCs
<1>11. CASE WaitPrepare(s) \/ Prepared(s) \/ WaitRun(s)
  <2>1. CASE SupGoto(s, "fault") /\ UNCHANGED record
    <3>1. SupStep(s, "fault")
      BY <1>11, <2>1 DEF WaitPrepare, Prepared, WaitRun, SupStep, SupGoto, Alive
    <3> QED BY <1>1, <1>2, <1>11, <2>1, <3>1 DEF WaitPrepare, Prepared, WaitRun, SupPCs
  <2>2. ASSUME NEW pc \in {"prepared", "exit", "fork_run"}, SupGoto(s, pc),
               NEW phase \in {"prepared", "paused", "running", "finished"},
               Record(s, phase, FALSE)
        PROVE  IInv'
    <3>1. SupStep(s, pc) /\ UNCHANGED <<mode, kid>>
      BY <1>11, <2>2 DEF WaitPrepare, Prepared, WaitRun, SupStep, SupGoto, Alive
    <3> QED BY <1>3, <2>2, <3>1 DEF SupPCs, Phases
  <2> QED BY <1>11, <2>1, <2>2 DEF WaitPrepare, Prepared, WaitRun
<1>12. CASE Forward(s)
  <2>1. kid' \in [Launches -> KidPCs]
    BY <1>1, <1>12 DEF Forward, KidPCs
  <2>2. TypeOK'
    BY <1>1, <1>12, <2>1 DEF Forward, SupFrame, TypeOK, bounds
  <2> QED BY <1>12, <2>2, ChildFrame DEF Forward, SupFrame, bounds
<1>13. CASE RecordFault(s)
  <2>1. SupStep(s, "block") /\ record[s[1]].child \in BOOLEAN
    BY <1>1, <1>13 DEF RecordFault, SupStep, SupGoto, Alive, Records
  <2> QED BY <1>3, <1>13, <2>1 DEF RecordFault, SupPCs, Phases
<1>14. CASE BlockCampaign(s)
  <2>1. SupStep(s, "exit")
    BY <1>14 DEF BlockCampaign, SupStep, SupGoto, Alive
  <2> QED BY <1>1, <1>2, <1>14, <2>1 DEF BlockCampaign, SupPCs
<1>15. CASE Leave(s)
  <2>1. SupStep(s, "gone")
    BY <1>15 DEF Leave, SupStep, SupGoto, Alive
  <2> QED BY <1>1, <1>2, <1>15, <2>1 DEF Leave, SupPCs
<1> QED BY <1>4, <1>5, <1>6, <1>7, <1>8, <1>9, <1>10, <1>11, <1>12, <1>13, <1>14, <1>15
     DEF Supervisor

------------------------------------------------------------------------------
(* The controller's steps.                                                       *)

\* Where Past leaves the controller: at the next job, or where it goes on to.
Passed(j, pc, states, after) ==
    \/ /\ j < NJobs /\ ctl'.pc = pc /\ ctl'.at = j + 1
       /\ ctl'.states = states /\ ctl'.booting = ctl.booting
    \/ j = NJobs /\ after = "down" /\ ctl' = Off
    \/ j = NJobs /\ after = "read" /\ ctl' = NextTick
    \/ /\ j = NJobs /\ after \notin {"down", "read"} /\ ctl'.pc = after /\ ctl'.at = 1
       /\ ctl'.states = states /\ ctl'.booting = ctl.booting

LEMMA OffTyped == Off \in CtlType /\ NextTick \in CtlType
<1>1. 1 \in Jobs
  BY BoundsAssumption DEF Jobs
<1> QED BY <1>1 DEF Off, NextTick, NoRecord, CtlType, Records, JobStates, Phases, CtlPCs

LEMMA PastPasses ==
    ASSUME ctl \in CtlType, NEW j \in Jobs, NEW pc \in CtlPCs, NEW after \in CtlPCs,
           NEW states \in [Jobs -> JobStates \cup {"pending"}], Past(j, pc, states, after)
    PROVE  ctl' \in CtlType /\ Passed(j, pc, states, after)
<1>1. 1 \in Jobs /\ (j < NJobs => j + 1 \in Jobs) /\ (~(j < NJobs) => j = NJobs)
  BY BoundsAssumption DEF Jobs
<1>2. NoRecord \in Records
  BY DEF NoRecord, Records, Phases
<1>3. CASE j < NJobs
  BY <1>1, <1>2, <1>3 DEF Past, Passed, CtlType
<1>4. CASE ~(j < NJobs) /\ after \in {"down", "read"}
  BY <1>1, <1>4, OffTyped DEF Past, Passed
<1>5. CASE ~(j < NJobs) /\ after \notin {"down", "read"}
  BY <1>1, <1>2, <1>5 DEF Past, Passed, CtlType
<1> QED BY <1>3, <1>4, <1>5

\* A step that leaves the supervisors and what is durable of them alone, but for
\* states of jobs in the ledger.
LEMMA ControllerFrame ==
    ASSUME IInv, TypeOK', SeenSound', CommandSound', ProbeSound', SpawnSound', FinishedSound',
           UNCHANGED <<sup, record, runs>>,
           \A j \in Jobs : ledger'[j].token = ledger[j].token \/ Quiet(j)
    PROVE  IInv'
<1>1. SupervisorsSound'
  BY DEF IInv, SupervisorsSound, Quiet, Alive, Launches
<1>2. RecordsSound'
  BY DEF IInv, RecordsSound, HasAcknowledged
<1> QED BY <1>1, <1>2 DEF IInv

LEMMA TypedStep ==
    ASSUME TypeOK, ctl' \in CtlType, mode' \in Modes,
           ledger' \in [Jobs -> [state : JobStates, token : {0} \cup Tokens]],
           UNCHANGED <<record, dir, done, sup, kid, pauses>>, runs' \in 0..MaxRuns,
           faults' \in 0..MaxFaults
    PROVE  TypeOK'
  BY DEF TypeOK, CtlType

\* The controller is over, or begins its next tick.
LEMMA RestartSound ==
    ASSUME IInv, ctl' \in {Off, NextTick}, ctl.pc # "down", mode' \in Modes,
           ctl' = NextTick => ~ctl.booting \/ ctl.pc = "start",
           UNCHANGED <<ledger, record, dir, done, sup, kid, runs, pauses>>,
           faults' \in 0..MaxFaults
    PROVE  IInv'
<1>1. TypeOK'
  BY OffTyped, TypedStep DEF IInv, TypeOK
<1>2. SeenSound' /\ ProbeSound' /\ SpawnSound'
  BY BoundsAssumption DEF Off, NextTick, SeenSound, Seen, ProbeSound, SpawnSound, Jobs
<1>3. CommandSound'
  BY DEF IInv, CommandSound, Off, NextTick
<1>4. FinishedSound'
  BY DEF IInv, FinishedSound, Quiet, Alive
<1> QED BY <1>1, <1>2, <1>3, <1>4, ControllerFrame

Ledgers == [Jobs -> [state : JobStates, token : {0} \cup Tokens]]

\* A job is reconciled: what is concluded of it holds, and the tick goes on.
LEMMA ReconcileSound ==
    ASSUME IInv, ctl.pc \in {"read", "judge", "block"},
           NEW states \in [Jobs -> JobStates \cup {"pending"}],
           \A k \in Jobs : k # ctl.at => states[k] = ctl.states[k],
           states[ctl.at] \notin Busy => Quiet(ctl.at),
           NEW after \in {"plan", "reset", "down", "start"},
           after = "plan" => ~ctl.booting, after \in {"reset", "start"} => ctl.booting,
           Past(ctl.at, "read", states, after),
           mode' \in Modes, ledger' \in Ledgers,
           \A j \in Jobs : /\ ledger'[j].token = ledger[j].token
                           /\ ledger'[j].state = "finished" =>
                                 ledger[j].state = "finished" \/ (j \in done /\ Quiet(j)),
           UNCHANGED <<record, dir, done, sup, kid, bounds>>
    PROVE  IInv'
<1> DEFINE j == ctl.at
<1>1. /\ ctl \in CtlType /\ j \in Jobs /\ TypeOK
      /\ after \in CtlPCs /\ "read" \in CtlPCs
  BY DEF IInv, TypeOK, CtlType, CtlPCs
<1>2. ctl' \in CtlType /\ Passed(j, "read", states, after)
  BY <1>1, PastPasses
<1>3. TypeOK'
  BY <1>1, <1>2, TypedStep DEF Ledgers, bounds, TypeOK
<1>4. \A k \in Jobs : Quiet(k)' = Quiet(k)
  BY DEF Quiet, Alive
<1>5. FinishedSound'
  BY <1>4 DEF IInv, FinishedSound
<1>6. CASE ctl' = Off
  <2>1. SeenSound' /\ ProbeSound' /\ SpawnSound' /\ CommandSound'
    BY <1>6 DEF Off, SeenSound, Seen, ProbeSound, SpawnSound, CommandSound
  <2> QED BY <1>3, <1>5, <2>1, ControllerFrame DEF bounds
<1>7. CASE /\ ctl'.pc \in {"read", "plan", "reset", "start"} /\ ctl'.states = states
           /\ ctl'.booting = ctl.booting
           /\ \/ j < NJobs /\ ctl'.pc = "read" /\ ctl'.at = j + 1
              \/ j = NJobs /\ ctl'.pc = after
  <2>1. \A k \in Jobs : Seen(k)' => Seen(k) \/ k = j
    BY <1>1, <1>7 DEF Seen, Jobs
  <2>2. SeenSound'
    BY <1>1, <1>4, <1>7, <2>1 DEF IInv, SeenSound
  <2>3. ProbeSound' /\ SpawnSound'
    BY <1>7 DEF ProbeSound, SpawnSound
  <2>4. CommandSound'
    BY <1>7 DEF IInv, CommandSound, bounds
  <2> QED BY <1>3, <1>5, <2>2, <2>3, <2>4, ControllerFrame DEF bounds
<1> QED BY <1>1, <1>2, <1>6, <1>7 DEF Passed

LEMMA ReconciledGoesOn ==
    ASSUME ctl \in CtlType, NEW state \in JobStates \cup {"pending"}
    PROVE  /\ Reconciled \in {"plan", "reset", "down", "start"}
           /\ Reconciled = "plan" => ~ctl.booting
           /\ Reconciled \in {"reset", "start"} => ctl.booting
           /\ [ctl.states EXCEPT ![ctl.at] = state] \in [Jobs -> JobStates \cup {"pending"}]
  BY DEF Reconciled, CtlType

LEMMA ClassifiedSound ==
    ASSUME IInv, ctl.pc \in {"read", "judge"}, NEW state \in JobStates \cup {"pending"},
           Classified(state), state \notin Busy => Quiet(ctl.at),
           ledger' \in Ledgers,
           \A j \in Jobs : /\ ledger'[j].token = ledger[j].token
                           /\ ledger'[j].state = "finished" =>
                                 ledger[j].state = "finished" \/ (j \in done /\ Quiet(j)),
           UNCHANGED <<mode, record, dir, done, sup, kid, bounds>>
    PROVE  IInv'
<1>1. ctl \in CtlType /\ ctl.at \in Jobs /\ mode' \in Modes
  BY DEF IInv, TypeOK, CtlType
<1>2. PICK states : states = [ctl.states EXCEPT ![ctl.at] = state]
  OBVIOUS
<1>3. PICK after : after = Reconciled
  OBVIOUS
<1>4. /\ after \in {"plan", "reset", "down", "start"}
      /\ states \in [Jobs -> JobStates \cup {"pending"}]
  BY <1>1, <1>2, <1>3, ReconciledGoesOn
<1>5. states[ctl.at] = state /\ \A k \in Jobs : k # ctl.at => states[k] = ctl.states[k]
  BY <1>1, <1>2 DEF CtlType
<1>6. Past(ctl.at, "read", states, after)
  BY <1>2, <1>3 DEF Classified
<1>7. after = "plan" => ~ctl.booting
  BY <1>1, <1>3, ReconciledGoesOn
<1>8. after \in {"reset", "start"} => ctl.booting
  BY <1>1, <1>3, ReconciledGoesOn
<1>9. mode' \in Modes /\ UNCHANGED <<record, dir, done, sup, kid, bounds>>
  BY <1>1
<1> QED BY <1>4, <1>5, <1>6, <1>7, <1>8, <1>9, ReconcileSound

\* A token of the ledger without a living supervisor of its own leaves none.
LEMMA LedgerQuiet ==
    ASSUME IInv, NEW j \in Jobs,
           ledger[j].token = 0 \/ ~Alive(<<j, ledger[j].token>>)
    PROVE  Quiet(j)
<1> SUFFICES ASSUME NEW t \in Tokens, Alive(<<j, t>>) PROVE FALSE
  BY DEF Quiet
<1>1. <<j, t>> \in Launches /\ t # 0
  BY TokensArePositive DEF Launches
<1>2. ledger[j].token = t
  BY <1>1 DEF IInv, SupervisorsSound
<1> QED BY <1>1, <1>2

LEMMA ReadRecordSound ==
    ASSUME IInv, ReadRecord
    PROVE  IInv'
<1>1. /\ ctl \in CtlType /\ ctl.at \in Jobs /\ ctl.pc = "read" /\ TypeOK
      /\ ledger \in Ledgers /\ record[ctl.at] \in Records
      /\ UNCHANGED <<mode, ledger, record, dir, done, sup, kid, runs, pauses, faults>>
  BY DEF ReadRecord, IInv, TypeOK, CtlType, Ledgers, durable, bounds
<1>2. CASE Classified(ledger[ctl.at].state)
           /\ (ledger[ctl.at].state = "finished" \/ ledger[ctl.at].token = 0)
  <2>1. Quiet(ctl.at)
    BY <1>1, <1>2, LedgerQuiet DEF IInv, FinishedSound
  <2>2. ledger[ctl.at].state \in JobStates
    BY <1>1 DEF Ledgers
  <2>3. ledger' \in Ledgers /\ \A j \in Jobs : ledger'[j] = ledger[j]
    BY <1>1
  <2>4. PICK state \in JobStates \cup {"pending"} : state = ledger[ctl.at].state
    BY <2>2
  <2>5. Classified(state)
    BY <1>2, <2>4
  <2> QED BY <1>1, <2>1, <2>3, <2>5, ClassifiedSound DEF bounds
<1>3. CASE Classified("pending")
  BY <1>1, <1>3, ClassifiedSound DEF bounds, Busy
<1>4. CASE /\ ledger[ctl.at].token # 0 /\ record[ctl.at].token = ledger[ctl.at].token
           /\ ctl' = [ctl EXCEPT !.pc = "probe", !.rec = record[ctl.at]]
  <2>1. ctl' \in CtlType
    BY <1>1, <1>4 DEF CtlType, CtlPCs
  <2>2. TypeOK'
    BY <1>1, <2>1, TypedStep DEF Ledgers, TypeOK
  <2>3. /\ ctl'.pc = "probe" /\ ctl'.at = ctl.at /\ ctl'.rec = record[ctl.at]
        /\ ctl'.states = ctl.states /\ ctl'.booting = ctl.booting
    BY <1>1, <1>4 DEF CtlType
  <2>4. SeenSound' /\ FinishedSound'
    BY <1>1, <2>3 DEF IInv, SeenSound, Seen, FinishedSound, Quiet, Alive
  <2>5. CommandSound' /\ SpawnSound'
    BY <1>1, <2>3 DEF IInv, CommandSound, SpawnSound
  <2>6. ProbeSound'
    BY <1>1, <1>4, <2>3 DEF IInv, ProbeSound, RecordsSound, HasAcknowledged
  <2> QED BY <1>1, <2>2, <2>4, <2>5, <2>6, ControllerFrame
<1> QED BY <1>1, <1>2, <1>3, <1>4 DEF ReadRecord, Unacknowledged

LEMMA ProbeLockSound ==
    ASSUME IInv, ProbeLock
    PROVE  IInv'
<1>1. /\ ctl \in CtlType /\ ctl.at \in Jobs /\ ctl.pc = "probe" /\ TypeOK /\ ledger \in Ledgers
      /\ ctl.rec.token \in Tokens
      /\ UNCHANGED <<mode, ledger, record, dir, done, sup, kid, runs, pauses, faults>>
  BY DEF ProbeLock, IInv, TypeOK, CtlType, Ledgers, durable, bounds, ProbeSound, Records
<1>2. PICK h \in BOOLEAN : h = lock_held(ctl.at)
  BY DEF lock_held
<1>3. ctl' = [ctl EXCEPT !.pc = "judge", !.held = h]
  BY <1>2 DEF ProbeLock
<1>4. ctl' \in CtlType
  BY <1>1, <1>3 DEF CtlType, CtlPCs
<1>5. /\ ctl'.pc = "judge" /\ ctl'.at = ctl.at /\ ctl'.rec = ctl.rec /\ ctl'.held = h
      /\ ctl'.states = ctl.states /\ ctl'.booting = ctl.booting
  BY <1>1, <1>3 DEF CtlType
<1>6. TypeOK'
  BY <1>1, <1>4, TypedStep DEF Ledgers, TypeOK
<1>7. SeenSound' /\ FinishedSound'
  BY <1>1, <1>5 DEF IInv, SeenSound, Seen, FinishedSound, Quiet, Alive
<1>8. CommandSound' /\ SpawnSound'
  BY <1>1, <1>5 DEF IInv, CommandSound, SpawnSound
<1>9. ASSUME ~h PROVE sup[<<ctl.at, ctl.rec.token>>] = "gone"
  <2>1. ~Owns(<<ctl.at, ctl.rec.token>>) /\ HasAcknowledged(<<ctl.at, ctl.rec.token>>)
    BY <1>1, <1>2, <1>9 DEF lock_held, IInv, ProbeSound
  <2> QED BY <2>1 DEF Owns, Alive, HasAcknowledged
<1>10. ProbeSound'
  BY <1>1, <1>5, <1>9 DEF IInv, ProbeSound, HasAcknowledged
<1> QED BY <1>1, <1>6, <1>7, <1>8, <1>10, ControllerFrame

LEMMA JudgeSound ==
    ASSUME IInv, Judge
    PROVE  IInv'
<1>1. /\ ctl \in CtlType /\ ctl.at \in Jobs /\ ctl.pc = "judge" /\ TypeOK /\ ledger \in Ledgers
      /\ ctl.rec \in Records /\ ctl.rec.token = ledger[ctl.at].token /\ ctl.rec.token # 0
      /\ HasAcknowledged(<<ctl.at, ctl.rec.token>>)
      /\ UNCHANGED <<mode, record, dir, done, sup, kid, runs, pauses, faults>>
  BY DEF Judge, IInv, TypeOK, CtlType, Ledgers, bounds, ProbeSound
<1>2. PICK judged \in {"blocked", "prepared", "running", "pending", "finished", "paused"} :
          judged = Judgement(ctl.at, ctl.rec, ctl.held)
  BY DEF Judgement
<1>3. ASSUME judged \notin Busy PROVE Quiet(ctl.at)
  <2>1. ~Alive(<<ctl.at, ctl.rec.token>>)
    <3>1. CASE ~ctl.held
      BY <1>1, <3>1 DEF IInv, ProbeSound, Alive
    <3>2. CASE ctl.held
      BY <1>1, <1>2, <1>3, <3>2 DEF Judgement, Busy, SupervisorVerified
    <3> QED BY <3>1, <3>2
  <2> QED BY <1>1, <2>1, LedgerQuiet
<1>4. ASSUME judged = "finished" PROVE ctl.at \in done
  BY <1>2, <1>4 DEF Judgement, all_terminal
<1>5. \A j \in Jobs : /\ ledger'[j].token = ledger[j].token
                      /\ ledger'[j].state = ledger[j].state
                         \/ (j = ctl.at /\ ledger'[j].state = judged /\ judged \notin Busy)
  BY <1>1, <1>2 DEF Judge, Busy, Ledgers
<1>6. ledger' \in Ledgers
  BY <1>1, <1>2 DEF Judge, Ledgers, JobStates
<1>7. \A j \in Jobs : ledger'[j].state = "finished" =>
                          ledger[j].state = "finished" \/ (j \in done /\ Quiet(j))
  BY <1>3, <1>4, <1>5
<1>8. CASE Classified(judged)
  <2>1. judged \in JobStates \cup {"pending"}
    BY DEF JobStates
  <2> QED BY <1>1, <1>3, <1>5, <1>6, <1>7, <1>8, <2>1, ClassifiedSound DEF bounds
<1>9. CASE judged = "blocked" /\ Goto("block")
  <2>1. Quiet(ctl.at)
    BY <1>3, <1>9 DEF Busy
  <2>2. ctl' \in CtlType
    BY <1>1, <1>9 DEF Goto, CtlType, CtlPCs
  <2>3. /\ ctl'.pc = "block" /\ ctl'.at = ctl.at
        /\ ctl'.states = ctl.states /\ ctl'.booting = ctl.booting
    BY <1>1, <1>9 DEF Goto, CtlType
  <2>4. TypeOK'
    BY <1>1, <1>6, <2>2, TypedStep DEF Ledgers, TypeOK
  <2>5. \A j \in Jobs : Quiet(j)' = Quiet(j)
    BY <1>1 DEF Quiet, Alive
  <2>6. SeenSound'
    BY <1>1, <2>3, <2>5 DEF IInv, SeenSound, Seen
  <2>7. FinishedSound'
    BY <1>1, <1>7, <2>5 DEF IInv, FinishedSound
  <2>8. CommandSound' /\ SpawnSound'
    BY <1>1, <1>5, <2>3 DEF IInv, CommandSound, SpawnSound
  <2>9. ProbeSound'
    BY <1>1, <2>1, <2>3, <2>5 DEF ProbeSound
  <2> QED BY <1>1, <1>5, <2>4, <2>6, <2>7, <2>8, <2>9, ControllerFrame
<1> QED BY <1>2, <1>8, <1>9 DEF Judge

LEMMA BlockSound ==
    ASSUME IInv, Block
    PROVE  IInv'
<1>1. /\ ctl \in CtlType /\ ctl.at \in Jobs /\ ctl.pc = "block" /\ ledger \in Ledgers
      /\ Quiet(ctl.at) /\ mode' \in Modes
      /\ UNCHANGED <<ledger, record, dir, done, sup, kid, bounds>>
  BY DEF Block, IInv, TypeOK, CtlType, Ledgers, durable, ProbeSound, Modes
<1>2. PICK states : states = [ctl.states EXCEPT ![ctl.at] = "blocked"]
  OBVIOUS
<1>3. PICK after : after = IF ctl.booting /\ ~ctl.resume THEN "down" ELSE Reconciled
  OBVIOUS
<1>4. states \in [Jobs -> JobStates \cup {"pending"}]
      /\ \A k \in Jobs : k # ctl.at => states[k] = ctl.states[k]
  BY <1>1, <1>2 DEF CtlType, JobStates
<1>5. after \in {"plan", "reset", "down", "start"}
  BY <1>1, <1>3, ReconciledGoesOn
<1>6. (after = "plan" => ~ctl.booting) /\ (after \in {"reset", "start"} => ctl.booting)
  BY <1>1, <1>3, ReconciledGoesOn
<1>7. Past(ctl.at, "read", states, after)
  BY <1>2, <1>3 DEF Block
<1>8. ledger' \in Ledgers /\ \A j \in Jobs : ledger'[j] = ledger[j]
  BY <1>1
<1> QED BY <1>1, <1>4, <1>5, <1>6, <1>7, <1>8, ReconcileSound

LEMMA ResetSound ==
    ASSUME IInv, Reset
    PROVE  IInv'
<1>1. /\ ctl \in CtlType /\ ctl.at \in Jobs /\ ctl.pc = "reset" /\ ctl.booting /\ TypeOK
      /\ ledger \in Ledgers /\ runs \in Tokens
      /\ UNCHANGED <<mode, record, dir, done, sup, kid, runs, pauses, faults>>
  BY DEF Reset, IInv, TypeOK, CtlType, Ledgers, CommandSound, bounds
<1>2. CASE ctl' = Off /\ UNCHANGED ledger
  BY <1>1, <1>2, RestartSound DEF TypeOK, Off, NextTick
<1>3. CASE Past(ctl.at, "reset", ctl.states, "start")
           /\ \/ UNCHANGED ledger
              \/ /\ ctl.states[ctl.at] \in Stoppable
                 /\ \E state \in {"planned", "prepared"} :
                       ledger' = [ledger EXCEPT ![ctl.at] = [state |-> state, token |-> 0]]
  <2>1. ctl' \in CtlType /\ Passed(ctl.at, "reset", ctl.states, "start")
    BY <1>1, <1>3, PastPasses DEF CtlType, CtlPCs
  <2>2. ctl'.pc \in {"reset", "start"} /\ ctl'.states = ctl.states /\ ctl'.booting = ctl.booting
    BY <2>1 DEF Passed
  <2>3. ledger' \in Ledgers
    BY <1>1, <1>3, TokensArePositive DEF Ledgers, JobStates
  <2>4. ctl.states[ctl.at] \in Stoppable => Quiet(ctl.at)
    BY <1>1 DEF IInv, SeenSound, Seen, Stoppable, Busy
  <2>5. \A j \in Jobs : ledger'[j] = ledger[j] \/ (Quiet(j) /\ ledger'[j].state # "finished")
    BY <1>1, <1>3, <2>4 DEF Ledgers
  <2>6. \A j \in Jobs : Quiet(j)' = Quiet(j)
    BY <1>1 DEF Quiet, Alive
  <2>7. TypeOK'
    BY <1>1, <2>1, <2>3, TypedStep DEF Ledgers, TypeOK
  <2>8. SeenSound'
    BY <1>1, <2>2, <2>6 DEF IInv, SeenSound, Seen
  <2>9. FinishedSound'
    BY <1>1, <2>5, <2>6 DEF IInv, FinishedSound
  <2>10. CommandSound'
    BY <1>1, <2>2 DEF IInv, CommandSound
  <2>11. ProbeSound' /\ SpawnSound'
    BY <2>2 DEF ProbeSound, SpawnSound
  <2> QED BY <1>1, <2>5, <2>7, <2>8, <2>9, <2>10, <2>11, ControllerFrame
<1> QED BY <1>2, <1>3 DEF Reset

LEMMA StartSound ==
    ASSUME IInv, Start
    PROVE  IInv'
  BY RestartSound DEF Start, IInv, TypeOK, durable, bounds, Modes

\* The controller goes on to launch, or to raise.
LEMMA PlanSound ==
    ASSUME IInv, Plan
    PROVE  IInv'
<1>1. /\ ctl \in CtlType /\ ctl.at \in Jobs /\ ctl.pc = "plan" /\ ~ctl.booting /\ TypeOK
      /\ ledger \in Ledgers /\ mode' \in Modes
      /\ UNCHANGED <<ledger, record, dir, done, sup, kid, runs, pauses, faults>>
  BY DEF Plan, IInv, TypeOK, CtlType, Ledgers, durable, CommandSound, bounds, Modes
<1>2. CASE ctl' \in {Off, NextTick}
  BY <1>1, <1>2, RestartSound DEF TypeOK
<1>3. ASSUME NEW pc \in {"raise", "launch"}, ctl' = [ctl EXCEPT !.pc = pc]
      PROVE  IInv'
  <2>1. ctl' \in CtlType /\ ctl'.pc = pc /\ ctl'.booting = ctl.booting
    BY <1>1, <1>3 DEF CtlType, CtlPCs
  <2>2. TypeOK'
    BY <1>1, <2>1, TypedStep DEF Ledgers, TypeOK
  <2>3. SeenSound' /\ ProbeSound' /\ SpawnSound'
    BY <2>1 DEF SeenSound, Seen, ProbeSound, SpawnSound
  <2>4. CommandSound'
    BY <1>1, <2>1 DEF IInv, CommandSound
  <2>5. FinishedSound'
    BY <1>1 DEF IInv, FinishedSound, Quiet, Alive
  <2> QED BY <1>1, <2>2, <2>3, <2>4, <2>5, ControllerFrame
<1> QED BY <1>2, <1>3 DEF Plan, Goto

LEMMA LaunchSound ==
    ASSUME IInv, Launch
    PROVE  IInv'
<1>1. /\ ctl \in CtlType /\ ctl.at \in Jobs /\ ctl.pc = "launch" /\ ~ctl.booting /\ TypeOK
      /\ ledger \in Ledgers /\ runs \in Tokens
      /\ UNCHANGED <<mode, record, dir, done, sup, kid, runs, pauses, faults>>
  BY DEF Launch, IInv, TypeOK, CtlType, Ledgers, CommandSound, bounds
<1>2. \A j \in Jobs : Quiet(j)' = Quiet(j)
  BY <1>1 DEF Quiet, Alive
<1>3. CASE UNCHANGED ledger /\ Past(ctl.at, "launch", ctl.states, "read")
  <2>1. ctl' \in CtlType /\ Passed(ctl.at, "launch", ctl.states, "read")
    BY <1>1, <1>3, PastPasses DEF CtlType, CtlPCs
  <2>2. CASE ctl' = NextTick
    BY <1>1, <1>3, <2>2, RestartSound DEF TypeOK
  <2>3. CASE ctl'.pc = "launch" /\ ctl'.booting = ctl.booting
    <3>1. TypeOK'
      BY <1>1, <1>3, <2>1, TypedStep DEF Ledgers, TypeOK
    <3>2. SeenSound' /\ ProbeSound' /\ SpawnSound'
      BY <2>3 DEF SeenSound, Seen, ProbeSound, SpawnSound
    <3>3. CommandSound' /\ FinishedSound'
      BY <1>1, <1>2, <1>3, <2>3 DEF IInv, CommandSound, FinishedSound
    <3> QED BY <1>1, <1>3, <3>1, <3>2, <3>3, ControllerFrame
  <2> QED BY <2>1, <2>2, <2>3 DEF Passed
<1>4. CASE /\ ledger[ctl.at].token = 0 /\ Goto("spawn")
           /\ ledger' = [ledger EXCEPT ![ctl.at] = [state |-> "running", token |-> runs]]
  <2>1. ctl' \in CtlType /\ ctl'.pc = "spawn" /\ ctl'.at = ctl.at /\ ctl'.booting = ctl.booting
    BY <1>1, <1>4 DEF Goto, CtlType, CtlPCs
  <2>2. ledger' \in Ledgers
    BY <1>1, <1>4 DEF Ledgers, JobStates
  <2>3. ledger'[ctl.at] = [state |-> "running", token |-> runs]
        /\ \A j \in Jobs : j # ctl.at => ledger'[j] = ledger[j]
    BY <1>1, <1>4 DEF Ledgers
  <2>4. sup[<<ctl.at, runs>>] = "none"
    BY <1>1, <1>4, TokensArePositive DEF IInv, CommandSound
  <2>5. TypeOK'
    BY <1>1, <2>1, <2>2, TypedStep DEF Ledgers, TypeOK
  <2>6. SeenSound' /\ ProbeSound'
    BY <2>1 DEF SeenSound, Seen, ProbeSound
  <2>7. SpawnSound'
    BY <1>1, <2>1, <2>3, <2>4 DEF SpawnSound
  <2>8. CommandSound'
    BY <1>1, <2>1, <2>3, <2>4 DEF IInv, CommandSound
  <2>9. FinishedSound'
    BY <1>1, <1>2, <2>3 DEF IInv, FinishedSound
  <2>10. Quiet(ctl.at)
    BY <1>1, <1>4, LedgerQuiet
  <2> QED BY <1>1, <2>3, <2>5, <2>6, <2>7, <2>8, <2>9, <2>10, ControllerFrame
<1> QED BY <1>3, <1>4 DEF Launch, Launchable

LEMMA SpawnedSound ==
    ASSUME IInv, Spawn
    PROVE  IInv'
<1>1. /\ ctl \in CtlType /\ ctl.at \in Jobs /\ ctl.pc = "spawn" /\ ~ctl.booting /\ TypeOK
      /\ runs \in Tokens /\ <<ctl.at, runs>> \in Launches
      /\ ledger[ctl.at].state = "running" /\ ledger[ctl.at].token = runs
      /\ sup[<<ctl.at, runs>>] = "none" /\ sup \in [Launches -> SupPCs]
      /\ UNCHANGED <<mode, ledger, record, dir, done, kid, runs, pauses, faults>>
  BY DEF Spawn, IInv, TypeOK, CtlType, CommandSound, SpawnSound, durable, bounds, Launches
<1>2. sup' = [sup EXCEPT ![<<ctl.at, runs>>] = "start"]
  BY DEF Spawn
<1>3. ctl' \in CtlType /\ Passed(ctl.at, "launch", ctl.states, "read")
  BY <1>1, PastPasses DEF Spawn, CtlType, CtlPCs
<1>4. /\ ctl'.pc = "launch" \/ (ctl'.pc = "read" /\ ctl'.at = 1)
      /\ ~ctl'.booting
  BY <1>1, <1>3 DEF Passed, NextTick, Off
<1>5. \A s \in Launches : s # <<ctl.at, runs>> => sup'[s] = sup[s]
  BY <1>1, <1>2
<1>6. sup'[<<ctl.at, runs>>] = "start"
  BY <1>1, <1>2
<1>7. TypeOK'
  BY <1>1, <1>2, <1>3 DEF TypeOK, SupPCs, CtlType
<1>8. SupervisorsSound'
  <2>1. ASSUME NEW s \in Launches, s # <<ctl.at, runs>>
        PROVE  /\ Alive(s)' => ledger[s[1]].token = s[2]
               /\ sup'[s] # "none" => s[2] <= runs
    BY <1>5, <2>1 DEF IInv, SupervisorsSound, Alive
  <2>2. runs <= runs
    BY <1>1, TokensArePositive
  <2> QED BY <1>1, <2>1, <2>2 DEF SupervisorsSound
<1>9. RecordsSound'
  <2>1. ASSUME NEW j \in Jobs, record[j].token # 0
        PROVE  HasAcknowledged(<<j, record[j].token>>)'
    <3>1. HasAcknowledged(<<j, record[j].token>>) /\ <<j, record[j].token>> \in Launches
      BY <2>1 DEF IInv, RecordsSound, Launches, TypeOK, Records
    <3> QED BY <1>1, <1>5, <3>1 DEF HasAcknowledged
  <2> QED BY <1>1, <2>1 DEF RecordsSound
<1>10. \A j \in Jobs : j # ctl.at /\ Quiet(j) => Quiet(j)'
  BY <1>5 DEF Quiet, Alive, Launches
<1>11. FinishedSound'
  BY <1>1, <1>10 DEF IInv, FinishedSound
<1>12. SeenSound' /\ ProbeSound' /\ SpawnSound'
  BY <1>4, BoundsAssumption DEF SeenSound, Seen, ProbeSound, SpawnSound, Jobs
<1>13. CommandSound'
  <2>1. \A j \in Jobs : sup'[<<j, runs>>] # "none" => ledger[j].token = runs
    <3> SUFFICES ASSUME NEW j \in Jobs, sup'[<<j, runs>>] # "none" PROVE ledger[j].token = runs
      OBVIOUS
    <3>1. CASE j = ctl.at
      BY <1>1, <3>1
    <3>2. CASE j # ctl.at
      BY <1>1, <1>5, <3>2 DEF IInv, CommandSound, Launches
    <3> QED BY <3>1, <3>2
  <2> QED BY <1>1, <1>4, <2>1 DEF CommandSound
<1> QED BY <1>7, <1>8, <1>9, <1>11, <1>12, <1>13 DEF IInv

LEMMA SpawnFailsSound ==
    ASSUME IInv, SpawnFails
    PROVE  IInv'
<1>1. /\ ctl \in CtlType /\ ctl.at \in Jobs /\ ctl.pc = "spawn" /\ ~ctl.booting /\ TypeOK
      /\ ledger \in Ledgers /\ runs \in Tokens /\ faults' \in 0..MaxFaults
      /\ ledger[ctl.at].token = runs /\ sup[<<ctl.at, runs>>] = "none"
      /\ UNCHANGED <<mode, record, dir, done, sup, kid, runs, pauses>>
  BY BoundsAssumption
     DEF SpawnFails, IInv, TypeOK, CtlType, Ledgers, CommandSound, SpawnSound, Fault
<1>2. ctl' \in CtlType /\ ctl'.pc = "raise" /\ ctl'.booting = ctl.booting
  BY <1>1 DEF SpawnFails, Goto, CtlType, CtlPCs
<1>3. ledger' = [ledger EXCEPT ![ctl.at] = [state |-> "blocked", token |-> 0]]
  BY DEF SpawnFails
<1>4. ledger' \in Ledgers
  BY <1>1, <1>3 DEF Ledgers, JobStates
<1>5. ledger'[ctl.at].state = "blocked" /\ \A j \in Jobs : j # ctl.at => ledger'[j] = ledger[j]
  BY <1>1, <1>3 DEF Ledgers
<1>6. Quiet(ctl.at)
  BY <1>1, LedgerQuiet DEF Alive
<1>7. TypeOK'
  BY <1>1, <1>2, <1>4, TypedStep DEF Ledgers, TypeOK
<1>8. SeenSound' /\ ProbeSound' /\ SpawnSound'
  BY <1>2 DEF SeenSound, Seen, ProbeSound, SpawnSound
<1>9. CommandSound'
  BY <1>1, <1>2, <1>5 DEF IInv, CommandSound
<1>10. FinishedSound'
  BY <1>1, <1>5 DEF IInv, FinishedSound, Quiet, Alive
<1> QED BY <1>1, <1>5, <1>6, <1>7, <1>8, <1>9, <1>10, ControllerFrame

LEMMA RaiseBlockedSound ==
    ASSUME IInv, RaiseBlocked
    PROVE  IInv'
  BY RestartSound DEF RaiseBlocked, IInv, TypeOK, durable, bounds, Modes, Off, NextTick

\* A command of a fresh number finds nothing of that number.
LEMMA BeginSound ==
    ASSUME IInv, NEW resume \in BOOLEAN, Begin(resume)
    PROVE  IInv'
<1>1. /\ runs \in 0..MaxRuns /\ runs < MaxRuns /\ runs' = runs + 1 /\ TypeOK
      /\ UNCHANGED <<mode, ledger, record, dir, done, sup, kid, pauses, faults>>
      /\ ledger \in Ledgers
  BY DEF Begin, IInv, TypeOK, durable, Ledgers
<1>2. runs \in Nat /\ runs' \in Tokens /\ runs' \in 0..MaxRuns
  BY <1>1, BoundsAssumption DEF Tokens
<1>3. ctl' = [Off EXCEPT !.pc = "read", !.booting = TRUE, !.resume = resume]
  BY DEF Begin
<1>4. ctl' \in CtlType /\ ctl'.pc = "read" /\ ctl'.at = 1 /\ ctl'.booting
  BY <1>3, OffTyped DEF CtlType, CtlPCs, Off
<1>5. TypeOK'
  BY <1>1, <1>2, <1>4, TypedStep DEF Ledgers, TypeOK
<1>6. \A s \in Launches : sup[s] # "none" => s[2] <= runs /\ s[2] # runs'
  BY <1>1, <1>2 DEF IInv, SupervisorsSound, Launches, Tokens
<1>7. SupervisorsSound'
  BY <1>1, <1>2, <1>6 DEF IInv, SupervisorsSound, Alive, Launches, Tokens
<1>8. RecordsSound' /\ FinishedSound'
  BY <1>1 DEF IInv, RecordsSound, HasAcknowledged, FinishedSound, Quiet, Alive
<1>9. SeenSound' /\ ProbeSound' /\ SpawnSound'
  BY <1>4, BoundsAssumption DEF SeenSound, Seen, ProbeSound, SpawnSound, Jobs
<1>10. \A j \in Jobs : sup[<<j, runs'>>] = "none"
  BY <1>2, <1>6 DEF Launches
<1>11. CommandSound'
  BY <1>1, <1>2, <1>4, <1>10 DEF CommandSound
<1> QED BY <1>5, <1>7, <1>8, <1>9, <1>11 DEF IInv

LEMMA PauseSound ==
    ASSUME IInv, pause
    PROVE  IInv'
<1>1. TypeOK'
  BY BoundsAssumption DEF pause, IInv, TypeOK, durable, Modes
<1> QED BY <1>1, ChildFrame DEF pause, durable

LEMMA ControllerDiesSound ==
    ASSUME IInv, ControllerDies
    PROVE  IInv'
<1>1. faults' \in 0..MaxFaults
  BY BoundsAssumption DEF ControllerDies, Fault, IInv, TypeOK
<1> QED BY <1>1, RestartSound DEF ControllerDies, IInv, TypeOK, durable, Off, NextTick

LEMMA SupervisorDiesSound ==
    ASSUME IInv, NEW s \in Launches, SupervisorDies(s)
    PROVE  IInv'
<1>1. /\ faults' \in 0..MaxFaults /\ Alive(s) /\ sup' = [sup EXCEPT ![s] = "gone"]
      /\ UNCHANGED <<mode, ledger, record, dir, done, ctl, kid, runs, pauses>>
  BY BoundsAssumption DEF SupervisorDies, Fault, IInv, TypeOK, durable, SupGoto
<1>2. "gone" \in SupPCs \ {"none"} /\ "gone" \notin {"start", "lock", "claim"}
  BY DEF SupPCs
<1>3. TypeOK'
  BY <1>1, <1>2 DEF IInv, TypeOK
<1> QED BY <1>1, <1>2, <1>3, SupervisorFrame

LEMMA ChildFailsSound ==
    ASSUME IInv, NEW s \in Launches, ChildFails(s)
    PROVE  IInv'
<1>1. TypeOK'
  BY BoundsAssumption DEF ChildFails, Fault, IInv, TypeOK, durable, KidPCs
<1> QED BY <1>1, ChildFrame DEF ChildFails, durable

LEMMA StutterSound == IInv /\ UNCHANGED vars => IInv'
<1> SUFFICES ASSUME IInv, UNCHANGED vars PROVE IInv'
  OBVIOUS
<1>1. TypeOK'
  BY DEF IInv, TypeOK, vars
<1> QED BY <1>1, ChildFrame DEF vars

LEMMA NextSound == IInv /\ [Next]_vars => IInv'
<1> SUFFICES ASSUME IInv, [Next]_vars PROVE IInv'
  OBVIOUS
<1>1. CASE Controller
  BY <1>1, ReadRecordSound, ProbeLockSound, JudgeSound, BlockSound, ResetSound, StartSound,
     PlanSound, LaunchSound, SpawnedSound, RaiseBlockedSound DEF Controller
<1>2. CASE Operator
  BY <1>2, BeginSound, PauseSound DEF Operator
<1>3. CASE Failure
  BY <1>3, SpawnFailsSound, ControllerDiesSound, SupervisorDiesSound, ChildFailsSound
     DEF Failure
<1>4. ASSUME NEW s \in Launches, Supervisor(s) \/ Child(s) PROVE IInv'
  BY <1>4, SupervisorSound, ChildSound
<1>5. CASE UNCHANGED vars
  BY <1>5, StutterSound
<1> QED BY <1>1, <1>2, <1>3, <1>4, <1>5 DEF Next

LEMMA InvariantHolds == Spec => []IInv
  BY InitSound, NextSound, PTL DEF Spec

------------------------------------------------------------------------------
(* What follows.                                                                 *)

LEMMA InvariantSuffices == IInv => JobsAreSound
<1> SUFFICES ASSUME IInv PROVE JobsAreSound
  OBVIOUS
<1>1. ASSUME NEW j \in Jobs PROVE Cardinality({t \in Tokens : Alive(<<j, t>>)}) <= 1
  <2>1. {t \in Tokens : Alive(<<j, t>>)} \subseteq {ledger[j].token}
    BY DEF IInv, SupervisorsSound, Launches
  <2>2. IsFiniteSet({ledger[j].token}) /\ Cardinality({ledger[j].token}) = 1
    BY FS_Singleton
  <2>3. Cardinality({t \in Tokens : Alive(<<j, t>>)}) <= Cardinality({ledger[j].token})
    BY <2>1, <2>2, FS_Subset
  <2> QED BY <2>2, <2>3
<1>2. FinishedIsDone
  BY DEF IInv, FinishedSound, FinishedIsDone, Working, Quiet
<1> QED BY <1>1, <1>2 DEF IInv, JobsAreSound, LaunchedOnce

\* For any number of jobs and commands, whatever dies at whatever moment: a job
\* never has two supervisors, and one that the ledger calls finished has all its
\* questions answered and nobody at work on it.
THEOREM JobsStaySound == Spec => []JobsAreSound
  BY InvariantHolds, InvariantSuffices, PTL

\* A tick that ends the command has seen every job, each without a supervisor.
LEMMA QuietStep == IInv /\ [Next]_vars =>
    [Plan /\ ctl'.pc = "down" => \A j \in Jobs : ~Working(j)]_vars
<1> SUFFICES ASSUME IInv, Plan, ctl'.pc = "down", NEW j \in Jobs PROVE ~Working(j)
  OBVIOUS
<1>1. ctl.pc = "plan" /\ ctl \in CtlType
  BY DEF Plan, IInv, TypeOK, CtlType
<1>2. Seen(j) /\ (ctl.states[j] \notin Busy => Quiet(j))
  BY <1>1 DEF Seen, IInv, SeenSound
<1>3. CASE \A k \in Jobs : ledger[k].state = "finished"
  BY <1>3 DEF IInv, FinishedSound, Quiet, Working
<1>4. CASE \A k \in Jobs : ctl.states[k] \notin Busy
  BY <1>2, <1>4 DEF Quiet, Working
<1>5. [ctl EXCEPT !.pc = "raise"].pc = "raise" /\ [ctl EXCEPT !.pc = "launch"].pc = "launch"
      /\ NextTick.pc = "read"
  BY <1>1 DEF CtlType, NextTick, Off
<1> QED BY <1>3, <1>4, <1>5 DEF Plan, Goto

\* A controller that returns because the campaign is paused, blocked or complete
\* leaves no supervisor at work, although it read each record, probed each lock and
\* judged at different moments.
THEOREM ReturnsInQuiet == Spec => QuietOnReturn
  BY InvariantHolds, QuietStep, PTL DEF Spec, QuietOnReturn

------------------------------------------------------------------------------
(* The DAIL campaign                                                            *)

DailFunctions ==
    /\ begun \in [Questions -> Nat]
    /\ decided \in [Questions -> SUBSET (Nat \X PromptModes)]
    /\ outcomes \in [Questions -> SUBSET (Nat \X PromptModes)]
    /\ sealed \in [Questions -> SUBSET Nat]
    /\ assign \in [Questions -> [state : {"none", "active", "paused", "done"},
                                 version : Nat, first : Nat]]
    /\ lease \in [Questions -> Nat \cup {NoLease}] /\ current \in [Questions -> Nat]
    /\ task \in [Questions -> Pending \cup {"none", "done", "failed"}]
    /\ told \in [Questions -> SUBSET PromptModes]
    /\ startedGroups \subseteq prepared /\ prepared \subseteq Groups
    /\ ready \subseteq prepared /\ launched \subseteq ready
    /\ launched \subseteq startedGroups
    /\ drive \in {"off", "on", "drain"} /\ rerun \in BOOLEAN /\ changed \in BOOLEAN
    /\ refused = FALSE /\ reruns \in 0..MaxReruns /\ mishaps \in 0..MaxMishaps

\* What the index and the records keep of a question is of versions that were begun.
InRange(q) ==
    /\ decided[q] \subseteq (1..begun[q]) \X PromptModes
    /\ outcomes[q] \subseteq decided[q] /\ sealed[q] \subseteq 1..begun[q]
    /\ Version(q) <= begun[q] /\ assign[q].first <= begun[q] /\ current[q] <= begun[q]

\* An assignment that is not settled holds the claim of the version in force.
ClaimHolds(q) ==
    /\ lease[q] = IF Settled(q) THEN NoLease ELSE current[q]
    /\ assign[q].state = "none" => decided[q] = {}
    /\ assign[q].state # "none" => Version(q) > 0

\* A published version is sealed and all of its modes are recorded.
Published(q) ==
    current[q] # NoVersion =>
        current[q] \in sealed[q] /\ \A m \in PromptModes : <<current[q], m>> \in outcomes[q]

\* A version beyond the first costs a rerun or a mishap, which the next one has paid.
Paid(q) ==
    /\ begun[q] <= 1 + reruns + mishaps
    /\ (assign[q].state = "none" /\ task[q] # "begun") \/ (rerun /\ task[q] = "queued") =>
           begun[q] <= reruns + mishaps

\* What a task believes of its question.
Believes(q) ==
    /\ drive = "off" => task[q] \notin Pending
    /\ drive = "drain" => task[q] \notin {"queued", "begun"}
    /\ drive # "off" /\ task[q] \in {"none", "queued", "begun"} => told[q] = {}
    /\ task[q] = "queued" => (rerun => Settled(q))
    /\ task[q] = "begun" => /\ Settled(q) /\ (~rerun => assign[q].state = "none")
                            /\ begun[q] > 0
    /\ task[q] = "running" => /\ assign[q].state = "active"
                              /\ \A m \in told[q] : <<Version(q), m>> \in outcomes[q]
    /\ task[q] = "done" => assign[q].state = "done"
    /\ task[q] = "failed" => assign[q].state = "paused"
    /\ drive # "off" /\ ~rerun /\ task[q] # "none" =>
           \E g \in launched : q \in GroupMembers[g]

Agrees(q) == InRange(q) /\ ClaimHolds(q) /\ Published(q) /\ Paid(q) /\ Believes(q)

DailInv ==
    /\ DailFunctions /\ (\A q \in Questions : Agrees(q))
    /\ CountsMatchIndex /\ GatesHold /\ WaitsForSomething
LEMMA CohortFacts ==
    /\ Groups \subseteq Nat /\ \A g \in Groups : 1..g \subseteq Groups
    /\ \A g \in Groups : GroupMembers[g] \subseteq Questions /\ IsFiniteSet(GroupMembers[g])
    /\ Questions = UNION {GroupMembers[g] : g \in Groups}
    /\ \A g, h \in Groups : g # h => GroupMembers[g] \cap GroupMembers[h] = {}
BY CampaignAssumption DEF Groups, Questions

\* The first version of a question has the mode recorded.
FirstHas(q, m) == <<assign[q].first, m>> \in outcomes[q]

HaveFirst(g, m) == {q \in GroupMembers[g] : FirstHas(q, m)}

LEMMA TerminalFacts ==
    ASSUME NEW g \in Groups, NEW m
    PROVE  /\ TerminalModes(g, m) = Cardinality(HaveFirst(g, m))
           /\ IsFiniteSet(HaveFirst(g, m)) /\ TerminalModes(g, m) \in Nat
           /\ HaveFirst(g, m) \subseteq Questions
<1>1. TerminalModes(g, m) = Cardinality(HaveFirst(g, m))
  BY DEF TerminalModes, HaveFirst, FirstHas
<1>2. HaveFirst(g, m) \subseteq GroupMembers[g]
  BY DEF HaveFirst
<1>3. IsFiniteSet(GroupMembers[g]) /\ GroupMembers[g] \subseteq Questions
  BY CohortFacts
<1>4. IsFiniteSet(HaveFirst(g, m))
  BY <1>2, <1>3, FS_Subset
<1> QED BY <1>1, <1>2, <1>3, <1>4, FS_CardinalityType

\* What the gates are judged by.
LEMMA SameIndexed ==
    ASSUME \A q \in Questions : \A m \in PromptModes : FirstHas(q, m)' = FirstHas(q, m)
    PROVE  Indexed' = Indexed /\ \A g \in Groups : \A m \in PromptModes :
               TerminalModes(g, m)' = TerminalModes(g, m)
<1>1. ASSUME NEW g \in Groups, NEW m \in PromptModes
      PROVE  TerminalModes(g, m)' = TerminalModes(g, m)
  <2>1. HaveFirst(g, m)' = HaveFirst(g, m)
    BY CohortFacts DEF HaveFirst
  <2>2. TerminalModes(g, m)' = Cardinality(HaveFirst(g, m)')
    BY DEF TerminalModes, HaveFirst, FirstHas
  <2> QED BY <2>1, <2>2, TerminalFacts
<1> QED BY <1>1 DEF Indexed

\* A question the step leaves alone.
Untouched(q) ==
    UNCHANGED <<begun[q], decided[q], sealed[q], assign[q], lease[q], current[q],
                outcomes[q], task[q], told[q]>>

LEMMA UntouchedAgrees ==
    ASSUME NEW q \in Questions, Agrees(q), Untouched(q),
           UNCHANGED <<drive, rerun, launched, reruns>>,
           reruns \in Nat, mishaps \in Nat, mishaps' \in Nat, mishaps' >= mishaps,
           begun[q] \in Nat
    PROVE  Agrees(q)'
<1>1. UNCHANGED <<begun[q], decided[q], sealed[q], assign[q], lease[q], current[q],
                  outcomes[q], task[q], told[q]>>
  BY DEF Untouched
<1>2. InRange(q)' /\ ClaimHolds(q)' /\ Published(q)'
  BY <1>1 DEF Agrees, InRange, ClaimHolds, Published, Settled, Version
<1>3. Paid(q)'
  BY <1>1 DEF Agrees, Paid
<1>4. Believes(q)'
  BY <1>1 DEF Agrees, Believes, Settled, Version
<1> QED BY <1>2, <1>3, <1>4 DEF Agrees

\* Gates once passed stay passed when no mode leaves the index.
LEMMA GatesStay ==
    ASSUME GatesHold, startedGroups \subseteq Groups, startedGroups' = startedGroups,
           \A q \in Questions : \A m \in PromptModes : FirstHas(q, m) => FirstHas(q, m)'
    PROVE  GatesHold'
<1> SUFFICES ASSUME NEW g \in startedGroups, g # 1
             PROVE  /\ g - 1 \in startedGroups
                    /\ \A m \in PromptModes : Whole * TerminalModes(g - 1, m)'
                                                  >= Part * Cardinality(GroupMembers[g - 1])
  BY DEF GatesHold
<1>1. g - 1 \in startedGroups /\ \A m \in PromptModes : Whole * TerminalModes(g - 1, m)
                                                  >= Part * Cardinality(GroupMembers[g - 1])
  BY DEF GatesHold
<1>2. PICK h \in Groups : h = g - 1
  BY <1>1
<1>3. ASSUME NEW m \in PromptModes
      PROVE  Whole * TerminalModes(h, m)' >= Part * Cardinality(GroupMembers[h])
  <2>1. HaveFirst(h, m) \subseteq HaveFirst(h, m)'
    BY CohortFacts DEF HaveFirst
  <2>2. IsFiniteSet(HaveFirst(h, m)')
    <3>1. HaveFirst(h, m)' \subseteq GroupMembers[h]
      BY DEF HaveFirst
    <3> QED BY <3>1, CohortFacts, FS_Subset
  <2>3. Cardinality(HaveFirst(h, m)) <= Cardinality(HaveFirst(h, m)')
        /\ Cardinality(HaveFirst(h, m)') \in Nat
    BY <2>1, <2>2, FS_Subset, FS_CardinalityType
  <2>4. PICK a \in Nat, b \in Nat, t \in Nat :
            /\ a = TerminalModes(h, m) /\ b = TerminalModes(h, m)' /\ a <= b
            /\ t = Cardinality(GroupMembers[h])
    <3>1. TerminalModes(h, m)' = Cardinality(HaveFirst(h, m)')
      BY DEF TerminalModes, HaveFirst, FirstHas
    <3>2. Cardinality(GroupMembers[h]) \in Nat
      BY CohortFacts, FS_CardinalityType
    <3> QED BY <2>3, <3>1, <3>2, TerminalFacts
  <2>5. Whole \in Nat /\ Part \in Nat
    BY CampaignAssumption
  <2>6. Whole * b = Whole * a + Whole * (b - a) /\ Whole * (b - a) \in Nat
    BY <2>4, <2>5
  <2>7. Whole * a \in Nat /\ Part * t \in Nat /\ Whole * a >= Part * t
    BY <1>1, <1>2, <2>4, <2>5
  <2> QED BY <2>4, <2>6, <2>7
<1> QED BY <1>1, <1>2, <1>3

\* What a step of one question must show.
LEMMA DailQuestionStep ==
    ASSUME DailInv, NEW q \in Questions, LoopFrame,
           \A p \in Questions \ {q} : Untouched(p),
           DailFunctions', mishaps' >= mishaps, Agrees(q)',
           \A m \in PromptModes : FirstHas(q, m) => FirstHas(q, m)',
           drive # "off" => counts' = Indexed',
           changed' = TRUE \/ (changed' = changed /\ counts' = counts /\ task'[q] \in Pending)
    PROVE  DailInv'
<1>1. UNCHANGED <<startedGroups, prepared, drive, rerun, ready, launched, reruns>>
  BY DEF LoopFrame
<1>2. DailFunctions /\ \A p \in Questions : Agrees(p)
  BY DEF DailInv
<1>3. reruns \in Nat /\ mishaps \in Nat /\ mishaps' \in Nat
      /\ begun \in [Questions -> Nat] /\ startedGroups \subseteq Groups
  BY <1>2, CampaignAssumption DEF DailFunctions
<1>4. \A p \in Questions : Agrees(p)'
  <2>1. ASSUME NEW p \in Questions \ {q} PROVE Agrees(p)'
    BY <1>1, <1>2, <1>3, UntouchedAgrees
  <2> QED BY <2>1
<1>5. CountsMatchIndex'
  BY <1>1 DEF CountsMatchIndex
<1>6. GatesHold'
  <2>1. \A p \in Questions : \A m \in PromptModes : FirstHas(p, m) => FirstHas(p, m)'
    BY DEF Untouched, FirstHas
  <2> QED BY <1>1, <1>3, <2>1, GatesStay DEF DailInv
<1>7. WaitsForSomething'
  <2>1. CASE changed' = TRUE
    BY <2>1 DEF WaitsForSomething
  <2>2. CASE changed' = changed /\ counts' = counts /\ task'[q] \in Pending
    <3>1. Admitted' = Admitted
      BY <1>1, <2>2 DEF Admitted, Open, ReadyForNext
    <3>2. ASSUME drive' = "on", ~changed'
          PROVE  /\ rerun' \/ Admitted' \subseteq launched'
                 /\ \A p \in Questions : task'[p] # "failed"
                 /\ \E p \in Questions : task'[p] \in Pending
      <4>1. (rerun \/ Admitted \subseteq launched) /\ \A p \in Questions : task[p] # "failed"
        BY <1>1, <2>2, <3>2 DEF DailInv, WaitsForSomething
      <4>2. \A p \in Questions \ {q} : task'[p] = task[p]
        BY DEF Untouched
      <4>3. task'[q] # "failed"
        BY <2>2 DEF Pending
      <4> QED BY <1>1, <2>2, <3>1, <4>1, <4>2, <4>3
    <3> QED BY <3>2 DEF WaitsForSomething
  <2> QED BY <2>1, <2>2
<1> QED BY <1>4, <1>5, <1>6, <1>7 DEF DailInv

LEMMA BoundFacts == MaxReruns \in Nat /\ MaxMishaps \in Nat
BY CampaignAssumption

LEMMA DailStartsSound == DailInit => DailInv
<1> SUFFICES ASSUME DailInit PROVE DailInv
  OBVIOUS
<1>1. DailFunctions
  <2>1. /\ begun \in [Questions -> Nat] /\ current \in [Questions -> Nat]
        /\ lease \in [Questions -> Nat \cup {NoLease}]
    BY DEF DailInit, NoVersion, NoLease
  <2>2. /\ decided \in [Questions -> SUBSET (Nat \X PromptModes)]
        /\ outcomes \in [Questions -> SUBSET (Nat \X PromptModes)]
        /\ sealed \in [Questions -> SUBSET Nat] /\ told \in [Questions -> SUBSET PromptModes]
    BY DEF DailInit
  <2>3. assign \in [Questions -> [state : {"none", "active", "paused", "done"},
                                 version : Nat, first : Nat]]
    BY DEF DailInit, NoAssignment, NoVersion
  <2>4. task \in [Questions -> Pending \cup {"none", "done", "failed"}]
    BY DEF DailInit
  <2>5. /\ drive \in {"off", "on", "drain"} /\ rerun \in BOOLEAN /\ changed \in BOOLEAN /\ refused = FALSE
    BY DEF DailInit
  <2>6. reruns \in 0..MaxReruns /\ mishaps \in 0..MaxMishaps
    BY BoundFacts DEF DailInit
  <2>7. /\ startedGroups \subseteq prepared /\ prepared \subseteq Groups
    /\ ready \subseteq prepared /\ launched \subseteq ready
    /\ launched \subseteq startedGroups
    BY DEF DailInit
  <2> QED BY <2>1, <2>2, <2>3, <2>4, <2>5, <2>6, <2>7 DEF DailFunctions
<1>2. ASSUME NEW q \in Questions PROVE Agrees(q)
  <2>1. InRange(q) /\ ClaimHolds(q) /\ Published(q)
    BY DEF DailInit, InRange, ClaimHolds, Published, Settled, Version, NoAssignment,
           NoVersion, NoLease
  <2>2. Paid(q)
    BY CampaignAssumption DEF DailInit, Paid, NoVersion
  <2>3. Believes(q)
    BY DEF DailInit, Believes, Pending
  <2> QED BY <2>1, <2>2, <2>3 DEF Agrees
<1> QED BY <1>1, <1>2 DEF DailInit, DailInv, CountsMatchIndex, GatesHold, WaitsForSomething

\* Nothing the campaign keeps refers to what is not yet prepared.
LEMMA PreparationKeeps ==
    ASSUME DailInv, NEW g \in Groups, Prepare(g)
    PROVE  DailInv'
<1>1. UNCHANGED <<records, index, process, book>> /\ prepared' = prepared \cup {g}
  BY DEF Prepare
<1>2. DailFunctions'
  BY <1>1 DEF DailInv, DailFunctions, records, index, process, book
<1>3. ASSUME NEW q \in Questions PROVE Agrees(q)'
  <2>1. Untouched(q)
    BY <1>1 DEF Untouched, records, index, process
  <2>2. /\ UNCHANGED <<drive, rerun, launched, reruns, mishaps>>
        /\ reruns \in Nat /\ mishaps \in Nat /\ begun[q] \in Nat /\ Agrees(q)
    BY <1>1, CampaignAssumption DEF DailInv, DailFunctions, process, book
  <2> QED BY <2>1, <2>2, UntouchedAgrees
<1>4. CountsMatchIndex'
  BY <1>1 DEF DailInv, CountsMatchIndex, Indexed, TerminalModes, index, process
<1>5. GatesHold'
  BY <1>1, GatesStay DEF DailInv, DailFunctions, FirstHas, index
<1>6. WaitsForSomething'
  BY <1>1 DEF DailInv, WaitsForSomething, Admitted, Open, ReadyForNext, process, index
<1> QED BY <1>2, <1>3, <1>4, <1>5, <1>6 DEF DailInv

\* A command begins with what the index shows and with nothing entered; the settled
\* questions it was asked to rerun are queued, and a rerun is paid for.
LEMMA BeginningKeeps ==
    ASSUME DailInv, NEW targets \in SUBSET Questions, BeginCommand(targets),
           reruns' \in 0..MaxReruns, reruns' >= reruns, rerun' \in BOOLEAN,
           \A q \in targets : rerun' /\ Settled(q) /\ reruns' > reruns
    PROVE  DailInv'
<1>0. DailFunctions /\ \A q \in Questions : Agrees(q)
  BY DEF DailInv
<1>1. /\ drive = "off" /\ drive' = "on" /\ changed' = TRUE /\ launched' = {}
      /\ ready' = prepared /\ counts' = Indexed
      /\ task' = [q \in Questions |-> IF q \in targets THEN "queued" ELSE "none"]
      /\ told' = [q \in Questions |-> {}]
      /\ UNCHANGED <<records, index, prepared, refused, mishaps>>
  BY DEF BeginCommand
<1>2. DailFunctions'
  BY <1>0, <1>1 DEF DailFunctions, records, index, Pending
<1>3. Indexed' = Indexed
  BY <1>1 DEF Indexed, TerminalModes, index
<1>4. ASSUME NEW q \in Questions PROVE Agrees(q)'
  <2>1. UNCHANGED <<begun[q], decided[q], sealed[q], assign[q], lease[q], current[q],
                    outcomes[q]>>
    BY <1>1 DEF records, index
  <2>2. InRange(q)' /\ ClaimHolds(q)' /\ Published(q)'
    BY <1>0, <2>1 DEF Agrees, InRange, ClaimHolds, Published, Settled, Version
  <2>3. Paid(q)'
    <3>1. /\ begun[q] <= 1 + reruns + mishaps
          /\ task[q] # "begun"
          /\ assign[q].state = "none" => begun[q] <= reruns + mishaps
      BY <1>0, <1>1 DEF Agrees, Paid, Believes, Pending
    <3>2. /\ reruns \in Nat /\ mishaps \in Nat /\ reruns' \in Nat /\ begun[q] \in Nat
          /\ mishaps' = mishaps
      BY <1>0, <1>1, CampaignAssumption DEF DailFunctions
    <3>3. q \in targets \/ task'[q] = "none"
      BY <1>1
    <3>4. begun'[q] <= 1 + reruns' + mishaps'
      BY <2>1, <3>1, <3>2
    <3>5. ASSUME (assign'[q].state = "none" /\ task'[q] # "begun")
                     \/ (rerun' /\ task'[q] = "queued")
          PROVE  begun'[q] <= reruns' + mishaps'
      BY <2>1, <3>1, <3>2, <3>3, <3>5
    <3> QED BY <3>4, <3>5 DEF Paid
  <2>4. Believes(q)'
    <3>1. told'[q] = {} /\ task'[q] \in {"queued", "none"}
          /\ (task'[q] = "queued" => rerun' /\ Settled(q))
      BY <1>1
    <3> QED BY <1>1, <2>1, <3>1 DEF Believes, Settled
  <2> QED BY <2>2, <2>3, <2>4 DEF Agrees
<1>5. CountsMatchIndex'
  BY <1>1, <1>3 DEF CountsMatchIndex
<1>6. GatesHold'
  BY <1>0, <1>1, GatesStay DEF DailInv, DailFunctions, FirstHas, index
<1> QED BY <1>1, <1>2, <1>4, <1>5, <1>6 DEF DailInv, WaitsForSomething

LEMMA ResumingKeeps ==
    ASSUME DailInv, Resume
    PROVE  DailInv'
<1>1. BeginCommand({}) /\ rerun' = FALSE /\ reruns' = reruns
  BY DEF Resume
<1>2. reruns \in 0..MaxReruns
  BY DEF DailInv, DailFunctions
<1>2a. rerun' \in BOOLEAN
  BY <1>1
<1>2b. reruns' \in 0..MaxReruns
  BY <1>1, <1>2
<1>3. reruns' >= reruns
  BY <1>1, <1>2, BoundFacts
<1>4. {} \in SUBSET Questions /\ \A q \in {} : rerun' /\ Settled(q) /\ reruns' > reruns
  OBVIOUS
<1> QED BY <1>1, <1>2a, <1>2b, <1>3, <1>4, BeginningKeeps, Zenon

LEMMA RerunningKeeps ==
    ASSUME DailInv, Rerun
    PROVE  DailInv'
<1>1. reruns < MaxReruns /\ reruns' = reruns + 1 /\ rerun' = TRUE
  BY DEF Rerun
<1>2. PICK targets \in SUBSET UNION {GroupMembers[g] : g \in prepared} :
          (\A q \in targets : Settled(q)) /\ BeginCommand(targets)
  BY DEF Rerun, Rerunnable
<1>3. targets \in SUBSET Questions
  BY DEF DailInv, DailFunctions, Questions
<1>4. reruns \in 0..MaxReruns
  BY DEF DailInv, DailFunctions
<1>5. /\ reruns' \in 0..MaxReruns /\ reruns' >= reruns /\ reruns' > reruns /\ rerun' \in BOOLEAN
  BY <1>1, <1>4, CampaignAssumption
<1> QED BY <1>1, <1>2, <1>3, <1>5, BeginningKeeps

LEMMA DailThresholdFacts ==
    ASSUME NEW t \in Nat, NEW c \in Nat, c >= Threshold(t)
    PROVE  Whole * c >= Part * t
<1>1. Part \in Nat /\ Whole \in Nat /\ Whole > 0
  BY CampaignAssumption
<1>2. PICK a \in Nat : a = Part * t
  <2>1. Part * t \in Nat
    BY <1>1
  <2> QED BY <2>1
<1>3. PICK d \in Int, r \in Int :
          d = (a + Whole - 1) \div Whole /\ a + Whole - 1 = Whole * d + r /\ r < Whole
  <2>1. PICK e \in Int : e = a + Whole - 1
    BY <1>1, <1>2
  <2>2. /\ e \div Whole \in Int /\ (e % Whole) \in Int /\ (e % Whole) < Whole
        /\ e = Whole * (e \div Whole) + (e % Whole)
    BY <1>1, <2>1
  <2> QED BY <2>1, <2>2
<1>4. Whole * d >= a /\ c >= d
  <2>1. Whole * d \in Int
    BY <1>1, <1>3
  <2> QED BY <1>1, <1>2, <1>3, <2>1 DEF Threshold
<1>5. Whole * c = Whole * d + Whole * (c - d) /\ Whole * (c - d) >= 0
  BY <1>1, <1>3, <1>4
<1>6. Whole * c \in Int /\ Whole * d \in Int /\ Whole * (c - d) \in Int
  BY <1>1, <1>3
<1> QED BY <1>2, <1>4, <1>5, <1>6

LEMMA AdmittedFacts ==
    /\ Admitted \subseteq Groups
    /\ \A g \in Admitted : /\ g \in launched \/ Open(g)
                           /\ 1..g \subseteq Admitted /\ g \in 1..g
<1> SUFFICES ASSUME NEW g \in Admitted
             PROVE  /\ g \in Groups /\ (g \in launched \/ Open(g))
                    /\ 1..g \subseteq Admitted /\ g \in 1..g
  OBVIOUS
<1>1. g \in Groups /\ \A h \in 1..g : h \in launched \/ Open(h)
  BY DEF Admitted
<1>2. g \in Nat /\ g >= 1
  BY <1>1, CampaignAssumption DEF Groups
<1>3. g \in 1..g
  BY <1>2
<1>4. ASSUME NEW h \in 1..g PROVE h \in Admitted
  <2>1. h \in Groups
    BY <1>1, CohortFacts
  <2>2. 1..h \subseteq 1..g
    BY <1>2
  <2> QED BY <1>1, <2>1, <2>2 DEF Admitted
<1> QED BY <1>1, <1>3, <1>4

\* A scan enters whole groups none of whose questions has a task, each behind the
\* one before it and by the counts the index shows.
LEMMA ScanningKeeps ==
    ASSUME DailInv, Scan
    PROVE  DailInv'
<1> DEFINE new == IF rerun THEN {} ELSE Admitted \ launched
           failed == \E q \in Questions : task[q] = "failed"
           entered == UNION {GroupMembers[g] : g \in new}
           pending == entered # {} \/ \E q \in Questions : task[q] \in Pending
<1>0. DailFunctions /\ \A q \in Questions : Agrees(q)
  BY DEF DailInv
<1>1. PICK gs, qs, f, p : gs = new /\ qs = entered /\ f = failed /\ p = pending
  OBVIOUS
<1>2. /\ drive = "on" /\ changed /\ Settling
      /\ changed' = FALSE
      /\ startedGroups' = startedGroups \cup gs
      /\ launched' = launched \cup gs
      /\ drive' = IF f THEN "drain" ELSE IF p THEN "on" ELSE "off"
      /\ task' = [q \in Questions |-> IF q \in qs /\ ~f THEN "queued" ELSE task[q]]
      /\ UNCHANGED <<records, assign, lease, current, outcomes, prepared, rerun, ready,
                     counts, told, book>>
  BY <1>1 DEF Scan
<1>3. /\ gs = (IF rerun THEN {} ELSE Admitted \ launched)
      /\ qs = UNION {GroupMembers[g] : g \in gs}
      /\ f = (\E q \in Questions : task[q] = "failed")
      /\ p = (qs # {} \/ \E q \in Questions : task[q] \in Pending)
  BY <1>1
<1> HIDE DEF new, failed, entered, pending
<1>4. gs \subseteq Groups /\ gs \cap launched = {} /\ (gs # {} => ~rerun)
      /\ gs \subseteq Admitted /\ \A g \in gs : Open(g)
  BY <1>3, AdmittedFacts
<1>5. gs \subseteq ready
  BY <1>4 DEF Open
<1>6. qs \subseteq Questions
  BY <1>3, <1>4, CohortFacts
<1>7. DailFunctions'
  <2>1. task' \in [Questions -> Pending \cup {"none", "done", "failed"}]
    BY <1>0, <1>2 DEF DailFunctions, Pending
  <2>2. /\ startedGroups' \subseteq prepared' /\ prepared' \subseteq Groups
        /\ ready' \subseteq prepared' /\ launched' \subseteq ready'
        /\ launched' \subseteq startedGroups'
    BY <1>0, <1>2, <1>5 DEF DailFunctions
  <2>3. drive' \in {"off", "on", "drain"} /\ changed' \in BOOLEAN
    BY <1>2
  <2> QED BY <1>0, <1>2, <2>1, <2>2, <2>3 DEF DailFunctions, records, book
<1>8. ASSUME NEW q \in qs
      PROVE  /\ ~rerun /\ task[q] = "none" /\ told[q] = {}
             /\ \E g \in launched' : q \in GroupMembers[g]
  <2>1. PICK g \in gs : q \in GroupMembers[g]
    BY <1>3
  <2>2. \A h \in launched : q \notin GroupMembers[h]
    BY <1>0, <1>4, <2>1, CohortFacts DEF DailFunctions
  <2>3. ~rerun /\ task[q] = "none"
    BY <1>0, <1>2, <1>4, <1>6, <2>2 DEF Agrees, Believes
  <2>4. told[q] = {}
    BY <1>0, <1>2, <1>6, <2>3 DEF Agrees, Believes
  <2> QED BY <1>2, <2>1, <2>3, <2>4
<1>9. ASSUME NEW q \in Questions PROVE Agrees(q)'
  <2>1. UNCHANGED <<begun[q], decided[q], sealed[q], assign[q], lease[q], current[q],
                    outcomes[q], told[q], rerun, reruns, mishaps>>
    BY <1>2 DEF records, book
  <2>2. InRange(q)' /\ ClaimHolds(q)' /\ Published(q)'
    BY <1>0, <2>1 DEF Agrees, InRange, ClaimHolds, Published, Settled, Version
  <2>3. CASE q \in qs /\ ~f
    <3>1. /\ task'[q] = "queued" /\ task[q] = "none" /\ ~rerun /\ told[q] = {} /\ drive' = "on"
          /\ \E g \in launched' : q \in GroupMembers[g]
      BY <1>2, <1>3, <1>8, <2>3
    <3>2. Paid(q)'
      BY <1>0, <2>1, <3>1 DEF Agrees, Paid
    <3>3. Believes(q)'
      BY <2>1, <3>1 DEF Believes
    <3> QED BY <2>2, <3>2, <3>3 DEF Agrees
  <2>4. CASE ~(q \in qs /\ ~f)
    <3>1. task'[q] = task[q]
      BY <1>2, <2>4
    <3>2. Paid(q)'
      BY <1>0, <2>1, <3>1 DEF Agrees, Paid
    <3>3. task[q] \notin {"queued", "begun"} /\ (drive' = "off" => task[q] \notin Pending)
      BY <1>2, <1>3 DEF Settling
    <3>4. launched \subseteq launched'
      BY <1>2
    <3>5. Believes(q)'
      BY <1>0, <1>2, <2>1, <3>1, <3>3, <3>4 DEF Agrees, Believes, Settled, Version
    <3> QED BY <2>2, <3>2, <3>5 DEF Agrees
  <2> QED BY <2>3, <2>4
<1>10. Indexed' = Indexed /\ \A g \in Groups : \A m \in PromptModes :
               TerminalModes(g, m)' = TerminalModes(g, m)
  BY <1>2, SameIndexed DEF FirstHas
<1>11. CountsMatchIndex'
  BY <1>2, <1>10 DEF DailInv, CountsMatchIndex
<1>12. GatesHold'
  <2>1. Admitted \subseteq startedGroups' \/ rerun
    BY <1>0, <1>2, <1>3 DEF DailFunctions
  <2>2. ASSUME NEW g \in startedGroups, g # 1
        PROVE  /\ g - 1 \in startedGroups'
               /\ \A m \in PromptModes :
                      Whole * TerminalModes(g - 1, m)' >= Part * Cardinality(GroupMembers[g - 1])
    <3>1. /\ g - 1 \in startedGroups /\ startedGroups \subseteq Groups
          /\ \A m \in PromptModes :
                 Whole * TerminalModes(g - 1, m) >= Part * Cardinality(GroupMembers[g - 1])
      BY <1>0, <2>2 DEF DailInv, DailFunctions, GatesHold
    <3> QED BY <1>2, <1>10, <3>1
  <2>3. ASSUME NEW g \in gs, g \notin startedGroups, g # 1
        PROVE  /\ g - 1 \in startedGroups'
               /\ \A m \in PromptModes :
                      Whole * TerminalModes(g - 1, m)' >= Part * Cardinality(GroupMembers[g - 1])
    <3>1. g \in Admitted /\ g \in Groups /\ ~rerun /\ ReadyForNext(g - 1, counts)
      BY <1>4, <2>3 DEF Open
    <3>2. PICK h \in Groups : h = g - 1 /\ h \in Admitted
      <4>1. g \in Nat /\ g > 1 /\ g - 1 \in 1..g
        BY <2>3, <3>1, CampaignAssumption DEF Groups
      <4> QED BY <3>1, <4>1, AdmittedFacts
    <3>3. h \in startedGroups'
      BY <2>1, <3>1, <3>2
    <3>4. ASSUME NEW m \in PromptModes
          PROVE  Whole * TerminalModes(h, m)' >= Part * Cardinality(GroupMembers[h])
      <4>1. counts[h][m] >= Threshold(Cardinality(GroupMembers[h]))
        BY <3>1, <3>2 DEF ReadyForNext
      <4>2. counts[h][m] = TerminalModes(h, m)
        BY <1>2 DEF DailInv, CountsMatchIndex, Indexed
      <4>3. TerminalModes(h, m) \in Nat /\ Cardinality(GroupMembers[h]) \in Nat
        BY TerminalFacts, CohortFacts, FS_CardinalityType
      <4> QED BY <1>10, <4>1, <4>2, <4>3, DailThresholdFacts
    <3> QED BY <3>2, <3>3, <3>4
  <2> QED BY <1>2, <2>2, <2>3 DEF GatesHold
<1>13. WaitsForSomething'
  <2> SUFFICES ASSUME drive' = "on"
               PROVE  /\ rerun' \/ Admitted' \subseteq launched'
                      /\ \A q \in Questions : task'[q] # "failed"
                      /\ \E q \in Questions : task'[q] \in Pending
    BY DEF WaitsForSomething
  <2>1. ~f /\ p
    BY <1>2
  <2>2. \A q \in Questions : task'[q] # "failed"
    BY <1>2, <1>3, <2>1
  <2>3. \E q \in Questions : task'[q] \in Pending
    <3>1. CASE qs # {}
      BY <1>2, <1>6, <2>1, <3>1 DEF Pending
    <3>2. CASE qs = {}
      BY <1>2, <1>3, <2>1, <3>2
    <3> QED BY <3>1, <3>2
  <2>4. ASSUME ~rerun, NEW g \in Admitted' PROVE g \in launched'
    <3>1. g \in Groups /\ \A h \in 1..g : h \in launched' \/ Open(h)'
      BY DEF Admitted
    <3>2. \A h \in 1..g : h \in gs => h \in launched \/ Open(h)
      BY <1>4
    <3>3. ASSUME NEW h \in 1..g, Open(h)' PROVE h \in gs \/ Open(h)
      <4>1. h \in ready /\ (h \in startedGroups \cup gs \/ h = 1 \/ ReadyForNext(h - 1, counts)')
        BY <1>2, <3>3 DEF Open
      <4>2. ReadyForNext(h - 1, counts)' <=> ReadyForNext(h - 1, counts)
        BY <1>2 DEF ReadyForNext
      <4> QED BY <4>1, <4>2 DEF Open
    <3>4. g \in Admitted
      BY <1>2, <3>1, <3>2, <3>3 DEF Admitted
    <3> QED BY <1>2, <1>3, <2>4, <3>4
  <2> QED BY <1>2, <2>2, <2>3, <2>4
<1> QED BY <1>7, <1>9, <1>11, <1>12, <1>13 DEF DailInv

\* The command stops: what it leaves of its questions is at rest, and what it takes
\* from them is paid for by a mishap.
LEMMA StoppingKeeps ==
    ASSUME DailInv, DailFunctions',
           UNCHANGED <<records, index, rerun, counts, launched, told, reruns>>,
           mishaps' >= mishaps, drive' # "on",
           mishaps' > mishaps \/ task' = task,
           drive # "off",
           \A q \in Questions :
               /\ task'[q] \in {task[q], "none"}
               /\ drive' = "off" => task'[q] \notin Pending
               /\ drive' = "drain" => task'[q] = task[q] /\ task[q] \notin {"queued", "begun"}
    PROVE  DailInv'
<1>0. DailFunctions /\ \A q \in Questions : Agrees(q)
  BY DEF DailInv
<1>1. ASSUME NEW q \in Questions PROVE Agrees(q)'
  <2>1. UNCHANGED <<begun[q], decided[q], sealed[q], assign[q], lease[q], current[q],
                    outcomes[q], told[q], rerun, reruns, launched>>
    BY DEF records, index
  <2>2. InRange(q)' /\ ClaimHolds(q)' /\ Published(q)'
    BY <1>0, <2>1 DEF Agrees, InRange, ClaimHolds, Published, Settled, Version
  <2>3. Paid(q)'
    <3>1. /\ reruns \in Nat /\ mishaps \in Nat /\ mishaps' \in Nat /\ begun[q] \in Nat
      BY <1>0, BoundFacts DEF DailFunctions
    <3>2. begun[q] <= 1 + reruns + mishaps
      BY <1>0 DEF Agrees, Paid
    <3>3. CASE mishaps' > mishaps
      <4>1. begun[q] <= reruns + mishaps'
        BY <3>1, <3>2, <3>3
      <4> QED BY <2>1, <3>1, <4>1 DEF Paid
    <3>4. CASE task' = task
      <4>1. (assign[q].state = "none" /\ task[q] # "begun") \/ (rerun /\ task[q] = "queued") =>
                 begun[q] <= reruns + mishaps
        BY <1>0 DEF Agrees, Paid
      <4> QED BY <2>1, <3>1, <3>2, <3>4, <4>1 DEF Paid
    <3> QED BY <3>3, <3>4
  <2>4. Believes(q)'
    <3>1. CASE drive' = "off"
      BY <1>0, <2>1, <3>1 DEF Agrees, Believes, Pending, Settled, Version
    <3>2. CASE drive' = "drain"
      BY <1>0, <2>1, <3>2 DEF Agrees, Believes, Settled, Version
    <3> QED BY <3>1, <3>2 DEF DailFunctions
  <2> QED BY <2>2, <2>3, <2>4 DEF Agrees
<1>2. Indexed' = Indexed
  BY DEF Indexed, TerminalModes, index
<1>3. CountsMatchIndex'
  BY <1>2 DEF DailInv, CountsMatchIndex
<1>4. GatesHold'
  BY <1>0, GatesStay DEF DailInv, DailFunctions, FirstHas, index
<1> QED BY <1>1, <1>3, <1>4 DEF DailInv, WaitsForSomething

LEMMA ReturningKeeps ==
    ASSUME DailInv, Return
    PROVE  DailInv'
<1>1. /\ drive = "drain" /\ drive' = "off" /\ \A q \in Questions : task[q] \notin Pending
      /\ UNCHANGED <<records, index, prepared, rerun, ready, counts, launched, task, told,
                     changed, book>>
  BY DEF Return
<1>2. DailFunctions'
  BY <1>1 DEF DailInv, DailFunctions, records, index, book
<1>3. UNCHANGED <<reruns, mishaps>> /\ mishaps \in Nat
  BY <1>1, BoundFacts DEF DailInv, DailFunctions, book
<1> QED BY <1>1, <1>2, <1>3, StoppingKeeps

LEMMA MishapFacts ==
    ASSUME DailInv, Mishap
    PROVE  mishaps' \in 0..MaxMishaps /\ mishaps' > mishaps /\ mishaps' >= mishaps
           /\ mishaps' = mishaps + 1 /\ mishaps \in Nat
<1>1. mishaps \in 0..MaxMishaps
  BY DEF DailInv, DailFunctions
<1> QED BY <1>1, BoundFacts DEF Mishap

LEMMA InterruptKeeps ==
    ASSUME DailInv, Interrupt
    PROVE  DailInv'
<1>1. /\ drive = "on" /\ drive' = "drain" /\ Settling /\ Mishap
      /\ UNCHANGED <<records, index, prepared, rerun, ready, counts, launched, task, told,
                     changed, refused, reruns>>
  BY DEF Interrupt
<1>2. mishaps' \in 0..MaxMishaps /\ mishaps' > mishaps /\ mishaps' >= mishaps
  BY <1>1, MishapFacts
<1>3. DailFunctions'
  BY <1>1, <1>2 DEF DailInv, DailFunctions, records, index
<1> QED BY <1>1, <1>2, <1>3, StoppingKeeps DEF Settling

LEMMA CrashKeeps ==
    ASSUME DailInv, Crash
    PROVE  DailInv'
<1>1. /\ drive # "off" /\ drive' = "off" /\ Mishap
      /\ task' = [q \in Questions |-> "none"]
      /\ UNCHANGED <<records, index, prepared, rerun, ready, counts, launched, told,
                     changed, refused, reruns>>
  BY DEF Crash
<1>2. mishaps' \in 0..MaxMishaps /\ mishaps' > mishaps /\ mishaps' >= mishaps
  BY <1>1, MishapFacts
<1>3. DailFunctions'
  BY <1>1, <1>2 DEF DailInv, DailFunctions, records, index
<1>4. \A q \in Questions : task'[q] = "none" /\ task'[q] \notin Pending
  BY <1>1 DEF Pending
<1> QED BY <1>1, <1>2, <1>3, <1>4, StoppingKeeps

LEMMA DailStutterKeeps ==
    ASSUME DailInv, UNCHANGED dailVars
    PROVE  DailInv'
<1>1. UNCHANGED <<records, index, prepared, process, book>>
  BY DEF dailVars
<1>2. DailFunctions'
  BY <1>1 DEF DailInv, DailFunctions, records, index, process, book
<1>3. ASSUME NEW q \in Questions PROVE Agrees(q)'
  <2>1. Untouched(q)
    BY <1>1 DEF Untouched, records, index, process
  <2>2. /\ UNCHANGED <<drive, rerun, launched, reruns, mishaps>>
        /\ reruns \in Nat /\ mishaps \in Nat /\ begun[q] \in Nat /\ Agrees(q)
    BY <1>1, BoundFacts DEF DailInv, DailFunctions, process, book
  <2> QED BY <2>1, <2>2, UntouchedAgrees
<1>4. CountsMatchIndex'
  BY <1>1 DEF DailInv, CountsMatchIndex, Indexed, TerminalModes, index, process
<1>5. GatesHold'
  BY <1>1, GatesStay DEF DailInv, DailFunctions, FirstHas, index
<1>6. WaitsForSomething'
  BY <1>1 DEF DailInv, WaitsForSomething, Admitted, Open, ReadyForNext, process, index
<1> QED BY <1>2, <1>3, <1>4, <1>5, <1>6 DEF DailInv

\* What is true of a question with a task.
LEMMA TaskFacts ==
    ASSUME DailInv, NEW q \in Questions
    PROVE  /\ DailFunctions /\ Agrees(q)
           /\ InRange(q) /\ ClaimHolds(q) /\ Published(q) /\ Paid(q) /\ Believes(q)
           /\ Version(q) \in Nat /\ assign[q].first \in Nat
           /\ begun[q] \in Nat /\ current[q] \in Nat /\ reruns \in Nat /\ mishaps \in Nat
           /\ task[q] = "queued" => drive = "on" /\ told[q] = {}
           /\ task[q] = "begun" => drive = "on" /\ told[q] = {} /\ Settled(q)
           /\ Running(q) => /\ drive \in {"on", "drain"} /\ assign[q].state = "active"
                            /\ Version(q) \in 1..begun[q] /\ LeaseValid(q)
<1>1. DailFunctions /\ Agrees(q)
  BY DEF DailInv
<1>2. InRange(q) /\ ClaimHolds(q) /\ Published(q) /\ Paid(q) /\ Believes(q)
  BY <1>1 DEF Agrees
<1>3. Version(q) \in Nat /\ assign[q].first \in Nat
      /\ begun[q] \in Nat /\ current[q] \in Nat /\ reruns \in Nat /\ mishaps \in Nat
      /\ drive \in {"off", "on", "drain"}
  BY <1>1, BoundFacts DEF DailFunctions, Version
<1>4. task[q] = "queued" => drive = "on" /\ told[q] = {}
  BY <1>2, <1>3 DEF Believes, Pending
<1>5. task[q] = "begun" => drive = "on" /\ told[q] = {} /\ Settled(q)
  BY <1>2, <1>3 DEF Believes, Pending
<1>6. Running(q) => /\ drive \in {"on", "drain"} /\ assign[q].state = "active"
  BY <1>2, <1>3 DEF Believes, Pending, Running
<1>7. Running(q) => Version(q) \in 1..begun[q] /\ LeaseValid(q)
  BY <1>2, <1>3, <1>6 DEF InRange, ClaimHolds, LeaseValid, Settled
<1> QED BY <1>1, <1>2, <1>3, <1>4, <1>5, <1>6, <1>7

\* A step that shows the index of a question no new mode of its first version.
LEMMA DailQuietStep ==
    ASSUME DailInv, NEW q \in Questions, LoopFrame,
           \A p \in Questions \ {q} : Untouched(p),
           DailFunctions', mishaps' >= mishaps, Agrees(q)', counts' = counts,
           \A m \in PromptModes : FirstHas(q, m)' = FirstHas(q, m),
           changed' = TRUE \/ (changed' = changed /\ task'[q] \in Pending)
    PROVE  DailInv'
<1>1. \A p \in Questions : \A m \in PromptModes : FirstHas(p, m)' = FirstHas(p, m)
  BY DEF Untouched, FirstHas
<1>2. Indexed' = Indexed
  BY <1>1, SameIndexed
<1>3. drive # "off" => counts' = Indexed'
  BY <1>2 DEF DailInv, CountsMatchIndex
<1> QED BY <1>1, <1>3, DailQuestionStep

LEMMA SkipKeeps ==
    ASSUME DailInv, NEW q \in Questions, Skip(q)
    PROVE  DailInv'
<1>1. /\ task[q] = "queued" /\ ~rerun /\ assign[q].state = "done"
      /\ task' = [task EXCEPT ![q] = "done"] /\ changed' = TRUE
      /\ LoopFrame /\ refused' = refused
      /\ UNCHANGED <<records, assign, lease, current, outcomes, counts, told, mishaps>>
  BY DEF Skip, End
<1>2. UNCHANGED <<startedGroups, prepared, drive, rerun, ready, launched, reruns,
                  begun, decided, sealed>>
  BY <1>1 DEF LoopFrame, records
<1>3. DailFunctions'
  BY <1>1, <1>2 DEF DailInv, DailFunctions
<1>4. task'[q] = "done" /\ \A p \in Questions \ {q} : Untouched(p)
  BY <1>1, <1>2 DEF DailInv, DailFunctions, Untouched
<1>5. Agrees(q)'
  <2>1. InRange(q)' /\ ClaimHolds(q)' /\ Published(q)'
    BY <1>1, <1>2, TaskFacts DEF InRange, ClaimHolds, Published, Settled, Version
  <2>2. Paid(q)'
    BY <1>1, <1>2, <1>4, TaskFacts DEF Paid
  <2>3. Believes(q)'
    BY <1>1, <1>2, <1>4, TaskFacts DEF Believes, Pending
  <2> QED BY <2>1, <2>2, <2>3 DEF Agrees
<1>6. mishaps' >= mishaps
  BY <1>1, TaskFacts
<1> QED BY <1>1, <1>3, <1>4, <1>5, <1>6, DailQuietStep DEF FirstHas

LEMMA DailRecoverKeeps ==
    ASSUME DailInv, NEW q \in Questions, Recover(q)
    PROVE  DailInv'
<1>1. /\ task[q] = "queued" /\ ~rerun /\ assign[q].state \in {"active", "paused"}
      /\ task' = [task EXCEPT ![q] = "running"]
      /\ assign' = [assign EXCEPT ![q].state = "active"]
      /\ LoopFrame /\ Refuse(lease[q] # NoLease /\ LeaseValid(q))
      /\ UNCHANGED <<records, lease, current, outcomes, counts, told, changed, mishaps>>
  BY DEF Recover, Unfinished
<1>2. UNCHANGED <<startedGroups, prepared, drive, rerun, ready, launched, reruns,
                  begun, decided, sealed>>
  BY <1>1 DEF LoopFrame, records
<1>3. lease[q] # NoLease /\ lease[q] = current[q]
  BY <1>1, TaskFacts DEF ClaimHolds, Settled, NoLease
<1>4. refused' = FALSE
  BY <1>1, <1>3 DEF Refuse, LeaseValid, DailInv, DailFunctions
<1>5. DailFunctions /\ task'[q] = "running" /\ assign'[q].state = "active"
      /\ assign'[q].version = assign[q].version /\ assign'[q].first = assign[q].first
      /\ assign'[q] \in [state : {"none", "active", "paused", "done"}, version : Nat, first : Nat]
  BY <1>1 DEF DailInv, DailFunctions
<1>6. \A p \in Questions \ {q} : Untouched(p)
  BY <1>1, <1>2, <1>5 DEF DailFunctions, Untouched
<1>7. DailFunctions'
  <2>1. assign' \in [Questions -> [state : {"none", "active", "paused", "done"},
                                   version : Nat, first : Nat]]
    BY <1>1, <1>5 DEF DailFunctions
  <2>2. task' \in [Questions -> Pending \cup {"none", "done", "failed"}]
    BY <1>1, <1>5 DEF DailFunctions, Pending
  <2> QED BY <1>1, <1>2, <1>4, <1>5, <2>1, <2>2 DEF DailFunctions
<1>8. Agrees(q)'
  <2>1. InRange(q)' /\ ClaimHolds(q)' /\ Published(q)'
    BY <1>1, <1>2, <1>3, <1>5, TaskFacts
    DEF InRange, ClaimHolds, Published, Settled, Version
  <2>2. Paid(q)'
    BY <1>1, <1>2, <1>5, TaskFacts DEF Paid
  <2>3. Believes(q)'
    BY <1>1, <1>2, <1>5, TaskFacts DEF Believes, Pending
  <2> QED BY <2>1, <2>2, <2>3 DEF Agrees
<1>9. mishaps' >= mishaps
  BY <1>1, TaskFacts
<1>10. task'[q] \in Pending /\ \A m \in PromptModes : FirstHas(q, m)' = FirstHas(q, m)
  BY <1>1, <1>5 DEF Pending, FirstHas
<1> QED BY <1>1, <1>6, <1>7, <1>8, <1>9, <1>10, DailQuietStep

LEMMA DailBeginVersionKeeps ==
    ASSUME DailInv, NEW q \in Questions, BeginVersion(q)
    PROVE  DailInv'
<1>1. /\ task[q] = "queued" /\ ~Unfinished(q) /\ (rerun \/ assign[q].state # "done")
      /\ begun' = [begun EXCEPT ![q] = begun[q] + 1]
      /\ task' = [task EXCEPT ![q] = "begun"]
      /\ LoopFrame
      /\ UNCHANGED <<decided, sealed, assign, lease, current, outcomes, counts, told, changed,
                     refused, mishaps>>
  BY DEF BeginVersion
<1>2. UNCHANGED <<startedGroups, prepared, drive, rerun, ready, launched, reruns>>
  BY <1>1 DEF LoopFrame
<1>3. DailFunctions /\ task'[q] = "begun" /\ begun'[q] = begun[q] + 1 /\ begun'[q] \in Nat
      /\ begun[q] \in Nat
  BY <1>1 DEF DailInv, DailFunctions
<1>4. \A p \in Questions \ {q} : Untouched(p)
  BY <1>1, <1>2, <1>3 DEF DailFunctions, Untouched
<1>5. DailFunctions'
  <2>1. begun' \in [Questions -> Nat]
    BY <1>1, <1>3 DEF DailFunctions
  <2>2. task' \in [Questions -> Pending \cup {"none", "done", "failed"}]
    BY <1>1 DEF DailInv, DailFunctions, Pending
  <2> QED BY <1>1, <1>2, <1>3, <2>1, <2>2 DEF DailFunctions
<1>6. Settled(q) /\ (~rerun => assign[q].state = "none")
  <2>1. rerun => Settled(q)
    BY <1>1, TaskFacts DEF Believes
  <2>2. ~rerun => assign[q].state = "none"
    BY <1>1, <1>3 DEF DailFunctions, Unfinished
  <2> QED BY <2>1, <2>2 DEF Settled
<1>7. Agrees(q)'
  <2>1. InRange(q)'
    <3>1. 1..begun[q] \subseteq 1..begun'[q]
      BY <1>3
    <3>2. /\ decided'[q] \subseteq (1..begun'[q]) \X PromptModes
          /\ outcomes'[q] \subseteq decided'[q] /\ sealed'[q] \subseteq 1..begun'[q]
      BY <1>1, <3>1, TaskFacts DEF InRange
    <3>3. Version(q)' <= begun'[q] /\ assign'[q].first <= begun'[q] /\ current'[q] <= begun'[q]
      BY <1>1, <1>3, TaskFacts DEF InRange, Version
    <3> QED BY <3>2, <3>3 DEF InRange
  <2>2. ClaimHolds(q)' /\ Published(q)'
    BY <1>1, TaskFacts DEF ClaimHolds, Published, Settled, Version
  <2>3. Paid(q)'
    <3>1. begun[q] <= reruns + mishaps
      BY <1>1, <1>6, TaskFacts DEF Paid
    <3>2. begun'[q] <= 1 + reruns + mishaps
      BY <1>3, <3>1, TaskFacts
    <3> QED BY <1>1, <1>2, <1>3, <1>6, <3>2 DEF Paid
  <2>4. Believes(q)'
    <3>1. begun'[q] > 0
      BY <1>3
    <3> QED BY <1>1, <1>2, <1>3, <1>6, <3>1, TaskFacts DEF Believes, Pending, Settled
  <2> QED BY <2>1, <2>2, <2>3, <2>4 DEF Agrees
<1>8. mishaps' >= mishaps
  BY <1>1, TaskFacts
<1>9. task'[q] \in Pending /\ \A m \in PromptModes : FirstHas(q, m)' = FirstHas(q, m)
  BY <1>1, <1>3 DEF Pending, FirstHas
<1> QED BY <1>1, <1>4, <1>5, <1>7, <1>8, <1>9, DailQuietStep

\* A question that has no task but the one that begins its version has no claim, so
\* the claim is granted and expects the version in force.
LEMMA DailClaimKeeps ==
    ASSUME DailInv, NEW q \in Questions, Claim(q)
    PROVE  DailInv'
<1>1. lease[q] = NoLease /\ task[q] = "begun" /\ Settled(q) /\ begun[q] > 0 /\ drive = "on"
  BY TaskFacts DEF Claim, ClaimHolds, Believes
<1>2. /\ lease' = [lease EXCEPT ![q] = current[q]]
      /\ assign' = [assign EXCEPT ![q] = [state |-> "active", version |-> begun[q],
                                          first |-> FirstVersion(q)]]
      /\ task' = [task EXCEPT ![q] = "running"]
      /\ LoopFrame
      /\ UNCHANGED <<records, current, outcomes, counts, told, changed, refused, mishaps>>
  BY <1>1 DEF Claim
<1>3. UNCHANGED <<startedGroups, prepared, drive, rerun, ready, launched, reruns,
                  begun, decided, sealed>>
  BY <1>2 DEF LoopFrame, records
<1>4. FirstVersion(q) \in Nat /\ FirstVersion(q) <= begun[q]
  BY TaskFacts DEF FirstVersion, InRange
<1>5. DailFunctions /\ lease'[q] = current[q] /\ task'[q] = "running"
      /\ assign'[q].state = "active" /\ assign'[q].version = begun[q]
      /\ assign'[q].first = FirstVersion(q)
      /\ assign'[q] \in [state : {"none", "active", "paused", "done"}, version : Nat, first : Nat]
  <2>1. assign'[q] = [state |-> "active", version |-> begun[q], first |-> FirstVersion(q)]
    BY <1>2 DEF DailInv, DailFunctions
  <2> QED BY <1>2, <1>4, <2>1, TaskFacts DEF DailFunctions
<1>6. \A p \in Questions \ {q} : Untouched(p)
  BY <1>2, <1>3, <1>5 DEF DailFunctions, Untouched
<1>7. DailFunctions'
  <2>1. assign' \in [Questions -> [state : {"none", "active", "paused", "done"},
                                   version : Nat, first : Nat]]
    BY <1>2, <1>5 DEF DailFunctions
  <2>2. task' \in [Questions -> Pending \cup {"none", "done", "failed"}]
    BY <1>2, <1>5 DEF DailFunctions, Pending
  <2>3. lease' \in [Questions -> Nat \cup {NoLease}]
    BY <1>2, <1>5 DEF DailFunctions
  <2> QED BY <1>2, <1>3, <1>5, <2>1, <2>2, <2>3 DEF DailFunctions
<1>8. Agrees(q)'
  <2>1. InRange(q)'
    BY <1>2, <1>3, <1>4, <1>5, TaskFacts DEF InRange, Version
  <2>2. ClaimHolds(q)' /\ Published(q)'
    BY <1>1, <1>2, <1>3, <1>5, TaskFacts DEF ClaimHolds, Published, Settled, Version
  <2>3. Paid(q)'
    BY <1>2, <1>3, <1>5, TaskFacts DEF Paid
  <2>4. Believes(q)'
    BY <1>1, <1>2, <1>3, <1>5, TaskFacts DEF Believes, Pending
  <2> QED BY <2>1, <2>2, <2>3, <2>4 DEF Agrees
<1>9. mishaps' >= mishaps
  BY <1>2, TaskFacts
<1>10. ASSUME NEW m \in PromptModes PROVE FirstHas(q, m)' = FirstHas(q, m)
  <2>1. CASE assign[q].state = "none"
    <3>1. outcomes[q] = {} /\ outcomes' = outcomes
      BY <1>2, <2>1, TaskFacts DEF ClaimHolds, InRange
    <3> QED BY <3>1 DEF FirstHas
  <2>2. CASE assign[q].state # "none"
    BY <1>2, <1>5, <2>2 DEF FirstHas, FirstVersion
  <2> QED BY <2>1, <2>2
<1>11. task'[q] \in Pending
  BY <1>5 DEF Pending
<1> QED BY <1>2, <1>6, <1>7, <1>8, <1>9, <1>10, <1>11, DailQuietStep

LEMMA DecidingKeeps ==
    ASSUME DailInv, NEW q \in Questions, NEW m \in PromptModes, Decide(q, m)
    PROVE  DailInv'
<1>1. /\ Running(q)
      /\ decided' = [decided EXCEPT ![q] = decided[q] \cup {<<Version(q), m>>}]
      /\ LoopFrame
      /\ UNCHANGED <<begun, sealed, assign, lease, current, outcomes, counts, task, told,
                     changed, refused, mishaps>>
  BY DEF Decide
<1>2. UNCHANGED <<startedGroups, prepared, drive, rerun, ready, launched, reruns>>
  BY <1>1 DEF LoopFrame
<1>3. /\ DailFunctions /\ decided'[q] = decided[q] \cup {<<Version(q), m>>}
      /\ Version(q) \in 1..begun[q] /\ assign[q].state = "active"
  BY <1>1, TaskFacts DEF DailFunctions
<1>4. \A p \in Questions \ {q} : Untouched(p)
  BY <1>1, <1>2, <1>3 DEF DailFunctions, Untouched
<1>5. DailFunctions'
  <2>1. decided' \in [Questions -> SUBSET (Nat \X PromptModes)]
    BY <1>1, <1>3, TaskFacts DEF DailFunctions
  <2> QED BY <1>1, <1>2, <1>3, <2>1 DEF DailFunctions
<1>6. Agrees(q)'
  <2>1. InRange(q)'
    BY <1>1, <1>3, TaskFacts DEF InRange, Version
  <2>2. ClaimHolds(q)' /\ Published(q)'
    BY <1>1, <1>3, TaskFacts DEF ClaimHolds, Published, Settled, Version
  <2>3. Paid(q)' /\ Believes(q)'
    BY <1>1, <1>2, TaskFacts DEF Paid, Believes, Settled, Version
  <2> QED BY <2>1, <2>2, <2>3 DEF Agrees
<1>7. mishaps' >= mishaps
  BY <1>1, TaskFacts
<1>8. task'[q] \in Pending /\ \A n \in PromptModes : FirstHas(q, n)' = FirstHas(q, n)
  BY <1>1 DEF Pending, FirstHas, Running
<1> QED BY <1>1, <1>4, <1>5, <1>6, <1>7, <1>8, DailQuietStep

LEMMA DailSealKeeps ==
    ASSUME DailInv, NEW q \in Questions, Seal(q)
    PROVE  DailInv'
<1>1. /\ Running(q)
      /\ sealed' = [sealed EXCEPT ![q] = sealed[q] \cup {Version(q)}]
      /\ LoopFrame
      /\ UNCHANGED <<begun, decided, assign, lease, current, outcomes, counts, task, told,
                     changed, refused, mishaps>>
  BY DEF Seal
<1>2. UNCHANGED <<startedGroups, prepared, drive, rerun, ready, launched, reruns>>
  BY <1>1 DEF LoopFrame
<1>3. /\ DailFunctions /\ sealed'[q] = sealed[q] \cup {Version(q)}
      /\ Version(q) \in 1..begun[q] /\ Version(q) \in Nat
  BY <1>1, TaskFacts DEF DailFunctions
<1>4. \A p \in Questions \ {q} : Untouched(p)
  BY <1>1, <1>2, <1>3 DEF DailFunctions, Untouched
<1>5. DailFunctions'
  <2>1. sealed' \in [Questions -> SUBSET Nat]
    BY <1>1, <1>3 DEF DailFunctions
  <2> QED BY <1>1, <1>2, <1>3, <2>1 DEF DailFunctions
<1>6. Agrees(q)'
  <2>1. InRange(q)' /\ ClaimHolds(q)' /\ Published(q)'
    BY <1>1, <1>3, TaskFacts DEF InRange, ClaimHolds, Published, Settled, Version
  <2>2. Paid(q)' /\ Believes(q)'
    BY <1>1, <1>2, TaskFacts DEF Paid, Believes, Settled, Version
  <2> QED BY <2>1, <2>2 DEF Agrees
<1>7. mishaps' >= mishaps
  BY <1>1, TaskFacts
<1>8. task'[q] \in Pending /\ \A n \in PromptModes : FirstHas(q, n)' = FirstHas(q, n)
  BY <1>1 DEF Pending, FirstHas, Running
<1> QED BY <1>1, <1>4, <1>5, <1>6, <1>7, <1>8, DailQuietStep

\* A version is published sealed, with every mode in the index, and expects the version
\* the claim found in force.
LEMMA FinishingKeeps ==
    ASSUME DailInv, NEW q \in Questions, Finish(q)
    PROVE  DailInv'
<1>1. /\ Running(q) /\ drive = "on" /\ Replayed(q)
      /\ current' = [current EXCEPT ![q] = Version(q)]
      /\ lease' = [lease EXCEPT ![q] = NoLease]
      /\ assign' = [assign EXCEPT ![q].state = "done"]
      /\ task' = [task EXCEPT ![q] = "done"] /\ changed' = TRUE
      /\ LoopFrame /\ Refuse(LeaseValid(q))
      /\ UNCHANGED <<records, outcomes, counts, told, mishaps>>
  BY DEF Finish, End
<1>2. UNCHANGED <<startedGroups, prepared, drive, rerun, ready, launched, reruns,
                  begun, decided, sealed>>
  BY <1>1 DEF LoopFrame, records
<1>3. /\ DailFunctions /\ refused' = FALSE /\ Version(q) \in 1..begun[q] /\ Version(q) \in Nat
  BY <1>1, TaskFacts DEF Refuse, DailFunctions
<1>4. /\ task'[q] = "done" /\ current'[q] = Version(q) /\ lease'[q] = NoLease
      /\ assign'[q].state = "done"
      /\ assign'[q].version = assign[q].version /\ assign'[q].first = assign[q].first
      /\ assign'[q] \in [state : {"none", "active", "paused", "done"}, version : Nat, first : Nat]
  BY <1>1, <1>3 DEF DailFunctions
<1>5. \A p \in Questions \ {q} : Untouched(p)
  BY <1>1, <1>2, <1>3 DEF DailFunctions, Untouched
<1>6. DailFunctions'
  <2>1. assign' \in [Questions -> [state : {"none", "active", "paused", "done"},
                                   version : Nat, first : Nat]]
    BY <1>1, <1>3, <1>4 DEF DailFunctions
  <2>2. task' \in [Questions -> Pending \cup {"none", "done", "failed"}]
    BY <1>1, <1>3 DEF DailFunctions
  <2>3. lease' \in [Questions -> Nat \cup {NoLease}] /\ current' \in [Questions -> Nat]
    BY <1>1, <1>3 DEF DailFunctions
  <2> QED BY <1>1, <1>2, <1>3, <2>1, <2>2, <2>3 DEF DailFunctions
<1>7. Agrees(q)'
  <2>1. InRange(q)'
    BY <1>1, <1>2, <1>3, <1>4, TaskFacts DEF InRange, Version
  <2>2. ClaimHolds(q)'
    BY <1>3, <1>4 DEF ClaimHolds, Settled, Version
  <2>3. Published(q)'
    <3>1. Version(q) \in sealed[q] /\ \A m \in PromptModes : <<Version(q), m>> \in outcomes[q]
      BY <1>1, TaskFacts DEF Replayed, Believes, Running
    <3> QED BY <1>1, <1>2, <1>4, <3>1 DEF Published
  <2>4. Paid(q)' /\ Believes(q)'
    BY <1>1, <1>2, <1>4, TaskFacts DEF Paid, Believes, Pending, Running
  <2> QED BY <2>1, <2>2, <2>3, <2>4 DEF Agrees
<1>8. mishaps' >= mishaps
  BY <1>1, TaskFacts
<1>9. \A m \in PromptModes : FirstHas(q, m)' = FirstHas(q, m)
  BY <1>1, <1>4 DEF FirstHas
<1> QED BY <1>1, <1>5, <1>6, <1>7, <1>8, <1>9, DailQuietStep

\* A question that fails, or is cancelled, keeps its claim for the next process.
LEMMA PausingKeeps ==
    ASSUME DailInv, NEW q \in Questions, Running(q), Pause(q),
           mishaps' \in 0..MaxMishaps, mishaps' >= mishaps
    PROVE  DailInv'
<1>1. /\ assign' = [assign EXCEPT ![q].state = "paused"]
      /\ task' = [task EXCEPT ![q] = "failed"] /\ changed' = TRUE
      /\ LoopFrame /\ Refuse(LeaseValid(q))
      /\ UNCHANGED <<records, lease, current, outcomes, counts, told>>
  BY DEF Pause, Paused, End
<1>2. UNCHANGED <<startedGroups, prepared, drive, rerun, ready, launched, reruns,
                  begun, decided, sealed>>
  BY <1>1 DEF LoopFrame, records
<1>3. /\ DailFunctions /\ refused' = FALSE /\ Version(q) \in 1..begun[q]
  BY <1>1, TaskFacts DEF Refuse, DailFunctions
<1>4. /\ task'[q] = "failed" /\ assign'[q].state = "paused"
      /\ assign'[q].version = assign[q].version /\ assign'[q].first = assign[q].first
      /\ assign'[q] \in [state : {"none", "active", "paused", "done"}, version : Nat, first : Nat]
  BY <1>1, <1>3 DEF DailFunctions
<1>5. \A p \in Questions \ {q} : Untouched(p)
  BY <1>1, <1>2, <1>3 DEF DailFunctions, Untouched
<1>6. DailFunctions'
  <2>1. assign' \in [Questions -> [state : {"none", "active", "paused", "done"},
                                   version : Nat, first : Nat]]
    BY <1>1, <1>3, <1>4 DEF DailFunctions
  <2>2. task' \in [Questions -> Pending \cup {"none", "done", "failed"}]
    BY <1>1, <1>3 DEF DailFunctions
  <2> QED BY <1>1, <1>2, <1>3, <2>1, <2>2 DEF DailFunctions
<1>7. Agrees(q)'
  <2>1. InRange(q)' /\ Published(q)'
    BY <1>1, <1>2, <1>4, TaskFacts DEF InRange, Published, Version
  <2>2. ClaimHolds(q)'
    BY <1>1, <1>3, <1>4, TaskFacts DEF ClaimHolds, Settled, Version
  <2>3. Paid(q)'
    <3>1. begun[q] <= 1 + reruns + mishaps /\ mishaps' \in Nat
      BY BoundFacts, TaskFacts DEF Paid
    <3> QED BY <1>2, <1>4, <3>1, TaskFacts DEF Paid
  <2>4. Believes(q)'
    BY <1>1, <1>2, <1>4, TaskFacts DEF Believes, Pending, Running
  <2> QED BY <2>1, <2>2, <2>3, <2>4 DEF Agrees
<1>8. \A m \in PromptModes : FirstHas(q, m)' = FirstHas(q, m)
  BY <1>1, <1>4 DEF FirstHas
<1> QED BY <1>1, <1>5, <1>6, <1>7, <1>8, DailQuietStep

LEMMA GroupOfFacts ==
    ASSUME NEW q \in Questions
    PROVE  /\ GroupOf(q) \in Groups /\ q \in GroupMembers[GroupOf(q)]
           /\ \A g \in Groups : q \in GroupMembers[g] => g = GroupOf(q)
<1>1. \E g \in Groups : q \in GroupMembers[g]
  BY CohortFacts
<1>2. GroupOf(q) \in Groups /\ q \in GroupMembers[GroupOf(q)]
  BY <1>1 DEF GroupOf
<1> QED BY <1>2, CohortFacts

\* A mode the index gains for the first version of one question is one terminal mode
\* of its group more.
LEMMA IndexedGains ==
    ASSUME NEW q \in Questions, NEW m \in PromptModes,
           ~FirstHas(q, m), FirstHas(q, m)',
           \A p \in Questions : \A n \in PromptModes :
               p # q \/ n # m => FirstHas(p, n)' = FirstHas(p, n)
    PROVE  Indexed' = [Indexed EXCEPT ![GroupOf(q)][m] = Indexed[GroupOf(q)][m] + 1]
<1>1. PICK h \in Groups : h = GroupOf(q) /\ q \in GroupMembers[h]
      /\ \A g \in Groups : q \in GroupMembers[g] => g = h
  BY GroupOfFacts
<1>2. TerminalModes(h, m)' = TerminalModes(h, m) + 1
  <2>1. HaveFirst(h, m)' = HaveFirst(h, m) \cup {q}
    BY <1>1, CohortFacts DEF HaveFirst
  <2>2. q \notin HaveFirst(h, m)
    BY DEF HaveFirst
  <2>3. PICK old : old = HaveFirst(h, m) /\ IsFiniteSet(old)
    BY TerminalFacts
  <2>4. Cardinality(old \cup {q}) = Cardinality(old) + 1
    BY <2>2, <2>3, FS_AddElement
  <2>5. TerminalModes(h, m)' = Cardinality(HaveFirst(h, m)')
    BY DEF TerminalModes, HaveFirst, FirstHas
  <2> QED BY <2>1, <2>3, <2>4, <2>5, TerminalFacts
<1>3. ASSUME NEW g \in Groups, NEW n \in PromptModes, g # h \/ n # m
      PROVE  TerminalModes(g, n)' = TerminalModes(g, n)
  <2>1. HaveFirst(g, n)' = HaveFirst(g, n)
    BY <1>1, <1>3, CohortFacts DEF HaveFirst
  <2>2. TerminalModes(g, n)' = Cardinality(HaveFirst(g, n)')
    BY DEF TerminalModes, HaveFirst, FirstHas
  <2> QED BY <2>1, <2>2, TerminalFacts
<1> QED BY <1>1, <1>2, <1>3 DEF Indexed

LEMMA NotifyingKeeps ==
    ASSUME DailInv, NEW q \in Questions, NEW m \in PromptModes, Notify(q, m)
    PROVE  DailInv'
<1>1. /\ Running(q) /\ drive = "on" /\ <<Version(q), m>> \in decided[q]
      /\ told' = [told EXCEPT ![q] = told[q] \cup {m}]
      /\ outcomes' = [outcomes EXCEPT ![q] = outcomes[q] \cup {<<Version(q), m>>}]
      /\ counts' = IF Counted(q, m)
                   THEN [counts EXCEPT ![GroupOf(q)][m] = counts[GroupOf(q)][m] + 1]
                   ELSE counts
      /\ changed' = TRUE
      /\ Refuse(LeaseValid(q)) /\ LoopFrame
      /\ UNCHANGED <<records, assign, lease, current, task, mishaps>>
  BY DEF Notify, Known, Woken
<1>2. UNCHANGED <<startedGroups, prepared, drive, rerun, ready, launched, reruns,
                  begun, decided, sealed>>
  BY <1>1 DEF LoopFrame, records
<1>3. /\ DailFunctions /\ refused' = FALSE /\ Version(q) \in Nat
      /\ assign[q].state = "active"
  BY <1>1, TaskFacts DEF Refuse, DailFunctions
<1>4. /\ told'[q] = told[q] \cup {m}
      /\ outcomes'[q] = outcomes[q] \cup {<<Version(q), m>>}
  BY <1>1, <1>3 DEF DailFunctions
<1>5. \A p \in Questions \ {q} : Untouched(p)
  BY <1>1, <1>2, <1>3 DEF DailFunctions, Untouched
<1>6. DailFunctions'
  <2>1. told' \in [Questions -> SUBSET PromptModes]
    BY <1>1, <1>3 DEF DailFunctions
  <2>2. outcomes' \in [Questions -> SUBSET (Nat \X PromptModes)]
    BY <1>1, <1>3 DEF DailFunctions
  <2> QED BY <1>1, <1>2, <1>3, <2>1, <2>2 DEF DailFunctions
<1>7. Agrees(q)'
  <2>1. InRange(q)' /\ ClaimHolds(q)' /\ Published(q)'
    BY <1>1, <1>2, <1>4, TaskFacts DEF InRange, ClaimHolds, Published, Settled, Version
  <2>2. Paid(q)'
    BY <1>1, <1>2, TaskFacts DEF Paid
  <2>3. Believes(q)'
    BY <1>1, <1>2, <1>3, <1>4, TaskFacts DEF Believes, Running, Version
  <2> QED BY <2>1, <2>2, <2>3 DEF Agrees
<1>8. mishaps' >= mishaps
  BY <1>1, TaskFacts
<1>9. \A n \in PromptModes : FirstHas(q, n) => FirstHas(q, n)'
  BY <1>1, <1>4 DEF FirstHas
<1>10. counts' = Indexed'
  <2>0. counts = Indexed
    BY <1>1 DEF DailInv, CountsMatchIndex
  <2>1. CASE Counted(q, m)
    <3>1. ~FirstHas(q, m) /\ FirstHas(q, m)'
      BY <1>1, <1>4, <2>1 DEF Counted, FirstHas
    <3>2. ASSUME NEW p \in Questions, NEW n \in PromptModes, p # q \/ n # m
          PROVE  FirstHas(p, n)' = FirstHas(p, n)
      <4>1. CASE p # q
        BY <1>5, <4>1 DEF Untouched, FirstHas
      <4>2. CASE p = q /\ n # m
        BY <1>1, <1>4, <4>2 DEF FirstHas
      <4> QED BY <3>2, <4>1, <4>2
    <3>3. Indexed' = [Indexed EXCEPT ![GroupOf(q)][m] = Indexed[GroupOf(q)][m] + 1]
      BY <3>1, <3>2, IndexedGains
    <3> QED BY <1>1, <2>0, <2>1, <3>3
  <2>2. CASE ~Counted(q, m)
    <3>1. ASSUME NEW p \in Questions, NEW n \in PromptModes
          PROVE  FirstHas(p, n)' = FirstHas(p, n)
      <4>1. CASE p # q
        BY <1>5, <4>1 DEF Untouched, FirstHas
      <4>2. CASE p = q
        BY <1>1, <1>4, <2>2, <4>2 DEF Counted, FirstHas
      <4> QED BY <4>1, <4>2
    <3>2. Indexed' = Indexed
      BY <3>1, SameIndexed
    <3> QED BY <1>1, <2>0, <2>2, <3>2
  <2> QED BY <2>1, <2>2
<1> QED BY <1>1, <1>5, <1>6, <1>7, <1>8, <1>9, <1>10, DailQuestionStep

LEMMA FailingKeeps ==
    ASSUME DailInv, NEW q \in Questions, Fail(q) \/ Unwind(q)
    PROVE  DailInv'
<1>1. Running(q) /\ Pause(q)
  BY DEF Fail, Unwind
<1>2. mishaps' \in 0..MaxMishaps /\ mishaps' >= mishaps
  <2>1. CASE Fail(q)
    BY <2>1, MishapFacts DEF Fail
  <2>2. CASE Unwind(q)
    <3>1. mishaps' = mishaps
      BY <2>2 DEF Unwind
    <3>2. mishaps \in 0..MaxMishaps
      BY DEF DailInv, DailFunctions
    <3> QED BY <3>1, <3>2, BoundFacts
  <2> QED BY <2>1, <2>2
<1> QED BY <1>1, <1>2, PausingKeeps

LEMMA DailNextKeeps ==
    ASSUME DailInv, [DailNext]_dailVars
    PROVE  DailInv'
<1>1. CASE Process
  <2>1. ASSUME NEW q \in Questions, Question(q) PROVE DailInv'
    <3>1. ASSUME NEW m \in PromptModes, Decide(q, m) \/ Notify(q, m) PROVE DailInv'
      BY <3>1, DecidingKeeps, NotifyingKeeps
    <3>2. CASE Skip(q) \/ Recover(q) \/ BeginVersion(q) \/ Claim(q)
      BY <3>2, SkipKeeps, DailRecoverKeeps, DailBeginVersionKeeps, DailClaimKeeps
    <3>3. CASE Seal(q) \/ Finish(q) \/ Unwind(q)
      BY <3>3, DailSealKeeps, FinishingKeeps, FailingKeeps
    <3> QED BY <2>1, <3>1, <3>2, <3>3 DEF Question
  <2> QED BY <1>1, <2>1, ResumingKeeps, ScanningKeeps, ReturningKeeps DEF Process
<1>2. CASE Rerun
  BY <1>2, RerunningKeeps
<1>3. CASE DailFailure
  BY <1>3, InterruptKeeps, CrashKeeps, FailingKeeps DEF DailFailure
<1>4. CASE Preparation
  BY <1>4, PreparationKeeps DEF Preparation
<1>5. CASE UNCHANGED dailVars
  BY <1>5, DailStutterKeeps
<1> QED BY <1>1, <1>2, <1>3, <1>4, <1>5 DEF DailNext

LEMMA DailInvariance == DailSpec => []DailInv
<1>1. DailInit => DailInv
  BY DailStartsSound
<1>2. DailInv /\ [DailNext]_dailVars => DailInv'
  BY DailNextKeeps
<1> QED BY <1>1, <1>2, PTL DEF DailSpec

\* What is begun stays within what the bounds of the reruns and mishaps pay for.
LEMMA DailSoundTypes ==
    ASSUME DailInv
    PROVE  DailTypeOK
<1>1. DailFunctions /\ \A q \in Questions : InRange(q) /\ ClaimHolds(q) /\ Paid(q)
  BY DEF DailInv, Agrees
<1>2. ASSUME NEW q \in Questions PROVE 1..begun[q] \subseteq Versions /\ begun[q] \in Nat
  <2>1. PICK b \in Nat : b = begun[q]
    BY <1>1 DEF DailFunctions
  <2>2. b <= 1 + reruns + mishaps /\ reruns \in 0..MaxReruns /\ mishaps \in 0..MaxMishaps
    BY <1>1, <2>1 DEF Paid, DailFunctions
  <2>3. b <= 1 + MaxReruns + MaxMishaps
    BY <2>2, BoundFacts
  <2> QED BY <2>1, <2>3, BoundFacts DEF Versions
<1>3. ASSUME NEW q \in Questions, NEW v \in Nat, v <= begun[q]
      PROVE  v \in {NoVersion} \cup Versions
  <2>1. v = 0 \/ v \in 1..begun[q]
    BY <1>2, <1>3
  <2> QED BY <1>2, <2>1 DEF NoVersion
<1>4. begun \in [Questions -> {NoVersion} \cup Versions]
  BY <1>1, <1>2, <1>3 DEF DailFunctions
<1>5. \A q \in Questions : /\ decided[q] \subseteq Versions \X PromptModes
                           /\ outcomes[q] \subseteq decided[q]
                           /\ sealed[q] \subseteq 1..begun[q]
  BY <1>1, <1>2 DEF InRange
<1>6. current \in [Questions -> {NoVersion} \cup Versions]
  <2>1. current \in [Questions -> Nat] /\ \A q \in Questions : current[q] <= begun[q]
    BY <1>1 DEF DailFunctions, InRange
  <2> QED BY <1>3, <2>1
<1>7. lease \in [Questions -> {NoLease, NoVersion} \cup Versions]
  <2>1. \A q \in Questions : lease[q] = NoLease \/ lease[q] = current[q]
    BY <1>1 DEF ClaimHolds
  <2> QED BY <1>1, <1>6, <2>1 DEF DailFunctions
<1>8. assign \in [Questions -> [state : {"none", "active", "paused", "done"},
                                version : {NoVersion} \cup Versions,
                                first : {NoVersion} \cup Versions]]
  <2>1. ASSUME NEW q \in Questions
        PROVE  assign[q] \in [state : {"none", "active", "paused", "done"},
                              version : {NoVersion} \cup Versions,
                              first : {NoVersion} \cup Versions]
    <3>1. assign[q] \in [state : {"none", "active", "paused", "done"},
                         version : Nat, first : Nat]
      BY <1>1 DEF DailFunctions
    <3>2. assign[q].version <= begun[q] /\ assign[q].first <= begun[q]
      BY <1>1 DEF InRange, Version
    <3>3. assign[q].version \in {NoVersion} \cup Versions
          /\ assign[q].first \in {NoVersion} \cup Versions
      BY <1>3, <3>1, <3>2
    <3> QED BY <3>1, <3>3
  <2> QED BY <1>1, <2>1 DEF DailFunctions
<1> QED BY <1>1, <1>4, <1>5, <1>6, <1>7, <1>8 DEF DailFunctions, DailTypeOK

\* Whatever the groups, the modes and the crashes, interrupts, failures and reruns:
\* the index refuses no operation of a command, the counts the loop admits by are those
\* of the index, every group was started behind one that was ready, and the version in
\* force of a question is sealed with every mode recorded.
THEOREM IndexStaysSound == DailSpec => []IndexIsSound
<1>1. DailInv => IndexIsSound
  <2> SUFFICES ASSUME DailInv PROVE IndexIsSound
    OBVIOUS
  <2>1. DailTypeOK
    BY DailSoundTypes
  <2>2. NeverRefused /\ CountsMatchIndex /\ GatesHold
    BY DEF DailInv, DailFunctions, NeverRefused
  <2>3. CurrentIsComplete
    BY DEF DailInv, Agrees, Published, CurrentIsComplete
  <2>4. ReturnedQuestionsRest
    BY DEF DailInv, Agrees, Believes, ReturnedQuestionsRest
  <2> QED BY <2>1, <2>2, <2>3, <2>4 DEF IndexIsSound
<1> QED BY <1>1, DailInvariance, PTL

\* The loop never sleeps over a group it could enter, over a task that failed, or with
\* nothing left that would wake it.
THEOREM NeverWaitsInVain == DailSpec => []WaitsForSomething
<1>1. DailInv => WaitsForSomething
  BY DEF DailInv
<1> QED BY <1>1, DailInvariance, PTL
==============================================================================
