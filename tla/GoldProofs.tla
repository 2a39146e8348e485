------------------------------ MODULE GoldProofs ------------------------------
(* Theorems about GoldAnnotation for every number of runners, batches, request    *)
(* workers and attempts.                                                         *)
EXTENDS GoldAnnotation, FiniteSetTheorems, SequenceTheorems, TLAPS

------------------------------------------------------------------------------
(* The inductive invariant.                                                     *)

Queued(r) == {queue[r][i] : i \in DOMAIN queue[r]}
Flying(r) == {x[1] : x \in flight[r]}
ToAccept(r) == IF accepting[r] = NoRequest THEN {} ELSE {accepting[r][1]}

\* The batches a run still has in its hands.
Held(r) == Queued(r) \cup Flying(r) \cup ToAccept(r)

\* A run has each batch in its hands once, and loses none silently.
RunSound(r) ==
    /\ \A i, j \in DOMAIN queue[r] : queue[r][i] = queue[r][j] => i = j
    /\ \A x, y \in flight[r] : x[1] = y[1] => x = y
    /\ Flying(r) \cap Queued(r) = {}
    /\ ToAccept(r) \cap (Queued(r) \cup Flying(r)) = {}
    /\ Held(r) \subseteq scope[r] /\ Held(r) \cap mine[r] = {}
    /\ pc[r] = "accept" <=> accepting[r] # NoRequest
    /\ \A b \in mine[r] : label[b] # Unlabelled
    /\ exhausted[r] + Cardinality(Held(r)) <= Cardinality(scope[r])
    /\ pc[r] = "off" => scope[r] = {}
    /\ pc[r] = "planned" => flight[r] = {} /\ exhausted[r] = 0 /\ mine[r] = {}
    /\ pc[r] \notin {"off", "planned"} /\ exhausted[r] = 0 =>
          \A b \in scope[r] : b \in Held(r) \/ label[b] # Unlabelled

\* What a run has in flight was started and has no outcome; what it is about to
\* accept succeeded.
Answering(r) ==
    /\ \A x \in flight[r] : x[2] \in DOMAIN attempts[x[1]] /\ attempts[x[1]][x[2]] = "started"
    /\ LET x == accepting[r]
       IN x # NoRequest => x[2] \in DOMAIN attempts[x[1]] /\ attempts[x[1]][x[2]] = "succeeded"

Disjoint == \A r, s \in Runners : r # s => flight[r] \cap flight[s] = {}

\* The runs that may still start an attempt of the batch.
Holders(b) ==
    {r \in Runners :
        /\ pc[r] \notin {"off", "planned"}
        /\ b \in Queued(r) \/ \E x \in flight[r] : x[1] = b /\ x[2] < MaxAttempts}

\* Beyond the allowance, each attempt uses up a run that may add one.
Spending(b) ==
    Len(attempts[b]) >= MaxAttempts =>
        Len(attempts[b]) + Cardinality(Holders(b)) <= MaxAttempts + Cardinality(Runners) - 1

IInv ==
    /\ TypeOK
    /\ RefusedOnlyWhenOvertaken
    /\ LabelsAreEarned
    /\ Disjoint
    /\ \A r \in Runners : RunSound(r) /\ Answering(r)
    /\ \A b \in Batches : Spending(b)

------------------------------------------------------------------------------
(* Sets and sequences.                                                          *)

LEMMA Finite ==
    /\ IsFiniteSet(Batches) /\ Cardinality(Batches) = NumBatches
    /\ IsFiniteSet(Runners)
    /\ Cardinality(Runners) \in Nat /\ (Runners # {} => Cardinality(Runners) >= 1)
    /\ \A S \in SUBSET Batches : /\ IsFiniteSet(S) /\ Cardinality(S) \in Nat
                               /\ Cardinality(S) <= NumBatches
    /\ \A S \in SUBSET Runners : IsFiniteSet(S) /\ Cardinality(S) \in Nat
<1>1. /\ IsFiniteSet(Batches) /\ Cardinality(Batches) = NumBatches
  BY AnnotationAssumption, FS_Interval DEF Batches
<1>2. IsFiniteSet(Runners)
  BY AnnotationAssumption
<1> QED BY <1>1, <1>2, FS_Subset, FS_CardinalityType, FS_EmptySet

LEMMA Shrinks ==
    ASSUME NEW S, IsFiniteSet(S), NEW x \in S, NEW T \in SUBSET (S \ {x})
    PROVE  /\ IsFiniteSet(T) /\ Cardinality(T) \in Nat /\ Cardinality(S) \in Nat
           /\ Cardinality(T) <= Cardinality(S) - 1
<1>1. IsFiniteSet(S \ {x}) /\ Cardinality(S \ {x}) = Cardinality(S) - 1
  BY FS_RemoveElement
<1> QED BY <1>1, FS_Subset, FS_CardinalityType

\* The order of the plan has each batch once.
LEMMA PlannedLemma ==
    ASSUME NEW S \in SUBSET Batches, NEW order \in Planned(S)
    PROVE  /\ order \in Seq(S) /\ order \in Seq(Batches)
           /\ {order[i] : i \in DOMAIN order} = S
           /\ \A i, j \in DOMAIN order : order[i] = order[j] => i = j
<1>1. Cardinality(S) \in Nat
  BY Finite
<1>2. /\ order \in [1..Cardinality(S) -> S]
      /\ {order[i] : i \in DOMAIN order} = S
      /\ \A i, j \in DOMAIN order : i < j => order[i] < order[j]
  BY DEF Planned
<1>3. ASSUME NEW i \in DOMAIN order, NEW j \in DOMAIN order, order[i] = order[j]
      PROVE  i = j
  <2>1. i \in Int /\ j \in Int
    <3>1. DOMAIN order = 1..Cardinality(S)
      BY <1>2
    <3> QED BY <1>1, <3>1
  <2>2. order[i] \in Int
    <3>1. order[i] \in Batches
      BY <1>2
    <3>2. \A b \in Batches : b \in Int
      BY AnnotationAssumption DEF Batches
    <3> QED BY <3>1, <3>2
  <2>3. ~(order[i] < order[j]) /\ ~(order[j] < order[i])
    BY <1>3, <2>2
  <2>4. ~(i < j) /\ ~(j < i)
    BY <1>2, <2>3
  <2> QED BY <2>1, <2>4
<1> QED BY <1>1, <1>2, <1>3

LEMMA TailLemma ==
    ASSUME NEW q \in Seq(Batches), q # <<>>,
           \A i, j \in DOMAIN q : q[i] = q[j] => i = j
    PROVE  LET t == Tail(q) IN
           /\ Head(q) \in Batches /\ t \in Seq(Batches)
           /\ Head(q) \in {q[i] : i \in DOMAIN q}
           /\ {t[i] : i \in DOMAIN t} = {q[i] : i \in DOMAIN q} \ {Head(q)}
           /\ \A i, j \in DOMAIN t : t[i] = t[j] => i = j
<1> DEFINE t == Tail(q)
<1>1. /\ Len(q) \in Nat \ {0} /\ DOMAIN q = 1..Len(q) /\ Head(q) = q[1] /\ q[1] \in Batches
      /\ t \in Seq(Batches) /\ Len(t) = Len(q) - 1 /\ DOMAIN t = 1..(Len(q) - 1)
      /\ \A i \in DOMAIN t : t[i] = q[i + 1]
  BY HeadTailProperties, EmptySeq
<1>2. \A i \in DOMAIN q : i = 1 \/ (i - 1 \in DOMAIN t /\ t[i - 1] = q[i])
  BY <1>1
<1>3. \A i \in DOMAIN t : i + 1 \in DOMAIN q /\ i + 1 # 1
  BY <1>1
<1> HIDE DEF t
<1>4. {t[i] : i \in DOMAIN t} = {q[i] : i \in DOMAIN q} \ {q[1]}
  <2>1. ASSUME NEW i \in DOMAIN t PROVE t[i] \in {q[j] : j \in DOMAIN q} \ {q[1]}
    BY <1>1, <1>3
  <2>2. ASSUME NEW j \in DOMAIN q, q[j] # q[1] PROVE q[j] \in {t[i] : i \in DOMAIN t}
    BY <1>2, <2>2
  <2> QED BY <2>1, <2>2
<1>5. \A i, j \in DOMAIN t : t[i] = t[j] => i = j
  BY <1>1, <1>3
<1>6. 1 \in DOMAIN q
  BY <1>1
<1> QED BY <1>1, <1>4, <1>5, <1>6 DEF t

LEMMA AppendLemma ==
    ASSUME NEW q \in Seq(Batches), NEW b \in Batches,
           \A i \in DOMAIN q : q[i] # b,
           \A i, j \in DOMAIN q : q[i] = q[j] => i = j
    PROVE  LET t == Append(q, b) IN
           /\ t \in Seq(Batches)
           /\ {t[i] : i \in DOMAIN t} = {q[i] : i \in DOMAIN q} \cup {b}
           /\ \A i, j \in DOMAIN t : t[i] = t[j] => i = j
<1> DEFINE t == Append(q, b)
<1>1. /\ Len(q) \in Nat /\ DOMAIN q = 1..Len(q) /\ DOMAIN t = 1..(Len(q) + 1)
      /\ t \in Seq(Batches) /\ t[Len(q) + 1] = b
      /\ \A i \in DOMAIN q : t[i] = q[i]
  BY AppendProperties
<1>2. DOMAIN t = DOMAIN q \cup {Len(q) + 1}
  BY <1>1
<1> HIDE DEF t
<1>3. {t[i] : i \in DOMAIN t} = {q[i] : i \in DOMAIN q} \cup {b}
  BY <1>1, <1>2
<1>4. \A i, j \in DOMAIN t : t[i] = t[j] => i = j
  BY <1>1, <1>2
<1> QED BY <1>1, <1>3, <1>4 DEF t

\* A sequence over a larger set is one over the set of its elements.
LEMMA NarrowLemma ==
    ASSUME NEW q \in Seq(Batches), NEW S \in SUBSET Batches, {q[i] : i \in DOMAIN q} \subseteq S
    PROVE  q \in Seq(S)
<1>1. /\ Len(q) \in Nat /\ DOMAIN q = 1..Len(q) /\ q \in [1..Len(q) -> Batches]
  OBVIOUS
<1>2. q \in [1..Len(q) -> S]
  BY <1>1
<1> QED BY <1>1, <1>2

------------------------------------------------------------------------------
(* What a step of one run leaves to the others.                                 *)

\* The variables of a run are as they were.
SameRun(r) ==
    /\ pc'[r] = pc[r] /\ scope'[r] = scope[r] /\ queue'[r] = queue[r]
    /\ flight'[r] = flight[r] /\ accepting'[r] = accepting[r]
    /\ exhausted'[r] = exhausted[r] /\ mine'[r] = mine[r]

LEMMA RunKept ==
    ASSUME NEW r \in Runners, RunSound(r), SameRun(r), scope[r] \subseteq Batches,
           mine[r] \subseteq Batches,
           \A b \in Batches : label[b] # Unlabelled => label'[b] # Unlabelled
    PROVE  RunSound(r)'
<1>1. Queued(r)' = Queued(r) /\ Flying(r)' = Flying(r) /\ ToAccept(r)' = ToAccept(r)
  BY DEF SameRun, Queued, Flying, ToAccept
<1>2. Held(r)' = Held(r)
  BY <1>1 DEF Held
<1> QED BY <1>1, <1>2 DEF RunSound, SameRun

\* No attempt of the run is written.
LEMMA AnswersKept ==
    ASSUME NEW r \in Runners, Answering(r), SameRun(r),
           \A x \in flight[r] \cup ({accepting[r]} \ {NoRequest}) :
              x[2] \in DOMAIN attempts[x[1]] =>
                 x[2] \in DOMAIN attempts'[x[1]] /\ attempts'[x[1]][x[2]] = attempts[x[1]][x[2]]
    PROVE  Answering(r)'
BY DEF Answering, SameRun

\* No attempt is added, and nobody comes to hold the batch who did not.
LEMMA SpendingKept ==
    ASSUME NEW b \in Batches, Spending(b), Len(attempts'[b]) = Len(attempts[b]),
           Len(attempts[b]) \in Nat, Holders(b)' \subseteq Holders(b)
    PROVE  Spending(b)'
<1>1. /\ IsFiniteSet(Holders(b)) /\ Cardinality(Holders(b)) \in Nat
      /\ Cardinality(Runners) \in Nat
  BY Finite DEF Holders
<1>2. Cardinality(Holders(b)') \in Nat /\ Cardinality(Holders(b)') <= Cardinality(Holders(b))
  BY <1>1, FS_Subset, FS_CardinalityType
<1>3. Cardinality(Holders(b))' = Cardinality(Holders(b)')
  OBVIOUS
<1> QED BY <1>1, <1>2, <1>3, AnnotationAssumption DEF Spending

\* The others hold what they held.
LEMMA HoldersElsewhere ==
    ASSUME NEW r \in Runners, NEW b \in Batches, \A s \in Runners \ {r} : SameRun(s)
    PROVE  \A s \in Runners \ {r} : s \in Holders(b)' <=> s \in Holders(b)
BY DEF Holders, SameRun, Queued

\* Types, one run's part at a time.
LEMMA RunTypes ==
    ASSUME TypeOK, NEW r \in Runners
    PROVE  /\ scope[r] \in SUBSET Batches /\ queue[r] \in Seq(Batches)
           /\ flight[r] \in SUBSET Requests /\ done[r] \in SUBSET flight[r]
           /\ accepting[r] \in Requests \cup {NoRequest}
           /\ exhausted[r] \in 0..NumBatches /\ mine[r] \in SUBSET scope[r]
           /\ IsFiniteSet(scope[r])
           /\ IsFiniteSet(flight[r]) /\ Cardinality(flight[r]) \in Nat
           /\ Queued(r) \subseteq Batches /\ Flying(r) \subseteq Batches
           /\ ToAccept(r) \subseteq Batches /\ Held(r) \subseteq Batches
           /\ IsFiniteSet(Held(r)) /\ Cardinality(Held(r)) \in Nat
<1>1. /\ scope[r] \in SUBSET Batches /\ queue[r] \in Seq(Batches)
      /\ flight[r] \in SUBSET Requests /\ done[r] \in SUBSET flight[r]
      /\ accepting[r] \in Requests \cup {NoRequest}
      /\ exhausted[r] \in 0..NumBatches /\ mine[r] \in SUBSET scope[r]
  BY DEF TypeOK
<1>2. IsFiniteSet(Requests)
  <2>1. MaxAttempts + Cardinality(Runners) \in Int /\ 1 \in Int
    BY Finite, AnnotationAssumption
  <2>2. IsFiniteSet(1..(MaxAttempts + Cardinality(Runners)))
    BY <2>1, FS_Interval
  <2> QED BY <2>2, Finite, FS_Product DEF Requests
<1>3. IsFiniteSet(flight[r]) /\ Cardinality(flight[r]) \in Nat
  BY <1>1, <1>2, FS_Subset, FS_CardinalityType
<1>4. Queued(r) \subseteq Batches
  BY <1>1 DEF Queued
<1>5. Flying(r) \subseteq Batches /\ ToAccept(r) \subseteq Batches
  BY <1>1 DEF Flying, ToAccept, Requests
<1>6. Held(r) \subseteq Batches
  BY <1>4, <1>5 DEF Held
<1> QED BY <1>1, <1>3, <1>4, <1>5, <1>6, Finite

\* A step of run r is sound if what it does to r is: others' attempts are not
\* written, accepted labels stay, and r takes only attempts nobody has.
LEMMA Assembled ==
    ASSUME IInv, NEW r \in Runners, TypeOK', refused' = refused,
           \A s \in Runners \ {r} : SameRun(s),
           \A b \in Batches : \A k \in DOMAIN attempts[b] :
              /\ k \in DOMAIN attempts'[b]
              /\ attempts'[b][k] = attempts[b][k] \/ <<b, k>> \in flight[r],
           \A b \in Batches :
              \/ label'[b] = label[b]
              \/ label[b] = Unlabelled /\ attempts'[b][label'[b]] = "succeeded",
           \A x \in flight'[r] : x \in flight[r] \/ x[2] \notin DOMAIN attempts[x[1]],
           RunSound(r)', Answering(r)', \A b \in Batches : Spending(b)'
    PROVE  IInv'
<1>1. TypeOK
  BY DEF IInv
<1>2. ASSUME NEW s \in Runners \ {r} PROVE RunSound(s)' /\ Answering(s)'
  <2>1. RunSound(s)'
    <3>1. \A b \in Batches : label[b] # Unlabelled => label'[b] # Unlabelled
      OBVIOUS
    <3> QED BY <1>1, <3>1, RunKept, RunTypes DEF IInv
  <2>2. \A x \in flight[s] \cup ({accepting[s]} \ {NoRequest}) :
           /\ x = <<x[1], x[2]>> /\ x[1] \in Batches
           /\ x[2] \in DOMAIN attempts[x[1]] /\ x \notin flight[r]
    <3>1. flight[s] \cap flight[r] = {}
      BY DEF IInv, Disjoint
    <3>2. \A x \in Requests : x = <<x[1], x[2]>> /\ x[1] \in Batches
      BY DEF Requests
    <3>3. \A x \in flight[s] \cup ({accepting[s]} \ {NoRequest}) : x \in Requests
      BY ZenonT(40), <1>1, RunTypes
    <3>4. \A x \in flight[r] : attempts[x[1]][x[2]] = "started"
      BY DEF IInv, Answering
    <3>5. accepting[s] # NoRequest =>
             /\ accepting[s][2] \in DOMAIN attempts[accepting[s][1]]
             /\ attempts[accepting[s][1]][accepting[s][2]] = "succeeded"
      BY DEF IInv, Answering
    <3> QED BY <3>1, <3>2, <3>3, <3>4, <3>5 DEF IInv, Answering
  <2>3. Answering(s)'
    <3>1. \A x \in flight[s] \cup ({accepting[s]} \ {NoRequest}) :
             x[2] \in DOMAIN attempts'[x[1]] /\ attempts'[x[1]][x[2]] = attempts[x[1]][x[2]]
      BY <2>2
    <3> QED BY <3>1, AnswersKept DEF IInv
  <2> QED BY <2>1, <2>3
<1>3. Disjoint'
  <2>1. ASSUME NEW s \in Runners \ {r} PROVE flight'[r] \cap flight'[s] = {}
    <3>1. flight'[s] = flight[s] /\ flight[r] \cap flight[s] = {}
      BY DEF SameRun, IInv, Disjoint
    <3>2. \A x \in flight[s] : x[2] \in DOMAIN attempts[x[1]]
      BY DEF IInv, Answering
    <3> QED BY <3>1, <3>2
  <2> QED BY <2>1 DEF IInv, Disjoint, SameRun
<1>4. LabelsAreEarned'
  <2>1. ASSUME NEW b \in Batches, label'[b] # Unlabelled
        PROVE  attempts'[b][label'[b]] = "succeeded"
    <3>1. CASE label'[b] = label[b]
      <4>1. label[b] \in DOMAIN attempts[b] /\ attempts[b][label[b]] = "succeeded"
        BY <2>1, <3>1 DEF IInv, TypeOK, LabelsAreEarned
      <4>2. <<b, label[b]>> \notin flight[r]
        <5>1. ASSUME <<b, label[b]>> \in flight[r] PROVE FALSE
          <6>1. <<b, label[b]>>[1] = b /\ <<b, label[b]>>[2] = label[b]
            OBVIOUS
          <6> QED BY <4>1, <5>1, <6>1 DEF IInv, Answering
        <5> QED BY <5>1
      <4> QED BY <3>1, <4>1, <4>2
    <3>2. CASE label'[b] # label[b]
      BY <3>2
    <3> QED BY <3>1, <3>2
  <2> QED BY <2>1 DEF LabelsAreEarned
<1> QED BY <1>2, <1>3, <1>4 DEF IInv, RefusedOnlyWhenOvertaken

------------------------------------------------------------------------------
(* A run starts, and ends.                                                      *)

LEMMA LeaveSound ==
    ASSUME IInv, NEW r \in Runners, Leave(r), UNCHANGED <<store, refused>>,
           faults' \in 0..MaxFaults
    PROVE  IInv'
<1>1. TypeOK
  BY DEF IInv
<1>2. /\ pc'[r] = "off" /\ scope'[r] = {} /\ queue'[r] = <<>> /\ flight'[r] = {}
      /\ done'[r] = {} /\ accepting'[r] = NoRequest /\ exhausted'[r] = 0 /\ mine'[r] = {}
      /\ attempts' = attempts /\ label' = label /\ refused' = refused
  BY <1>1 DEF Leave, TypeOK, store
<1>3. \A s \in Runners \ {r} : SameRun(s) /\ done'[s] = done[s]
  BY <1>1 DEF Leave, TypeOK, SameRun
<1>4. TypeOK'
  <2>1. PICK none \in Seq(Batches) : none = <<>> /\ none \in Seq({})
    BY EmptySeq
  <2>2. Cardinality({}) = 0
    BY FS_EmptySet
  <2>3. /\ pc' \in [Runners -> {"off", "planned", "admit", "collect", "accept"}]
        /\ scope' \in [Runners -> SUBSET Batches] /\ queue' \in [Runners -> Seq(Batches)]
        /\ flight' \in [Runners -> SUBSET Requests] /\ done' \in [Runners -> SUBSET Requests]
        /\ accepting' \in [Runners -> Requests \cup {NoRequest}]
        /\ stop' \in [Runners -> BOOLEAN] /\ exhausted' \in [Runners -> 0..NumBatches]
        /\ mine' \in [Runners -> SUBSET Batches]
    BY <1>1, <2>1, AnnotationAssumption DEF Leave, TypeOK
  <2>4. ASSUME NEW s \in Runners
        PROVE  /\ queue'[s] \in Seq(scope'[s]) /\ mine'[s] \subseteq scope'[s]
               /\ done'[s] \subseteq flight'[s] /\ Cardinality(flight'[s]) <= Workers
    <3>1. CASE s = r
      <4>1. queue'[r] \in Seq(scope'[r])
        BY <1>2, <2>1
      <4>2. Cardinality(flight'[r]) <= Workers
        BY <1>2, <2>2, AnnotationAssumption
      <4> QED BY <1>2, <3>1, <4>1, <4>2
    <3>2. CASE s # r
      BY <1>1, <1>3, <3>2 DEF TypeOK, SameRun
    <3> QED BY <3>1, <3>2
  <2> QED BY <1>1, <1>2, <2>3, <2>4 DEF TypeOK
<1>5. Disjoint'
  BY <1>2, <1>3 DEF IInv, Disjoint, SameRun
<1>6. RunSound(r)' /\ Answering(r)'
  <2>1. Queued(r)' = {} /\ Flying(r)' = {} /\ ToAccept(r)' = {}
    BY <1>2 DEF Queued, Flying, ToAccept
  <2>2. Held(r)' = {} /\ Cardinality(Held(r))' = 0 /\ Cardinality(scope[r])' = 0
    BY <1>2, <2>1, FS_EmptySet DEF Held
  <2> QED BY <1>2, <2>1, <2>2 DEF RunSound, Answering
<1>8. ASSUME NEW s \in Runners \ {r} PROVE RunSound(s)' /\ Answering(s)'
  BY <1>1, <1>2, <1>3, RunKept, AnswersKept, RunTypes DEF IInv
<1>7. ASSUME NEW b \in Batches PROVE Spending(b)'
  <2>1. r \notin Holders(b)'
    BY <1>2 DEF Holders
  <2>2. Holders(b)' \subseteq Runners
    BY DEF Holders
  <2>3. Holders(b)' \subseteq Holders(b)
    BY <1>3, <2>1, <2>2, HoldersElsewhere
  <2>4. Len(attempts'[b]) = Len(attempts[b]) /\ Len(attempts[b]) \in Nat
    BY <1>1, <1>2 DEF TypeOK
  <2> QED BY <2>3, <2>4, SpendingKept DEF IInv
<1> QED BY <1>2, <1>4, <1>5, <1>6, <1>7, <1>8 DEF IInv, RefusedOnlyWhenOvertaken, LabelsAreEarned

LEMMA PlanSound ==
    ASSUME IInv, NEW r \in Runners, NEW S \in SUBSET Batches, Plan(r, S) PROVE IInv'
<1>1. TypeOK
  BY DEF IInv
<1>2. PICK order \in Planned(S) : queue' = [queue EXCEPT ![r] = order]
  BY DEF Plan
<1>3. /\ order \in Seq(S) /\ order \in Seq(Batches) /\ {order[i] : i \in DOMAIN order} = S
      /\ \A i, j \in DOMAIN order : order[i] = order[j] => i = j
  BY <1>2, PlannedLemma
<1>4. /\ pc[r] = "off" /\ pc' = [pc EXCEPT ![r] = "planned"]
      /\ scope' = [scope EXCEPT ![r] = S]
      /\ UNCHANGED <<store, flight, done, accepting, stop, exhausted, mine, refused, faults>>
  BY DEF Plan
<1>5. /\ pc'[r] = "planned" /\ scope'[r] = S /\ queue'[r] = order
      /\ \A s \in Runners \ {r} : SameRun(s)
  BY <1>1, <1>2, <1>4 DEF TypeOK, SameRun
<1>6. scope[r] = {} /\ Held(r) = {} /\ RunSound(r)
  BY <1>4 DEF IInv, RunSound
<1>7. flight[r] = {} /\ accepting[r] = NoRequest /\ mine[r] = {} /\ exhausted[r] = 0
  <2>1. flight[r] = {} /\ accepting[r] = NoRequest /\ mine[r] = {}
    <3>1. Flying(r) = {} /\ ToAccept(r) = {}
      BY <1>6 DEF Held
    <3>2. \A x \in flight[r] : x[1] \in Flying(r)
      BY DEF Flying
    <3>3. accepting[r] = NoRequest
      BY <3>1 DEF ToAccept
    <3> QED BY <1>1, <1>6, <3>1, <3>2, <3>3, RunTypes
  <2>2. exhausted[r] + Cardinality({}) <= Cardinality({})
    BY <1>6 DEF RunSound
  <2>3. exhausted[r] \in Nat
    BY <1>1, AnnotationAssumption DEF TypeOK
  <2> QED BY <2>1, <2>2, <2>3, FS_EmptySet
<1>8. TypeOK'
  <2>1. /\ pc' \in [Runners -> {"off", "planned", "admit", "collect", "accept"}]
        /\ scope' \in [Runners -> SUBSET Batches] /\ queue' \in [Runners -> Seq(Batches)]
    BY <1>1, <1>2, <1>3, <1>4 DEF TypeOK
  <2>2. \A s \in Runners : queue'[s] \in Seq(scope'[s]) /\ mine'[s] \subseteq scope'[s]
    BY <1>1, <1>3, <1>4, <1>5, <1>7 DEF TypeOK, SameRun
  <2> QED BY <1>1, <1>4, <2>1, <2>2 DEF TypeOK, store
<1>9. RunSound(r)' /\ Answering(r)'
  <2>1. Queued(r)' = S /\ Flying(r)' = {} /\ ToAccept(r)' = {}
    BY <1>3, <1>4, <1>5, <1>7 DEF Queued, Flying, ToAccept
  <2>2. Held(r)' = S /\ Cardinality(S) \in Nat
    BY <2>1, Finite DEF Held
  <2> QED BY <1>3, <1>4, <1>5, <1>7, <2>1, <2>2 DEF RunSound, Answering
<1>10. ASSUME NEW b \in Batches PROVE Spending(b)'
  <2>1. r \notin Holders(b)' /\ Holders(b)' \subseteq Runners
    BY <1>5 DEF Holders
  <2>2. Holders(b)' \subseteq Holders(b)
    BY <1>5, <2>1, HoldersElsewhere
  <2>3. Len(attempts'[b]) = Len(attempts[b]) /\ Len(attempts[b]) \in Nat
    BY <1>1, <1>4 DEF TypeOK, store
  <2> QED BY <2>2, <2>3, SpendingKept DEF IInv
<1> QED BY <1>4, <1>5, <1>7, <1>8, <1>9, <1>10, Assembled DEF store

LEMMA EnterSound == ASSUME IInv, NEW r \in Runners, Enter(r) PROVE IInv'
<1> DEFINE spent == {b \in scope[r] : Tried(b) >= MaxAttempts}
           rest == {b \in scope[r] : ~(Tried(b) >= MaxAttempts)}
<1>1. TypeOK /\ scope[r] \in SUBSET Batches
  BY RunTypes DEF IInv
<1>2. PICK order \in Planned(rest) : queue' = [queue EXCEPT ![r] = order]
  BY DEF Enter
<1>3. /\ order \in Seq(rest) /\ order \in Seq(Batches) /\ {order[i] : i \in DOMAIN order} = rest
      /\ \A i, j \in DOMAIN order : order[i] = order[j] => i = j
      /\ order \in Seq(scope[r])
  <2>1. rest \in SUBSET Batches /\ rest \subseteq scope[r]
    BY <1>1
  <2> HIDE DEF rest
  <2>2. /\ order \in Seq(rest) /\ order \in Seq(Batches) /\ {order[i] : i \in DOMAIN order} = rest
        /\ \A i, j \in DOMAIN order : order[i] = order[j] => i = j
    BY <1>2, <2>1, PlannedLemma
  <2> QED BY <1>1, <2>1, <2>2, NarrowLemma
<1>4. /\ pc[r] = "planned" /\ pc' = [pc EXCEPT ![r] = "admit"]
      /\ exhausted' = [exhausted EXCEPT ![r] = Cardinality(spent)]
      /\ UNCHANGED <<store, scope, flight, done, accepting, stop, mine, refused, faults>>
  BY DEF Enter
<1>5. /\ pc'[r] = "admit" /\ queue'[r] = order /\ exhausted'[r] = Cardinality(spent)
      /\ \A s \in Runners \ {r} : SameRun(s)
  BY <1>1, <1>2, <1>4 DEF TypeOK, SameRun
<1>6. flight[r] = {} /\ accepting[r] = NoRequest /\ mine[r] = {}
  BY <1>4 DEF IInv, RunSound
<1>7. /\ Cardinality(spent) \in 0..NumBatches /\ Cardinality(rest) \in Nat
      /\ Cardinality(spent) + Cardinality(rest) = Cardinality(scope[r])
      /\ (Cardinality(spent) = 0 => rest = scope[r])
  <2>1. spent \cup rest = scope[r] /\ spent \cap rest = {}
    OBVIOUS
  <2>2. /\ IsFiniteSet(spent) /\ Cardinality(spent) \in Nat /\ Cardinality(spent) <= NumBatches
        /\ IsFiniteSet(rest) /\ Cardinality(rest) \in Nat
    BY <1>1, Finite
  <2>3. Cardinality(scope[r]) = Cardinality(spent) + Cardinality(rest) - Cardinality({})
    BY <2>1, <2>2, FS_Union
  <2>4. Cardinality(spent) = 0 => spent = {}
    BY <2>2, FS_EmptySet
  <2>5. Cardinality({}) = 0
    BY FS_EmptySet
  <2> HIDE DEF spent, rest
  <2>6. Cardinality(spent) = 0 => rest = scope[r]
    BY <2>1, <2>4
  <2> QED BY <2>2, <2>3, <2>5, <2>6, AnnotationAssumption
<1> HIDE DEF spent, rest
<1>8. TypeOK'
  <2>1. /\ pc' \in [Runners -> {"off", "planned", "admit", "collect", "accept"}]
        /\ queue' \in [Runners -> Seq(Batches)] /\ exhausted' \in [Runners -> 0..NumBatches]
    BY <1>1, <1>2, <1>3, <1>4, <1>7 DEF TypeOK
  <2>2. \A s \in Runners : queue'[s] \in Seq(scope'[s])
    BY <1>1, <1>3, <1>4, <1>5 DEF TypeOK, SameRun
  <2> QED BY <1>1, <1>4, <2>1, <2>2 DEF TypeOK, store
<1>9. RunSound(r)' /\ Answering(r)'
  <2>1. Queued(r)' = rest /\ Flying(r)' = {} /\ ToAccept(r)' = {} /\ rest \subseteq scope[r]
    BY <1>3, <1>4, <1>5, <1>6 DEF Queued, Flying, ToAccept, rest
  <2>2. Held(r)' = rest
    BY <2>1 DEF Held
  <2>3. exhausted'[r] + Cardinality(rest) <= Cardinality(scope[r])
    BY <1>1, <1>5, <1>7, Finite
  <2> QED BY <1>3, <1>4, <1>5, <1>6, <1>7, <2>1, <2>2, <2>3 DEF RunSound, Answering
<1>10. ASSUME NEW b \in Batches PROVE Spending(b)'
  <2>1. Len(attempts'[b]) = Len(attempts[b]) /\ Len(attempts[b]) \in Nat
    BY <1>1, <1>4 DEF TypeOK, store
  <2>2. CASE Len(attempts[b]) >= MaxAttempts
    <3>1. b \notin Queued(r)'
      BY <1>3, <1>5, <2>2 DEF Queued, rest, Tried
    <3>2. r \notin Holders(b)' /\ Holders(b)' \subseteq Runners
      BY <1>4, <1>6, <3>1 DEF Holders
    <3>3. Holders(b)' \subseteq Holders(b)
      BY <1>5, <3>2, HoldersElsewhere
    <3> QED BY <2>1, <3>3, SpendingKept DEF IInv
  <2>3. CASE ~(Len(attempts[b]) >= MaxAttempts)
    BY <2>1, <2>3 DEF Spending
  <2> QED BY <2>2, <2>3
<1> QED BY <1>4, <1>5, <1>6, <1>8, <1>9, <1>10, Assembled DEF store

------------------------------------------------------------------------------
(* The loop.                                                                    *)

LEMMA StartSound == ASSUME IInv, NEW r \in Runners, Start(r) PROVE IInv'
<1>0. PICK b, k : b = Head(queue[r]) /\ k = NextAttempt(b)
  OBVIOUS
<1>1. TypeOK /\ RunSound(r) /\ Answering(r) /\ queue[r] \in Seq(Batches)
  BY RunTypes DEF IInv
<1>2. /\ pc[r] = "admit" /\ queue[r] # <<>> /\ Cardinality(flight[r]) < Workers
      /\ label[b] = Unlabelled
      /\ attempts' = [attempts EXCEPT ![b] = Append(@, "started")]
      /\ queue' = [queue EXCEPT ![r] = Tail(@)]
      /\ flight' = [flight EXCEPT ![r] = @ \cup {<<b, k>>}]
      /\ UNCHANGED <<label, pc, scope, done, accepting, stop, exhausted, mine, refused, faults>>
  BY <1>0 DEF Start, Admissible
<1>3. /\ b \in Batches /\ b \in Queued(r) /\ Tail(queue[r]) \in Seq(Batches)
      /\ queue'[r] = Tail(queue[r]) /\ Queued(r)' = Queued(r) \ {b}
      /\ \A i, j \in DOMAIN queue'[r] : queue'[r][i] = queue'[r][j] => i = j
  <2>1. queue'[r] = Tail(queue[r])
    BY <1>1, <1>2 DEF TypeOK
  <2>2. \A i, j \in DOMAIN queue[r] : queue[r][i] = queue[r][j] => i = j
    BY <1>1 DEF RunSound
  <2>3. /\ b \in Batches /\ Tail(queue[r]) \in Seq(Batches)
        /\ b \in {queue[r][i] : i \in DOMAIN queue[r]}
        /\ {Tail(queue[r])[i] : i \in DOMAIN Tail(queue[r])}
              = {queue[r][i] : i \in DOMAIN queue[r]} \ {b}
        /\ \A i, j \in DOMAIN Tail(queue[r]) : Tail(queue[r])[i] = Tail(queue[r])[j] => i = j
    BY <1>0, <1>1, <1>2, <2>2, TailLemma
  <2> QED BY <2>1, <2>3 DEF Queued
<1>4. /\ attempts[b] \in Seq(Statuses) /\ Len(attempts[b]) \in Nat /\ k = Len(attempts[b]) + 1
      /\ DOMAIN attempts[b] = 1..Len(attempts[b]) /\ k \notin DOMAIN attempts[b]
  BY <1>0, <1>1, <1>3 DEF TypeOK, NextAttempt
<1>5. /\ attempts'[b] \in Seq(Statuses) /\ Len(attempts'[b]) = k
      /\ attempts'[b][k] = "started"
      /\ \A i \in DOMAIN attempts[b] : i \in DOMAIN attempts'[b] /\ attempts'[b][i] = attempts[b][i]
      /\ k \in DOMAIN attempts'[b]
  <2>1. attempts'[b] = Append(attempts[b], "started") /\ "started" \in Statuses
    BY <1>1, <1>2, <1>3 DEF TypeOK, Statuses
  <2> QED BY <1>4, <2>1, AppendProperties
<1>6. \A c \in Batches \ {b} : attempts'[c] = attempts[c]
  BY <1>1, <1>2, <1>3 DEF TypeOK
<1>7. /\ flight'[r] = flight[r] \cup {<<b, k>>}
      /\ \A s \in Runners \ {r} : SameRun(s)
  BY <1>1, <1>2 DEF TypeOK, SameRun
<1>8. Flying(r)' = Flying(r) \cup {b} /\ ToAccept(r)' = ToAccept(r)
  <2>1. <<b, k>>[1] = b
    OBVIOUS
  <2> QED BY <1>2, <1>7, <2>1 DEF Flying, ToAccept
<1>9. Held(r)' = Held(r)
  BY <1>3, <1>8 DEF Held
<1>10. /\ <<b, k>>[1] = b /\ <<b, k>>[2] = k
       /\ b \notin Flying(r) /\ \A x \in flight[r] : x[1] # b
  BY <1>1, <1>3 DEF RunSound, Flying
<1>11. RunSound(r)'
  <2>1. \A x, y \in flight'[r] : x[1] = y[1] => x = y
    BY <1>1, <1>7, <1>10 DEF RunSound
  <2> QED BY <1>1, <1>2, <1>3, <1>8, <1>9, <2>1 DEF RunSound
<1>12. Answering(r)'
  <2>1. ASSUME NEW x \in flight'[r]
        PROVE  x[2] \in DOMAIN attempts'[x[1]] /\ attempts'[x[1]][x[2]] = "started"
    <3>1. CASE x = <<b, k>>
      BY <1>5, <1>10, <3>1
    <3>2. CASE x \in flight[r]
      <4>1. x[1] \in Batches \ {b}
        BY <1>1, <1>10, <3>2 DEF TypeOK, Requests
      <4> QED BY <1>1, <1>6, <3>2, <4>1 DEF Answering
    <3> QED BY <1>7, <3>1, <3>2
  <2>2. accepting'[r] = NoRequest
    BY <1>1, <1>2 DEF RunSound
  <2> QED BY <2>1, <2>2 DEF Answering
<1>13. r \in Holders(b)
  BY <1>2, <1>3 DEF Holders
<1>14. ASSUME NEW c \in Batches PROVE Spending(c)'
  <2>1. Holders(c) \subseteq Runners /\ Holders(c)' \subseteq Runners
    BY DEF Holders
  <2>2. CASE c # b
    <3>1. r \in Holders(c)' => r \in Holders(c)
      BY <1>2, <1>3, <1>7, <1>10, <2>2 DEF Holders
    <3>2. Holders(c)' \subseteq Holders(c)
      BY <1>7, <2>1, <3>1, HoldersElsewhere
    <3>3. Len(attempts'[c]) = Len(attempts[c]) /\ Len(attempts[c]) \in Nat
      BY <1>1, <1>6, <2>2 DEF TypeOK
    <3> QED BY <3>2, <3>3, SpendingKept DEF IInv
  <2>3. CASE c = b
    <3>1. CASE k < MaxAttempts
      BY <1>4, <1>5, <2>3, <3>1, AnnotationAssumption DEF Spending
    <3>2. CASE ~(k < MaxAttempts)
      <4>1. r \notin Holders(b)'
        BY <1>3, <1>7, <1>10, <3>2 DEF Holders
      <4>2. Holders(b)' \subseteq Holders(b) \ {r}
        BY <1>3, <1>7, <2>1, <2>3, <4>1, HoldersElsewhere
      <4>3. IsFiniteSet(Holders(b)) /\ IsFiniteSet(Runners)
        BY <2>1, <2>3, Finite
      <4>4. /\ Cardinality(Holders(b)') \in Nat /\ Cardinality(Holders(b)) \in Nat
            /\ Cardinality(Runners) \in Nat
            /\ Cardinality(Holders(b)') <= Cardinality(Holders(b)) - 1
            /\ Cardinality(Holders(b)') <= Cardinality(Runners) - 1
        <5>1. Holders(b)' \subseteq Runners \ {r}
          BY <2>1, <2>3, <4>1
        <5> QED BY <1>13, <4>2, <4>3, <5>1, Shrinks
      <4>5. k + Cardinality(Holders(b)') <= MaxAttempts + Cardinality(Runners) - 1
        <5>1. CASE Len(attempts[b]) >= MaxAttempts
          <6>1. Len(attempts[b]) + Cardinality(Holders(b)) <= MaxAttempts + Cardinality(Runners) - 1
            BY <1>3, <5>1 DEF IInv, Spending
          <6> QED BY <1>4, <4>4, <6>1, AnnotationAssumption
        <5>2. CASE ~(Len(attempts[b]) >= MaxAttempts)
          <6>1. k = MaxAttempts
            BY <1>4, <3>2, <5>2, AnnotationAssumption
          <6> QED BY <4>4, <6>1, AnnotationAssumption
        <5> QED BY <5>1, <5>2
      <4> QED BY <1>5, <2>3, <4>5 DEF Spending
    <3> QED BY <3>1, <3>2
  <2> QED BY <2>2, <2>3
<1>15. TypeOK'
  <2>1. attempts' \in [Batches -> Seq(Statuses)]
    BY <1>1, <1>2, <1>3, <1>5 DEF TypeOK
  <2>2. \A c \in Batches : label[c] \in {Unlabelled} \cup DOMAIN attempts'[c]
    <3>1. \A c \in Batches : DOMAIN attempts[c] \subseteq DOMAIN attempts'[c]
      BY <1>5, <1>6
    <3> QED BY <1>1, <3>1 DEF TypeOK
  <2>3. k \in 1..(MaxAttempts + Cardinality(Runners))
    <3>1. /\ Cardinality(Runners) \in Nat /\ Cardinality(Holders(b)') \in Nat
          /\ k \in Nat /\ k >= 1
      BY <1>4, Finite DEF Holders
    <3>2. k < MaxAttempts \/ k + Cardinality(Holders(b)') <= MaxAttempts + Cardinality(Runners) - 1
      BY <1>3, <1>4, <1>5, <1>14, AnnotationAssumption DEF Spending
    <3> QED BY <3>1, <3>2, AnnotationAssumption
  <2>4. <<b, k>> \in Requests
    BY <1>3, <2>3 DEF Requests
  <2>5. flight' \in [Runners -> SUBSET Requests] /\ queue' \in [Runners -> Seq(Batches)]
    BY <1>1, <1>2, <1>3, <2>4 DEF TypeOK
  <2>6. queue'[r] \in Seq(scope[r])
    <3>1. {queue'[r][i] : i \in DOMAIN queue'[r]} \subseteq scope[r]
      BY <1>1, <1>3 DEF Queued, RunSound, Held
    <3> QED BY <1>1, <1>3, <3>1, NarrowLemma, RunTypes
  <2>7. Cardinality(flight'[r]) <= Workers
    <3>1. IsFiniteSet(flight[r]) /\ Cardinality(flight[r]) \in Nat
      BY <1>1, RunTypes
    <3>2. Cardinality(flight'[r]) \in {Cardinality(flight[r]), Cardinality(flight[r]) + 1}
      BY <1>7, <3>1, FS_AddElement
    <3> QED BY <1>2, <3>1, <3>2, AnnotationAssumption
  <2>8. ASSUME NEW s \in Runners
        PROVE  /\ queue'[s] \in Seq(scope'[s]) /\ mine'[s] \subseteq scope'[s]
               /\ done'[s] \subseteq flight'[s] /\ Cardinality(flight'[s]) <= Workers
    <3>1. CASE s = r
      BY <1>1, <1>2, <1>7, <2>6, <2>7, <3>1 DEF TypeOK
    <3>2. CASE s # r
      BY <1>1, <1>2, <1>7, <3>2 DEF TypeOK, SameRun
    <3> QED BY <3>1, <3>2
  <2> QED BY <1>1, <1>2, <2>1, <2>2, <2>5, <2>8 DEF TypeOK
<1> QED
  <2>1. \A c \in Batches : \A i \in DOMAIN attempts[c] :
           i \in DOMAIN attempts'[c] /\ attempts'[c][i] = attempts[c][i]
    BY <1>5, <1>6
  <2>2. \A x \in flight'[r] : x \in flight[r] \/ x[2] \notin DOMAIN attempts[x[1]]
    BY <1>4, <1>7, <1>10
  <2> QED BY <1>2, <1>7, <1>11, <1>12, <1>14, <1>15, <2>1, <2>2, Assembled

\* The loop looks at what ended.
LEMMA WaitSound == ASSUME IInv, NEW r \in Runners, Wait(r) PROVE IInv'
<1>1. TypeOK /\ RunSound(r) /\ Answering(r)
  BY DEF IInv
<1>2. /\ pc[r] = "admit" /\ pc' = [pc EXCEPT ![r] = "collect"]
      /\ UNCHANGED <<store, scope, queue, flight, accepting, stop, exhausted, mine, refused, faults>>
  BY DEF Wait
<1>3. PICK S \in SUBSET flight[r] : done' = [done EXCEPT ![r] = S]
  BY DEF Wait
<1>4. /\ pc'[r] = "collect" /\ done'[r] \subseteq flight[r]
      /\ \A s \in Runners \ {r} : SameRun(s) /\ done'[s] = done[s]
  BY <1>1, <1>2, <1>3 DEF TypeOK, SameRun
<1>5. TypeOK'
  <2>1. flight[r] \in SUBSET Requests
    BY <1>1, RunTypes
  <2>2. /\ pc' \in [Runners -> {"off", "planned", "admit", "collect", "accept"}]
        /\ done' \in [Runners -> SUBSET Requests]
    BY <1>1, <1>2, <1>3, <2>1 DEF TypeOK
  <2>3. \A s \in Runners : done'[s] \subseteq flight'[s]
    BY <1>1, <1>2, <1>4 DEF TypeOK
  <2> QED BY <1>1, <1>2, <2>2, <2>3 DEF TypeOK, store
<1>6. /\ Queued(r)' = Queued(r) /\ Flying(r)' = Flying(r) /\ ToAccept(r)' = ToAccept(r)
      /\ Held(r)' = Held(r)
  BY <1>2 DEF Queued, Flying, ToAccept, Held
<1>7. RunSound(r)' /\ Answering(r)'
  BY <1>1, <1>2, <1>4, <1>6 DEF RunSound, Answering, store
<1>8. ASSUME NEW b \in Batches PROVE Spending(b)'
  <2>1. Holders(b)' \subseteq Runners /\ r \in Holders(b)' => r \in Holders(b)
    BY <1>2, <1>6 DEF Holders
  <2>2. Holders(b)' \subseteq Holders(b)
    BY <1>4, <2>1, HoldersElsewhere DEF Holders
  <2>3. Len(attempts'[b]) = Len(attempts[b]) /\ Len(attempts[b]) \in Nat
    BY <1>1, <1>2 DEF TypeOK, store
  <2> QED BY <2>2, <2>3, SpendingKept DEF IInv
<1> QED BY <1>2, <1>4, <1>5, <1>7, <1>8, Assembled DEF store

\* A request leaves the flight, and its attempt gets its outcome.
LEMMA FinishLemma ==
    ASSUME IInv, NEW r \in Runners, NEW request, Collected(r, request),
           NEW status \in Statuses, Finish(request, status)
    PROVE  /\ pc[r] = "collect" /\ request \in flight[r] /\ request \in Requests
           /\ request = <<request[1], request[2]>>
           /\ request[1] \in Batches /\ request[2] \in DOMAIN attempts[request[1]]
           /\ attempts[request[1]][request[2]] = "started" /\ refused' = refused
           /\ attempts' \in [Batches -> Seq(Statuses)]
           /\ attempts'[request[1]][request[2]] = status
           /\ \A b \in Batches :
                 /\ Len(attempts[b]) \in Nat /\ Len(attempts'[b]) = Len(attempts[b])
                 /\ DOMAIN attempts'[b] = DOMAIN attempts[b]
                 /\ \A k \in DOMAIN attempts[b] :
                       attempts'[b][k] = attempts[b][k] \/ <<b, k>> = request
           /\ flight'[r] = flight[r] \ {request} /\ done'[r] = done[r] \ {request}
           /\ flight' \in [Runners -> SUBSET Requests] /\ done' \in [Runners -> SUBSET Requests]
           /\ \A s \in Runners \ {r} : flight'[s] = flight[s] /\ done'[s] = done[s]
           /\ done'[r] \subseteq flight'[r] /\ Cardinality(flight'[r]) <= Workers
           /\ Flying(r)' = Flying(r) \ {request[1]}
           /\ request[1] \in Flying(r) /\ request[1] \notin Queued(r)
           /\ accepting[r] = NoRequest
<1> DEFINE b == request[1]
           k == request[2]
<1>1. TypeOK /\ RunSound(r) /\ Answering(r)
  BY DEF IInv
<1>2. /\ pc[r] = "collect" /\ request \in done[r]
      /\ done' = [done EXCEPT ![r] = @ \ {request}]
      /\ flight' = [flight EXCEPT ![r] = flight[r] \ {request}]
  BY DEF Collected, Landed
<1>3. request \in flight[r] /\ request \in Requests /\ flight[r] \in SUBSET Requests
  BY <1>1, <1>2, RunTypes
<1>4. request = <<b, k>> /\ b \in Batches
  BY <1>3 DEF Requests
<1>5. k \in DOMAIN attempts[b] /\ attempts[b][k] = "started" /\ attempts[b] \in Seq(Statuses)
  BY <1>1, <1>3, <1>4 DEF Answering, TypeOK
<1>6. attempts' = [attempts EXCEPT ![b][k] = status] /\ refused' = refused
  BY <1>1, <1>5 DEF Finish, Refuse, TypeOK
<1>7. attempts' = [attempts EXCEPT ![b] = [attempts[b] EXCEPT ![k] = status]]
  BY <1>1, <1>4, <1>6 DEF TypeOK
<1>8. /\ [attempts[b] EXCEPT ![k] = status] \in Seq(Statuses)
      /\ Len([attempts[b] EXCEPT ![k] = status]) = Len(attempts[b])
  BY <1>5, ExceptSeq
<1>9. /\ attempts' \in [Batches -> Seq(Statuses)]
      /\ attempts'[b] = [attempts[b] EXCEPT ![k] = status]
      /\ \A c \in Batches \ {b} : attempts'[c] = attempts[c]
  BY <1>1, <1>4, <1>7, <1>8 DEF TypeOK
<1>10. attempts'[b][k] = status
  BY <1>5, <1>9
<1>11. ASSUME NEW c \in Batches
       PROVE  /\ Len(attempts[c]) \in Nat /\ Len(attempts'[c]) = Len(attempts[c])
              /\ DOMAIN attempts'[c] = DOMAIN attempts[c]
              /\ \A i \in DOMAIN attempts[c] :
                    attempts'[c][i] = attempts[c][i] \/ <<c, i>> = request
  <2>1. attempts[c] \in Seq(Statuses)
    BY <1>1 DEF TypeOK
  <2>2. CASE c = b
    BY <1>4, <1>5, <1>8, <1>9, <2>1, <2>2
  <2>3. CASE c # b
    BY <1>9, <2>1, <2>3
  <2> QED BY <2>2, <2>3
<1>12. /\ flight'[r] = flight[r] \ {request} /\ done'[r] = done[r] \ {request}
       /\ flight' \in [Runners -> SUBSET Requests] /\ done' \in [Runners -> SUBSET Requests]
       /\ \A s \in Runners \ {r} : flight'[s] = flight[s] /\ done'[s] = done[s]
       /\ done'[r] \subseteq flight'[r]
  BY <1>1, <1>2, <1>3 DEF TypeOK
<1>13. Cardinality(flight'[r]) <= Workers
  <2>1. IsFiniteSet(flight[r]) /\ Cardinality(flight[r]) \in Nat /\ Cardinality(flight[r]) <= Workers
    BY <1>1, RunTypes DEF TypeOK
  <2>2. /\ Cardinality(flight'[r]) \in Nat /\ Cardinality(flight'[r]) <= Cardinality(flight[r]) - 1
    BY <1>3, <1>12, <2>1, Shrinks
  <2> QED BY <2>1, <2>2, AnnotationAssumption
<1>14. Flying(r)' = Flying(r) \ {b}
  <2>1. \A x \in flight[r] : x[1] = b => x = request
    BY <1>1, <1>3 DEF RunSound
  <2> QED BY <1>3, <1>12, <2>1 DEF Flying
<1>15. b \in Flying(r) /\ b \notin Queued(r)
  BY <1>1, <1>3 DEF Flying, RunSound
<1>16. accepting[r] = NoRequest
  BY <1>1, <1>2 DEF RunSound
<1> QED BY <1>2, <1>3, <1>4, <1>5, <1>6, <1>9, <1>10, <1>11, <1>12, <1>13, <1>14, <1>15, <1>16

\* The batch of a collected request is queued again, is to be accepted, or is given
\* up, and with a permanent failure the queue goes as well.
LEMMA CollectedSound ==
    ASSUME IInv, NEW r \in Runners, NEW request, Collected(r, request),
           NEW status \in Statuses, Finish(request, status),
           UNCHANGED <<label, scope, mine, faults>>,
           \A s \in Runners \ {r} : SameRun(s),
           pc' \in [Runners -> {"off", "planned", "admit", "collect", "accept"}],
           pc'[r] \in {"admit", "collect", "accept"},
           queue' \in [Runners -> Seq(Batches)],
           \A i, j \in DOMAIN queue'[r] : queue'[r][i] = queue'[r][j] => i = j,
           Queued(r)' \subseteq Queued(r) \cup {request[1]},
           request[1] \in Queued(r)' => accepting'[r] = NoRequest /\ request[2] < MaxAttempts,
           accepting' \in [Runners -> Requests \cup {NoRequest}],
           accepting'[r] \in {NoRequest, request},
           pc'[r] = "accept" <=> accepting'[r] # NoRequest,
           accepting'[r] # NoRequest => status = "succeeded",
           stop' \in [Runners -> BOOLEAN],
           exhausted' \in [Runners -> Int],
           \/ /\ exhausted'[r] = exhausted[r] /\ Queued(r) \subseteq Queued(r)'
              /\ request[1] \in Queued(r)' \/ accepting'[r] = request
           \/ /\ exhausted'[r] = exhausted[r] + 1 /\ accepting'[r] = NoRequest
              /\ request[1] \notin Queued(r)'
    PROVE  IInv'
<1>0. PICK b : b = request[1]
  OBVIOUS
<1>1. TypeOK /\ RunSound(r) /\ Answering(r)
  BY DEF IInv
<1>2. /\ pc[r] = "collect" /\ request \in flight[r] /\ request \in Requests
      /\ request = <<b, request[2]>> /\ b \in Batches
      /\ request[2] \in DOMAIN attempts[b] /\ refused' = refused
      /\ attempts' \in [Batches -> Seq(Statuses)] /\ attempts'[b][request[2]] = status
      /\ \A c \in Batches :
            /\ Len(attempts[c]) \in Nat /\ Len(attempts'[c]) = Len(attempts[c])
            /\ DOMAIN attempts'[c] = DOMAIN attempts[c]
            /\ \A k \in DOMAIN attempts[c] :
                  attempts'[c][k] = attempts[c][k] \/ <<c, k>> = request
      /\ flight'[r] = flight[r] \ {request}
      /\ flight' \in [Runners -> SUBSET Requests] /\ done' \in [Runners -> SUBSET Requests]
      /\ \A s \in Runners \ {r} : done'[s] = done[s]
      /\ done'[r] \subseteq flight'[r] /\ Cardinality(flight'[r]) <= Workers
      /\ Flying(r)' = Flying(r) \ {b} /\ b \in Flying(r) /\ b \notin Queued(r)
      /\ accepting[r] = NoRequest
  BY <1>0, FinishLemma
<1>3. request # NoRequest
  BY <1>2 DEF NoRequest, Requests, Batches
<1>4. /\ ToAccept(r) = {}
      /\ ToAccept(r)' = IF accepting'[r] = request THEN {b} ELSE {}
  BY <1>0, <1>2, <1>3 DEF ToAccept
<1>5. b \in Held(r) /\ Held(r)' \subseteq Held(r)
  BY <1>0, <1>2, <1>4 DEF Held
<1>6. /\ exhausted'[r] \in 0..NumBatches
      /\ exhausted'[r] + Cardinality(Held(r)') <= Cardinality(scope[r])
  <2>1. /\ exhausted[r] \in Nat /\ IsFiniteSet(Held(r)) /\ Cardinality(Held(r)) \in Nat
        /\ Cardinality(scope[r]) \in Nat /\ Cardinality(scope[r]) <= NumBatches
        /\ exhausted[r] + Cardinality(Held(r)) <= Cardinality(scope[r])
    BY <1>1, RunTypes, Finite, AnnotationAssumption DEF RunSound, TypeOK
  <2>2. Cardinality(Held(r)') \in Nat /\ Cardinality(Held(r)') <= Cardinality(Held(r))
    BY <1>5, <2>1, FS_Subset, FS_CardinalityType
  <2>3. CASE exhausted'[r] = exhausted[r]
    BY <2>1, <2>2, <2>3, AnnotationAssumption
  <2>4. CASE exhausted'[r] = exhausted[r] + 1 /\ accepting'[r] = NoRequest /\ b \notin Queued(r)'
    <3>1. Held(r)' \subseteq Held(r) \ {b}
      BY <1>2, <1>3, <1>4, <1>5, <2>4 DEF Held
    <3>2. Cardinality(Held(r)') <= Cardinality(Held(r)) - 1
      BY <1>5, <2>1, <3>1, Shrinks
    <3> QED BY <2>1, <2>2, <2>4, <3>2, AnnotationAssumption
  <2> QED BY <1>0, <2>3, <2>4
<1>7. TypeOK'
  <2>1. \A c \in Batches : label[c] \in {Unlabelled} \cup DOMAIN attempts'[c]
    BY <1>1, <1>2 DEF TypeOK
  <2>2. exhausted' \in [Runners -> 0..NumBatches]
    <3>1. \A s \in Runners : exhausted'[s] \in 0..NumBatches
      BY <1>1, <1>6 DEF TypeOK, SameRun
    <3> QED BY <3>1
  <2>3. queue'[r] \in Seq(scope[r])
    <3>1. {queue'[r][i] : i \in DOMAIN queue'[r]} \subseteq scope[r]
      BY <1>1, <1>5 DEF Queued, RunSound, Held
    <3> QED BY <1>1, <3>1, NarrowLemma, RunTypes
  <2>4. ASSUME NEW s \in Runners
        PROVE  /\ queue'[s] \in Seq(scope'[s]) /\ mine'[s] \subseteq scope'[s]
               /\ done'[s] \subseteq flight'[s] /\ Cardinality(flight'[s]) <= Workers
    <3>1. CASE s = r
      BY <1>1, <1>2, <2>3, <3>1 DEF TypeOK
    <3>2. CASE s # r
      BY <1>1, <1>2, <3>2 DEF TypeOK, SameRun
    <3> QED BY <3>1, <3>2
  <2> QED BY <1>1, <1>2, <2>1, <2>2, <2>4 DEF TypeOK
<1>8. RunSound(r)'
  <2>1. \A x, y \in flight'[r] : x[1] = y[1] => x = y
    BY <1>1, <1>2 DEF RunSound
  <2>2. Flying(r)' \cap Queued(r)' = {} /\ ToAccept(r)' \cap (Queued(r)' \cup Flying(r)') = {}
    BY <1>0, <1>1, <1>2, <1>3, <1>4 DEF RunSound
  <2>3. Held(r)' \subseteq scope[r] /\ Held(r)' \cap mine[r] = {}
    BY <1>1, <1>5 DEF RunSound
  <2>4. ASSUME exhausted'[r] = 0, NEW c \in scope[r]
        PROVE  c \in Held(r)' \/ label[c] # Unlabelled
    <3>1. exhausted'[r] # exhausted[r] + 1 /\ exhausted[r] = 0
      BY <1>1, <2>4, AnnotationAssumption DEF TypeOK
    <3>2. Held(r) \subseteq Held(r)'
      BY <1>0, <1>2, <1>3, <1>4, <3>1 DEF Held
    <3> QED BY <1>1, <1>2, <3>1, <3>2 DEF RunSound
  <2> QED BY <1>1, <1>6, <2>1, <2>2, <2>3, <2>4 DEF RunSound
<1>9. Answering(r)'
  <2>1. ASSUME NEW x \in flight'[r]
        PROVE  x[2] \in DOMAIN attempts'[x[1]] /\ attempts'[x[1]][x[2]] = "started"
    <3>1. x \in flight[r] /\ x # request /\ x = <<x[1], x[2]>> /\ x[1] \in Batches
      BY <1>1, <1>2 DEF TypeOK, Requests
    <3>2. x[2] \in DOMAIN attempts[x[1]] /\ attempts[x[1]][x[2]] = "started"
      BY <1>1, <3>1 DEF Answering
    <3>3. <<x[1], x[2]>> # request
      BY <3>1
    <3>4. attempts'[x[1]][x[2]] = attempts[x[1]][x[2]]
      BY <1>2, <3>1, <3>2, <3>3
    <3> QED BY <1>2, <3>1, <3>2, <3>4
  <2> QED BY <1>0, <1>2, <2>1 DEF Answering
<1>10. ASSUME NEW c \in Batches PROVE Spending(c)'
  <2>1. ASSUME r \in Holders(c)' PROVE r \in Holders(c)
    <3>1. CASE c \in Queued(r)'
      BY <1>0, <1>2, <3>1 DEF Holders
    <3>2. CASE \E x \in flight'[r] : x[1] = c /\ x[2] < MaxAttempts
      BY <1>2, <3>2 DEF Holders
    <3> QED BY <2>1, <3>1, <3>2 DEF Holders
  <2>2. Holders(c)' \subseteq Runners
    BY DEF Holders
  <2>3. Holders(c)' \subseteq Holders(c)
    BY <2>1, <2>2, HoldersElsewhere
  <2> QED BY <1>2, <2>3, SpendingKept DEF IInv
<1> QED
  <2>1. \A c \in Batches : \A k \in DOMAIN attempts[c] :
           /\ k \in DOMAIN attempts'[c]
           /\ attempts'[c][k] = attempts[c][k] \/ <<c, k>> \in flight[r]
    BY <1>2
  <2> QED BY <1>2, <1>7, <1>8, <1>9, <1>10, <2>1, Assembled

LEMMA CollectSound == ASSUME IInv, NEW r \in Runners, Collect(r) PROVE IInv'
<1>1. PICK request \in done[r] :
         FailRetryably(r, request) \/ FailPermanently(r, request) \/ Succeed(r, request)
  BY DEF Collect
<1>2. TypeOK /\ RunSound(r) /\ queue[r] \in Seq(Batches) /\ exhausted[r] \in Int
  <2>1. TypeOK /\ RunSound(r) /\ queue[r] \in Seq(Batches) /\ exhausted[r] \in 0..NumBatches
    BY RunTypes DEF IInv
  <2> QED BY <2>1
<1>3. pc \in [Runners -> {"off", "planned", "admit", "collect", "accept"}]
  BY <1>2 DEF TypeOK
<1>4. "failed" \in Statuses /\ "succeeded" \in Statuses
  BY DEF Statuses
<1>5. CASE FailRetryably(r, request)
  <2>1. /\ Collected(r, request) /\ Finish(request, "failed")
        /\ UNCHANGED <<label, scope, accepting, stop, mine, faults>>
    BY <1>5 DEF FailRetryably
  <2>2. /\ pc' \in [Runners -> {"off", "planned", "admit", "collect", "accept"}]
        /\ pc'[r] \in {"admit", "collect"} /\ \A s \in Runners \ {r} : pc'[s] = pc[s]
    BY <1>3, <1>5 DEF FailRetryably, Onward
  <2>3. /\ request[1] \in Batches /\ request[1] \notin Queued(r) /\ accepting[r] = NoRequest
        /\ \A s \in Runners \ {r} : flight'[s] = flight[s]
    BY <1>4, <2>1, FinishLemma
  <2>4. CASE Again(r, request[2])
    <3>1. queue' = [queue EXCEPT ![r] = Append(@, request[1])] /\ exhausted' = exhausted
      BY <1>5, <2>4 DEF FailRetryably
    <3>2. /\ \A i \in DOMAIN queue[r] : queue[r][i] # request[1]
          /\ \A i, j \in DOMAIN queue[r] : queue[r][i] = queue[r][j] => i = j
      BY <1>2, <2>3 DEF Queued, RunSound
    <3>3. /\ Append(queue[r], request[1]) \in Seq(Batches)
          /\ queue'[r] = Append(queue[r], request[1])
          /\ Queued(r)' = Queued(r) \cup {request[1]}
          /\ \A i, j \in DOMAIN queue'[r] : queue'[r][i] = queue'[r][j] => i = j
      <4>1. queue'[r] = Append(queue[r], request[1])
        BY <1>2, <3>1 DEF TypeOK
      <4> QED BY SMTT(40), <1>2, <2>3, <3>2, <4>1, AppendLemma DEF Queued
    <3>4. queue' \in [Runners -> Seq(Batches)]
      BY <1>2, <3>1, <3>3 DEF TypeOK
    <3>5. \A s \in Runners \ {r} : SameRun(s)
      BY <1>2, <2>1, <2>2, <2>3, <3>1 DEF TypeOK, SameRun
    <3>6. request[2] < MaxAttempts
      BY <2>4 DEF Again
    <3>7. /\ accepting' \in [Runners -> Requests \cup {NoRequest}] /\ accepting'[r] = NoRequest
          /\ stop' \in [Runners -> BOOLEAN] /\ exhausted' \in [Runners -> Int]
          /\ exhausted'[r] = exhausted[r]
      BY <1>2, <2>1, <2>3, <3>1 DEF TypeOK
    <3> QED BY <1>4, <2>1, <2>2, <3>3, <3>4, <3>5, <3>6, <3>7, CollectedSound
  <2>5. CASE ~Again(r, request[2])
    <3>1. exhausted' = [exhausted EXCEPT ![r] = @ + 1] /\ queue' = queue
      BY <1>5, <2>5 DEF FailRetryably
    <3>2. /\ Queued(r)' = Queued(r) /\ queue' \in [Runners -> Seq(Batches)]
          /\ \A i, j \in DOMAIN queue'[r] : queue'[r][i] = queue'[r][j] => i = j
      BY <1>2, <3>1 DEF Queued, RunSound, TypeOK
    <3>3. /\ exhausted' \in [Runners -> Int] /\ exhausted'[r] = exhausted[r] + 1
          /\ \A s \in Runners \ {r} : exhausted'[s] = exhausted[s]
      <4>1. exhausted \in [Runners -> Int] /\ exhausted[r] + 1 \in Int
        BY <1>2, AnnotationAssumption DEF TypeOK
      <4> QED BY <3>1, <4>1
    <3>4. \A s \in Runners \ {r} : SameRun(s)
      BY <2>1, <2>2, <2>3, <3>1, <3>3 DEF SameRun
    <3>5. /\ accepting' \in [Runners -> Requests \cup {NoRequest}] /\ accepting'[r] = NoRequest
          /\ stop' \in [Runners -> BOOLEAN]
      BY <1>2, <2>1, <2>3 DEF TypeOK
    <3> QED BY <1>4, <2>1, <2>2, <2>3, <3>2, <3>3, <3>4, <3>5, CollectedSound
  <2> QED BY <2>4, <2>5
<1>6. CASE FailPermanently(r, request)
  <2>1. /\ Collected(r, request) /\ Finish(request, "failed")
        /\ UNCHANGED <<label, scope, accepting, mine, faults>>
        /\ exhausted' = [exhausted EXCEPT ![r] = @ + 1] /\ stop' = [stop EXCEPT ![r] = TRUE]
        /\ queue' = [queue EXCEPT ![r] = <<>>]
    BY <1>6 DEF FailPermanently, GivenUp
  <2>2. /\ pc' \in [Runners -> {"off", "planned", "admit", "collect", "accept"}]
        /\ pc'[r] \in {"admit", "collect"} /\ \A s \in Runners \ {r} : pc'[s] = pc[s]
    BY <1>3, <1>6 DEF FailPermanently, Onward
  <2>3. /\ request[1] \in Batches /\ request[1] \notin Queued(r) /\ accepting[r] = NoRequest
        /\ \A s \in Runners \ {r} : flight'[s] = flight[s]
    BY <1>4, <2>1, FinishLemma
  <2>4. /\ queue'[r] = <<>> /\ queue' \in [Runners -> Seq(Batches)] /\ Queued(r)' = {}
        /\ \A i, j \in DOMAIN queue'[r] : queue'[r][i] = queue'[r][j] => i = j
        /\ \A s \in Runners \ {r} : queue'[s] = queue[s]
    <3>1. PICK none \in Seq(Batches) : none = <<>>
      BY EmptySeq
    <3>2. DOMAIN none = {}
      BY <3>1
    <3> QED BY <1>2, <2>1, <3>1, <3>2 DEF TypeOK, Queued
  <2>5. /\ exhausted' \in [Runners -> Int] /\ exhausted'[r] = exhausted[r] + 1
        /\ \A s \in Runners \ {r} : exhausted'[s] = exhausted[s]
    <3>1. exhausted \in [Runners -> Int] /\ exhausted[r] + 1 \in Int
      BY <1>2, AnnotationAssumption DEF TypeOK
    <3> QED BY <2>1, <3>1
  <2>6. \A s \in Runners \ {r} : SameRun(s)
    BY <2>1, <2>2, <2>3, <2>4, <2>5 DEF SameRun
  <2>7. /\ accepting' \in [Runners -> Requests \cup {NoRequest}] /\ accepting'[r] = NoRequest
        /\ stop' \in [Runners -> BOOLEAN]
    BY <1>2, <2>1, <2>3 DEF TypeOK
  <2> QED BY <1>4, <2>1, <2>2, <2>3, <2>4, <2>5, <2>6, <2>7, CollectedSound
<1>7. CASE Succeed(r, request)
  <2>1. /\ Collected(r, request) /\ Finish(request, "succeeded")
        /\ UNCHANGED <<label, scope, queue, stop, exhausted, mine, faults>>
        /\ accepting' = [accepting EXCEPT ![r] = request] /\ pc' = [pc EXCEPT ![r] = "accept"]
    BY <1>7 DEF Succeed
  <2>2. /\ request \in Requests /\ request[1] \in Batches /\ request[1] \notin Queued(r)
        /\ \A s \in Runners \ {r} : flight'[s] = flight[s]
    BY <1>4, <2>1, FinishLemma
  <2>3. request # NoRequest
    BY <2>2 DEF NoRequest, Requests, Batches
  <2>4. /\ Queued(r)' = Queued(r) /\ queue' \in [Runners -> Seq(Batches)]
        /\ \A i, j \in DOMAIN queue'[r] : queue'[r][i] = queue'[r][j] => i = j
    BY <1>2, <2>1 DEF Queued, RunSound, TypeOK
  <2>5. /\ pc' \in [Runners -> {"off", "planned", "admit", "collect", "accept"}]
        /\ pc'[r] = "accept" /\ accepting'[r] = request
        /\ accepting' \in [Runners -> Requests \cup {NoRequest}]
        /\ \A s \in Runners \ {r} : SameRun(s)
    BY <1>2, <2>1, <2>2 DEF TypeOK, SameRun
  <2>6. /\ stop' \in [Runners -> BOOLEAN] /\ exhausted' \in [Runners -> Int]
        /\ exhausted'[r] = exhausted[r]
    BY <1>2, <2>1 DEF TypeOK
  <2> QED BY <1>4, <2>1, <2>2, <2>3, <2>4, <2>5, <2>6, CollectedSound
<1> QED BY <1>1, <1>5, <1>6, <1>7

LEMMA AcceptSound == ASSUME IInv, NEW r \in Runners, Accept(r) PROVE IInv'
<1>0. PICK b : b = accepting[r][1]
  OBVIOUS
<1>1. TypeOK /\ RunSound(r) /\ Answering(r)
  BY DEF IInv
<1>2. /\ pc[r] = "accept" /\ label[b] = Unlabelled
      /\ label' = [label EXCEPT ![b] = accepting[r][2]]
      /\ mine' = [mine EXCEPT ![r] = @ \cup {b}]
      /\ accepting' = [accepting EXCEPT ![r] = NoRequest]
      /\ Onward(r, done[r])
      /\ UNCHANGED <<attempts, scope, queue, flight, done, stop, exhausted, refused, faults>>
  BY <1>0 DEF Accept, Free, Answered
<1>3. /\ accepting[r] # NoRequest /\ accepting[r] \in Requests /\ b \in Batches
      /\ accepting[r][2] \in DOMAIN attempts[b] /\ attempts[b][accepting[r][2]] = "succeeded"
      /\ attempts[b] \in Seq(Statuses) /\ accepting[r][2] \in Nat \ {0}
  <2>1. accepting[r] # NoRequest /\ accepting[r] \in Requests
    BY <1>1, <1>2, RunTypes DEF RunSound
  <2>2. b \in Batches
    BY <1>0, <2>1 DEF Requests
  <2> QED BY <1>0, <1>1, <2>1, <2>2 DEF Answering, TypeOK
<1>4. /\ pc' \in [Runners -> {"off", "planned", "admit", "collect", "accept"}]
      /\ pc'[r] \in {"admit", "collect"} /\ accepting'[r] = NoRequest
      /\ mine'[r] = mine[r] \cup {b}
      /\ label'[b] = accepting[r][2] /\ \A c \in Batches \ {b} : label'[c] = label[c]
      /\ \A s \in Runners \ {r} : SameRun(s)
  BY <1>1, <1>2, <1>3 DEF TypeOK, SameRun, Onward
<1>5. /\ Queued(r)' = Queued(r) /\ Flying(r)' = Flying(r)
      /\ ToAccept(r) = {b} /\ ToAccept(r)' = {}
  BY <1>0, <1>2, <1>3, <1>4 DEF Queued, Flying, ToAccept
<1>6. b \in Held(r) /\ Held(r)' = Held(r) \ {b}
  BY <1>1, <1>5 DEF Held, RunSound
<1>7. TypeOK'
  <2>1. b \in scope[r]
    BY <1>1, <1>6 DEF RunSound
  <2>2. /\ label' \in [Batches -> Nat] /\ mine' \in [Runners -> SUBSET Batches]
        /\ accepting' \in [Runners -> Requests \cup {NoRequest}]
    BY <1>1, <1>2, <1>3 DEF TypeOK
  <2>3. \A c \in Batches : label'[c] \in {Unlabelled} \cup DOMAIN attempts[c]
    BY <1>1, <1>3, <1>4 DEF TypeOK
  <2>4. ASSUME NEW s \in Runners PROVE mine'[s] \subseteq scope[s]
    <3>1. mine[s] \subseteq scope[s] /\ (s # r => mine'[s] = mine[s])
      BY <1>1, <1>4 DEF TypeOK, SameRun
    <3> QED BY <1>4, <2>1, <3>1
  <2> QED BY <1>1, <1>2, <1>4, <2>2, <2>3, <2>4 DEF TypeOK
<1>8. RunSound(r)'
  <2>1. exhausted'[r] + Cardinality(Held(r)') <= Cardinality(scope[r])
    <3>1. /\ exhausted[r] \in Nat /\ IsFiniteSet(Held(r)) /\ Cardinality(Held(r)) \in Nat
          /\ Cardinality(scope[r]) \in Nat
          /\ exhausted[r] + Cardinality(Held(r)) <= Cardinality(scope[r])
      BY <1>1, RunTypes, Finite, AnnotationAssumption DEF RunSound, TypeOK
    <3>2. Cardinality(Held(r)') \in Nat /\ Cardinality(Held(r)') <= Cardinality(Held(r)) - 1
      BY <1>6, <3>1, Shrinks
    <3> QED BY <1>2, <3>1, <3>2
  <2>2. \A c \in mine'[r] : label'[c] # Unlabelled
    <3>1. accepting[r][2] # Unlabelled
      BY <1>3 DEF Unlabelled
    <3>2. \A c \in mine[r] : c \in Batches /\ label[c] # Unlabelled
      BY <1>1 DEF RunSound, TypeOK
    <3> QED BY <1>4, <3>1, <3>2
  <2>3. ASSUME exhausted'[r] = 0, NEW c \in scope[r]
        PROVE  c \in Held(r)' \/ label'[c] # Unlabelled
    <3>1. c \in Held(r) \/ label[c] # Unlabelled
      BY <1>1, <1>2, <2>3 DEF RunSound
    <3>2. c \in Batches /\ accepting[r][2] # Unlabelled
      BY <1>1, <1>3, RunTypes DEF Unlabelled
    <3> QED BY <1>2, <1>4, <1>6, <3>1, <3>2
  <2> QED BY <1>1, <1>2, <1>4, <1>5, <1>6, <2>1, <2>2, <2>3 DEF RunSound
<1>9. Answering(r)'
  BY <1>1, <1>2, <1>4 DEF Answering
<1>10. ASSUME NEW c \in Batches PROVE Spending(c)'
  <2>1. Holders(c)' \subseteq Runners /\ r \in Holders(c)' => r \in Holders(c)
    BY <1>2, <1>5 DEF Holders
  <2>2. Holders(c)' \subseteq Holders(c)
    BY <1>4, <2>1, HoldersElsewhere DEF Holders
  <2>3. Len(attempts'[c]) = Len(attempts[c]) /\ Len(attempts[c]) \in Nat
    BY <1>1, <1>2 DEF TypeOK
  <2> QED BY <2>2, <2>3, SpendingKept DEF IInv
<1> QED
  <2>1. \A c \in Batches :
           \/ label'[c] = label[c]
           \/ label[c] = Unlabelled /\ attempts'[c][label'[c]] = "succeeded"
    BY <1>2, <1>3, <1>4
  <2> QED BY <1>2, <1>4, <1>7, <1>8, <1>9, <1>10, <2>1, Assembled

\* A run that is refused was overtaken: it had not accepted the batch itself.
LEMMA OvertakenSound ==
    ASSUME IInv, NEW r \in Runners, Overtaken(r) \/ Outrun(r) PROVE IInv'
<1>1. TypeOK /\ RunSound(r) /\ ~refused /\ queue[r] \in Seq(Batches)
  BY RunTypes DEF IInv, RefusedOnlyWhenOvertaken
<1>2. /\ Leave(r) /\ UNCHANGED <<store, faults>>
  BY DEF Overtaken, Outrun
<1>3. refused' = refused
  <2>1. CASE Overtaken(r)
    <3>1. queue[r] # <<>> /\ Refuse(Head(queue[r]) \notin mine[r])
      BY <2>1 DEF Overtaken, Admissible
    <3>2. \A i, j \in DOMAIN queue[r] : queue[r][i] = queue[r][j] => i = j
      BY <1>1 DEF RunSound
    <3>3. Head(queue[r]) \in {queue[r][i] : i \in DOMAIN queue[r]}
      BY <1>1, <3>1, <3>2, TailLemma
    <3>4. Head(queue[r]) \in Held(r)
      BY <3>3 DEF Held, Queued
    <3>5. Head(queue[r]) \notin mine[r]
      BY <1>1, <3>4 DEF RunSound
    <3> QED BY <1>1, <3>1, <3>5 DEF Refuse, TypeOK
  <2>2. CASE Outrun(r)
    <3>1. pc[r] = "accept" /\ Refuse(accepting[r][1] \notin mine[r])
      BY <2>2 DEF Outrun
    <3>2. accepting[r][1] \in Held(r)
      BY <1>1, <3>1 DEF RunSound, Held, ToAccept
    <3>3. accepting[r][1] \notin mine[r]
      BY <1>1, <3>2 DEF RunSound
    <3> QED BY <1>1, <3>1, <3>3 DEF Refuse, TypeOK
  <2> QED BY <2>1, <2>2
<1> QED BY <1>1, <1>2, <1>3, LeaveSound DEF TypeOK

LEMMA EndSound == ASSUME IInv, NEW r \in Runners, Return(r) \/ Crash(r) PROVE IInv'
<1>1. Leave(r) /\ UNCHANGED <<store, refused>>
  BY DEF Return, Crash
<1>2. faults' \in 0..MaxFaults
  <2>1. faults \in 0..MaxFaults
    BY DEF IInv, TypeOK
  <2> QED BY <2>1, AnnotationAssumption DEF Return, Crash
<1> QED BY <1>1, <1>2, LeaveSound

LEMMA QuietSound == ASSUME IInv, UNCHANGED vars PROVE IInv'
<1>1. UNCHANGED <<attempts, label, pc, scope, queue, flight, done, accepting, stop, exhausted,
                  mine, refused, faults>>
  BY DEF vars, store, run
<1>2. TypeOK' /\ RefusedOnlyWhenOvertaken' /\ LabelsAreEarned' /\ Disjoint'
  BY <1>1 DEF IInv, TypeOK, RefusedOnlyWhenOvertaken, LabelsAreEarned, Disjoint
<1>3. ASSUME NEW r \in Runners PROVE RunSound(r)' /\ Answering(r)'
  <2>1. SameRun(r)
    BY <1>1 DEF SameRun
  <2>2. scope[r] \subseteq Batches /\ mine[r] \subseteq Batches
    BY DEF IInv, TypeOK
  <2> QED BY <1>1, <2>1, <2>2, RunKept, AnswersKept DEF IInv
<1>4. ASSUME NEW b \in Batches PROVE Spending(b)'
  <2>1. Holders(b)' = Holders(b) /\ Len(attempts[b]) \in Nat
    BY <1>1 DEF Holders, Queued, IInv, TypeOK
  <2> QED BY <1>1, <2>1, SpendingKept DEF IInv
<1> QED BY <1>2, <1>3, <1>4 DEF IInv

------------------------------------------------------------------------------
(* The theorems.                                                                *)

LEMMA InitSound == Init => IInv
<1> SUFFICES ASSUME Init PROVE IInv
  OBVIOUS
<1>1. PICK none \in Seq(Batches) : none = <<>> /\ none \in Seq(Statuses) /\ none \in Seq({})
  BY EmptySeq
<1>2. DOMAIN none = {} /\ Len(none) = 0 /\ Cardinality({}) = 0
  BY <1>1, FS_EmptySet
<1>3. \A r \in Runners :
         /\ pc[r] = "off" /\ scope[r] = {} /\ queue[r] = none /\ flight[r] = {} /\ done[r] = {}
         /\ accepting[r] = NoRequest /\ exhausted[r] = 0 /\ mine[r] = {}
  BY <1>1 DEF Init, Idle
<1>4. \A b \in Batches : attempts[b] = none /\ label[b] = Unlabelled
  BY <1>1 DEF Init
<1>5. TypeOK
  <2>1. attempts \in [Batches -> Seq(Statuses)] /\ label \in [Batches -> Nat]
    <3>1. attempts = [b \in Batches |-> none]
      BY <1>1 DEF Init
    <3>2. label \in [Batches -> Nat]
      BY DEF Init, Unlabelled
    <3> QED BY <1>1, <3>1, <3>2
  <2>2. queue \in [Runners -> Seq(Batches)]
    <3>1. queue = [r \in Runners |-> none]
      BY <1>1 DEF Init, Idle
    <3> QED BY <1>1, <3>1
  <2>3. /\ pc \in [Runners -> {"off", "planned", "admit", "collect", "accept"}]
        /\ scope \in [Runners -> SUBSET Batches] /\ flight \in [Runners -> SUBSET Requests]
        /\ done \in [Runners -> SUBSET Requests]
        /\ accepting \in [Runners -> Requests \cup {NoRequest}]
        /\ stop \in [Runners -> BOOLEAN] /\ mine \in [Runners -> SUBSET Batches]
    BY DEF Init, Idle
  <2>4. exhausted \in [Runners -> 0..NumBatches] /\ refused \in BOOLEAN /\ faults \in 0..MaxFaults
    <3>1. 0 \in 0..NumBatches /\ 0 \in 0..MaxFaults
      BY AnnotationAssumption
    <3> QED BY <3>1 DEF Init, Idle
  <2>5. \A r \in Runners :
          /\ queue[r] \in Seq(scope[r]) /\ mine[r] \subseteq scope[r]
          /\ done[r] \subseteq flight[r] /\ Cardinality(flight[r]) <= Workers
    <3>1. 0 <= Workers
      BY AnnotationAssumption
    <3> QED BY <1>1, <1>2, <1>3, <3>1
  <2>6. \A b \in Batches : label[b] \in {Unlabelled} \cup DOMAIN attempts[b]
    BY <1>4
  <2> QED BY <2>1, <2>2, <2>3, <2>4, <2>5, <2>6 DEF TypeOK
<1>6. RefusedOnlyWhenOvertaken /\ LabelsAreEarned /\ Disjoint
  BY <1>3, <1>4 DEF Init, RefusedOnlyWhenOvertaken, LabelsAreEarned, Disjoint
<1>7. ASSUME NEW r \in Runners PROVE RunSound(r) /\ Answering(r)
  <2>1. Queued(r) = {} /\ Flying(r) = {} /\ ToAccept(r) = {}
    BY <1>2, <1>3 DEF Queued, Flying, ToAccept
  <2>2. Held(r) = {}
    BY <2>1 DEF Held
  <2>3. \A i, j \in DOMAIN queue[r] : queue[r][i] = queue[r][j] => i = j
    BY <1>2, <1>3
  <2>4. Cardinality(Held(r)) = 0 /\ Cardinality(scope[r]) = 0
    BY <1>2, <1>3, <2>2
  <2>5. RunSound(r)
    BY <1>3, <2>1, <2>2, <2>3, <2>4 DEF RunSound
  <2> QED BY <1>3, <2>5 DEF Answering
<1>8. ASSUME NEW b \in Batches PROVE Spending(b)
  BY <1>2, <1>4, AnnotationAssumption DEF Spending
<1> QED BY <1>5, <1>6, <1>7, <1>8 DEF IInv

LEMMA NextSound == IInv /\ [Next]_vars => IInv'
<1> SUFFICES ASSUME IInv, [Next]_vars PROVE IInv'
  OBVIOUS
<1>1. ASSUME NEW r \in Runners, Step(r) PROVE IInv'
  BY <1>1, EnterSound, StartSound, OvertakenSound, WaitSound, CollectSound, AcceptSound,
     EndSound DEF Step
<1>2. ASSUME NEW r \in Runners, Crash(r) PROVE IInv'
  BY <1>2, EndSound
<1>3. ASSUME NEW r \in Runners, NEW name \in {"pilot", "rest", "all"}, PlanPhase(r, name)
      PROVE  IInv'
  <2>1. PICK S \in Limited(Phase(name) \cap Pending) : Plan(r, S)
    BY <1>3 DEF PlanPhase
  <2>2. S \in SUBSET Batches
    BY <2>1 DEF Limited, Pending
  <2> QED BY <2>1, <2>2, PlanSound
<1>4. CASE UNCHANGED vars
  BY <1>4, QuietSound
<1> QED BY <1>1, <1>2, <1>3, <1>4 DEF Next

LEMMA InvariantHolds == Spec => []IInv
BY InitSound, NextSound, PTL DEF Spec

LEMMA InvariantSuffices == IInv => AnnotationIsSound
<1> SUFFICES ASSUME IInv PROVE AnnotationIsSound
  OBVIOUS
<1>1. TypeOK
  BY DEF IInv
<1>2. AttemptsBounded
  <2>1. ASSUME NEW b \in Batches
        PROVE  Len(attempts[b]) <= MaxAttempts + Cardinality(Runners) - 1
    <3>1. /\ Len(attempts[b]) \in Nat /\ Cardinality(Runners) \in Nat
          /\ Cardinality(Holders(b)) \in Nat
      BY <1>1, Finite DEF TypeOK, Holders
    <3>2. CASE Len(attempts[b]) >= MaxAttempts
      BY <3>1, <3>2, AnnotationAssumption DEF IInv, Spending
    <3>3. CASE ~(Len(attempts[b]) >= MaxAttempts)
      BY <3>1, <3>3, AnnotationAssumption
    <3> QED BY <3>2, <3>3
  <2> QED BY <2>1 DEF AttemptsBounded
<1>3. OneRequestPerBatch
  <2>1. ASSUME NEW r \in Runners
        PROVE  /\ \A x, y \in flight[r] : x[1] = y[1] => x = y
               /\ \A s \in Runners \ {r} : flight[r] \cap flight[s] = {}
               /\ \A x \in flight[r] : /\ attempts[x[1]][x[2]] = "started"
                                       /\ \A i \in DOMAIN queue[r] : queue[r][i] # x[1]
    <3>1. RunSound(r) /\ Answering(r) /\ Disjoint
      BY DEF IInv
    <3>2. \A x \in flight[r] : x[1] \notin Queued(r)
      BY <3>1 DEF RunSound, Flying
    <3> QED BY <3>1, <3>2 DEF RunSound, Answering, Disjoint, Queued
  <2> QED BY <2>1 DEF OneRequestPerBatch
<1>4. SuccessIsComplete
  <2>1. ASSUME NEW r \in Runners, Success(r), NEW b \in scope[r] PROVE label[b] # Unlabelled
    <3>1. pc[r] = "admit" /\ queue[r] = <<>> /\ flight[r] = {} /\ exhausted[r] = 0
      BY <2>1 DEF Success, Emptied
    <3>2. RunSound(r)
      BY DEF IInv
    <3>3. accepting[r] = NoRequest
      BY <3>1, <3>2 DEF RunSound
    <3>4. Held(r) = {}
      <4>1. Queued(r) = {}
        BY <3>1 DEF Queued
      <4> QED BY <3>1, <3>3, <4>1 DEF Held, Flying, ToAccept
    <3> QED BY <3>1, <3>2, <3>4 DEF RunSound
  <2> QED BY <2>1 DEF SuccessIsComplete
<1> QED BY <1>1, <1>2, <1>3, <1>4 DEF IInv, AnnotationIsSound

\* For any number of runs on one store, with any crashes: a run is refused only what
\* another run was first to take, accepted labels are those of a successful attempt,
\* a batch is sent at most MaxAttempts times and once more for each further run, and
\* a run that reports success labelled its scope.
THEOREM AnnotationStaysSound == Spec => []AnnotationIsSound
BY InvariantHolds, InvariantSuffices, PTL

\* What a step of one run leaves of a labelled batch.
LabelKept(b) ==
    label[b] # Unlabelled => label'[b] = label[b] /\ Len(attempts'[b]) = Len(attempts[b])

LEMMA LabelsKept ==
    ASSUME IInv, [Next]_vars PROVE \A b \in Batches : LabelKept(b)
<1>1. TypeOK
  BY DEF IInv
<1>2. CASE UNCHANGED store
  BY <1>2 DEF store, LabelKept
<1>3. ASSUME NEW r \in Runners, Start(r) PROVE \A b \in Batches : LabelKept(b)
  <2>1. PICK c : c = Head(queue[r])
    OBVIOUS
  <2>2. /\ label[c] = Unlabelled /\ label' = label
        /\ attempts' = [attempts EXCEPT ![c] = Append(@, "started")]
    BY <1>3, <2>1 DEF Start
  <2> QED BY <1>1, <2>2 DEF TypeOK, LabelKept
<1>4. ASSUME NEW r \in Runners, Collect(r) PROVE \A b \in Batches : LabelKept(b)
  <2>1. PICK request \in done[r], status \in Statuses :
           Collected(r, request) /\ Finish(request, status) /\ label' = label
    <3>1. PICK request \in done[r] :
             FailRetryably(r, request) \/ FailPermanently(r, request) \/ Succeed(r, request)
      BY <1>4 DEF Collect
    <3>2. /\ "failed" \in Statuses /\ "succeeded" \in Statuses
          /\ Collected(r, request) /\ label' = label
          /\ Finish(request, "failed") \/ Finish(request, "succeeded")
      BY <3>1 DEF FailRetryably, FailPermanently, Succeed, Statuses
    <3> QED BY <3>2
  <2>2. \A b \in Batches : Len(attempts'[b]) = Len(attempts[b])
    BY <2>1, FinishLemma
  <2> QED BY <2>1, <2>2 DEF LabelKept
<1>5. ASSUME NEW r \in Runners, Accept(r) PROVE \A b \in Batches : LabelKept(b)
  <2>1. PICK c, k : c = accepting[r][1] /\ k = Answered(r)
    OBVIOUS
  <2>2. /\ label[c] = Unlabelled /\ label' = [label EXCEPT ![c] = k] /\ attempts' = attempts
    BY <1>5, <2>1 DEF Accept, Free
  <2> QED BY <1>1, <2>2 DEF TypeOK, LabelKept
<1>6. ASSUME NEW r \in Runners, Step(r) PROVE \A b \in Batches : LabelKept(b)
  BY <1>2, <1>3, <1>4, <1>5, <1>6 DEF Step, Enter, Overtaken, Wait, Outrun, Return
<1>7. ASSUME NEW r \in Runners, Crash(r) \/ \E name \in {"pilot", "rest", "all"} : PlanPhase(r, name)
      PROVE  \A b \in Batches : LabelKept(b)
  BY <1>2, <1>7 DEF Crash, PlanPhase, Plan
<1>8. CASE UNCHANGED vars
  BY <1>2, <1>8 DEF vars
<1> QED BY <1>6, <1>7, <1>8 DEF Next

\* Accepted labels are never replaced, by whatever run, and no further attempt of
\* the batch is started: a run that finds it labelled is refused.
THEOREM LabelsStayFinal == Spec => LabelsAreFinal
<1>1. ASSUME IInv, [Next]_vars
      PROVE  [\A b \in Batches : label[b] # Unlabelled =>
                 label'[b] = label[b] /\ Len(attempts'[b]) = Len(attempts[b])]_vars
  BY <1>1, LabelsKept DEF LabelKept
<1> QED BY <1>1, InvariantHolds, PTL DEF Spec, LabelsAreFinal
=============================================================================
