---------------------------- MODULE SamplingProofs ----------------------------
(* Theorems about DurableSampling for any group of samples, any budget, and any    *)
(* number of sessions, crashes, stops and renewals; and about SamplingRuntime for  *)
(* any questions, branches, pool sizes and samples.                              *)
EXTENDS DurableSampling, SamplingRuntime, SequenceTheorems, FiniteSetTheorems, TLAPS

------------------------------------------------------------------------------
(* The inductive invariant, one sample at a time, on the values it speaks of.    *)

\* The log of a sample: st, its attempts; pr, its latest outcome; ren, where its latest
\* renewal stands.  The outcome covers a prefix of the attempts, none of them still
\* open; what comes after was cut short, or is about to be; nothing follows a success,
\* and of a fatal answer nothing but the first attempt of a renewed allowance.
LogSound(st, pr, ren) ==
    LET n == Len(pr.attempts)
    IN /\ n <= Len(st) /\ ren <= Len(st)
       /\ \A k \in 1..n : pr.attempts[k] = st[k] /\ st[k] # "started"
       /\ \A k \in (n + 1)..Len(st) : st[k] \in {"started", "uncertain"}
       /\ n = 0 => ~pr.succeeded /\ ~pr.fatal
       /\ n > 0 => /\ pr.succeeded <=> st[n] = "succeeded"
                   /\ pr.fatal <=> st[n] = "fatal"
       /\ pr.succeeded => n = Len(st)
       /\ pr.fatal => n = Len(st) \/ Len(st) <= ren + 1

\* The reasons a fatal outcome ends the current allowance.
Excused(st, pr, ren) ==
    \/ st[Len(st)] = "fatal" /\ Len(st) > ren
    \/ st[Len(st)] = "uncertain" /\ Len(st) = ren + 1 /\ pr.fatal

\* o tells the first k attempts of st, and none of them is open.
Tells(o, st, n) == \A k \in 1..n : o.attempts[k] = st[k] /\ st[k] # "started"

\* A leaf between attempts knows the whole log.
BetweenAttempts(t, st, pr, ren) ==
    /\ t.outcome.attempts = st /\ \A k \in 1..Len(st) : st[k] # "started"
    /\ t.outcome.succeeded = pr.succeeded
    /\ t.outcome.fatal => Excused(st, pr, ren)
    /\ pr.fatal => t.outcome.fatal \/ Len(st) = ren

\* A leaf with an attempt open knows what is before it; the attempt is the last one.
InAttempt(t, st, pr, ren) ==
    /\ Len(st) = Len(t.outcome.attempts) + 1 /\ st[Len(st)] = "started"
    /\ Tells(t.outcome, st, Len(st) - 1)
    /\ ~pr.succeeded /\ ren < Len(st)

\* ... and once it is answered, how it ends.
AfterAnswer(t, st, pr, ren) ==
    /\ Len(st) = Len(t.outcome.attempts) /\ Len(st) > 0 /\ st[Len(st)] = "started"
    /\ Tells(t.outcome, st, Len(st) - 1)
    /\ t.outcome.attempts[Len(st)] \in Answers
    /\ t.outcome.succeeded <=> t.outcome.attempts[Len(st)] = "succeeded"
    /\ t.outcome.fatal <=> t.outcome.attempts[Len(st)] = "fatal"
    /\ ~pr.succeeded /\ ren < Len(st)

\* n counts the requests that left.
LeafSound(t, st, pr, lim, ren, n) ==
    /\ n <= Len(st)
    /\ t.pc \in {"loop", "request", "sent", "answered", "done"} => t.limit = lim
    /\ t.pc \in {"loop", "done"} => BetweenAttempts(t, st, pr, ren)
    /\ t.pc \in {"request", "sent"} => InAttempt(t, st, pr, ren)
    /\ t.pc = "request" => n < Len(st)
    /\ t.pc \in {"sent", "answered"} => n > 0
    /\ t.pc = "answered" => AfterAnswer(t, st, pr, ren)

SampleSound(s) ==
    /\ LogSound(starts[s], prior[s], renewedAt[s])
    /\ LeafSound(thread[s], starts[s], prior[s], limit[s], renewedAt[s], sent[s])

IInv ==
    /\ TypeOK
    /\ ~poisoned
    /\ session # "open" => \A s \in Samples : thread[s] = Idle
    /\ \A s \in Samples : SampleSound(s)

LeafStates == [pc : PCs, outcome : Outcomes, limit : Nat]

------------------------------------------------------------------------------
(* Frames.                                                                      *)

\* What the invariant says of one sample.
LEMMA OneSample ==
    ASSUME IInv, NEW s \in Samples
    PROVE  /\ starts[s] \in Seq(Endings) /\ prior[s] \in Outcomes /\ thread[s] \in LeafStates
           /\ limit[s] \in Nat /\ renewedAt[s] \in Nat \cup {-1} /\ sent[s] \in Nat
           /\ LogSound(starts[s], prior[s], renewedAt[s])
           /\ LeafSound(thread[s], starts[s], prior[s], limit[s], renewedAt[s], sent[s])
           /\ poisoned = FALSE /\ stop \in BOOLEAN
  BY DEF IInv, TypeOK, SampleSound, LeafStates

\* A step of leaf s leaves it these values.
Writes(s, st, pr, t, n) ==
    /\ starts' = [starts EXCEPT ![s] = st] /\ prior' = [prior EXCEPT ![s] = pr]
    /\ thread' = [thread EXCEPT ![s] = t] /\ sent' = [sent EXCEPT ![s] = n]
    /\ UNCHANGED <<limit, renewedAt, committed, session, faults, renewals>>

Sound(t, st, pr, lim, ren, n) ==
    LogSound(st, pr, ren) /\ LeafSound(t, st, pr, lim, ren, n)

\* A step of one leaf.
LEMMA LeafStep ==
    ASSUME IInv, NEW s \in Samples, thread[s].pc # "idle",
           NEW st \in Seq(Endings), NEW pr \in Outcomes, NEW t \in LeafStates, NEW n \in Nat,
           Writes(s, st, pr, t, n), Sound(t, st, pr, limit[s], renewedAt[s], n),
           stop' \in BOOLEAN, poisoned' = FALSE
    PROVE  IInv'
<1>1. TypeOK'
  BY DEF IInv, TypeOK, LeafStates, Writes
<1>2. /\ starts'[s] = st /\ prior'[s] = pr /\ thread'[s] = t /\ sent'[s] = n
      /\ UNCHANGED <<limit, renewedAt, session>>
      /\ \A r \in Samples \ {s} : /\ starts'[r] = starts[r] /\ prior'[r] = prior[r]
                                  /\ thread'[r] = thread[r] /\ sent'[r] = sent[r]
  BY DEF IInv, TypeOK, Writes
<1>3. ASSUME NEW r \in Samples PROVE SampleSound(r)'
  <2>1. CASE r = s
    BY <1>2, <2>1 DEF SampleSound, Sound
  <2>2. CASE r # s
    <3>1. SampleSound(r)
      BY DEF IInv
    <3> QED BY <1>2, <2>2, <3>1 DEF SampleSound
  <2> QED BY <2>1, <2>2
<1>4. session' = "open"
  BY <1>2 DEF IInv, Idle
<1> QED BY <1>1, <1>3, <1>4 DEF IInv

\* What a leaf leaves alone, written back.
LEMMA Unwritten ==
    ASSUME IInv, NEW s \in Samples
    PROVE  /\ starts' = starts => starts' = [starts EXCEPT ![s] = starts[s]]
           /\ prior' = prior => prior' = [prior EXCEPT ![s] = prior[s]]
           /\ sent' = sent => sent' = [sent EXCEPT ![s] = sent[s]]
  BY DEF IInv, TypeOK

\* A renewal counts from what the log holds.
LEMMA Renewed ==
    ASSUME NEW st, NEW pr, NEW ren, NEW ren1, LogSound(st, pr, ren), Len(st) \in Nat,
           ren1 = ren \/ ren1 = Len(st)
    PROVE  LogSound(st, pr, ren1)
<1>1. CASE ren1 = ren
  BY <1>1
<1>2. CASE ren1 = Len(st)
  BY <1>2 DEF LogSound
<1> QED BY <1>1, <1>2

\* Steps that give every sample an idle leaf, or one that has not begun.
LEMMA RestingStep ==
    ASSUME IInv, NEW pc \in {"idle", "queued", "paused"},
           thread' = [s \in Samples |-> [Idle EXCEPT !.pc = pc]],
           UNCHANGED <<starts, prior, sent, poisoned>>,
           limit' \in [Samples -> Nat], renewedAt' \in [Samples -> Nat \cup {-1}],
           \A s \in Samples : renewedAt'[s] \in {renewedAt[s], Len(starts[s])},
           session' \in {"closed", "binding", "open"}, session' # "open" => pc = "idle",
           stop' \in BOOLEAN, committed' \in BOOLEAN, faults' \in 0..MaxFaults,
           renewals' \in 0..MaxRenewals
    PROVE  IInv'
<1>1. PICK none \in Seq(Endings) : none = <<>>
  BY EmptySeq
<1>2. PICK t : t = [Idle EXCEPT !.pc = pc]
  OBVIOUS
<1>3. Fresh \in Outcomes
  BY <1>1 DEF Fresh, Outcomes
<1>4. t \in LeafStates /\ t.pc = pc
  BY <1>2, <1>3 DEF Idle, LeafStates, PCs
<1>5. \A s \in Samples : thread'[s] = t
  BY <1>2
<1>6. TypeOK'
  <2>1. thread' \in [Samples -> LeafStates]
    BY <1>2, <1>4
  <2> QED BY <2>1 DEF IInv, TypeOK, LeafStates
<1>7. ASSUME NEW s \in Samples PROVE SampleSound(s)'
  <2>1. LogSound(starts[s], prior[s], renewedAt'[s])
    <3>1. LogSound(starts[s], prior[s], renewedAt[s]) /\ Len(starts[s]) \in Nat
      BY DEF IInv, TypeOK, SampleSound
    <3>2. renewedAt'[s] = renewedAt[s] \/ renewedAt'[s] = Len(starts[s])
      OBVIOUS
    <3> QED BY <3>1, <3>2, Renewed
  <2>2. sent[s] <= Len(starts[s])
    BY DEF IInv, SampleSound, LeafSound
  <2>3. LeafSound(t, starts[s], prior[s], limit'[s], renewedAt'[s], sent[s])
    BY <1>4, <2>2 DEF LeafSound
  <2> QED BY <1>5, <2>1, <2>3 DEF SampleSound
<1>8. pc = "idle" => \A s \in Samples : thread'[s] = Idle
  BY <1>2, <1>5 DEF Idle
<1> QED BY <1>6, <1>7, <1>8 DEF IInv

------------------------------------------------------------------------------
(* What a step of a leaf makes of its sample's values.                          *)

\* The values of one sample, as the invariant has them.
Values(t, st, pr, lim, ren, n) ==
    /\ st \in Seq(Endings) /\ pr \in Outcomes /\ t \in LeafStates /\ lim \in Nat
    /\ ren \in Nat \cup {-1} /\ n \in Nat
    /\ Sound(t, st, pr, lim, ren, n)

LEMMA SampleValues ==
    ASSUME IInv, NEW s \in Samples
    PROVE  Values(thread[s], starts[s], prior[s], limit[s], renewedAt[s], sent[s])
  BY OneSample DEF Values, Sound

LEMMA StartValues ==
    ASSUME NEW t, NEW st, NEW pr, NEW lim, NEW ren, NEW n, Values(t, st, pr, lim, ren, n),
           t.pc = "loop", ~Spent(t),
           NEW st1, st1 = Append(st, "started"), NEW t1, t1 = [t EXCEPT !.pc = "request"]
    PROVE  /\ Len(t.outcome.attempts) + 1 = Len(st) + 1 /\ Len(st) + 1 <= lim /\ ~pr.succeeded
           /\ st1 \in Seq(Endings) /\ t1 \in LeafStates
           /\ Sound(t1, st1, pr, lim, ren, n)
<1>1. /\ st \in Seq(Endings) /\ pr \in Outcomes /\ t \in LeafStates /\ lim \in Nat
      /\ ren \in Nat \cup {-1} /\ n \in Nat
      /\ LogSound(st, pr, ren) /\ LeafSound(t, st, pr, lim, ren, n)
  BY DEF Values, Sound
<1>2. /\ t.outcome.attempts = st /\ \A k \in 1..Len(st) : st[k] # "started"
      /\ t.limit = lim /\ n <= Len(st) /\ Len(st) \in Nat /\ ~pr.succeeded /\ Len(st) < lim
  BY <1>1 DEF LeafSound, BetweenAttempts, Spent
<1>3. /\ st1 \in Seq(Endings) /\ Len(st1) = Len(st) + 1 /\ st1[Len(st) + 1] = "started"
      /\ \A k \in 1..Len(st) : st1[k] = st[k]
  BY <1>1, AppendProperties DEF Endings
<1>4. /\ t1 \in LeafStates /\ t1.pc = "request" /\ t1.outcome = t.outcome /\ t1.limit = lim
  BY <1>1, <1>2 DEF LeafStates, PCs
<1>5. LogSound(st1, pr, ren)
  <2>1. PICK m \in Nat : m = Len(pr.attempts)
    <3>1. pr.attempts \in Seq(Endings)
      BY <1>1 DEF Outcomes
    <3>2. Len(pr.attempts) \in Nat
      BY <3>1
    <3> QED BY <3>2
  <2>2. m <= Len(st) /\ ren <= Len(st)
    BY <1>1, <2>1 DEF LogSound
  <2>3. m <= Len(st1) /\ ren <= Len(st1)
    BY <1>1, <1>2, <1>3, <2>2
  <2>4. \A k \in 1..m : pr.attempts[k] = st1[k] /\ st1[k] # "started"
    <3>1. \A k \in 1..m : pr.attempts[k] = st[k] /\ st[k] # "started"
      BY <1>1, <2>1 DEF LogSound
    <3>2. \A k \in 1..m : k \in 1..Len(st)
      BY <1>2, <2>2
    <3> QED BY <1>3, <3>1, <3>2
  <2>5. ASSUME NEW k \in (m + 1)..Len(st1) PROVE st1[k] \in {"started", "uncertain"}
    <3>1. CASE k = Len(st) + 1
      BY <1>3, <3>1
    <3>2. CASE k # Len(st) + 1
      <4>1. k \in (m + 1)..Len(st) /\ k \in 1..Len(st)
        BY <1>2, <1>3, <2>2, <3>2
      <4>2. st[k] \in {"started", "uncertain"}
        BY <1>1, <2>1, <4>1 DEF LogSound
      <4> QED BY <1>3, <4>1, <4>2
    <3> QED BY <3>1, <3>2
  <2>6. m = 0 => ~pr.succeeded /\ ~pr.fatal
    BY <1>1, <2>1 DEF LogSound
  <2>7. m > 0 => (pr.succeeded <=> st1[m] = "succeeded") /\ (pr.fatal <=> st1[m] = "fatal")
    <3>1. m > 0 => (pr.succeeded <=> st[m] = "succeeded") /\ (pr.fatal <=> st[m] = "fatal")
      BY <1>1, <2>1 DEF LogSound
    <3>2. m > 0 => st1[m] = st[m]
      BY <1>2, <1>3, <2>2
    <3> QED BY <3>1, <3>2
  <2>8. pr.fatal => Len(st1) <= ren + 1
    <3>1. pr.fatal => Len(st) = ren
      BY <1>1 DEF LeafSound, BetweenAttempts, Spent
    <3> QED BY <1>2, <1>3, <3>1
  <2> QED BY <1>2, <2>1, <2>3, <2>4, <2>5, <2>6, <2>7, <2>8 DEF LogSound
<1>6. LeafSound(t1, st1, pr, lim, ren, n)
  <2>1. Tells(t1.outcome, st1, Len(st1) - 1)
    BY <1>2, <1>3, <1>4 DEF Tells
  <2>2. ren <= Len(st)
    BY <1>1 DEF LogSound
  <2>3. InAttempt(t1, st1, pr, ren)
    BY <1>1, <1>2, <1>3, <1>4, <2>1, <2>2 DEF InAttempt
  <2> QED BY <1>1, <1>2, <1>3, <1>4, <2>3 DEF LeafSound
<1> QED BY <1>1, <1>2, <1>3, <1>4, <1>5, <1>6 DEF Sound

LEMMA SameRange ==
    ASSUME NEW a \in Nat, NEW b \in Nat, 1..a = 1..b PROVE a = b
<1>1. ASSUME NEW c \in Nat, NEW d \in Nat, 1..c = 1..d PROVE d <= c
  <2>1. CASE d = 0
    BY <2>1
  <2>2. CASE d > 0
    <3>1. d \in 1..d
      BY <2>2
    <3>2. d \in 1..c
      BY <1>1, <3>1
    <3> QED BY <3>2
  <2> QED BY <2>1, <2>2
<1>2. a <= b /\ b <= a
  BY <1>1
<1> QED BY <1>2

\* What restoring makes of a log and of its outcome.
RestoredLog(st, pr) ==
    [k \in DOMAIN st |->
        IF st[k] \in {"started", "uncertain"} /\ ~pr.succeeded THEN "uncertain" ELSE st[k]]

Lost(st, pr) == [k \in 1..(Len(st) - Len(pr.attempts)) |-> "uncertain"]

RestoredOutcome(st, pr, ren) ==
    IF pr.succeeded THEN pr
    ELSE [pr EXCEPT !.attempts = pr.attempts \o Lost(st, pr),
                    !.fatal = @ /\ Len(pr.attempts \o Lost(st, pr)) # ren]

LEMMA RestoreValues ==
    ASSUME NEW t, NEW st, NEW pr, NEW lim, NEW ren, NEW n, Values(t, st, pr, lim, ren, n),
           NEW st1, st1 = RestoredLog(st, pr), NEW o, o = RestoredOutcome(st, pr, ren),
           NEW t1, t1 = [pc |-> "loop", outcome |-> o, limit |-> lim]
    PROVE  /\ st1 \in Seq(Endings) /\ t1 \in LeafStates /\ Len(st1) = Len(st)
           /\ Sound(t1, st1, pr, lim, ren, n)
<1> PICK lost : lost = Lost(st, pr)
  OBVIOUS
<1>1. /\ st \in Seq(Endings) /\ pr \in Outcomes /\ t \in LeafStates /\ lim \in Nat
      /\ ren \in Nat \cup {-1} /\ n \in Nat
      /\ LogSound(st, pr, ren) /\ LeafSound(t, st, pr, lim, ren, n)
  BY DEF Values, Sound
<1>2. PICK len \in Nat : len = Len(st)
  BY <1>1
<1>3. PICK m \in Nat : m = Len(pr.attempts)
  BY <1>1 DEF Outcomes
<1>4. /\ m <= len /\ ren <= len
      /\ \A k \in 1..m : pr.attempts[k] = st[k] /\ st[k] # "started"
      /\ \A k \in (m + 1)..len : st[k] \in {"started", "uncertain"}
      /\ m = 0 => ~pr.succeeded /\ ~pr.fatal
      /\ m > 0 => (pr.succeeded <=> st[m] = "succeeded") /\ (pr.fatal <=> st[m] = "fatal")
      /\ pr.succeeded => m = len
      /\ pr.fatal => m = len \/ len <= ren + 1
  BY <1>1, <1>2, <1>3 DEF LogSound
<1>5. DOMAIN st = 1..len /\ \A k \in 1..len : st[k] \in Endings
  BY <1>1, <1>2
<1>6. st1 \in Seq(Endings) /\ Len(st1) = len
  <2>1. \A k \in 1..len : (IF st[k] \in {"started", "uncertain"} /\ ~pr.succeeded
                           THEN "uncertain" ELSE st[k]) \in Endings
    BY <1>5 DEF Endings
  <2>2. st1 \in [1..len -> Endings]
    BY <1>5, <2>1 DEF RestoredLog
  <2> QED BY <1>2, <2>2
<1>7. \A k \in 1..len : st1[k] = IF st[k] \in {"started", "uncertain"} /\ ~pr.succeeded
                                 THEN "uncertain" ELSE st[k]
  BY <1>5 DEF RestoredLog
<1>8. \A k \in 1..m : st1[k] = st[k]
  <2>1. ASSUME NEW k \in 1..m PROVE st1[k] = st[k]
    <3>1. k \in 1..len
      BY <1>4
    <3>2. st1[k] = st[k] \/ (st1[k] = "uncertain" /\ st[k] \in {"started", "uncertain"})
      BY <1>7, <3>1
    <3>3. st[k] # "started"
      BY <1>4
    <3> QED BY <3>2, <3>3
  <2> QED BY <2>1
<1>9. ~pr.succeeded => \A k \in (m + 1)..len : st1[k] = "uncertain"
  <2>1. \A k \in (m + 1)..len : k \in 1..len
    OBVIOUS
  <2> QED BY <1>4, <1>7, <2>1
<1>10. \A k \in 1..len : st1[k] # "started"
  <2>1. CASE pr.succeeded
    BY <1>4, <1>8, <2>1
  <2>2. CASE ~pr.succeeded
    BY <1>7, <2>2
  <2> QED BY <2>1, <2>2
<1>11. LogSound(st1, pr, ren)
  <2>1. \A k \in 1..m : pr.attempts[k] = st1[k] /\ st1[k] # "started"
    BY <1>4, <1>8
  <2>2. \A k \in (m + 1)..len : st1[k] \in {"started", "uncertain"}
    <3>1. CASE pr.succeeded
      BY <1>4, <3>1
    <3>2. CASE ~pr.succeeded
      BY <1>9, <3>2
    <3> QED BY <3>1, <3>2
  <2>3. m > 0 => (pr.succeeded <=> st1[m] = "succeeded") /\ (pr.fatal <=> st1[m] = "fatal")
    <3>1. ASSUME m > 0 PROVE st1[m] = st[m]
      <4>1. m \in 1..m
        BY <3>1
      <4> QED BY <1>8, <4>1
    <3> QED BY <1>4, <3>1
  <2> QED BY <1>3, <1>4, <1>6, <2>1, <2>2, <2>3 DEF LogSound
<1>12. /\ o \in Outcomes /\ o.attempts = st1 /\ o.succeeded = pr.succeeded
       /\ o.fatal => pr.fatal /\ ~pr.succeeded /\ len # ren
       /\ pr.fatal => o.fatal \/ len = ren
  <2>1. CASE pr.succeeded
    <3>1. o = pr /\ m = len
      BY <1>4, <2>1 DEF RestoredOutcome
    <3>2. pr.attempts \in Seq(Endings)
      BY <1>1 DEF Outcomes
    <3>3. \A k \in 1..len : pr.attempts[k] = st1[k]
      BY <1>4, <1>8, <3>1
    <3>4. pr.attempts = st1
      BY <1>3, <1>6, <3>1, <3>2, <3>3, SeqEqual
    <3>5. ~pr.fatal
      BY <1>4, <2>1
    <3> QED BY <1>1, <3>1, <3>4, <3>5
  <2>2. CASE ~pr.succeeded
    <3>1. pr.attempts \in Seq(Endings) /\ pr.fatal \in BOOLEAN /\ pr.succeeded \in BOOLEAN
      BY <1>1 DEF Outcomes
    <3>2. PICK d \in Nat : d = len - m
      BY <1>4
    <3>3. lost \in Seq(Endings) /\ Len(lost) = d /\ \A k \in 1..d : lost[k] = "uncertain"
      <4>1. lost = [k \in 1..d |-> "uncertain"]
        BY <1>2, <1>3, <3>2 DEF Lost
      <4>2. lost \in [1..d -> Endings]
        BY <4>1 DEF Endings
      <4>3. lost \in Seq(Endings)
        BY <4>2
      <4>4. DOMAIN lost = 1..d
        BY <4>1
      <4>5. Len(lost) = d
        <5>1. Len(lost) \in Nat /\ 1..Len(lost) = 1..d
          BY <4>3, <4>4, LenProperties
        <5> QED BY <3>2, <5>1, SameRange
      <4> QED BY <4>1, <4>3, <4>5
    <3>4. PICK all : all = pr.attempts \o lost
      OBVIOUS
    <3>5. /\ all \in Seq(Endings) /\ Len(all) = m + d
          /\ \A k \in 1..(m + d) : all[k] = IF k <= m THEN pr.attempts[k] ELSE lost[k - m]
      <4>1. PICK known \in Seq(Endings) : known = pr.attempts
        BY <3>1
      <4>2. PICK more \in Seq(Endings) : more = lost
        BY <3>3
      <4>3. /\ known \o more \in Seq(Endings)
            /\ Len(known \o more) = Len(known) + Len(more)
            /\ \A k \in 1..(Len(known) + Len(more)) : (known \o more)[k] =
                  IF k <= Len(known) THEN known[k] ELSE more[k - Len(known)]
        BY ConcatProperties
      <4>4. all = known \o more /\ Len(known) = m /\ Len(more) = d
        BY <1>3, <3>3, <3>4, <4>1, <4>2
      <4> QED BY <4>1, <4>2, <4>3, <4>4
    <3>6. ASSUME NEW k \in 1..len PROVE all[k] = st1[k]
      <4>1. CASE k <= m
        <5>1. k \in 1..m /\ k \in 1..(m + d)
          BY <3>2, <4>1
        <5>2. all[k] = pr.attempts[k]
          BY <3>5, <4>1, <5>1
        <5> QED BY <1>4, <1>8, <5>1, <5>2
      <4>2. CASE ~(k <= m)
        <5>1. k - m \in 1..d /\ k \in (m + 1)..len /\ k \in 1..(m + d)
          BY <3>2, <4>2
        <5>2. all[k] = "uncertain"
          BY <3>3, <3>5, <4>2, <5>1
        <5> QED BY <1>9, <2>2, <5>1, <5>2
      <4> QED BY <4>1, <4>2
    <3>7. Len(all) = len
      BY <3>2, <3>5
    <3>8. all = st1
      BY <1>6, <3>5, <3>6, <3>7, SeqEqual
    <3>9. o = [pr EXCEPT !.attempts = all, !.fatal = pr.fatal /\ len # ren]
      BY <2>2, <3>4, <3>7 DEF RestoredOutcome
    <3>10. o.attempts = all /\ o.succeeded = pr.succeeded /\ o.fatal = (pr.fatal /\ len # ren)
      BY <1>1, <3>9 DEF Outcomes
    <3>11. o \in Outcomes
      BY <1>1, <3>5, <3>9 DEF Outcomes
    <3> QED BY <2>2, <3>8, <3>10, <3>11
  <2> QED BY <2>1, <2>2
<1>13. t1 \in LeafStates /\ t1.pc = "loop" /\ t1.outcome = o /\ t1.limit = lim
  BY <1>1, <1>12 DEF LeafStates, PCs
<1>14. ASSUME o.fatal PROVE Excused(st1, pr, ren)
  <2>1. pr.fatal /\ ~pr.succeeded /\ len > ren /\ m > 0 /\ st[m] = "fatal"
    BY <1>1, <1>4, <1>12, <1>14
  <2>2. CASE m = len
    <3>1. st1[len] = "fatal"
      BY <1>8, <2>1, <2>2
    <3> QED BY <1>6, <2>1, <3>1 DEF Excused
  <2>3. CASE m # len
    <3>1. len = ren + 1 /\ len \in (m + 1)..len
      BY <1>1, <1>4, <2>1, <2>3
    <3>2. st1[len] = "uncertain"
      BY <1>9, <2>1, <3>1
    <3> QED BY <1>6, <2>1, <3>1, <3>2 DEF Excused
  <2> QED BY <2>2, <2>3
<1>15. BetweenAttempts(t1, st1, pr, ren)
  BY <1>6, <1>10, <1>12, <1>13, <1>14 DEF BetweenAttempts
<1>16. LeafSound(t1, st1, pr, lim, ren, n)
  <2>1. n <= Len(st1)
    BY <1>1, <1>2, <1>6 DEF LeafSound
  <2> QED BY <1>13, <1>15, <2>1 DEF LeafSound
<1> QED BY <1>2, <1>6, <1>11, <1>13, <1>16 DEF Sound

LEMMA PauseValues ==
    ASSUME NEW t, NEW st, NEW pr, NEW lim, NEW ren, NEW n, Values(t, st, pr, lim, ren, n),
           NEW pc \in {"paused", "done"}, pc = "done" => t.pc = "loop",
           NEW t1, t1 = [t EXCEPT !.pc = pc]
    PROVE  t1 \in LeafStates /\ Sound(t1, st, pr, lim, ren, n)
<1>1. t1 \in LeafStates /\ t1.pc = pc
  BY DEF Values, LeafStates, PCs
<1>2. n <= Len(st) /\ LogSound(st, pr, ren)
  BY DEF Values, Sound, LeafSound
<1>3. pc = "done" => t1.limit = lim /\ BetweenAttempts(t1, st, pr, ren)
  <2>1. t1.outcome = t.outcome /\ t1.limit = t.limit
    BY DEF Values, LeafStates
  <2> QED BY <2>1 DEF Values, Sound, LeafSound, BetweenAttempts
<1> QED BY <1>1, <1>2, <1>3 DEF Sound, LeafSound

LEMMA SendValues ==
    ASSUME NEW t, NEW st, NEW pr, NEW lim, NEW ren, NEW n, Values(t, st, pr, lim, ren, n),
           t.pc = "request", NEW t1, t1 = [t EXCEPT !.pc = "sent"]
    PROVE  t1 \in LeafStates /\ n < Len(st) /\ ~pr.succeeded /\ Sound(t1, st, pr, lim, ren, n + 1)
<1>1. t1 \in LeafStates /\ t1.pc = "sent" /\ t1.outcome = t.outcome /\ t1.limit = t.limit
  BY DEF Values, LeafStates, PCs
<1>2. /\ n \in Nat /\ Len(st) \in Nat /\ n < Len(st) /\ t.limit = lim
      /\ InAttempt(t, st, pr, ren) /\ LogSound(st, pr, ren)
  BY DEF Values, Sound, LeafSound
<1>3. InAttempt(t1, st, pr, ren) /\ ~pr.succeeded
  BY <1>1, <1>2 DEF InAttempt
<1>4. LeafSound(t1, st, pr, lim, ren, n + 1)
  BY <1>1, <1>2, <1>3 DEF LeafSound
<1> QED BY <1>1, <1>2, <1>3, <1>4 DEF Sound

LEMMA AnswerValues ==
    ASSUME NEW t, NEW st, NEW pr, NEW lim, NEW ren, NEW n, Values(t, st, pr, lim, ren, n),
           t.pc = "sent", NEW answer \in Answers,
           NEW t1, t1 = [t EXCEPT !.pc = "answered",
                                  !.outcome.attempts = Append(@, answer),
                                  !.outcome.succeeded = (answer = "succeeded"),
                                  !.outcome.fatal = Fatal(answer)]
    PROVE  t1 \in LeafStates /\ Sound(t1, st, pr, lim, ren, n)
<1>1. /\ st \in Seq(Endings) /\ pr \in Outcomes /\ t \in LeafStates /\ n \in Nat
      /\ n > 0 /\ n <= Len(st) /\ t.limit = lim
      /\ InAttempt(t, st, pr, ren) /\ LogSound(st, pr, ren)
  BY DEF Values, Sound, LeafSound
<1>2. PICK len \in Nat : len = Len(st)
  BY <1>1
<1>3. PICK known \in Seq(Endings) : known = t.outcome.attempts
  BY <1>1 DEF LeafStates, Outcomes
<1>4. PICK all : all = Append(known, answer)
  OBVIOUS
<1>5. /\ len = Len(known) + 1 /\ st[len] = "started" /\ ~pr.succeeded /\ ren < len
      /\ \A k \in 1..(len - 1) : known[k] = st[k] /\ st[k] # "started"
  BY <1>1, <1>2, <1>3 DEF InAttempt, Tells
<1>6. /\ all \in Seq(Endings) /\ Len(all) = len /\ all[len] = answer
      /\ \A k \in 1..(len - 1) : all[k] = known[k]
  <2>1. answer \in Endings
    BY DEF Endings
  <2>2. /\ all \in Seq(Endings) /\ Len(all) = Len(known) + 1 /\ all[Len(known) + 1] = answer
        /\ \A k \in 1..Len(known) : all[k] = known[k]
    BY <1>4, <2>1, AppendProperties
  <2>3. Len(known) = len - 1
    BY <1>5
  <2> QED BY <1>5, <2>2, <2>3
<1>7. t1.pc = "answered" /\ t1.limit = lim
      /\ t1.outcome.attempts = all /\ t1.outcome.succeeded = (answer = "succeeded")
      /\ t1.outcome.fatal = (answer = "fatal")
  BY <1>1, <1>3, <1>4 DEF LeafStates, Outcomes, Fatal
<1>8. t1 \in LeafStates
  <2>1. t.outcome \in Outcomes
    BY <1>1 DEF LeafStates
  <2>2. PICK o : o = [t.outcome EXCEPT !.attempts = all, !.succeeded = (answer = "succeeded"),
                                      !.fatal = (answer = "fatal")]
    OBVIOUS
  <2>3. o \in Outcomes
    BY <1>6, <2>1, <2>2 DEF Outcomes
  <2>4. t1 = [t EXCEPT !.pc = "answered", !.outcome = o]
    BY <1>1, <1>3, <1>4, <2>1, <2>2 DEF LeafStates, Outcomes, Fatal
  <2> QED BY <1>1, <2>3, <2>4 DEF LeafStates, PCs
<1>9. AfterAnswer(t1, st, pr, ren)
  <2>1. /\ t1.outcome.attempts = all /\ t1.outcome.succeeded = (answer = "succeeded")
        /\ t1.outcome.fatal = (answer = "fatal")
    BY <1>7, Zenon
  <2>2. Tells(t1.outcome, st, len - 1)
    BY <1>5, <1>6, <2>1 DEF Tells
  <2>3. len > 0
    BY <1>1, <1>2
  <2> QED BY <1>2, <1>5, <1>6, <2>1, <2>2, <2>3 DEF AfterAnswer
<1>10. LeafSound(t1, st, pr, lim, ren, n)
  BY <1>1, <1>7, <1>9 DEF LeafSound
<1> QED BY <1>1, <1>8, <1>10 DEF Sound

\* A log once the last attempt of outcome o has ended.
FinishedLog(st, o) ==
    [st EXCEPT ![Len(o.attempts)] = o.attempts[Len(o.attempts)]]

\* Of the log st and the outcome o, what the index asks of a terminal event.
Terminal(st, o) ==
    LET number == Len(o.attempts)
    IN /\ number \in DOMAIN st /\ st[number] \in {"started", "uncertain"}
       /\ o.succeeded <=> o.attempts[number] = "succeeded"

LEMMA FinishValues ==
    ASSUME NEW t, NEW st, NEW pr, NEW lim, NEW ren, NEW n, Values(t, st, pr, lim, ren, n),
           t.pc = "answered", NEW st1, st1 = FinishedLog(st, t.outcome),
           NEW t1, t1 = [t EXCEPT !.pc = "loop"]
    PROVE  /\ Terminal(st, t.outcome) /\ ~pr.succeeded /\ n > 0 /\ t.outcome \in Outcomes
           /\ st1 \in Seq(Endings) /\ t1 \in LeafStates /\ Len(st1) = Len(st)
           /\ Sound(t1, st1, t.outcome, lim, ren, n)
<1>1. /\ st \in Seq(Endings) /\ pr \in Outcomes /\ t \in LeafStates /\ n \in Nat
      /\ n > 0 /\ n <= Len(st) /\ t.limit = lim /\ ren \in Nat \cup {-1}
      /\ AfterAnswer(t, st, pr, ren) /\ LogSound(st, pr, ren)
  BY DEF Values, Sound, LeafSound
<1>2. PICK o \in Outcomes : o = t.outcome
  BY <1>1 DEF LeafStates
<1>3. PICK all \in Seq(Endings) : all = o.attempts
  BY DEF Outcomes
<1>4. PICK len \in Nat : len = Len(st)
  BY <1>1
<1>5. /\ len > 0 /\ Len(all) = len /\ st[len] = "started"
      /\ ~pr.succeeded /\ ren < len
      /\ \A k \in 1..(len - 1) : all[k] = st[k] /\ st[k] # "started"
      /\ all[len] \in Answers
      /\ o.succeeded <=> all[len] = "succeeded"
      /\ o.fatal <=> all[len] = "fatal"
  BY <1>1, <1>2, <1>3, <1>4 DEF AfterAnswer, Tells
<1>6. DOMAIN st = 1..len /\ len \in 1..len /\ all[len] # "started"
  BY <1>1, <1>4, <1>5 DEF Answers
<1>7. st1 = all
  <2>1. st1 = [st EXCEPT ![len] = all[len]] /\ all[len] \in Endings
    BY <1>2, <1>3, <1>5 DEF Endings, FinishedLog
  <2>2. st1 \in Seq(Endings) /\ Len(st1) = len
    <3>1. PICK e \in Endings : e = all[len]
      BY <2>1
    <3>2. len \in 1..Len(st)
      BY <1>4, <1>6
    <3>3. [st EXCEPT ![len] = e] \in Seq(Endings) /\ Len([st EXCEPT ![len] = e]) = Len(st)
      BY <1>1, <3>2, ExceptSeq
    <3> QED BY <1>4, <2>1, <3>1, <3>3
  <2>3. ASSUME NEW k \in 1..len PROVE st1[k] = all[k]
    <3>1. CASE k = len
      BY <1>6, <2>1, <3>1
    <3>2. CASE k # len
      BY <1>5, <1>6, <2>1, <3>2
    <3> QED BY <3>1, <3>2
  <2> QED BY <1>5, <2>2, <2>3, SeqEqual
<1>8. \A k \in 1..len : all[k] # "started"
  <2>1. ASSUME NEW k \in 1..len PROVE all[k] # "started"
    <3>1. CASE k = len
      BY <1>6, <3>1
    <3>2. CASE k # len
      <4>1. k \in 1..(len - 1)
        BY <3>2
      <4> QED BY <1>5, <4>1
    <3> QED BY <3>1, <3>2
  <2> QED BY <2>1
<1>9. t1 \in LeafStates /\ t1.pc = "loop" /\ t1.outcome = o /\ t1.limit = lim
  BY <1>1, <1>2 DEF LeafStates, PCs
<1>10. LogSound(all, o, ren)
  BY <1>1, <1>3, <1>5, <1>8 DEF LogSound
<1>11. ASSUME o.fatal PROVE Excused(all, o, ren)
  <2>1. Len(all) = len /\ all[len] = "fatal" /\ len > ren
    BY <1>1, <1>5, <1>11
  <2> QED BY <2>1 DEF Excused
<1>12. BetweenAttempts(t1, all, o, ren)
  BY <1>3, <1>5, <1>8, <1>9, <1>11 DEF BetweenAttempts
<1>13. LeafSound(t1, all, o, lim, ren, n)
  BY <1>1, <1>4, <1>5, <1>9, <1>12 DEF LeafSound
<1>14. Terminal(st, o)
  BY <1>3, <1>5, <1>6 DEF Terminal
<1> QED BY <1>1, <1>2, <1>3, <1>4, <1>5, <1>7, <1>9, <1>10, <1>13, <1>14 DEF Sound

------------------------------------------------------------------------------
(* The steps.                                                                   *)

LEMMA RestoredStarts ==
    ASSUME NEW s \in Samples, Restore(s)
    PROVE  starts' = [starts EXCEPT ![s] = RestoredLog(starts[s], prior[s])]
<1>1. starts' = [starts EXCEPT ![s] = [k \in DOMAIN @ |->
            IF k \in Pending(s) /\ ~prior[s].succeeded THEN "uncertain" ELSE @[k]]]
  BY DEF Restore
<1>2. \A k \in DOMAIN starts[s] : k \in Pending(s) <=> starts[s][k] \in {"started", "uncertain"}
  BY DEF Pending
<1>3. [k \in DOMAIN starts[s] |->
            IF k \in Pending(s) /\ ~prior[s].succeeded THEN "uncertain" ELSE starts[s][k]]
         = RestoredLog(starts[s], prior[s])
  BY <1>2 DEF RestoredLog
<1> QED BY <1>1, <1>3

LEMMA RestoreSound == ASSUME IInv, NEW s \in Samples, Restore(s) PROVE IInv'
<1>1. PICK st1 : st1 = RestoredLog(starts[s], prior[s])
  OBVIOUS
<1>2. PICK o : o = RestoredOutcome(starts[s], prior[s], renewedAt[s])
  OBVIOUS
<1>3. PICK t1 : t1 = [pc |-> "loop", outcome |-> o, limit |-> limit[s]]
  OBVIOUS
<1>4. Values(thread[s], starts[s], prior[s], limit[s], renewedAt[s], sent[s])
  BY SampleValues
<1>5. /\ st1 \in Seq(Endings) /\ t1 \in LeafStates
      /\ Sound(t1, st1, prior[s], limit[s], renewedAt[s], sent[s])
  BY <1>1, <1>2, <1>3, <1>4, RestoreValues
<1>6. thread' = [thread EXCEPT ![s] = t1]
  <2>1. Restored(s) = o
    BY <1>2 DEF Restored, RestoredOutcome, Lost
  <2> QED BY <1>3, <2>1 DEF Restore
<1>7. starts' = [starts EXCEPT ![s] = st1]
  BY <1>1, RestoredStarts
<1>8. Writes(s, st1, prior[s], t1, sent[s])
  <2>1. UNCHANGED <<prior, limit, renewedAt, committed, session, stop, sent, poisoned,
                    faults, renewals>>
    BY DEF Restore
  <2> QED BY <1>6, <1>7, <2>1, Unwritten DEF Writes
<1>9. thread[s].pc # "idle" /\ stop' \in BOOLEAN /\ poisoned' = FALSE
  BY OneSample DEF Restore
<1>10. prior[s] \in Outcomes /\ sent[s] \in Nat
  BY OneSample
<1> QED BY <1>5, <1>8, <1>9, <1>10, LeafStep

LEMMA StartAttemptSound == ASSUME IInv, NEW s \in Samples, StartAttempt(s) PROVE IInv'
<1>1. PICK st1 : st1 = Append(starts[s], "started")
  OBVIOUS
<1>2. PICK t1 : t1 = [thread[s] EXCEPT !.pc = "request"]
  OBVIOUS
<1>3. Values(thread[s], starts[s], prior[s], limit[s], renewedAt[s], sent[s])
  BY SampleValues
<1>4. /\ Len(thread[s].outcome.attempts) + 1 = Len(starts[s]) + 1
      /\ Len(starts[s]) + 1 <= limit[s] /\ ~prior[s].succeeded
      /\ st1 \in Seq(Endings) /\ t1 \in LeafStates
      /\ Sound(t1, st1, prior[s], limit[s], renewedAt[s], sent[s])
  BY ZenonT(40), <1>1, <1>2, <1>3, StartValues DEF StartAttempt
<1>5. StartValid(s, Len(thread[s].outcome.attempts) + 1)
  BY <1>4 DEF StartValid
<1>6. Writes(s, st1, prior[s], t1, sent[s])
  <2>1. /\ UNCHANGED <<prior, limit, renewedAt, committed, session, stop, sent, faults, renewals>>
        /\ starts' = [starts EXCEPT ![s] = st1] /\ thread' = [thread EXCEPT ![s] = t1]
    BY <1>1, <1>2 DEF StartAttempt
  <2> QED BY <2>1, Unwritten DEF Writes
<1>7. thread[s].pc # "idle" /\ stop' \in BOOLEAN /\ poisoned' = FALSE
  BY <1>5, OneSample DEF StartAttempt
<1>8. prior[s] \in Outcomes /\ sent[s] \in Nat
  BY OneSample
<1> QED BY <1>4, <1>6, <1>7, <1>8, LeafStep

\* A leaf that stops, paused or done.
LEMMA HaltSound ==
    ASSUME IInv, NEW s \in Samples, thread[s].pc # "idle", NEW pc \in {"paused", "done"},
           pc = "done" => thread[s].pc = "loop",
           thread' = [thread EXCEPT ![s].pc = pc],
           UNCHANGED <<durable, session, stop, sent, poisoned, faults, renewals>>
    PROVE  IInv'
<1>1. PICK t1 : t1 = [thread[s] EXCEPT !.pc = pc]
  OBVIOUS
<1>2. Values(thread[s], starts[s], prior[s], limit[s], renewedAt[s], sent[s])
  BY SampleValues
<1>3. t1 \in LeafStates /\ Sound(t1, starts[s], prior[s], limit[s], renewedAt[s], sent[s])
  BY <1>1, <1>2, PauseValues
<1>4. Writes(s, starts[s], prior[s], t1, sent[s])
  BY <1>1, Unwritten DEF Writes, durable
<1>5. /\ prior[s] \in Outcomes /\ sent[s] \in Nat /\ starts[s] \in Seq(Endings)
      /\ stop' \in BOOLEAN /\ poisoned' = FALSE
  BY OneSample
<1> QED BY <1>3, <1>4, <1>5, LeafStep

LEMMA SendSound == ASSUME IInv, NEW s \in Samples, Send(s) PROVE IInv'
<1>1. PICK t1 : t1 = [thread[s] EXCEPT !.pc = "sent"]
  OBVIOUS
<1>2. Values(thread[s], starts[s], prior[s], limit[s], renewedAt[s], sent[s])
  BY SampleValues
<1>3. t1 \in LeafStates /\ Sound(t1, starts[s], prior[s], limit[s], renewedAt[s], sent[s] + 1)
  BY <1>1, <1>2, SendValues DEF Send
<1>4. Writes(s, starts[s], prior[s], t1, sent[s] + 1)
  <2>1. /\ thread' = [thread EXCEPT ![s] = t1] /\ sent' = [sent EXCEPT ![s] = sent[s] + 1]
        /\ UNCHANGED <<starts, prior, limit, renewedAt, committed, session, faults, renewals>>
    BY <1>1 DEF Send, durable
  <2> QED BY <2>1, Unwritten DEF Writes
<1>5. /\ prior[s] \in Outcomes /\ sent[s] \in Nat /\ starts[s] \in Seq(Endings)
      /\ stop \in BOOLEAN /\ poisoned = FALSE
  BY OneSample
<1>6. stop' \in BOOLEAN /\ poisoned' = FALSE /\ thread[s].pc # "idle"
  BY <1>5 DEF Send
<1>7. sent[s] + 1 \in Nat
  BY <1>5
<1> QED BY <1>3, <1>4, <1>5, <1>6, <1>7, LeafStep

LEMMA AnswerSound ==
    ASSUME IInv, NEW s \in Samples, NEW answer \in Answers, Answer(s, answer) PROVE IInv'
<1>1. PICK t1 : t1 = [thread[s] EXCEPT !.pc = "answered",
                                       !.outcome.attempts = Append(@, answer),
                                       !.outcome.succeeded = (answer = "succeeded"),
                                       !.outcome.fatal = Fatal(answer)]
  OBVIOUS
<1>2. Values(thread[s], starts[s], prior[s], limit[s], renewedAt[s], sent[s])
  BY SampleValues
<1>3. t1 \in LeafStates /\ Sound(t1, starts[s], prior[s], limit[s], renewedAt[s], sent[s])
  BY <1>1, <1>2, AnswerValues DEF Answer
<1>4. thread' = [thread EXCEPT ![s] = t1]
  <2>1. thread' = [thread EXCEPT
            ![s].pc = "answered",
            ![s].outcome.attempts = Append(@, answer),
            ![s].outcome.succeeded = (answer = "succeeded"),
            ![s].outcome.fatal = Fatal(answer)]
    BY DEF Answer
  <2>2. thread \in [Samples -> LeafStates] /\ thread[s] \in LeafStates
    BY DEF IInv, TypeOK, LeafStates
  <2> QED BY <1>1, <2>1, <2>2 DEF LeafStates, Outcomes
<1>5. Writes(s, starts[s], prior[s], t1, sent[s])
  <2>1. UNCHANGED <<starts, prior, limit, renewedAt, committed, session, sent, faults, renewals>>
    BY DEF Answer, durable
  <2> QED BY <1>4, <2>1, Unwritten DEF Writes
<1>6. /\ prior[s] \in Outcomes /\ sent[s] \in Nat /\ starts[s] \in Seq(Endings)
      /\ stop' \in BOOLEAN /\ poisoned' = FALSE /\ thread[s].pc # "idle"
  BY OneSample DEF Answer
<1> QED BY <1>3, <1>5, <1>6, LeafStep

\* What a leaf's finishing writes.
LEMMA FinishWrites ==
    ASSUME IInv, NEW s \in Samples, FinishAttempt(s)
    PROVE  \E st1 \in Seq(Endings), t1 \in LeafStates :
              /\ Writes(s, st1, thread[s].outcome, t1, sent[s])
              /\ Sound(t1, st1, thread[s].outcome, limit[s], renewedAt[s], sent[s])
              /\ Len(st1) = Len(starts[s]) /\ sent[s] > 0 /\ ~prior[s].succeeded
              /\ thread[s].outcome \in Outcomes /\ TerminalValid(s, thread[s].outcome)
<1>1. PICK st1 : st1 = FinishedLog(starts[s], thread[s].outcome)
  OBVIOUS
<1>2. PICK t1 : t1 = [thread[s] EXCEPT !.pc = "loop"]
  OBVIOUS
<1>3. Values(thread[s], starts[s], prior[s], limit[s], renewedAt[s], sent[s])
  BY SampleValues
<1>4. thread[s].pc = "answered"
  BY DEF FinishAttempt
<1>5. /\ Terminal(starts[s], thread[s].outcome) /\ ~prior[s].succeeded
      /\ sent[s] > 0 /\ thread[s].outcome \in Outcomes
      /\ st1 \in Seq(Endings) /\ t1 \in LeafStates /\ Len(st1) = Len(starts[s])
      /\ Sound(t1, st1, thread[s].outcome, limit[s], renewedAt[s], sent[s])
  BY <1>1, <1>2, <1>3, <1>4, FinishValues
<1>6. TerminalValid(s, thread[s].outcome)
  BY <1>5 DEF TerminalValid, Terminal
<1>7. Writes(s, st1, thread[s].outcome, t1, sent[s])
  <2>1. /\ starts' = [starts EXCEPT ![s] = st1] /\ thread' = [thread EXCEPT ![s] = t1]
        /\ prior' = [prior EXCEPT ![s] = thread[s].outcome]
        /\ UNCHANGED <<limit, renewedAt, committed, session, stop, sent, faults, renewals>>
    BY <1>1, <1>2 DEF FinishAttempt, FinishedLog
  <2> QED BY <2>1, Unwritten DEF Writes
<1> QED BY <1>5, <1>6, <1>7

LEMMA FinishAttemptSound == ASSUME IInv, NEW s \in Samples, FinishAttempt(s) PROVE IInv'
<1>1. PICK st1 \in Seq(Endings), t1 \in LeafStates :
         /\ Writes(s, st1, thread[s].outcome, t1, sent[s])
         /\ Sound(t1, st1, thread[s].outcome, limit[s], renewedAt[s], sent[s])
         /\ thread[s].outcome \in Outcomes /\ TerminalValid(s, thread[s].outcome)
  BY FinishWrites
<1>2. /\ sent[s] \in Nat /\ stop' \in BOOLEAN /\ poisoned' = FALSE /\ thread[s].pc # "idle"
  BY <1>1, OneSample DEF FinishAttempt
<1> QED BY <1>1, <1>2, LeafStep

LEMMA OpenSessionSound == ASSUME IInv, OpenSession PROVE IInv'
<1>1. /\ UNCHANGED <<starts, prior, limit, renewedAt, committed, thread, sent, poisoned,
                     faults, renewals>>
      /\ session = "closed" /\ session' = "binding" /\ stop' = FALSE
  BY DEF OpenSession, durable
<1>2. TypeOK'
  BY <1>1 DEF IInv, TypeOK
<1>3. \A s \in Samples : SampleSound(s)'
  BY <1>1 DEF IInv, SampleSound
<1> QED BY <1>1, <1>2, <1>3 DEF IInv

LEMMA StandingOrder ==
    ASSUME IInv
    PROVE  /\ limit \in [Samples -> Nat] /\ renewedAt \in [Samples -> Nat \cup {-1}]
           /\ stop \in BOOLEAN /\ committed \in BOOLEAN /\ faults \in 0..MaxFaults
           /\ renewals \in 0..MaxRenewals
           /\ Idle = [Idle EXCEPT !.pc = "idle"]
  BY DEF IInv, TypeOK, Idle

LEMMA RunSamplesSound == ASSUME IInv, RunSamples PROVE IInv'
<1>1. PICK pc \in {"queued", "paused"} : pc = IF stop THEN "paused" ELSE "queued"
  OBVIOUS
<1>2. /\ thread' = [s \in Samples |-> [Idle EXCEPT !.pc = pc]] /\ session' = "open"
      /\ UNCHANGED <<starts, prior, limit, renewedAt, committed, stop, sent, poisoned,
                     faults, renewals>>
  BY <1>1 DEF RunSamples, durable
<1> QED BY <1>2, StandingOrder, RestingStep

LEMMA CloseSessionSound == ASSUME IInv, CloseSession PROVE IInv'
<1>1. /\ thread' = [s \in Samples |-> Idle] /\ session' = "closed" /\ stop' = FALSE
      /\ committed' \in BOOLEAN
      /\ UNCHANGED <<starts, prior, limit, renewedAt, sent, poisoned, faults, renewals>>
  BY DEF CloseSession
<1>2. thread' = [s \in Samples |-> [Idle EXCEPT !.pc = "idle"]]
  BY <1>1, StandingOrder
<1> QED BY <1>1, <1>2, StandingOrder, RestingStep

LEMMA CrashSound == ASSUME IInv, Crash PROVE IInv'
<1>1. /\ thread' = [s \in Samples |-> Idle] /\ session' = "closed" /\ stop' = FALSE
      /\ UNCHANGED <<starts, prior, limit, renewedAt, committed, sent, poisoned, renewals>>
      /\ faults' = faults + 1 /\ faults < MaxFaults
  BY DEF Crash, durable
<1>2. thread' = [s \in Samples |-> [Idle EXCEPT !.pc = "idle"]]
  BY <1>1, StandingOrder
<1>3. faults' \in 0..MaxFaults
  BY <1>1, StandingOrder, BoundAssumption
<1> QED BY <1>1, <1>2, <1>3, StandingOrder, RestingStep

LEMMA RenewSound == ASSUME IInv, Renew PROVE IInv'
<1>1. /\ session = "closed" /\ renewals < MaxRenewals /\ renewals' = renewals + 1
      /\ UNCHANGED <<starts, prior, committed, session, thread, stop, sent, poisoned, faults>>
  BY DEF Renew
<1>2. PICK S : S = {s \in Samples : Renewable(s)}
  OBVIOUS
<1>3. /\ limit' = [s \in Samples |-> IF s \in S THEN Len(starts[s]) + Renewal ELSE limit[s]]
      /\ renewedAt' = [s \in Samples |-> IF s \in S THEN Len(starts[s]) ELSE renewedAt[s]]
  BY <1>2 DEF Renew
<1>4. \A s \in Samples : Len(starts[s]) \in Nat
  BY DEF IInv, TypeOK
<1>5. limit' \in [Samples -> Nat]
  BY <1>3, <1>4, StandingOrder, BudgetAssumption
<1>6. renewedAt' \in [Samples -> Nat \cup {-1}]
  BY <1>3, <1>4, StandingOrder
<1>7. \A s \in Samples : renewedAt'[s] \in {renewedAt[s], Len(starts[s])}
  BY <1>3
<1>8. renewals' \in 0..MaxRenewals
  BY <1>1, StandingOrder, BoundAssumption
<1>9. thread = [s \in Samples |-> Idle]
  BY <1>1 DEF IInv, TypeOK
<1>10. thread' = [s \in Samples |-> [Idle EXCEPT !.pc = "idle"]]
  BY <1>1, <1>9, StandingOrder
<1> QED BY <1>1, <1>5, <1>6, <1>7, <1>8, <1>10, StandingOrder, RestingStep

LEMMA StillSound ==
    ASSUME IInv, UNCHANGED <<durable, session, thread, sent, poisoned, renewals>>,
           stop' \in BOOLEAN, faults' \in 0..MaxFaults
    PROVE  IInv'
<1>1. UNCHANGED <<starts, prior, limit, renewedAt, committed, session, thread, sent, poisoned,
                  renewals>>
  BY DEF durable
<1>2. TypeOK'
  BY <1>1 DEF IInv, TypeOK
<1>3. \A s \in Samples : SampleSound(s)'
  BY <1>1 DEF IInv, SampleSound
<1> QED BY <1>1, <1>2, <1>3 DEF IInv

LEMMA RequestStopSound == ASSUME IInv, RequestStop PROVE IInv'
<1>1. faults' \in 0..MaxFaults /\ stop' \in BOOLEAN
  BY StandingOrder, BoundAssumption DEF RequestStop
<1> QED BY <1>1, StillSound DEF RequestStop

LEMMA NextSound == ASSUME IInv, [Next]_vars PROVE IInv'
<1>1. CASE OpenSession
  BY <1>1, OpenSessionSound
<1>2. CASE RunSamples
  BY <1>2, RunSamplesSound
<1>3. CASE CloseSession
  BY <1>3, CloseSessionSound
<1>4. ASSUME NEW s \in Samples, Leaf(s) PROVE IInv'
  <2>1. CASE Restore(s)
    BY <2>1, RestoreSound
  <2>2. CASE StartAttempt(s)
    BY <2>2, StartAttemptSound
  <2>3. CASE Pause(s)
    <3>1. /\ thread[s].pc # "idle" /\ thread' = [thread EXCEPT ![s].pc = "paused"]
          /\ UNCHANGED <<durable, session, stop, sent, poisoned, faults, renewals>>
      BY <2>3 DEF Pause
    <3> QED BY <3>1, HaltSound
  <2>4. CASE Send(s)
    BY <2>4, SendSound
  <2>5. CASE \E answer \in Answers : Answer(s, answer)
    BY <2>5, AnswerSound
  <2>6. CASE FinishAttempt(s)
    BY <2>6, FinishAttemptSound
  <2>7. CASE EmitResult(s)
    <3>1. /\ thread[s].pc = "loop" /\ thread' = [thread EXCEPT ![s].pc = "done"]
          /\ UNCHANGED <<durable, session, stop, sent, poisoned, faults, renewals>>
      BY <2>7 DEF EmitResult
    <3> QED BY <3>1, HaltSound
  <2> QED BY <1>4, <2>1, <2>2, <2>3, <2>4, <2>5, <2>6, <2>7 DEF Leaf
<1>5. CASE Renew
  BY <1>5, RenewSound
<1>6. CASE RequestStop
  BY <1>6, RequestStopSound
<1>7. CASE Crash
  BY <1>7, CrashSound
<1>8. CASE UNCHANGED vars
  BY <1>8, StillSound, StandingOrder DEF vars
<1> QED BY <1>1, <1>2, <1>3, <1>4, <1>5, <1>6, <1>7, <1>8 DEF Next, Session

LEMMA InitSound == ASSUME Init PROVE IInv
<1>1. PICK none \in Seq(Endings) : none = <<>> /\ Len(none) = 0
  BY EmptySeq
<1>2. Fresh \in Outcomes
  BY <1>1 DEF Fresh, Outcomes
<1>3. Idle \in LeafStates /\ Idle.pc = "idle"
  BY <1>2 DEF Idle, LeafStates, PCs
<1>4. TypeOK
  <2>1. thread \in [Samples -> LeafStates] /\ prior \in [Samples -> Outcomes]
    BY <1>2, <1>3 DEF Init
  <2>2. starts \in [Samples -> Seq(Endings)]
    BY <1>1 DEF Init
  <2>3. /\ limit \in [Samples -> Nat] /\ renewedAt \in [Samples -> Nat \cup {-1}]
        /\ sent \in [Samples -> Nat] /\ faults \in 0..MaxFaults /\ renewals \in 0..MaxRenewals
    BY BudgetAssumption, BoundAssumption DEF Init
  <2> QED BY <2>1, <2>2, <2>3 DEF Init, TypeOK, LeafStates
<1>5. ASSUME NEW s \in Samples PROVE SampleSound(s)
  <2>1. /\ starts[s] = none /\ prior[s] = Fresh /\ renewedAt[s] = -1 /\ thread[s] = Idle
        /\ sent[s] = 0
    BY <1>1, <1>5 DEF Init
  <2>2. LogSound(none, Fresh, -1)
    <3>1. Fresh.attempts = none /\ Fresh.succeeded = FALSE /\ Fresh.fatal = FALSE
      BY <1>1 DEF Fresh
    <3> QED BY <1>1, <3>1 DEF LogSound
  <2>3. LeafSound(Idle, none, Fresh, limit[s], -1, 0)
    BY <1>1, <1>3 DEF LeafSound
  <2> QED BY <2>1, <2>2, <2>3 DEF SampleSound
<1> QED BY <1>4, <1>5 DEF Init, IInv

LEMMA InvariantHolds == Spec => []IInv
<1>1. Init => IInv
  BY InitSound
<1>2. IInv /\ [Next]_vars => IInv'
  BY NextSound
<1> QED BY <1>1, <1>2, PTL DEF Spec

------------------------------------------------------------------------------
(* What the invariant says.                                                     *)

\* The checkpoints can always be indexed again (run_sampling.py), the history a leaf
\* works from is the durable one (restore), and every outcome agrees with the attempts
\* it summarises, whatever sessions, crashes and renewals wrote them.
THEOREM HistoryHolds == Spec => []HistoryIsConsistent
<1>1. ASSUME IInv PROVE HistoryIsConsistent
  <2>1. MemoryMatchesLog
    <3>1. \A s \in Samples : LeafSound(thread[s], starts[s], prior[s], limit[s],
                                       renewedAt[s], sent[s])
      BY <1>1, OneSample
    <3> QED BY <3>1 DEF MemoryMatchesLog, LeafSound, BetweenAttempts
  <2>2. ASSUME NEW s \in Samples, Len(prior[s].attempts) > 0
        PROVE  /\ prior[s].attempts = SubSeq(starts[s], 1, Len(prior[s].attempts))
               /\ prior[s].succeeded <=> starts[s][Len(prior[s].attempts)] = "succeeded"
               /\ prior[s].fatal <=> starts[s][Len(prior[s].attempts)] = "fatal"
    <3>1. PICK st \in Seq(Endings) : st = starts[s]
      BY <1>1, OneSample
    <3>2. PICK known \in Seq(Endings) : known = prior[s].attempts
      BY <1>1, OneSample DEF Outcomes
    <3>3. PICK n \in Nat : n = Len(known)
      OBVIOUS
    <3>4. LogSound(st, prior[s], renewedAt[s])
      BY <1>1, <3>1, OneSample
    <3>5. /\ n <= Len(st) /\ n > 0 /\ \A k \in 1..n : known[k] = st[k]
          /\ prior[s].succeeded <=> st[n] = "succeeded"
          /\ prior[s].fatal <=> st[n] = "fatal"
      BY <2>2, <3>2, <3>3, <3>4 DEF LogSound
    <3>6. PICK before : before = SubSeq(st, 1, n)
      OBVIOUS
    <3>7. \A k \in 1..n : st[k] \in Endings
      BY <3>5
    <3>8. /\ SubSeq(st, 1, n) \in Seq(Endings)
          /\ Len(SubSeq(st, 1, n)) = IF 1 <= n THEN n - 1 + 1 ELSE 0
          /\ \A k \in 1..(n - 1 + 1) : SubSeq(st, 1, n)[k] = st[1 + k - 1]
      BY <3>7, SubSeqProperties
    <3>9. before \in Seq(Endings) /\ Len(before) = n /\ \A k \in 1..n : before[k] = st[k]
      BY <3>5, <3>6, <3>8
    <3>10. known = before
      BY <3>3, <3>5, <3>9, SeqEqual
    <3> QED BY <3>1, <3>2, <3>3, <3>5, <3>6, <3>10
  <2>3. OutcomeMatchesAttempts
    BY <2>2 DEF OutcomeMatchesAttempts
  <2> QED BY <1>1, <2>1, <2>3 DEF HistoryIsConsistent, LogIsIndexable, IInv
<1> QED BY <1>1, InvariantHolds, PTL

\* A leaf with attempts left gives up only if the latest one ended fatally after the
\* renewal, or if it is the first of a renewed allowance, was cut short, and the answer
\* before it was fatal (restore, execute_sample).
THEOREM AllowanceHolds == Spec => []AllowanceIsUsable
<1>1. ASSUME IInv PROVE AllowanceIsUsable
  <2>1. ASSUME NEW s \in Samples, GivesUp(s)
        PROVE  Excused(starts[s], prior[s], renewedAt[s])
    <3>1. LeafSound(thread[s], starts[s], prior[s], limit[s], renewedAt[s], sent[s])
      BY <1>1, OneSample
    <3>2. /\ thread[s].pc \in {"loop", "done"} /\ ~thread[s].outcome.succeeded
          /\ Spent(thread[s]) /\ Len(thread[s].outcome.attempts) < thread[s].limit
      BY <2>1 DEF GivesUp
    <3>3. Len(thread[s].outcome.attempts) \in Nat /\ thread[s].limit \in Nat
      <4>1. thread[s] \in LeafStates
        BY <1>1, OneSample
      <4>2. thread[s].outcome.attempts \in Seq(Endings) /\ thread[s].limit \in Nat
        BY <4>1 DEF LeafStates, Outcomes
      <4> QED BY <4>2
    <3>4. thread[s].outcome.fatal
      BY <3>2, <3>3 DEF Spent
    <3> QED BY <3>1, <3>2, <3>4 DEF LeafSound, BetweenAttempts
  <2> QED BY <2>1 DEF AllowanceIsUsable, Excused
<1> QED BY <1>1, InvariantHolds, PTL

------------------------------------------------------------------------------
(* The budget, read off the checkpoints.                                        *)

SpentSeen == [s \in Samples |-> Len(starts[s])]
WonSeen == [s \in Samples |-> prior[s].succeeded]

\* A step that neither starts an attempt nor changes whether a sample has succeeded.
LEMMA BudgetStutter ==
    ASSUME UNCHANGED <<limit, sent>>,
           \A s \in Samples : /\ Len(starts'[s]) = Len(starts[s])
                              /\ prior'[s].succeeded = prior[s].succeeded
    PROVE  UNCHANGED Budget!vars
<1>1. SpentSeen' = SpentSeen /\ WonSeen' = WonSeen
  BY DEF SpentSeen, WonSeen
<1> QED BY <1>1 DEF Budget!vars, SpentSeen, WonSeen

LEMMA BudgetInit == Init => Budget!Init
<1> SUFFICES ASSUME Init PROVE Budget!Init
  OBVIOUS
<1>1. SpentSeen = [s \in Samples |-> 0]
  BY EmptySeq DEF Init, SpentSeen
<1>2. WonSeen = [s \in Samples |-> FALSE]
  BY DEF Init, WonSeen, Fresh
<1> QED BY <1>1, <1>2 DEF Budget!Init, SpentSeen, WonSeen, Init

\* A step that leaves the log and the outcomes alone, the requests, and the limits.
LEMMA QuietStep ==
    ASSUME UNCHANGED <<starts, prior, limit, sent>> PROVE UNCHANGED Budget!vars
  BY BudgetStutter

LEMMA RestoreBudget ==
    ASSUME IInv, NEW s \in Samples, Restore(s) PROVE UNCHANGED Budget!vars
<1>1. PICK st1 : st1 = RestoredLog(starts[s], prior[s])
  OBVIOUS
<1>2. starts[s] \in Seq(Endings) /\ starts \in [Samples -> Seq(Endings)]
  BY DEF IInv, TypeOK
<1>3. starts' = [starts EXCEPT ![s] = st1]
  BY <1>1, RestoredStarts
<1>4. Values(thread[s], starts[s], prior[s], limit[s], renewedAt[s], sent[s])
  BY SampleValues
<1>5. Len(st1) = Len(starts[s])
  <2>1. PICK o : o = RestoredOutcome(starts[s], prior[s], renewedAt[s])
    OBVIOUS
  <2>2. PICK t1 : t1 = [pc |-> "loop", outcome |-> o, limit |-> limit[s]]
    OBVIOUS
  <2> QED BY <1>1, <1>4, <2>1, <2>2, RestoreValues
<1>6. \A r \in Samples : Len(starts'[r]) = Len(starts[r])
  BY <1>2, <1>3, <1>5
<1>7. UNCHANGED <<limit, sent, prior>>
  BY DEF Restore
<1> QED BY <1>6, <1>7, BudgetStutter

LEMMA StartAttemptBudget ==
    ASSUME IInv, NEW s \in Samples, StartAttempt(s) PROVE Budget!Next
<1>1. Values(thread[s], starts[s], prior[s], limit[s], renewedAt[s], sent[s])
  BY SampleValues
<1>2. PICK st1 : st1 = Append(starts[s], "started")
  OBVIOUS
<1>3. PICK t1 : t1 = [thread[s] EXCEPT !.pc = "request"]
  OBVIOUS
<1>4. Len(starts[s]) + 1 <= limit[s] /\ ~prior[s].succeeded
  BY ZenonT(40), <1>1, <1>2, <1>3, StartValues DEF StartAttempt
<1>5. /\ starts[s] \in Seq(Endings) /\ starts \in [Samples -> Seq(Endings)] /\ limit[s] \in Nat
      /\ Len(starts[s]) \in Nat
  BY DEF IInv, TypeOK
<1>6. Len(st1) = Len(starts[s]) + 1
  BY <1>2, <1>5, AppendProperties DEF Endings
<1>7. starts' = [starts EXCEPT ![s] = st1] /\ UNCHANGED <<prior, limit, sent>>
  BY <1>2 DEF StartAttempt
<1>8. \A r \in Samples : Len(starts'[r]) = IF r = s THEN Len(starts[s]) + 1 ELSE Len(starts[r])
  BY <1>5, <1>6, <1>7
<1>9. SpentSeen' = [SpentSeen EXCEPT ![s] = SpentSeen[s] + 1]
  BY <1>8 DEF SpentSeen
<1>10. WonSeen' = WonSeen /\ ~WonSeen[s] /\ SpentSeen[s] < limit[s]
  BY <1>4, <1>5, <1>7 DEF WonSeen, SpentSeen
<1>11. Budget!Spend(s)
  BY <1>7, <1>9, <1>10 DEF Budget!Spend, SpentSeen, WonSeen
<1> QED BY <1>11 DEF Budget!Next

LEMMA SendBudget ==
    ASSUME IInv, NEW s \in Samples, Send(s) PROVE Budget!Next
<1>1. Values(thread[s], starts[s], prior[s], limit[s], renewedAt[s], sent[s])
  BY SampleValues
<1>2. PICK t1 : t1 = [thread[s] EXCEPT !.pc = "sent"]
  OBVIOUS
<1>3. sent[s] < Len(starts[s]) /\ ~prior[s].succeeded
  BY <1>1, <1>2, SendValues DEF Send
<1>4. sent' = [sent EXCEPT ![s] = sent[s] + 1] /\ UNCHANGED <<starts, prior, limit>>
  BY DEF Send, durable
<1>5. /\ SpentSeen' = SpentSeen /\ WonSeen' = WonSeen
      /\ SpentSeen[s] = Len(starts[s]) /\ WonSeen[s] = prior[s].succeeded
  BY <1>4 DEF SpentSeen, WonSeen
<1>6. Budget!Request(s)
  BY <1>3, <1>4, <1>5 DEF Budget!Request, SpentSeen, WonSeen
<1> QED BY <1>6 DEF Budget!Next

LEMMA FinishBudget ==
    ASSUME IInv, NEW s \in Samples, FinishAttempt(s) PROVE Budget!Next \/ UNCHANGED Budget!vars
<1>1. PICK st1 \in Seq(Endings), t1 \in LeafStates :
         /\ Writes(s, st1, thread[s].outcome, t1, sent[s])
         /\ Len(st1) = Len(starts[s]) /\ sent[s] > 0 /\ ~prior[s].succeeded
         /\ thread[s].outcome \in Outcomes
  BY FinishWrites
<1>2. PICK o \in Outcomes : o = thread[s].outcome
  BY <1>1
<1>3. starts \in [Samples -> Seq(Endings)] /\ prior \in [Samples -> Outcomes]
  BY DEF IInv, TypeOK
<1>4. /\ starts' = [starts EXCEPT ![s] = st1] /\ prior' = [prior EXCEPT ![s] = o]
      /\ limit' = limit /\ sent' = sent
  BY <1>1, <1>2 DEF Writes, FinishAttempt
<1>5. \A r \in Samples : Len(starts'[r]) = Len(starts[r])
  BY <1>1, <1>3, <1>4
<1>6. \A r \in Samples : prior'[r] = IF r = s THEN o ELSE prior[r]
  BY <1>3, <1>4
<1>7. CASE ~o.succeeded
  <2>1. \A r \in Samples : prior'[r].succeeded = prior[r].succeeded
    BY <1>1, <1>3, <1>6, <1>7 DEF Outcomes
  <2> QED BY <1>4, <1>5, <2>1, BudgetStutter
<1>8. CASE o.succeeded
  <2>1. o.succeeded = TRUE
    BY <1>8 DEF Outcomes
  <2>2. WonSeen' = [WonSeen EXCEPT ![s] = TRUE]
    BY <1>6, <2>1 DEF WonSeen
  <2>3. SpentSeen' = SpentSeen
    BY <1>5 DEF SpentSeen
  <2>4. ~WonSeen[s]
    BY <1>1 DEF WonSeen
  <2>5. Budget!Win(s)
    BY <1>1, <1>4, <2>2, <2>3, <2>4 DEF Budget!Win, SpentSeen, WonSeen
  <2> QED BY <2>5 DEF Budget!Next
<1> QED BY <1>7, <1>8

LEMMA RenewBudget == ASSUME IInv, Renew PROVE Budget!Next
<1>1. PICK S : S = {s \in Samples : Renewable(s)}
  OBVIOUS
<1>2. /\ limit' = [s \in Samples |-> IF s \in S THEN Len(starts[s]) + Renewal ELSE limit[s]]
      /\ UNCHANGED <<starts, prior, sent>>
  BY <1>1 DEF Renew
<1>3. \A s \in S : s \in Samples /\ ~prior[s].succeeded
  BY <1>1 DEF Renewable
<1>4. SpentSeen' = SpentSeen /\ WonSeen' = WonSeen
  BY <1>2 DEF SpentSeen, WonSeen
<1>5. \A s \in S : ~WonSeen[s]
  BY <1>3 DEF WonSeen
<1>6. limit' = [s \in Samples |-> IF s \in S THEN SpentSeen[s] + Renewal ELSE limit[s]]
  BY <1>2 DEF SpentSeen
<1>7. Budget!Grant(S)
  BY <1>2, <1>4, <1>5, <1>6 DEF Budget!Grant, SpentSeen, WonSeen
<1>8. S \in SUBSET Samples
  BY <1>3
<1> QED BY <1>7, <1>8 DEF Budget!Next

LEMMA BudgetSteps == IInv /\ [Next]_vars => [Budget!Next]_(Budget!vars)
<1> SUFFICES ASSUME IInv, [Next]_vars PROVE Budget!Next \/ UNCHANGED Budget!vars
  OBVIOUS
<1>1. CASE Session
  BY <1>1, QuietStep DEF Session, OpenSession, RunSamples, CloseSession, durable
<1>2. ASSUME NEW s \in Samples, Leaf(s) PROVE Budget!Next \/ UNCHANGED Budget!vars
  <2>1. CASE Restore(s)
    BY <2>1, RestoreBudget
  <2>2. CASE StartAttempt(s)
    BY <2>2, StartAttemptBudget
  <2>3. CASE Pause(s) \/ EmitResult(s) \/ \E answer \in Answers : Answer(s, answer)
    BY <2>3, QuietStep DEF Pause, EmitResult, Answer, durable
  <2>4. CASE Send(s)
    BY <2>4, SendBudget
  <2>5. CASE FinishAttempt(s)
    BY <2>5, FinishBudget
  <2> QED BY <1>2, <2>1, <2>2, <2>3, <2>4, <2>5 DEF Leaf
<1>3. CASE Renew
  BY <1>3, RenewBudget
<1>4. CASE RequestStop \/ Crash \/ UNCHANGED vars
  BY <1>4, QuietStep DEF RequestStop, Crash, vars, durable
<1> QED BY <1>1, <1>2, <1>3, <1>4 DEF Next

\* Durable sampling implements the budget: a request is spent before it leaves, never
\* beyond the limit nor after a success, and limits only move by a grant on top of what
\* was spent -- through crashes, stops, sessions and renewals (run_sampling.py, sampling.py).
THEOREM SamplingIsABudget == Spec => ImplementsBudget
<1> QED BY BudgetInit, BudgetSteps, InvariantHolds, PTL DEF Spec, ImplementsBudget, Budget!Spec
------------------------------------------------------------------------------
(* The runtime                                                                  *)

\* The last n samples of a branch.
Rest(b, n) == [i \in 1..n |-> <<b, SamplesOf[b] - n + i>>]

\* Group i holds what is left of the samples of b.
Holds(i, b) ==
    /\ b \in Branches /\ branch[b] = "sampling"
    /\ \E n \in 1..SamplesOf[b] : groups[i] = Rest(b, n)

Owner(i) == Head(groups[i])[1]

\* A branch has one group, which holds its pending samples, the last ones.
QueueIsSound ==
    /\ \A i \in DOMAIN groups : Holds(i, Owner(i))
    /\ \A i, j \in DOMAIN groups : Owner(i) = Owner(j) => i = j
    /\ \A l \in Leaves : leaf[l] = "pending" <=> \E i \in DOMAIN groups : l \in Range(groups[i])

\* A group that was served while another waited stands behind it.
TurnsAreKept ==
    /\ \A i, j \in DOMAIN groups : i < j => Owner(i) \notin passed[Owner(j)]
    /\ \A b \in Branches : (\A i \in DOMAIN groups : Owner(i) # b) => passed[b] = {}

InHand == {l \in Leaves : leaf[l] \in {"pooled", "asking", "resulted"}}

WorkersAreHeld ==
    /\ IsFiniteSet(InHand) /\ active = Cardinality(InHand) /\ active <= Workers
    /\ WorkConserving

\* Only a branch that waits for its samples, or has waited, has any.
SamplesHaveBranches ==
    \A l \in Leaves : leaf[l] # "none" => branch[l[1]] \in {"sampling", "done"}

\* How far the clean-up is, by what the main thread is doing.
CleanupSoFar ==
    /\ main \in {"running", "drain"} => cleaned = {}
    /\ main \in {"cleanup", "undo", "clients"} \/ cleaned # {} => \A q \in Questions : ~Alive(q)
    /\ main = "cleanup" => cleaned \subseteq Runners \X {"cleanup"}
    /\ main = "undo" => /\ Runners \X {"cleanup"} \subseteq cleaned
                        /\ cleaned \subseteq Runners \X {"cleanup", "undo"}
    /\ main = "clients" => Runners \X {"cleanup", "undo"} \subseteq cleaned
    /\ Reached("workflows") => cleaned \in {{}, Runners \X {"cleanup", "undo", "client"}}

RuntimeInv ==
    /\ RuntimeTypeOK
    /\ QueueIsSound /\ TurnsAreKept /\ WorkersAreHeld /\ SamplesHaveBranches
    /\ NobodyLeavesWorkBehind /\ PoolsOutliveTheirUsers /\ CleanupSoFar

LEMMA PoolFacts ==
    /\ Workers \in Nat /\ Workers > 0 /\ MaxHitches \in Nat
    /\ SamplesOf \in [Branches -> Nat] /\ ParentOf \in [Branches -> Questions \cup Branches]
BY PoolAssumption, TreeAssumption

LEMMA LeafFacts ==
    /\ \A b \in Branches : \A i \in 1..SamplesOf[b] : <<b, i>> \in Leaves
    /\ \A l \in Leaves : /\ l = <<l[1], l[2]>> /\ l[1] \in Branches
                         /\ l[2] \in 1..SamplesOf[l[1]]
    /\ \A b \in Branches : \A l \in LeavesOf(b) : l \in Leaves /\ l[1] = b
    /\ \A l \in Leaves : l \in LeavesOf(l[1])
<1>1. \A b \in Branches : \A i \in 1..SamplesOf[b] : <<b, i>> \in Leaves
  BY DEF Leaves
<1>2. ASSUME NEW l \in Leaves
      PROVE  /\ l = <<l[1], l[2]>> /\ l[1] \in Branches
             /\ l[2] \in 1..SamplesOf[l[1]]
  <2>1. PICK b \in Branches : l \in {<<b, i>> : i \in 1..SamplesOf[b]}
    BY DEF Leaves
  <2> QED BY <2>1
<1> QED BY <1>1, <1>2 DEF LeavesOf

\* What a loop that takes n turns computes, given what each of its turns leaves.
LEMMA PumpedIs ==
    ASSUME NEW s, NEW F, F = [n \in 0..Workers |-> F[n]], F[0] = s,
           \A n \in 1..Workers : F[n] = Turn(F[n - 1])
    PROVE  Pumped(s) = F[Workers]
<1> DEFINE Run(f) == f = [n \in 0..Workers |-> IF n = 0 THEN s ELSE Turn(f[n - 1])]
           pump == CHOOSE f : Run(f)
<1>1. Run(F)
  <2>1. ASSUME NEW n \in 0..Workers PROVE F[n] = IF n = 0 THEN s ELSE Turn(F[n - 1])
    <3>1. CASE n = 0
      BY <3>1
    <3>2. CASE n # 0
      <4>1. n \in 1..Workers
        BY <3>2, PoolFacts
      <4> QED BY <3>2, <4>1
    <3> QED BY <3>1, <3>2
  <2> QED BY <2>1
<1>2. Run(pump)
  BY <1>1
<1>3. Pumped(s) = pump[Workers]
  BY DEF Pumped
<1> HIDE DEF pump
<1>4. PICK f : f = pump /\ Run(f)
  BY <1>2
<1>5. \A n \in 0..Workers : f[n] = IF n = 0 THEN s ELSE Turn(f[n - 1])
  BY <1>4
<1> HIDE DEF Run
<1>6. \A n \in 0..Workers : f[n] = F[n]
  <2> DEFINE Wrong == {n \in Nat : n <= Workers /\ f[n] # F[n]}
  <2> SUFFICES ASSUME Wrong # {} PROVE FALSE
    BY PoolFacts
  <2>1. IsWellFoundedOn(OpToRel(<, Nat), Nat)
    BY NatLessThanWellFounded
  <2>2. PICK k \in Wrong : \A j \in Wrong : <<j, k>> \notin OpToRel(<, Nat)
    BY <2>1, WFMin
  <2>3. k \in Nat /\ k <= Workers /\ f[k] # F[k] /\ \A j \in Nat : j < k => f[j] = F[j]
    <3>1. \A j \in Wrong : ~(j < k)
      BY <2>2 DEF OpToRel
    <3> QED BY <3>1, PoolFacts
  <2>4. CASE k = 0
    BY <1>5, <2>3, <2>4, PoolFacts
  <2>5. CASE k # 0
    <3>1. k \in 1..Workers /\ k - 1 \in Nat /\ k - 1 < k /\ k \in 0..Workers
      BY <2>3, <2>5, PoolFacts
    <3> QED BY <1>5, <2>3, <2>5, <3>1
  <2> QED BY <2>4, <2>5
<1> QED BY <1>3, <1>4, <1>6, PoolFacts

\* With no group, or no worker free, nothing is admitted.
LEMMA PumpedIdle ==
    ASSUME NEW s, s.groups = <<>> \/ ~HasWorker(s)
    PROVE  Pumped(s) = s
<1> DEFINE F == [n \in 0..Workers |-> s]
<1>1. Turn(s) = s
  BY DEF Turn
<1>2. F = [n \in 0..Workers |-> F[n]]
  OBVIOUS
<1>3. F[0] = s /\ F[Workers] = s
  BY PoolFacts
<1>4. \A n \in 1..Workers : F[n] = Turn(F[n - 1])
  BY <1>1, PoolFacts
<1> QED BY <1>2, <1>3, <1>4, PumpedIs

\* With one worker free, one leaf is.
LEMMA PumpedOne ==
    ASSUME NEW s, s.groups # <<>>, s.active = Workers - 1
    PROVE  Pumped(s) = Pop(s)
<1> DEFINE F == [n \in 0..Workers |-> IF n = 0 THEN s ELSE Pop(s)]
<1>1. Turn(s) = Pop(s)
  BY PoolFacts DEF Turn, HasWorker
<1>2. Turn(Pop(s)) = Pop(s)
  <2>1. Pop(s).active = Workers
    BY PoolFacts DEF Pop
  <2> QED BY <2>1, PoolFacts DEF Turn, HasWorker
<1>3. F = [n \in 0..Workers |-> F[n]]
  OBVIOUS
<1>4. F[0] = s /\ F[Workers] = Pop(s)
  BY PoolFacts
<1>5. \A n \in 1..Workers : F[n] = Turn(F[n - 1])
  BY <1>1, <1>2, PoolFacts
<1> QED BY <1>3, <1>4, <1>5, PumpedIs

LEMMA RestFacts ==
    ASSUME NEW b \in Branches, NEW n \in 1..SamplesOf[b]
    PROVE  /\ Rest(b, n) \in Seq(Leaves) /\ Rest(b, n) # <<>> /\ Len(Rest(b, n)) = n
           /\ Head(Rest(b, n)) = <<b, SamplesOf[b] - n + 1>>
           /\ Head(Rest(b, n))[1] = b
           /\ Tail(Rest(b, n)) = Rest(b, n - 1)
           /\ Rest(b, 0) = <<>>
           /\ Range(Rest(b, n)) = {<<b, i>> : i \in (SamplesOf[b] - n + 1)..SamplesOf[b]}
<1>1. PICK t \in Nat : t = SamplesOf[b] /\ n \in 1..t /\ n \in Nat /\ n <= t
  BY PoolFacts
<1>2. Rest(b, n) = [i \in 1..n |-> <<b, t - n + i>>]
  BY <1>1 DEF Rest
<1>3. \A i \in 1..n : t - n + i \in 1..t
  BY <1>1
<1>4. Rest(b, n) \in Seq(Leaves) /\ Len(Rest(b, n)) = n
  <2>1. \A i \in 1..n : <<b, t - n + i>> \in Leaves
    BY <1>1, <1>3, LeafFacts
  <2> QED BY <1>1, <1>2, <2>1
<1>5. Rest(b, n) # <<>>
  BY <1>1, <1>4
<1>6. Head(Rest(b, n)) = <<b, t - n + 1>>
  BY <1>1, <1>2, <1>4, <1>5
<1>7. Tail(Rest(b, n)) = Rest(b, n - 1)
  <2>1. PICK tl : tl = Tail(Rest(b, n))
    OBVIOUS
  <2>2. tl \in Seq(Leaves) /\ Len(tl) = n - 1
        /\ \A i \in 1..(n - 1) : tl[i] = Rest(b, n)[i + 1]
    BY <1>1, <1>4, <1>5, <2>1
  <2>3. \A i \in 1..(n - 1) : tl[i] = <<b, t - (n - 1) + i>>
    <3>1. ASSUME NEW i \in 1..(n - 1) PROVE tl[i] = <<b, t - (n - 1) + i>>
      <4>1. i + 1 \in 1..n /\ t - n + (i + 1) = t - (n - 1) + i
        BY <1>1
      <4>2. PICK j \in 1..n : j = i + 1
        BY <4>1
      <4>3. tl[i] = <<b, t - n + j>>
        BY <1>2, <2>2, <4>2
      <4> QED BY <4>1, <4>2, <4>3
    <3> QED BY <3>1
  <2>4. tl = [i \in 1..(n - 1) |-> <<b, t - (n - 1) + i>>]
    <3>1. tl = [i \in 1..(n - 1) |-> tl[i]]
      BY <1>1, <2>2
    <3> QED BY <2>3, <3>1
  <2> QED BY <1>1, <2>1, <2>4 DEF Rest
<1>8. Rest(b, 0) = <<>>
  BY <1>1 DEF Rest
<1>9. Range(Rest(b, n)) = {<<b, i>> : i \in (t - n + 1)..t}
  <2>1. ASSUME NEW x \in Range(Rest(b, n)) PROVE x \in {<<b, i>> : i \in (t - n + 1)..t}
    <3>1. PICK i \in 1..n : x = <<b, t - n + i>>
      BY <1>2 DEF Range
    <3>2. t - n + i \in (t - n + 1)..t
      BY <1>1
    <3> QED BY <3>1, <3>2
  <2>2. ASSUME NEW i \in (t - n + 1)..t PROVE <<b, i>> \in Range(Rest(b, n))
    <3>1. PICK j \in 1..n : j = i - (t - n)
      BY <1>1
    <3>2. i = t - n + j
      BY <1>1, <3>1
    <3>3. Rest(b, n)[j] = <<b, i>>
      BY <1>2, <3>2
    <3> QED BY <1>2, <3>3 DEF Range
  <2> QED BY <2>1, <2>2
<1> QED BY <1>1, <1>4, <1>5, <1>6, <1>7, <1>8, <1>9

\* The first n samples of a branch.
Firsts(b, n) == [i \in 1..n |-> <<b, i>>]

\* What k turns leave of the group of b, queued alone with a leaves in hand.
Served(b, a, k) ==
    [groups |-> IF k = SamplesOf[b] THEN <<>> ELSE <<Rest(b, SamplesOf[b] - k)>>,
     active |-> a + k, taken |-> Firsts(b, k)]

LEMMA FirstsFacts ==
    ASSUME NEW b, NEW n \in Nat
    PROVE  /\ Firsts(b, 0) = <<>> /\ Append(Firsts(b, n), <<b, n + 1>>) = Firsts(b, n + 1)
           /\ Range(Firsts(b, n)) = {<<b, i>> : i \in 1..n}
<1>1. Firsts(b, 0) = <<>>
  BY DEF Firsts
<1>2. Append(Firsts(b, n), <<b, n + 1>>) = Firsts(b, n + 1)
  <2>1. PICK T : T = {<<b, i>> : i \in 1..(n + 1)}
    OBVIOUS
  <2>2. Firsts(b, n) \in Seq(T) /\ Len(Firsts(b, n)) = n /\ <<b, n + 1>> \in T
    <3>1. \A i \in 1..n : <<b, i>> \in T
      BY <2>1
    <3> QED BY <2>1, <3>1 DEF Firsts
  <2>3. PICK q : q = Append(Firsts(b, n), <<b, n + 1>>)
    OBVIOUS
  <2>4. q \in Seq(T) /\ Len(q) = n + 1 /\ q[n + 1] = <<b, n + 1>>
        /\ \A i \in 1..n : q[i] = Firsts(b, n)[i]
    BY <2>2, <2>3
  <2>5. ASSUME NEW i \in 1..(n + 1) PROVE q[i] = <<b, i>>
    <3>1. CASE i = n + 1
      BY <2>4, <3>1
    <3>2. CASE i # n + 1
      BY <2>4, <3>2 DEF Firsts
    <3> QED BY <3>1, <3>2
  <2>6. q = [i \in 1..(n + 1) |-> q[i]]
    BY <2>4
  <2>7. q = Firsts(b, n + 1)
    BY <2>5, <2>6 DEF Firsts
  <2> QED BY <2>3, <2>7
<1>3. Range(Firsts(b, n)) = {<<b, i>> : i \in 1..n}
  BY DEF Firsts, Range
<1> QED BY <1>1, <1>2, <1>3

LEMMA TurnOfGroup ==
    ASSUME NEW b \in Branches, NEW a \in Nat, NEW k \in Nat, k <= SamplesOf[b]
    PROVE  /\ k < SamplesOf[b] /\ a + k < Workers =>
                  Turn(Served(b, a, k)) = Served(b, a, k + 1)
           /\ k = SamplesOf[b] \/ a + k >= Workers =>
                  Turn(Served(b, a, k)) = Served(b, a, k)
<1>1. PICK t \in Nat : t = SamplesOf[b]
  BY PoolFacts
<1>2. ASSUME k < t, a + k < Workers
      PROVE  Turn(Served(b, a, k)) = Served(b, a, k + 1)
  <2>1. PICK r : r = Rest(b, t - k)
    OBVIOUS
  <2>2. PICK n \in 1..t : n = t - k
    BY <1>2
  <2>3. r \in Seq(Leaves) /\ Head(r) = <<b, k + 1>> /\ Tail(r) = Rest(b, t - (k + 1))
        /\ (k + 1 = t <=> Tail(r) = <<>>)
    <3>1. Head(r) = <<b, t - n + 1>> /\ Tail(r) = Rest(b, n - 1) /\ r \in Seq(Leaves)
      BY <1>1, <2>1, <2>2, RestFacts
    <3>2. t - n + 1 = k + 1 /\ n - 1 = t - (k + 1)
      BY <2>2
    <3>3. n = 1 => Rest(b, n - 1) = <<>>
      BY <1>1, RestFacts
    <3>4. n # 1 => Rest(b, n - 1) # <<>>
      <4>1. n # 1 => n - 1 \in 1..t
        BY <2>2
      <4> QED BY <1>1, <4>1, RestFacts
    <3>5. Tail(r) = Rest(b, t - (k + 1)) /\ Head(r) = <<b, k + 1>>
      BY <3>1, <3>2
    <3>6. k + 1 = t <=> n = 1
      BY <2>2
    <3> QED BY <3>1, <3>3, <3>4, <3>5, <3>6
  <2>4. Served(b, a, k) = [groups |-> <<r>>, active |-> a + k, taken |-> Firsts(b, k)]
    BY <1>1, <1>2, <2>1 DEF Served
  <2>5. Turn(Served(b, a, k)) = Pop(Served(b, a, k))
    BY <1>2, <2>4 DEF Turn, HasWorker
  <2>6. Pop(Served(b, a, k)) =
            [groups |-> IF Tail(r) = <<>> THEN <<>> ELSE <<Tail(r)>>,
             active |-> a + k + 1, taken |-> Append(Firsts(b, k), Head(r))]
    BY <2>4 DEF Pop
  <2>7. Append(Firsts(b, k), Head(r)) = Firsts(b, k + 1)
    BY <2>3, FirstsFacts
  <2>8. a + k + 1 = a + (k + 1)
    OBVIOUS
  <2>9. Served(b, a, k + 1) =
            [groups |-> IF Tail(r) = <<>> THEN <<>> ELSE <<Tail(r)>>,
             active |-> a + (k + 1), taken |-> Firsts(b, k + 1)]
    BY <1>1, <2>3 DEF Served
  <2> QED BY <2>5, <2>6, <2>7, <2>8, <2>9
<1>3. ASSUME k = t \/ a + k >= Workers
      PROVE  Turn(Served(b, a, k)) = Served(b, a, k)
  <2>1. Served(b, a, k).active = a + k /\ (k = t => Served(b, a, k).groups = <<>>)
    BY <1>1 DEF Served
  <2> QED BY <1>3, <2>1, PoolFacts DEF Turn, HasWorker
<1> QED BY <1>1, <1>2, <1>3

\* A group queued alone is served until it is used up or the workers are.
LEMMA PumpedGroup ==
    ASSUME NEW b \in Branches, SamplesOf[b] > 0, NEW a \in Nat, a <= Workers
    PROVE  \E m \in 0..SamplesOf[b] :
               /\ Pumped([groups |-> <<Rest(b, SamplesOf[b])>>, active |-> a, taken |-> <<>>])
                      = Served(b, a, m)
               /\ a + m <= Workers
               /\ m = SamplesOf[b] \/ a + m = Workers
<1>1. PICK t \in Nat : t = SamplesOf[b] /\ t > 0
  BY PoolFacts
<1>2. PICK m \in 0..t : a + m <= Workers /\ (m = t \/ a + m = Workers)
  <2>1. CASE a + t <= Workers
    BY <2>1
  <2>2. CASE a + t > Workers
    <3>1. Workers - a \in 0..t
      BY <1>1, <2>2, PoolFacts
    <3>2. PICK n \in 0..t : n = Workers - a
      BY <3>1
    <3>3. a + n = Workers
      BY <3>2, PoolFacts
    <3> QED BY <3>3, PoolFacts
  <2> QED BY <1>1, <2>1, <2>2, PoolFacts
<1>3. PICK s : s = [groups |-> <<Rest(b, t)>>, active |-> a, taken |-> <<>>]
  OBVIOUS
<1>4. s = Served(b, a, 0)
  <2>1. t - 0 = t /\ 0 # t /\ a + 0 = a
    BY <1>1
  <2> QED BY <1>1, <1>3, <2>1, FirstsFacts DEF Served
<1> DEFINE Turns(n) == IF n <= m THEN n ELSE m
           F == [n \in 0..Workers |-> Served(b, a, Turns(n))]
<1>5. ASSUME NEW n \in 1..Workers PROVE F[n] = Turn(F[n - 1])
  <2>1. n - 1 \in 0..Workers /\ n \in 0..Workers /\ n \in Nat /\ n - 1 \in Nat
    BY PoolFacts
  <2>2. F[n] = Served(b, a, Turns(n)) /\ F[n - 1] = Served(b, a, Turns(n - 1))
    BY <2>1
  <2>3. CASE n <= m
    <3>1. PICK k \in Nat : k = n - 1 /\ k < t /\ a + k < Workers /\ Turns(n - 1) = k
                           /\ Turns(n) = k + 1
      BY <1>2, <2>1, <2>3, PoolFacts
    <3> QED BY <1>1, <2>2, <3>1, TurnOfGroup
  <2>4. CASE n > m
    <3>1. Turns(n - 1) = m /\ Turns(n) = m /\ m \in Nat /\ m <= t
          /\ (m = t \/ a + m >= Workers)
      BY <1>2, <2>1, <2>4, PoolFacts
    <3> QED BY <1>1, <2>2, <3>1, TurnOfGroup
  <2> QED BY <1>2, <2>1, <2>3, <2>4
<1>6. F = [n \in 0..Workers |-> F[n]]
  OBVIOUS
<1>7. F[0] = s /\ F[Workers] = Served(b, a, m)
  <2>1. 0 \in 0..Workers /\ Workers \in 0..Workers /\ Turns(0) = 0
    BY <1>2, PoolFacts
  <2>2. Turns(Workers) = m
    BY <1>2, PoolFacts
  <2> QED BY <1>4, <2>1, <2>2
<1>8. Pumped(s) = Served(b, a, m)
  <2> HIDE DEF F
  <2> QED BY <1>5, <1>6, <1>7, PumpedIs
<1> QED BY <1>1, <1>2, <1>3, <1>8

\* Closing[j] = m stands at or behind where.
Behind(where, m) == \E i, j \in DOMAIN Closing :
                       Closing[i] = where /\ Closing[j] = m /\ i <= j

LEMMA ClosingFacts ==
    /\ DOMAIN Closing = 1..10
    /\ Closing[1] = "running" /\ Closing[2] = "drain" /\ Closing[3] = "cleanup"
    /\ Closing[4] = "undo" /\ Closing[5] = "clients" /\ Closing[6] = "workflows"
    /\ Closing[7] = "coordinators" /\ Closing[8] = "samples" /\ Closing[9] = "dispatch"
    /\ Closing[10] = "closed"
BY DEF Closing

LEMMA ClosingRange ==
    Range(Closing) = {"running", "drain", "cleanup", "undo", "clients", "workflows",
                      "coordinators", "samples", "dispatch", "closed"}
BY ClosingFacts DEF Range

LEMMA BehindFacts ==
    ASSUME NEW m \in Range(Closing)
    PROVE  /\ Behind("workflows", m) <=>
                  m \in {"workflows", "coordinators", "samples", "dispatch", "closed"}
           /\ Behind("coordinators", m) <=>
                  m \in {"coordinators", "samples", "dispatch", "closed"}
           /\ Behind("samples", m) <=> m \in {"samples", "dispatch", "closed"}
           /\ Behind("dispatch", m) <=> m \in {"dispatch", "closed"}
<1> DEFINE at(i) == Closing[i]
<1>1. PICK k \in 1..10 : Closing[k] = m
  BY ClosingFacts DEF Range
<1>2. \A j \in 1..10 : Closing[j] = m => j = k
  BY <1>1, ClosingFacts
<1>3. \A i \in 1..10 : /\ Closing[i] = "workflows" => i = 6
                       /\ Closing[i] = "coordinators" => i = 7
                       /\ Closing[i] = "samples" => i = 8
                       /\ Closing[i] = "dispatch" => i = 9
  BY ClosingFacts
<1>4. /\ Behind("workflows", m) <=> k >= 6
      /\ Behind("coordinators", m) <=> k >= 7
      /\ Behind("samples", m) <=> k >= 8
      /\ Behind("dispatch", m) <=> k >= 9
  BY <1>1, <1>2, <1>3, ClosingFacts DEF Behind
<1> QED BY <1>1, <1>4, ClosingFacts

LEMMA NextFacts ==
    /\ NextOf("cleanup") = "undo" /\ NextOf("undo") = "clients"
    /\ NextOf("clients") = "workflows" /\ NextOf("workflows") = "coordinators"
    /\ NextOf("coordinators") = "samples" /\ NextOf("samples") = "dispatch"
<1>1. ASSUME NEW k \in 1..9 PROVE NextOf(Closing[k]) = Closing[k + 1]
  <2>1. Len(Closing) = 10 /\ \A i \in 1..9 : i \in 1..10 /\ i + 1 \in 1..10
    BY DEF Closing
  <2>2. \A i \in 1..9 : Closing[i] = Closing[k] => i = k
    BY ClosingFacts
  <2>3. Closing[k + 1] \in Range(Closing)
    BY <2>1, ClosingFacts DEF Range
  <2>4. \A s : (\E i \in 1..9 : Closing[i] = Closing[k] /\ Closing[i + 1] = s)
                  <=> s = Closing[k + 1]
    BY <2>2
  <2>5. NextOf(Closing[k]) = CHOOSE s \in Range(Closing) : s = Closing[k + 1]
    <3>1. \A s : (\E i \in 1..(Len(Closing) - 1) : Closing[i] = Closing[k] /\ Closing[i + 1] = s)
                    <=> s = Closing[k + 1]
      BY <2>1, <2>4
    <3> QED BY <3>1 DEF NextOf
  <2> QED BY <2>3, <2>5
<1> QED BY <1>1, ClosingFacts

\* Where the main thread is, one kind of clean-up after the other.
LEMMA MainFacts ==
    ASSUME RuntimeTypeOK
    PROVE  /\ Reached("workflows") <=>
                  main \in {"workflows", "coordinators", "samples", "dispatch", "closed"}
           /\ Reached("coordinators") <=> main \in {"coordinators", "samples", "dispatch", "closed"}
           /\ Reached("samples") <=> main \in {"samples", "dispatch", "closed"}
           /\ Reached("dispatch") <=> main \in {"dispatch", "closed"}
<1>1. main \in Range(Closing)
  BY DEF RuntimeTypeOK
<1> QED BY <1>1, BehindFacts DEF Reached, Behind

LEMMA MainFactsNext ==
    ASSUME main' \in Range(Closing)
    PROVE  /\ Reached("workflows")' <=>
                  main' \in {"workflows", "coordinators", "samples", "dispatch", "closed"}
           /\ Reached("coordinators")' <=> main' \in {"coordinators", "samples", "dispatch", "closed"}
           /\ Reached("samples")' <=> main' \in {"samples", "dispatch", "closed"}
           /\ Reached("dispatch")' <=> main' \in {"dispatch", "closed"}
BY BehindFacts DEF Reached, Behind

LEMMA ActionsFacts ==
    /\ DOMAIN Actions = {"cleanup", "undo", "clients"}
    /\ Actions["cleanup"] = "cleanup" /\ Actions["undo"] = "undo" /\ Actions["clients"] = "client"
BY DEF Actions

LEMMA RuntimeStarts == RuntimeInit => RuntimeInv
<1> SUFFICES ASSUME RuntimeInit PROVE RuntimeInv
  OBVIOUS
<1>1. /\ workflow = [q \in Questions |-> "idle"] /\ branch = [b \in Branches |-> "none"]
      /\ groups = <<>> /\ active = 0 /\ leaf = [l \in Leaves |-> "none"]
      /\ main = "running" /\ cleaned = {} /\ passed = [b \in Branches |-> {}] /\ hitches = 0
      /\ phase = [l \in Leaves |-> "new"] /\ stopped = FALSE /\ port = "open"
  BY DEF RuntimeInit, Dispatch!Init
<1>2. RuntimeTypeOK
  <2>1. groups \in Seq(Seq(Leaves))
    BY <1>1
  <2>2. hitches \in 0..MaxHitches /\ active \in Nat
    BY <1>1, PoolFacts
  <2> QED BY <1>1, <2>1, <2>2, ClosingRange DEF RuntimeTypeOK
<1>3. QueueIsSound /\ TurnsAreKept
  BY <1>1 DEF QueueIsSound, TurnsAreKept
<1>4. WorkersAreHeld
  <2>1. InHand = {}
    BY <1>1 DEF InHand
  <2> QED BY <1>1, <2>1, FS_EmptySet, PoolFacts DEF WorkersAreHeld, WorkConserving
<1>5. SamplesHaveBranches /\ NobodyLeavesWorkBehind
  BY <1>1 DEF SamplesHaveBranches, NobodyLeavesWorkBehind, Children, LeavesOf
<1>6. PoolsOutliveTheirUsers /\ CleanupSoFar
  BY <1>1, <1>2, MainFacts DEF PoolsOutliveTheirUsers, CleanupSoFar
<1> QED BY <1>2, <1>3, <1>4, <1>5, <1>6 DEF RuntimeInv

LEMMA GroupFacts ==
    ASSUME QueueIsSound, NEW i \in DOMAIN groups
    PROVE  /\ Owner(i) \in Branches /\ branch[Owner(i)] = "sampling"
           /\ groups[i] \in Seq(Leaves) /\ groups[i] # <<>>
           /\ Head(groups[i]) \in Leaves /\ Head(groups[i]) \in Range(groups[i])
           /\ \A l \in Range(groups[i]) : l \in Leaves /\ l[1] = Owner(i) /\ leaf[l] = "pending"
           /\ \E n \in 1..SamplesOf[Owner(i)] : groups[i] = Rest(Owner(i), n)
<1>1. PICK b : b = Owner(i) /\ Holds(i, b)
  BY DEF QueueIsSound
<1>2. PICK n \in 1..SamplesOf[b] : groups[i] = Rest(b, n)
  BY <1>1 DEF Holds
<1>3. b \in Branches /\ branch[b] = "sampling"
  BY <1>1 DEF Holds
<1>4. groups[i] \in Seq(Leaves) /\ groups[i] # <<>>
  BY <1>2, <1>3, RestFacts
<1>5. Head(groups[i]) \in Range(groups[i])
  BY <1>4 DEF Range
<1>6. ASSUME NEW l \in Range(groups[i]) PROVE l \in Leaves /\ l[1] = b /\ leaf[l] = "pending"
  <2>1. l \in Leaves
    BY <1>4 DEF Range
  <2>2. l[1] = b
    BY <1>2, <1>3, RestFacts
  <2> QED BY <2>1, <2>2 DEF QueueIsSound
<1> QED BY <1>1, <1>2, <1>3, <1>4, <1>5, <1>6

LEMMA QueueStays ==
    ASSUME QueueIsSound, TurnsAreKept, UNCHANGED <<groups, passed>>,
           \A l \in Leaves : leaf'[l] = "pending" <=> leaf[l] = "pending",
           \A l \in Leaves : leaf[l] = "pending" /\ branch[l[1]] = "sampling"
                                 => branch'[l[1]] = "sampling"
    PROVE  QueueIsSound' /\ TurnsAreKept'
<1>1. \A i \in DOMAIN groups : Owner(i)' = Owner(i)
  BY DEF Owner
<1>2. ASSUME NEW i \in DOMAIN groups PROVE Holds(i, Owner(i))'
  <2>1. PICK b \in Branches : b = Owner(i) /\ branch[b] = "sampling"
        /\ \E n \in 1..SamplesOf[b] : groups[i] = Rest(b, n)
    BY GroupFacts
  <2>2. branch'[b] = "sampling"
    <3>1. PICK l \in Leaves : l[1] = b /\ leaf[l] = "pending"
      BY <2>1, GroupFacts
    <3> QED BY <2>1, <3>1
  <2>3. Rest(b, SamplesOf[b])' = Rest(b, SamplesOf[b]) /\ Owner(i)' = b
    BY <1>1, <2>1 DEF Rest
  <2> QED BY <2>1, <2>2, <2>3 DEF Holds, Rest
<1>3. QueueIsSound'
  BY <1>1, <1>2 DEF QueueIsSound
<1>4. TurnsAreKept'
  BY <1>1 DEF TurnsAreKept
<1> QED BY <1>3, <1>4

LEMMA WorkersStay ==
    ASSUME WorkersAreHeld, UNCHANGED <<groups, active>>, InHand' = InHand
    PROVE  WorkersAreHeld'
BY DEF WorkersAreHeld, WorkConserving

\* What is unwound, when only workflows and branches move.
LEMMA UnwindingStays ==
    ASSUME RuntimeInv, RuntimeTypeOK', UNCHANGED <<main, cleaned, port, leaf>>,
           \A q \in Questions : Alive(q)' => Alive(q) \/ main = "running",
           \A b \in Branches : Busy(b)' => Busy(b) \/ ~Reached("samples"),
           \A b \in Branches : branch'[b] = "done" =>
               branch[b] = "done" \/ \A l \in LeavesOf(b) : leaf[l] \in {"none", "resulted", "done"},
           \A q \in Questions : workflow'[q] = "done" =>
               \A b \in Children(q) : ~Busy(b)'
    PROVE  NobodyLeavesWorkBehind' /\ PoolsOutliveTheirUsers' /\ CleanupSoFar'
<1>1. main' = main /\ main \in Range(Closing) /\ RuntimeTypeOK
  BY DEF RuntimeInv, RuntimeTypeOK
<1>2. NobodyLeavesWorkBehind'
  BY DEF RuntimeInv, NobodyLeavesWorkBehind
<1>3. /\ Reached("coordinators")' = Reached("coordinators")
      /\ Reached("samples")' = Reached("samples") /\ Reached("dispatch")' = Reached("dispatch")
      /\ Reached("workflows")' = Reached("workflows")
  BY <1>1 DEF Reached
<1>4. PoolsOutliveTheirUsers'
  BY <1>1, <1>3, MainFacts DEF RuntimeInv, PoolsOutliveTheirUsers
<1>5. CleanupSoFar'
  <2>1. \A q \in Questions : Alive(q)' => Alive(q) \/ (cleaned = {} /\ main = "running")
    BY DEF RuntimeInv, CleanupSoFar
  <2> QED BY <1>1, <1>3, <2>1 DEF RuntimeInv, CleanupSoFar
<1> QED BY <1>2, <1>4, <1>5

\* A step of a workflow or a branch that neither queues nor moves a sample.
LEMMA PoolStep ==
    ASSUME RuntimeInv, PoolFrame,
           workflow' \in [Questions -> {"idle", "running", "waiting", "done"}],
           branch' \in [Branches -> {"none", "queued", "running", "sampling", "done"}],
           stopped' \in BOOLEAN,
           \A q \in Questions : Alive(q)' => Alive(q) \/ main = "running",
           \A b \in Branches : Busy(b)' => Busy(b) \/ ~Reached("samples"),
           \A b \in Branches : branch[b] \in {"sampling", "done"} =>
               branch'[b] = branch[b] \/ branch'[b] = "done",
           \A b \in Branches : branch'[b] = "done" /\ branch[b] # "done" =>
               \A l \in LeavesOf(b) : leaf[l] \in {"none", "resulted", "done"},
           \A q \in Questions : workflow'[q] = "done" =>
               \A b \in Children(q) : ~Busy(b)'
    PROVE  RuntimeInv'
<1>1. UNCHANGED <<groups, active, leaf, main, cleaned, phase, port, passed, hitches>>
  BY DEF PoolFrame, requests
<1>2. RuntimeTypeOK'
  BY <1>1 DEF RuntimeInv, RuntimeTypeOK
<1>3. QueueIsSound' /\ TurnsAreKept'
  <2>1. \A l \in Leaves : leaf[l] = "pending" /\ branch[l[1]] = "sampling"
                              => branch'[l[1]] = "sampling"
    BY LeafFacts
  <2> QED BY <1>1, <2>1, QueueStays DEF RuntimeInv
<1>4. WorkersAreHeld'
  <2>1. InHand' = InHand
    BY <1>1 DEF InHand
  <2> QED BY <1>1, <2>1, WorkersStay DEF RuntimeInv
<1>5. SamplesHaveBranches'
  BY <1>1, LeafFacts DEF RuntimeInv, SamplesHaveBranches
<1>6. NobodyLeavesWorkBehind' /\ PoolsOutliveTheirUsers' /\ CleanupSoFar'
  BY <1>1, <1>2, UnwindingStays
<1> QED BY <1>2, <1>3, <1>4, <1>5, <1>6 DEF RuntimeInv

\* A branch can start another, or be started, only while the sample pool is up.
LEMMA SubmittersHoldPools ==
    ASSUME RuntimeInv
    PROVE  /\ \A q \in Questions : Alive(q) => ~Reached("samples")
           /\ \A b \in Branches : Busy(b) => ~Reached("samples")
BY MainFacts DEF RuntimeInv, PoolsOutliveTheirUsers

LEMMA SubmitWorkflowStep ==
    ASSUME RuntimeInv, NEW q \in Questions, SubmitWorkflow(q) PROVE RuntimeInv'
<1>1. /\ main = "running" /\ workflow' = [workflow EXCEPT ![q] = "running"]
      /\ UNCHANGED <<branch, stopped>> /\ PoolFrame
  BY DEF SubmitWorkflow
<1>2. RuntimeTypeOK
  BY DEF RuntimeInv
<1>3. \A p \in Questions : workflow'[p] = "done" => workflow[p] = "done"
  BY <1>1, <1>2 DEF RuntimeTypeOK
<1>4. \A b \in Branches : Busy(b)' <=> Busy(b)
  BY <1>1 DEF Busy
<1>5. \A p \in Questions : workflow'[p] = "done" => \A b \in Children(p) : ~Busy(b)'
  BY <1>3, <1>4 DEF RuntimeInv, NobodyLeavesWorkBehind, Children
<1>6. workflow' \in [Questions -> {"idle", "running", "waiting", "done"}]
      /\ branch' \in [Branches -> {"none", "queued", "running", "sampling", "done"}]
      /\ stopped' \in BOOLEAN
  BY <1>1, <1>2 DEF RuntimeTypeOK
<1> QED BY <1>1, <1>4, <1>5, <1>6, PoolStep

LEMMA SubmitBranchStep ==
    ASSUME RuntimeInv, NEW t \in Tasks, NEW b \in Branches, SubmitBranch(t, b)
    PROVE  RuntimeInv'
<1>1. /\ Submitting(t) /\ b \in Children(t) /\ branch[b] = "none"
      /\ branch' = [branch EXCEPT ![b] = Starts(b)]
      /\ UNCHANGED <<workflow, stopped>> /\ PoolFrame
  BY DEF SubmitBranch
<1>2. RuntimeTypeOK
  BY DEF RuntimeInv
<1>3. Starts(b) \in {"queued", "running"}
  BY DEF Starts
<1>4. ~Reached("samples")
  <2>1. CASE t \in Questions
    BY <1>1, <2>1, SubmittersHoldPools DEF Submitting, Alive
  <2>2. CASE t \notin Questions
    BY <1>1, <2>2, SubmittersHoldPools DEF Submitting, Busy, Tasks
  <2> QED BY <2>1, <2>2
<1>5. \A c \in Branches : c # b => branch'[c] = branch[c]
  BY <1>1, <1>2 DEF RuntimeTypeOK
<1>6. branch'[b] \in {"queued", "running"}
  BY <1>1, <1>2, <1>3 DEF RuntimeTypeOK
<1>7. ASSUME NEW p \in Questions, workflow'[p] = "done", NEW c \in Children(p)
      PROVE  ~Busy(c)'
  <2>1. c \in Branches /\ ParentOf[c] = p /\ workflow[p] = "done" /\ ~Busy(c)
    BY <1>1, <1>7 DEF RuntimeInv, NobodyLeavesWorkBehind, Children
  <2>2. c # b
    <3>1. SUFFICES ASSUME c = b PROVE FALSE
      OBVIOUS
    <3>2. p = t
      BY <1>1, <2>1, <3>1 DEF Children
    <3> QED BY <1>1, <2>1, <3>2 DEF Submitting
  <2> QED BY <1>5, <2>1, <2>2 DEF Busy
<1>8. branch' \in [Branches -> {"none", "queued", "running", "sampling", "done"}]
      /\ workflow' \in [Questions -> {"idle", "running", "waiting", "done"}]
      /\ stopped' \in BOOLEAN
  BY <1>1, <1>2, <1>3 DEF RuntimeTypeOK
<1>9. \A q \in Questions : Alive(q)' => Alive(q)
  BY <1>1 DEF Alive
<1>10. \A c \in Branches : branch[c] \in {"sampling", "done"} => branch'[c] = branch[c]
  BY <1>1, <1>5
<1>11. \A c \in Branches : branch'[c] = "done" => branch[c] = "done"
  BY <1>5, <1>6
<1> QED BY <1>1, <1>4, <1>7, <1>8, <1>9, <1>10, <1>11, PoolStep

LEMMA WorkflowStep ==
    ASSUME RuntimeInv, NEW q \in Questions, AwaitBranches(q) \/ EndWorkflow(q)
    PROVE  RuntimeInv'
<1>1. PICK w \in {"waiting", "done"} :
          /\ workflow[q] \in {"running", "waiting"} /\ workflow' = [workflow EXCEPT ![q] = w]
          /\ w = "done" => BranchesOver(q)
          /\ UNCHANGED <<branch, stopped>> /\ PoolFrame
  BY DEF AwaitBranches, EndWorkflow
<1>2. RuntimeTypeOK
  BY DEF RuntimeInv
<1>3. \A p \in Questions : Alive(p)' => Alive(p)
  BY <1>1, <1>2 DEF Alive, RuntimeTypeOK
<1>4. \A b \in Branches : Busy(b)' <=> Busy(b)
  BY <1>1 DEF Busy
<1>5. ASSUME NEW p \in Questions, workflow'[p] = "done", NEW b \in Children(p)
      PROVE  ~Busy(b)'
  <2>1. b \in Branches
    BY DEF Children
  <2>2. ~Busy(b)
    <3>1. CASE p = q
      BY <1>1, <1>2, <1>5, <3>1 DEF BranchesOver, RuntimeTypeOK
    <3>2. CASE p # q
      BY <1>1, <1>2, <1>5, <3>2 DEF RuntimeInv, NobodyLeavesWorkBehind, RuntimeTypeOK
    <3> QED BY <3>1, <3>2
  <2> QED BY <1>4, <2>1, <2>2
<1>6. workflow' \in [Questions -> {"idle", "running", "waiting", "done"}]
      /\ branch' \in [Branches -> {"none", "queued", "running", "sampling", "done"}]
      /\ stopped' \in BOOLEAN
  BY <1>1, <1>2 DEF RuntimeTypeOK
<1> QED BY <1>1, <1>3, <1>4, <1>5, <1>6, PoolStep

\* A branch that runs has no sample yet.
LEMMA RunningHasNone ==
    ASSUME RuntimeInv, NEW b \in Branches, branch[b] \notin {"sampling", "done"}
    PROVE  \A l \in LeavesOf(b) : leaf[l] = "none"
BY LeafFacts DEF RuntimeInv, SamplesHaveBranches

LEMMA BranchStep ==
    ASSUME RuntimeInv, NEW b \in Branches, StartBranch(b) \/ EndBranch(b)
    PROVE  RuntimeInv'
<1>1. RuntimeTypeOK
  BY DEF RuntimeInv
<1>2. PICK w \in {"running", "done"} :
          /\ Busy(b) /\ branch' = [branch EXCEPT ![b] = w]
          /\ w = "running" => branch[b] = "queued"
          /\ w = "done" => branch[b] = "running" \/ GroupOver(b)
          /\ UNCHANGED <<workflow, stopped>> /\ PoolFrame
  BY DEF StartBranch, EndBranch, Busy
<1>3. \A c \in Branches : c # b => branch'[c] = branch[c]
  BY <1>1, <1>2 DEF RuntimeTypeOK
<1>4. branch'[b] = w
  BY <1>1, <1>2 DEF RuntimeTypeOK
<1>5. \A c \in Branches : Busy(c)' => Busy(c)
  BY <1>2, <1>3 DEF Busy
<1>6. \A c \in Branches : branch[c] \in {"sampling", "done"} =>
          branch'[c] = branch[c] \/ branch'[c] = "done"
  BY <1>2, <1>3, <1>4 DEF Busy
<1>7. ASSUME NEW c \in Branches, branch'[c] = "done", branch[c] # "done"
      PROVE  \A l \in LeavesOf(c) : leaf[l] \in {"none", "resulted", "done"}
  <2>1. c = b /\ w = "done"
    BY <1>3, <1>4, <1>7
  <2>2. CASE branch[b] = "running"
    BY <2>1, <2>2, RunningHasNone
  <2>3. CASE GroupOver(b)
    BY <2>1, <2>3 DEF GroupOver
  <2> QED BY <1>2, <2>1, <2>2, <2>3
<1>8. \A q \in Questions : workflow'[q] = "done" => \A c \in Children(q) : ~Busy(c)'
  BY <1>2, <1>5 DEF RuntimeInv, NobodyLeavesWorkBehind, Children
<1>9. \A q \in Questions : Alive(q)' => Alive(q)
  BY <1>2 DEF Alive
<1>10. workflow' \in [Questions -> {"idle", "running", "waiting", "done"}]
      /\ branch' \in [Branches -> {"none", "queued", "running", "sampling", "done"}]
      /\ stopped' \in BOOLEAN
  BY <1>1, <1>2 DEF RuntimeTypeOK
<1> QED BY <1>2, <1>5, <1>6, <1>7, <1>8, <1>9, <1>10, PoolStep

LEMMA StopStep ==
    ASSUME RuntimeInv, Stop PROVE RuntimeInv'
<1>1. stopped' = TRUE /\ UNCHANGED <<workflow, branch>> /\ PoolFrame
  BY DEF Stop
<1>2. \A c \in Branches : Busy(c)' <=> Busy(c)
  BY <1>1 DEF Busy
<1>3. \A q \in Questions : Alive(q)' <=> Alive(q)
  BY <1>1 DEF Alive
<1>4. \A q \in Questions : workflow'[q] = "done" => \A c \in Children(q) : ~Busy(c)'
  BY <1>1, <1>2 DEF RuntimeInv, NobodyLeavesWorkBehind, Children
<1>5. workflow' \in [Questions -> {"idle", "running", "waiting", "done"}]
      /\ branch' \in [Branches -> {"none", "queued", "running", "sampling", "done"}]
      /\ stopped' \in BOOLEAN
  BY <1>1 DEF RuntimeInv, RuntimeTypeOK
<1> QED BY <1>1, <1>2, <1>3, <1>4, <1>5, PoolStep

\* A step of leaves in hand that gives none of them up.
LEMMA HandStep ==
    ASSUME RuntimeInv,
           UNCHANGED <<workflow, branch, groups, active, main, cleaned, port, passed>>,
           leaf' \in [Leaves -> {"none", "pending", "pooled", "asking", "resulted", "done"}],
           stopped' \in BOOLEAN, hitches' \in 0..MaxHitches,
           phase' \in [Leaves -> {"new", "accepted", "admitted", "settled"}],
           \A l \in Leaves : \/ leaf'[l] = leaf[l]
                             \/ leaf[l] \in {"pooled", "asking"} /\ leaf'[l] \in {"asking", "resulted"}
    PROVE  RuntimeInv'
<1>1. RuntimeTypeOK'
  BY DEF RuntimeInv, RuntimeTypeOK
<1>2. QueueIsSound' /\ TurnsAreKept'
  <2>1. \A l \in Leaves : leaf'[l] = "pending" <=> leaf[l] = "pending"
    OBVIOUS
  <2> QED BY <2>1, QueueStays DEF RuntimeInv
<1>3. WorkersAreHeld'
  <2>1. InHand' = InHand
    BY DEF InHand
  <2> QED BY <2>1, WorkersStay DEF RuntimeInv
<1>4. SamplesHaveBranches'
  BY DEF RuntimeInv, SamplesHaveBranches
<1>5. NobodyLeavesWorkBehind'
  <2>1. \A q \in Questions : workflow[q] = "done" => \A b \in Children(q) : ~Busy(b)'
    BY DEF RuntimeInv, NobodyLeavesWorkBehind, Busy
  <2>2. \A b \in Branches : branch[b] = "done" =>
            \A l \in LeavesOf(b) : leaf'[l] \in {"none", "resulted", "done"}
    BY LeafFacts DEF RuntimeInv, NobodyLeavesWorkBehind
  <2> QED BY <2>1, <2>2 DEF NobodyLeavesWorkBehind
<1>6. /\ Reached("coordinators")' = Reached("coordinators")
      /\ Reached("samples")' = Reached("samples") /\ Reached("dispatch")' = Reached("dispatch")
      /\ Reached("workflows")' = Reached("workflows")
  BY DEF Reached
<1>7. (\A q \in Questions : Alive(q)' <=> Alive(q)) /\ (\A b \in Branches : Busy(b)' <=> Busy(b))
  BY DEF Alive, Busy
<1>8. PoolsOutliveTheirUsers'
  <2>1. Reached("dispatch") => \A l \in Leaves : leaf'[l] \in {"none", "done"}
    BY DEF RuntimeInv, PoolsOutliveTheirUsers
  <2> QED BY <1>6, <1>7, <2>1 DEF RuntimeInv, PoolsOutliveTheirUsers
<1>9. CleanupSoFar'
  BY <1>6, <1>7 DEF RuntimeInv, CleanupSoFar
<1> QED BY <1>1, <1>2, <1>3, <1>4, <1>5, <1>8, <1>9 DEF RuntimeInv

LEMMA TakeLeafStep ==
    ASSUME RuntimeInv, NEW l \in Leaves, TakeLeaf(l) PROVE RuntimeInv'
<1>1. RuntimeTypeOK
  BY DEF RuntimeInv
<1>2. leaf[l] = "pooled" /\ \E v \in {"asking", "resulted"} : leaf' = [leaf EXCEPT ![l] = v]
  BY DEF TakeLeaf
<1>3. UNCHANGED <<workflow, branch, groups, active, main, cleaned, port, passed, stopped>>
  <2>1. UNCHANGED <<groups, active, passed, workflow, branch, main, cleaned, port>>
    BY DEF TakeLeaf, LeafFrame
  <2>2. Dispatch!Accept(l) => stopped' = stopped
    BY DEF Dispatch!Accept
  <2>3. stopped' = stopped
    BY <2>2 DEF TakeLeaf
  <2> QED BY <2>1, <2>3
<1>4. phase' \in [Leaves -> {"new", "accepted", "admitted", "settled"}]
  <2>1. CASE Dispatch!Accept(l)
    BY <1>1, <2>1 DEF Dispatch!Accept, RuntimeTypeOK
  <2>2. CASE phase' = phase
    BY <1>1, <2>2 DEF RuntimeTypeOK
  <2> QED BY <2>1, <2>2 DEF TakeLeaf
<1>5. hitches' \in 0..MaxHitches
  BY <1>1, PoolFacts DEF TakeLeaf, RuntimeTypeOK
<1>6. leaf' \in [Leaves -> {"none", "pending", "pooled", "asking", "resulted", "done"}]
  BY <1>1, <1>2 DEF RuntimeTypeOK
<1>7. \A m \in Leaves : \/ leaf'[m] = leaf[m]
                        \/ leaf[m] \in {"pooled", "asking"} /\ leaf'[m] \in {"asking", "resulted"}
  BY <1>1, <1>2 DEF RuntimeTypeOK
<1>8. stopped' \in BOOLEAN
  BY <1>1, <1>3 DEF RuntimeTypeOK
<1> QED BY <1>3, <1>4, <1>5, <1>6, <1>7, <1>8, HandStep

LEMMA LeafResultStep ==
    ASSUME RuntimeInv, NEW l \in Leaves, LeafResult(l) PROVE RuntimeInv'
<1>1. RuntimeTypeOK
  BY DEF RuntimeInv
<1>2. leaf[l] = "asking" /\ leaf' = [leaf EXCEPT ![l] = "resulted"]
  BY DEF LeafResult
<1>3. UNCHANGED <<workflow, branch, groups, active, main, cleaned, port, passed, stopped,
                  phase, hitches>>
  BY DEF LeafResult, LeafFrame
<1>4. /\ phase' \in [Leaves -> {"new", "accepted", "admitted", "settled"}]
      /\ hitches' \in 0..MaxHitches /\ stopped' \in BOOLEAN
  BY <1>1, <1>3 DEF RuntimeTypeOK
<1>6. leaf' \in [Leaves -> {"none", "pending", "pooled", "asking", "resulted", "done"}]
  BY <1>1, <1>2 DEF RuntimeTypeOK
<1>7. \A m \in Leaves : \/ leaf'[m] = leaf[m]
                        \/ leaf[m] \in {"pooled", "asking"} /\ leaf'[m] \in {"asking", "resulted"}
  BY <1>1, <1>2 DEF RuntimeTypeOK
<1> QED BY <1>3, <1>4, <1>6, <1>7, HandStep

LEMMA PortStep ==
    ASSUME RuntimeInv, NEW l \in Leaves, Port(l) PROVE RuntimeInv'
<1>1. RuntimeTypeOK
  BY DEF RuntimeInv
<1>2. UNCHANGED <<workflow, branch, groups, active, leaf, main, cleaned, passed, hitches, port>>
  BY DEF Port, Dispatch!Admit, Dispatch!Settle
<1>3. phase' \in [Leaves -> {"new", "accepted", "admitted", "settled"}]
  <2>1. CASE Dispatch!Admit(l)
    BY <1>1, <2>1 DEF Dispatch!Admit, RuntimeTypeOK
  <2>2. CASE Dispatch!Settle({l})
    <3>1. phase' = [r \in Leaves |-> IF r \in {l} THEN "settled" ELSE phase[r]]
      BY <2>2 DEF Dispatch!Settle
    <3> QED BY <1>1, <3>1 DEF RuntimeTypeOK
  <2> QED BY <2>1, <2>2 DEF Port
<1>4. stopped' \in BOOLEAN
  BY <1>1 DEF Port, Dispatch!Admit, Dispatch!Settle, RuntimeTypeOK
<1>5. /\ leaf' \in [Leaves -> {"none", "pending", "pooled", "asking", "resulted", "done"}]
      /\ hitches' \in 0..MaxHitches
  BY <1>1, <1>2 DEF RuntimeTypeOK
<1> QED BY <1>2, <1>3, <1>4, <1>5, HandStep

\* A step of the main thread, given what it leaves of the pools and the clean-up.
LEMMA MainStep ==
    ASSUME RuntimeInv,
           UNCHANGED <<workflow, branch, groups, active, leaf, stopped, phase, passed>>,
           main' \in Range(Closing), port' \in {"open", "closing", "shut"},
           cleaned' \subseteq Runners \X {"cleanup", "undo", "client"},
           hitches' \in 0..MaxHitches,
           PoolsOutliveTheirUsers', CleanupSoFar'
    PROVE  RuntimeInv'
<1>1. RuntimeTypeOK'
  BY DEF RuntimeInv, RuntimeTypeOK
<1>2. QueueIsSound' /\ TurnsAreKept'
  BY QueueStays DEF RuntimeInv
<1>3. WorkersAreHeld'
  <2>1. InHand' = InHand
    BY DEF InHand
  <2> QED BY <2>1, WorkersStay DEF RuntimeInv
<1>4. SamplesHaveBranches' /\ NobodyLeavesWorkBehind'
  <2>1. SamplesHaveBranches'
    BY DEF RuntimeInv, SamplesHaveBranches
  <2>2. NobodyLeavesWorkBehind'
    BY DEF RuntimeInv, NobodyLeavesWorkBehind, Busy
  <2> QED BY <2>1, <2>2
<1> QED BY <1>1, <1>2, <1>3, <1>4 DEF RuntimeInv

LEMMA BeginCloseStep ==
    ASSUME RuntimeInv, BeginClose \/ Interrupt \/ DrainRunners PROVE RuntimeInv'
<1>1. RuntimeTypeOK
  BY DEF RuntimeInv
<1>2. UNCHANGED <<workflow, branch, groups, active, leaf, stopped, phase, passed, cleaned, port>>
  BY DEF BeginClose, Interrupt, DrainRunners, MainFrame
<1>3. /\ main \in {"running", "drain"} /\ main' \in {"drain", "cleanup", "workflows"}
      /\ main' = "cleanup" => \A q \in Questions : ~Alive(q)
  BY DEF BeginClose, Interrupt, DrainRunners, Drained
<1>4. main' \in Range(Closing)
  BY <1>3, ClosingRange
<1>5. hitches' \in 0..MaxHitches
  BY <1>1, PoolFacts DEF BeginClose, Interrupt, DrainRunners, RuntimeTypeOK
<1>6. cleaned' = {}
  BY <1>2, <1>3 DEF RuntimeInv, CleanupSoFar
<1>7. \A q \in Questions : Alive(q)' <=> Alive(q)
  BY <1>2 DEF Alive
<1>8. PoolsOutliveTheirUsers'
  BY <1>3, <1>4, MainFactsNext DEF PoolsOutliveTheirUsers
<1>9. CleanupSoFar'
  BY <1>3, <1>6, <1>7 DEF CleanupSoFar
<1>10. /\ port' \in {"open", "closing", "shut"}
       /\ cleaned' \subseteq Runners \X {"cleanup", "undo", "client"}
  BY <1>1, <1>2 DEF RuntimeTypeOK
<1> QED BY <1>2, <1>4, <1>5, <1>8, <1>9, <1>10, MainStep

LEMMA PerformStep ==
    ASSUME RuntimeInv, NEW r \in Runners, Perform(r) PROVE RuntimeInv'
<1>1. RuntimeTypeOK
  BY DEF RuntimeInv
<1>2. UNCHANGED <<workflow, branch, groups, active, leaf, stopped, phase, passed, main, port>>
  BY DEF Perform, MainFrame
<1>3. main \in {"cleanup", "undo", "clients"}
  BY ActionsFacts DEF Perform
<1>4. PICK k \in {"cleanup", "undo", "client"} :
          /\ k = Actions[main] /\ cleaned' = cleaned \cup {<<r, k>>}
  BY <1>3, ActionsFacts DEF Perform
<1>5. main' \in Range(Closing) /\ port' \in {"open", "closing", "shut"}
  BY <1>1, <1>2 DEF RuntimeTypeOK
<1>6. hitches' \in 0..MaxHitches
  BY <1>1, PoolFacts DEF Perform, RuntimeTypeOK
<1>7. PoolsOutliveTheirUsers'
  BY <1>2, <1>3, <1>5, MainFactsNext DEF PoolsOutliveTheirUsers
<1>8. \A q \in Questions : ~Alive(q)'
  BY <1>2, <1>3 DEF RuntimeInv, CleanupSoFar, Alive
<1>9. ~Reached("workflows")'
  BY <1>2, <1>3, <1>5, MainFactsNext
<1>10. CleanupSoFar'
  <2>1. CASE main = "cleanup"
    <3>1. k = "cleanup" /\ cleaned \subseteq Runners \X {"cleanup"}
      BY <1>4, <2>1, ActionsFacts DEF RuntimeInv, CleanupSoFar
    <3>2. cleaned' \subseteq Runners \X {"cleanup"}
      BY <1>4, <3>1
    <3> QED BY <1>2, <1>8, <1>9, <2>1, <3>2 DEF CleanupSoFar
  <2>2. CASE main = "undo"
    <3>1. /\ k = "undo" /\ cleaned \subseteq Runners \X {"cleanup", "undo"}
          /\ Runners \X {"cleanup"} \subseteq cleaned
      BY <1>4, <2>2, ActionsFacts DEF RuntimeInv, CleanupSoFar
    <3>2. cleaned' \subseteq Runners \X {"cleanup", "undo"} /\ Runners \X {"cleanup"} \subseteq cleaned'
      BY <1>4, <3>1
    <3> QED BY <1>2, <1>8, <1>9, <2>2, <3>2 DEF CleanupSoFar
  <2>3. CASE main = "clients"
    <3>1. Runners \X {"cleanup", "undo"} \subseteq cleaned'
      BY <1>4, <2>3 DEF RuntimeInv, CleanupSoFar
    <3> QED BY <1>2, <1>8, <1>9, <2>3, <3>1 DEF CleanupSoFar
  <2> QED BY <1>3, <2>1, <2>2, <2>3
<1>11. cleaned' \subseteq Runners \X {"cleanup", "undo", "client"}
  BY <1>1, <1>4 DEF RuntimeTypeOK
<1> QED BY <1>2, <1>5, <1>6, <1>7, <1>10, <1>11, MainStep

LEMMA NextKindStep ==
    ASSUME RuntimeInv, NextKind PROVE RuntimeInv'
<1>1. RuntimeTypeOK
  BY DEF RuntimeInv
<1>2. UNCHANGED <<workflow, branch, groups, active, leaf, stopped, phase, passed, cleaned, port,
                  hitches>>
  BY DEF NextKind, MainFrame
<1>3. /\ main \in {"cleanup", "undo", "clients"} /\ main' = NextOf(main)
      /\ \A r \in Runners : <<r, Actions[main]>> \in cleaned
  BY ActionsFacts DEF NextKind, Performed
<1>4. main' \in {"undo", "clients", "workflows"}
  BY <1>3, NextFacts
<1>5. main' \in Range(Closing)
  BY <1>4, ClosingRange
<1>6. PoolsOutliveTheirUsers'
  BY <1>4, <1>5, MainFactsNext DEF PoolsOutliveTheirUsers
<1>7. \A q \in Questions : ~Alive(q)'
  BY <1>2, <1>3 DEF RuntimeInv, CleanupSoFar, Alive
<1>8. Reached("workflows")' <=> main' = "workflows"
  BY <1>4, <1>5, MainFactsNext
<1>9. CleanupSoFar'
  <2>1. CASE main = "cleanup"
    <3>1. main' = "undo" /\ cleaned \subseteq Runners \X {"cleanup"}
          /\ \A r \in Runners : <<r, "cleanup">> \in cleaned
      BY <1>3, <2>1, NextFacts, ActionsFacts DEF RuntimeInv, CleanupSoFar
    <3>2. Runners \X {"cleanup"} \subseteq cleaned' /\ cleaned' \subseteq Runners \X {"cleanup", "undo"}
      BY <1>2, <3>1
    <3> QED BY <1>7, <1>8, <3>1, <3>2 DEF CleanupSoFar
  <2>2. CASE main = "undo"
    <3>1. main' = "clients" /\ Runners \X {"cleanup"} \subseteq cleaned
          /\ \A r \in Runners : <<r, "undo">> \in cleaned
      BY <1>3, <2>2, NextFacts, ActionsFacts DEF RuntimeInv, CleanupSoFar
    <3>2. Runners \X {"cleanup", "undo"} \subseteq cleaned'
      BY <1>2, <3>1
    <3> QED BY <1>7, <1>8, <3>1, <3>2 DEF CleanupSoFar
  <2>3. CASE main = "clients"
    <3>1. main' = "workflows" /\ Runners \X {"cleanup", "undo"} \subseteq cleaned
          /\ \A r \in Runners : <<r, "client">> \in cleaned
      BY <1>3, <2>3, NextFacts, ActionsFacts DEF RuntimeInv, CleanupSoFar
    <3>2. cleaned \subseteq Runners \X {"cleanup", "undo", "client"}
      BY <1>1 DEF RuntimeTypeOK
    <3>3. cleaned' = Runners \X {"cleanup", "undo", "client"}
      BY <1>2, <3>1, <3>2
    <3> QED BY <1>7, <1>8, <3>1, <3>3 DEF CleanupSoFar
  <2> QED BY <1>3, <2>1, <2>2, <2>3
<1>10. /\ port' \in {"open", "closing", "shut"} /\ hitches' \in 0..MaxHitches
       /\ cleaned' \subseteq Runners \X {"cleanup", "undo", "client"}
  BY <1>1, <1>2 DEF RuntimeTypeOK
<1> QED BY <1>2, <1>5, <1>6, <1>9, <1>10, MainStep

LEMMA ShutPoolStep ==
    ASSUME RuntimeInv, ShutPool PROVE RuntimeInv'
<1>1. RuntimeTypeOK
  BY DEF RuntimeInv
<1>2. UNCHANGED <<workflow, branch, groups, active, leaf, stopped, phase, passed, cleaned, port,
                  hitches>>
  BY DEF ShutPool, MainFrame
<1>3. /\ main \in {"workflows", "coordinators", "samples"} /\ main' = NextOf(main)
      /\ PoolEmpty(main)
  BY DEF ShutPool
<1>4. /\ main' \in {"coordinators", "samples", "dispatch"}
      /\ main' \in {"samples", "dispatch"} => main \in {"coordinators", "samples"}
      /\ main' = "dispatch" => main = "samples"
  BY <1>3, NextFacts
<1>5. main' \in Range(Closing)
  BY <1>4, ClosingRange
<1>6. (\A q \in Questions : Alive(q)' <=> Alive(q)) /\ (\A b \in Branches : Busy(b)' <=> Busy(b))
  BY <1>2 DEF Alive, Busy
<1>7. \A q \in Questions : ~Alive(q)
  BY <1>1, <1>3, MainFacts DEF PoolEmpty, RuntimeInv, PoolsOutliveTheirUsers
<1>8. main' \in {"samples", "dispatch"} => \A b \in Branches : ~Busy(b)
  BY <1>1, <1>3, <1>4, MainFacts DEF PoolEmpty, RuntimeInv, PoolsOutliveTheirUsers
<1>9. main' = "dispatch" => \A l \in Leaves : leaf[l] \in {"none", "done"}
  BY <1>3, <1>4 DEF PoolEmpty
<1>10. PoolsOutliveTheirUsers'
  BY <1>2, <1>4, <1>5, <1>6, <1>7, <1>8, <1>9, MainFactsNext DEF PoolsOutliveTheirUsers
<1>11. CleanupSoFar'
  <2>1. cleaned \in {{}, Runners \X {"cleanup", "undo", "client"}}
    BY <1>1, <1>3, MainFacts DEF RuntimeInv, CleanupSoFar
  <2> QED BY <1>2, <1>4, <1>6, <1>7, <2>1 DEF CleanupSoFar
<1>12. /\ port' \in {"open", "closing", "shut"} /\ hitches' \in 0..MaxHitches
       /\ cleaned' \subseteq Runners \X {"cleanup", "undo", "client"}
  BY <1>1, <1>2 DEF RuntimeTypeOK
<1> QED BY <1>2, <1>5, <1>10, <1>11, <1>12, MainStep

LEMMA CloseDispatchStep ==
    ASSUME RuntimeInv, CloseDispatch PROVE RuntimeInv'
<1>1. RuntimeTypeOK
  BY DEF RuntimeInv
<1>2. UNCHANGED <<workflow, branch, groups, active, leaf, stopped, phase, passed, cleaned,
                  hitches>>
  BY DEF CloseDispatch, Dispatch!Close, Dispatch!Shut
<1>3. /\ main = "dispatch" /\ main' \in {"dispatch", "closed"}
      /\ port' \in {"open", "closing", "shut"}
      /\ main' = "closed" => port' = "shut"
  BY <1>1 DEF CloseDispatch, Dispatch!Close, Dispatch!Shut, RuntimeTypeOK
<1>4. main' \in Range(Closing)
  BY <1>3, ClosingRange
<1>5. (\A q \in Questions : Alive(q)' <=> Alive(q)) /\ (\A b \in Branches : Busy(b)' <=> Busy(b))
  BY <1>2 DEF Alive, Busy
<1>6. /\ \A q \in Questions : ~Alive(q)
      /\ \A b \in Branches : ~Busy(b)
      /\ \A l \in Leaves : leaf[l] \in {"none", "done"}
  BY <1>1, <1>3, MainFacts DEF RuntimeInv, PoolsOutliveTheirUsers
<1>7. PoolsOutliveTheirUsers'
  BY <1>2, <1>3, <1>5, <1>6 DEF PoolsOutliveTheirUsers
<1>8. CleanupSoFar'
  <2>1. cleaned \in {{}, Runners \X {"cleanup", "undo", "client"}}
    BY <1>1, <1>3, MainFacts DEF RuntimeInv, CleanupSoFar
  <2> QED BY <1>2, <1>3, <1>5, <1>6, <2>1 DEF CleanupSoFar
<1>9. hitches' \in 0..MaxHitches /\ cleaned' \subseteq Runners \X {"cleanup", "undo", "client"}
  BY <1>1, <1>2 DEF RuntimeTypeOK
<1> QED BY <1>2, <1>3, <1>4, <1>7, <1>8, <1>9, MainStep

LEMMA FirstsCount ==
    ASSUME NEW b, NEW n \in Nat
    PROVE  /\ IsFiniteSet({<<b, i>> : i \in 1..n})
           /\ Cardinality({<<b, i>> : i \in 1..n}) = n
<1>1. PICK T : T = {<<b, i>> : i \in 1..n}
  OBVIOUS
<1>2. PICK f : f = [i \in 1..n |-> <<b, i>>]
  OBVIOUS
<1>3. f \in Bijection(1..n, T)
  BY <1>1, <1>2 DEF Bijection, Injection, Surjection, IsInjective
<1>4. IsFiniteSet(1..n) /\ Cardinality(1..n) = n
  BY FS_Interval
<1>5. ExistsBijection(1..n, T)
  BY <1>3 DEF ExistsBijection
<1> QED BY <1>1, <1>4, <1>5, FS_Bijection

\* What stays when a branch begins to sample, given its queue, turns and workers.
LEMMA BranchSamples ==
    ASSUME RuntimeInv, NEW b \in Branches, branch[b] = "running",
           branch' = [branch EXCEPT ![b] = "sampling"],
           UNCHANGED <<workflow, stopped, main, cleaned, phase, port, hitches>>,
           leaf' \in [Leaves -> {"none", "pending", "pooled", "asking", "resulted", "done"}],
           \A l \in Leaves : l[1] # b => leaf'[l] = leaf[l],
           groups' \in Seq(Seq(Leaves)), active' \in Nat,
           passed' \in [Branches -> SUBSET Branches],
           QueueIsSound', TurnsAreKept', WorkersAreHeld'
    PROVE  RuntimeInv'
<1>1. RuntimeTypeOK /\ ~Reached("samples") /\ ~Reached("dispatch")
  BY SubmittersHoldPools, MainFacts DEF Busy, RuntimeInv
<1>2. RuntimeTypeOK'
  BY <1>1 DEF RuntimeTypeOK
<1>3. branch'[b] = "sampling" /\ \A c \in Branches : c # b => branch'[c] = branch[c]
  BY <1>1 DEF RuntimeTypeOK
<1>4. SamplesHaveBranches'
  BY <1>3, LeafFacts DEF RuntimeInv, SamplesHaveBranches
<1>5. (\A q \in Questions : Alive(q)' <=> Alive(q)) /\ (\A c \in Branches : Busy(c)' <=> Busy(c))
  BY <1>3 DEF Alive, Busy
<1>6. NobodyLeavesWorkBehind'
  <2>1. \A q \in Questions : workflow[q] = "done" => \A c \in Children(q) : ~Busy(c)'
    BY <1>5 DEF RuntimeInv, NobodyLeavesWorkBehind, Children
  <2>2. ASSUME NEW c \in Branches, branch'[c] = "done", NEW l \in LeavesOf(c)
        PROVE  leaf'[l] \in {"none", "resulted", "done"}
    <3>1. c # b /\ branch[c] = "done"
      BY <1>3, <2>2
    <3>2. leaf[l] \in {"none", "resulted", "done"}
      BY <3>1 DEF RuntimeInv, NobodyLeavesWorkBehind
    <3>3. l \in Leaves /\ l[1] = c
      BY LeafFacts
    <3> QED BY <3>1, <3>2, <3>3
  <2> QED BY <2>1, <2>2 DEF NobodyLeavesWorkBehind
<1>7. /\ Reached("coordinators")' = Reached("coordinators")
      /\ Reached("samples")' = Reached("samples") /\ Reached("dispatch")' = Reached("dispatch")
      /\ Reached("workflows")' = Reached("workflows")
  BY DEF Reached
<1>8. PoolsOutliveTheirUsers'
  BY <1>1, <1>5, <1>7 DEF RuntimeInv, PoolsOutliveTheirUsers
<1>9. CleanupSoFar'
  BY <1>5, <1>7 DEF RuntimeInv, CleanupSoFar
<1> QED BY <1>2, <1>4, <1>6, <1>8, <1>9 DEF RuntimeInv

\* What a branch that queues finds: no sample and no group of its own.
LEMMA QueuerFacts ==
    ASSUME RuntimeInv, NEW b \in Branches, QueueSamples(b)
    PROVE  /\ branch[b] = "running" /\ branch' = [branch EXCEPT ![b] = "sampling"]
           /\ UNCHANGED <<workflow, stopped, main, cleaned, phase, port, hitches>>
           /\ SamplesOf[b] \in Nat /\ SamplesOf[b] > 0
           /\ \A l \in Leaves : l[1] = b => leaf[l] = "none"
           /\ \A i \in DOMAIN groups : Owner(i) # b
           /\ passed[b] = {}
           /\ Admitting([groups |-> Append(groups, Rest(b, SamplesOf[b])),
                         active |-> active, taken |-> <<>>])
<1>1. /\ branch[b] = "running" /\ branch' = [branch EXCEPT ![b] = "sampling"]
      /\ UNCHANGED <<workflow, stopped, main, cleaned, phase, port, hitches>>
      /\ SamplesOf[b] \in Nat /\ SamplesOf[b] > 0
      /\ Admitting([groups |-> Append(groups, [i \in 1..SamplesOf[b] |-> <<b, i>>]),
                    active |-> active, taken |-> <<>>])
  BY PoolFacts DEF QueueSamples, requests
<1>2. \A l \in Leaves : l[1] = b => leaf[l] = "none"
  BY <1>1, LeafFacts, RunningHasNone
<1>3. \A i \in DOMAIN groups : Owner(i) # b
  BY <1>1, GroupFacts DEF RuntimeInv
<1>4. passed[b] = {}
  BY <1>3 DEF RuntimeInv, TurnsAreKept
<1>5. [i \in 1..SamplesOf[b] |-> <<b, i>>] = Rest(b, SamplesOf[b])
  <2>1. PICK t \in Nat : t = SamplesOf[b]
    BY <1>1
  <2>2. \A i \in 1..t : t - t + i = i
    OBVIOUS
  <2> QED BY <2>1, <2>2 DEF Rest
<1> QED BY <1>1, <1>2, <1>3, <1>4, <1>5

\* The whole group of a branch.
LEMMA WholeGroup ==
    ASSUME NEW b \in Branches, SamplesOf[b] > 0
    PROVE  /\ SamplesOf[b] \in 1..SamplesOf[b]
           /\ Rest(b, SamplesOf[b]) \in Seq(Leaves) /\ Rest(b, SamplesOf[b]) # <<>>
           /\ Head(Rest(b, SamplesOf[b]))[1] = b
           /\ Range(Rest(b, SamplesOf[b])) = {l \in Leaves : l[1] = b}
<1>1. PICK t \in Nat : t = SamplesOf[b] /\ t > 0
  BY PoolFacts
<1>2. t \in 1..t /\ t - t + 1 = 1
  BY <1>1
<1>3. Range(Rest(b, t)) = {<<b, i>> : i \in 1..t}
  <2>1. Range(Rest(b, t)) = {<<b, i>> : i \in (t - t + 1)..t}
    BY <1>1, <1>2, RestFacts
  <2> QED BY <1>2, <2>1
<1>4. {<<b, i>> : i \in 1..t} = {l \in Leaves : l[1] = b}
  <2>1. \A i \in 1..t : <<b, i>> \in Leaves
    BY <1>1, LeafFacts
  <2>2. \A l \in Leaves : l[1] = b => l = <<b, l[2]>> /\ l[2] \in 1..t
    BY <1>1, LeafFacts
  <2> QED BY <2>1, <2>2
<1>5. Rest(b, t) \in Seq(Leaves) /\ Rest(b, t) # <<>> /\ Head(Rest(b, t))[1] = b
  BY <1>1, <1>2, RestFacts
<1> QED BY <1>1, <1>2, <1>3, <1>4, <1>5

\* A group queued behind others finds every worker taken, and waits.
LEMMA QueueBehind ==
    ASSUME RuntimeInv, NEW b \in Branches, QueueSamples(b), groups # <<>>
    PROVE  /\ groups' = Append(groups, Rest(b, SamplesOf[b]))
           /\ active' = active /\ passed' = passed
           /\ leaf' = [l \in Leaves |-> IF l[1] = b THEN "pending" ELSE leaf[l]]
<1>1. RuntimeTypeOK /\ QueueIsSound /\ TurnsAreKept /\ active = Workers
  BY DEF RuntimeInv, WorkersAreHeld, WorkConserving
<1>2. PICK r : r = Rest(b, SamplesOf[b])
  OBVIOUS
<1>3. PICK s : s = [groups |-> Append(groups, r), active |-> active, taken |-> <<>>]
  OBVIOUS
<1>4. Pumped(s) = s
  BY <1>1, <1>3, PumpedIdle, PoolFacts DEF HasWorker
<1>5. SamplesOf[b] > 0
  BY QueuerFacts
<1>6. r \in Seq(Leaves) /\ r # <<>> /\ Head(r)[1] = b
      /\ Range(r) = {l \in Leaves : l[1] = b}
  BY <1>2, <1>5, WholeGroup
<1>7. PICK n \in Nat : n = Len(groups) /\ DOMAIN groups = 1..n
  BY <1>1 DEF RuntimeTypeOK
<1>8. PICK g : g = Append(groups, r)
  OBVIOUS
<1>9. DOMAIN g = 1..(n + 1) /\ g[n + 1] = r /\ \A i \in 1..n : g[i] = groups[i]
  BY <1>1, <1>6, <1>7, <1>8 DEF RuntimeTypeOK
<1>10. Range(<<>>) = {}
  BY DEF Range
<1>11. /\ groups' = g /\ active' = active
       /\ leaf' = [l \in Leaves |->
              IF l \in UNION {Range(g[i]) : i \in DOMAIN g} THEN "pending" ELSE leaf[l]]
       /\ passed' = [c \in Branches |->
              IF \E i \in DOMAIN g : Head(g[i])[1] = c THEN passed[c] ELSE {}]
  <2>1. Admitting(s)
    BY <1>2, <1>3, QueuerFacts
  <2>2. Pumped(s) = [groups |-> g, active |-> active, taken |-> <<>>]
    BY <1>3, <1>4, <1>8
  <2>3. groups' = g /\ active' = active
    BY <2>1, <2>2 DEF Admitting
  <2>4. leaf' = [l \in Leaves |->
              IF l \in UNION {Range(g[i]) : i \in DOMAIN g} THEN "pending" ELSE leaf[l]]
    BY <1>10, <2>1, <2>2 DEF Admitting
  <2>5. passed' = [c \in Branches |->
              IF \E i \in DOMAIN g : Head(g[i])[1] = c THEN passed[c] ELSE {}]
    <3>1. passed' = [c \in Branches |->
              IF \E i \in DOMAIN Pumped(s).groups : Head(Pumped(s).groups[i])[1] = c
                 /\ ~\E l \in Range(Pumped(s).taken) : l[1] = c
              THEN passed[c] \cup {l[1] : l \in Range(Pumped(s).taken)}
              ELSE {}]
      BY <2>1 DEF Admitting
    <3>2. PICK R : R = Range(Pumped(s).taken) /\ R = {} /\ Pumped(s).groups = g
      BY <1>10, <2>2
    <3>3. passed' = [c \in Branches |->
              IF \E i \in DOMAIN g : Head(g[i])[1] = c /\ ~\E l \in R : l[1] = c
              THEN passed[c] \cup {l[1] : l \in R} ELSE {}]
      BY <3>1, <3>2
    <3>4. \A c \in Branches : passed[c] \cup {l[1] : l \in R} = passed[c]
      BY <3>2
    <3> QED BY <3>2, <3>3, <3>4
  <2> QED BY <2>3, <2>4, <2>5
<1>12. ASSUME NEW l \in Leaves
       PROVE  (IF l \in UNION {Range(g[i]) : i \in DOMAIN g} THEN "pending" ELSE leaf[l])
                  = IF l[1] = b THEN "pending" ELSE leaf[l]
  <2>1. CASE l[1] = b
    <3>1. l \in Range(g[n + 1]) /\ n + 1 \in DOMAIN g
      BY <1>6, <1>9, <2>1
    <3> QED BY <2>1, <3>1
  <2>2. CASE l[1] # b
    <3>1. l \notin Range(r)
      BY <1>6, <2>2
    <3>2. ASSUME NEW i \in DOMAIN g, l \in Range(g[i]) PROVE leaf[l] = "pending"
      <4>1. i \in 1..n
        BY <1>9, <3>1, <3>2
      <4>2. i \in DOMAIN groups /\ l \in Range(groups[i])
        BY <1>7, <1>9, <3>2, <4>1
      <4> QED BY <1>1, <4>2 DEF QueueIsSound
    <3> QED BY <2>2, <3>2
  <2> QED BY <2>1, <2>2
<1>13. ASSUME NEW c \in Branches
       PROVE  (IF \E i \in DOMAIN g : Head(g[i])[1] = c THEN passed[c] ELSE {}) = passed[c]
  <2>1. SUFFICES ASSUME \A i \in DOMAIN g : Head(g[i])[1] # c PROVE passed[c] = {}
    OBVIOUS
  <2>2. \A i \in DOMAIN groups : Owner(i) # c
    BY <1>7, <1>9, <2>1 DEF Owner
  <2> QED BY <1>1, <2>2 DEF TurnsAreKept
<1>14. passed' = passed
  <2>1. passed' = [c \in Branches |-> passed[c]]
    BY <1>11, <1>13
  <2> QED BY <1>1, <2>1 DEF RuntimeTypeOK
<1>15. leaf' = [l \in Leaves |-> IF l[1] = b THEN "pending" ELSE leaf[l]]
  BY <1>11, <1>12
<1> QED BY <1>2, <1>8, <1>11, <1>14, <1>15

LEMMA QueueBehindStep ==
    ASSUME RuntimeInv, NEW b \in Branches, QueueSamples(b), groups # <<>>
    PROVE  RuntimeInv'
<1>1. RuntimeTypeOK /\ QueueIsSound /\ TurnsAreKept /\ WorkersAreHeld
  BY DEF RuntimeInv
<1>2. PICK r : r = Rest(b, SamplesOf[b])
  OBVIOUS
<1>3. /\ groups' = Append(groups, r) /\ active' = active /\ passed' = passed
      /\ leaf' = [l \in Leaves |-> IF l[1] = b THEN "pending" ELSE leaf[l]]
  BY <1>2, QueueBehind
<1>4. SamplesOf[b] > 0 /\ SamplesOf[b] \in 1..SamplesOf[b]
  BY QueuerFacts, WholeGroup
<1>5. r \in Seq(Leaves) /\ Head(r)[1] = b
      /\ Range(r) = {l \in Leaves : l[1] = b}
  BY <1>2, <1>4, WholeGroup
<1>6. PICK n \in Nat : n = Len(groups) /\ DOMAIN groups = 1..n
  BY <1>1 DEF RuntimeTypeOK
<1>7. /\ DOMAIN groups' = 1..(n + 1) /\ groups'[n + 1] = r
      /\ \A i \in 1..n : groups'[i] = groups[i]
      /\ groups' \in Seq(Seq(Leaves)) /\ groups' # <<>>
  <2>1. groups \in Seq(Seq(Leaves))
    BY <1>1 DEF RuntimeTypeOK
  <2>2. PICK g : g = Append(groups, r)
    OBVIOUS
  <2>3. /\ DOMAIN g = 1..(n + 1) /\ g[n + 1] = r /\ \A i \in 1..n : g[i] = groups[i]
        /\ g \in Seq(Seq(Leaves)) /\ g # <<>>
    BY <1>5, <1>6, <2>1, <2>2
  <2> QED BY <1>3, <2>2, <2>3
<1>8. Owner(n + 1)' = b /\ \A i \in 1..n : Owner(i)' = Owner(i)
  BY <1>5, <1>7 DEF Owner
<1>9. /\ branch[b] = "running" /\ branch' = [branch EXCEPT ![b] = "sampling"]
      /\ UNCHANGED <<workflow, stopped, main, cleaned, phase, port, hitches>>
      /\ \A l \in Leaves : l[1] = b => leaf[l] = "none"
      /\ \A i \in DOMAIN groups : Owner(i) # b
      /\ passed[b] = {}
  BY QueuerFacts
<1>10. branch'[b] = "sampling" /\ \A c \in Branches : c # b => branch'[c] = branch[c]
  BY <1>1, <1>9 DEF RuntimeTypeOK
<1>11. QueueIsSound'
  <2>1. ASSUME NEW i \in DOMAIN groups' PROVE Holds(i, Owner(i))'
    <3>1. CASE i = n + 1
      <4>1. groups'[i] = Rest(b, SamplesOf[b])' /\ Owner(i)' = b
        BY <1>2, <1>7, <1>8, <3>1 DEF Rest
      <4> QED BY <1>4, <1>10, <4>1 DEF Holds, Rest
    <3>2. CASE i # n + 1
      <4>1. i \in 1..n /\ i \in DOMAIN groups
        BY <1>6, <1>7, <3>2
      <4>2. Holds(i, Owner(i)) /\ Owner(i)' = Owner(i) /\ groups'[i] = groups[i]
        BY <1>1, <1>7, <1>8, <4>1 DEF QueueIsSound
      <4>3. PICK c : c = Owner(i) /\ c # b
        BY <1>9, <4>1
      <4> QED BY <1>10, <4>2, <4>3 DEF Holds, Rest
    <3> QED BY <3>1, <3>2
  <2>2. ASSUME NEW i \in DOMAIN groups', NEW j \in DOMAIN groups', Owner(i)' = Owner(j)'
        PROVE  i = j
    <3>1. \A k \in DOMAIN groups' : k # n + 1 =>
              k \in DOMAIN groups /\ Owner(k)' = Owner(k) /\ Owner(k)' # b
      <4>1. \A k \in DOMAIN groups' : k # n + 1 => k \in 1..n /\ k \in DOMAIN groups
        BY <1>6, <1>7
      <4> QED BY <1>8, <1>9, <4>1
    <3>2. CASE i = n + 1 \/ j = n + 1
      BY <1>8, <2>2, <3>1, <3>2
    <3>3. CASE i # n + 1 /\ j # n + 1
      BY <1>1, <2>2, <3>1, <3>3 DEF QueueIsSound
    <3> QED BY <3>2, <3>3
  <2>3. ASSUME NEW l \in Leaves
        PROVE  leaf'[l] = "pending" <=> \E i \in DOMAIN groups' : l \in Range(groups'[i])
    <3>1. CASE l[1] = b
      <4>1. n + 1 \in DOMAIN groups' /\ l \in Range(groups'[n + 1])
        BY <1>5, <1>7, <3>1
      <4> QED BY <1>3, <3>1, <4>1
    <3>2. CASE l[1] # b
      <4>1. leaf'[l] = leaf[l] /\ l \notin Range(r)
        BY <1>3, <1>5, <3>2
      <4>2. (\E i \in DOMAIN groups' : l \in Range(groups'[i]))
                <=> \E i \in DOMAIN groups : l \in Range(groups[i])
        BY <1>6, <1>7, <4>1
      <4> QED BY <1>1, <4>1, <4>2 DEF QueueIsSound
    <3> QED BY <3>1, <3>2
  <2> QED BY <2>1, <2>2, <2>3 DEF QueueIsSound
<1>12. TurnsAreKept'
  <2>1. ASSUME NEW i \in DOMAIN groups', NEW j \in DOMAIN groups', i < j
        PROVE  Owner(i)' \notin passed'[Owner(j)']
    <3>1. CASE j = n + 1
      BY <1>3, <1>8, <1>9, <3>1
    <3>2. CASE j # n + 1
      <4>1. i \in 1..n /\ j \in 1..n
        BY <1>7, <2>1, <3>2
      <4>2. Owner(i)' = Owner(i) /\ Owner(j)' = Owner(j)
        BY <1>8, <4>1
      <4>3. Owner(i) \notin passed[Owner(j)]
        BY <1>1, <1>6, <2>1, <4>1 DEF TurnsAreKept
      <4> QED BY <1>3, <4>2, <4>3
    <3> QED BY <3>1, <3>2
  <2>2. ASSUME NEW c \in Branches, \A i \in DOMAIN groups' : Owner(i)' # c
        PROVE  passed'[c] = {}
    <3>1. \A i \in DOMAIN groups : Owner(i) # c
      BY <1>6, <1>7, <1>8, <2>2
    <3> QED BY <1>1, <1>3, <3>1 DEF TurnsAreKept
  <2> QED BY <2>1, <2>2 DEF TurnsAreKept
<1>13. WorkersAreHeld'
  <2>1. \A l \in Leaves : leaf'[l] \in {"pooled", "asking", "resulted"}
            <=> leaf[l] \in {"pooled", "asking", "resulted"}
    BY <1>3, <1>9
  <2>2. InHand' = InHand
    BY <2>1 DEF InHand
  <2>3. active = Workers
    BY <1>1 DEF WorkersAreHeld, WorkConserving
  <2> QED BY <1>1, <1>3, <2>2, <2>3 DEF WorkersAreHeld, WorkConserving
<1>14. /\ leaf' \in [Leaves -> {"none", "pending", "pooled", "asking", "resulted", "done"}]
       /\ \A l \in Leaves : l[1] # b => leaf'[l] = leaf[l]
  BY <1>1, <1>3 DEF RuntimeTypeOK
<1>15. active' \in Nat /\ passed' \in [Branches -> SUBSET Branches]
  BY <1>1, <1>3 DEF RuntimeTypeOK
<1> QED BY <1>7, <1>9, <1>11, <1>12, <1>13, <1>14, <1>15, BranchSamples

LEMMA RestAfter ==
    ASSUME NEW b \in Branches, NEW t \in Nat, t = SamplesOf[b], NEW m \in 0..t, m # t
    PROVE  /\ t - m \in 1..t /\ Rest(b, t - m) \in Seq(Leaves)
           /\ Head(Rest(b, t - m))[1] = b
           /\ Range(Rest(b, t - m)) = {<<b, i>> : i \in (m + 1)..t}
<1>1. t - m \in 1..t /\ t - (t - m) + 1 = m + 1
  OBVIOUS
<1>2. PICK n \in 1..t : n = t - m
  BY <1>1
<1>3. Rest(b, n) \in Seq(Leaves) /\ Head(Rest(b, n))[1] = b
  BY <1>2, RestFacts
<1>4. Range(Rest(b, n)) = {<<b, i>> : i \in (t - n + 1)..t}
  BY RestFacts
<1> QED BY <1>1, <1>2, <1>3, <1>4

\* A group queued alone takes the free workers, as far as they or its samples go.
LEMMA QueueAlone ==
    ASSUME RuntimeInv, NEW b \in Branches, QueueSamples(b), groups = <<>>
    PROVE  \E m \in 0..SamplesOf[b] :
               /\ active + m <= Workers /\ (m = SamplesOf[b] \/ active + m = Workers)
               /\ groups' = IF m = SamplesOf[b] THEN <<>> ELSE <<Rest(b, SamplesOf[b] - m)>>
               /\ active' = active + m /\ passed' = [c \in Branches |-> {}]
               /\ leaf' = [l \in Leaves |-> IF l[1] # b THEN leaf[l]
                                            ELSE IF l[2] <= m THEN "pooled" ELSE "pending"]
<1>1. active \in Nat /\ active <= Workers /\ SamplesOf[b] > 0
  BY QueuerFacts DEF RuntimeInv, RuntimeTypeOK, WorkersAreHeld
<1>2. PICK s : s = [groups |-> <<Rest(b, SamplesOf[b])>>, active |-> active, taken |-> <<>>]
  OBVIOUS
<1>3. PICK m \in 0..SamplesOf[b] :
          /\ Pumped(s) = Served(b, active, m)
          /\ active + m <= Workers /\ (m = SamplesOf[b] \/ active + m = Workers)
  BY <1>1, <1>2, PumpedGroup
<1>4. PICK t \in Nat : t = SamplesOf[b] /\ m \in 0..t /\ m \in Nat /\ t > 0
  BY <1>1, PoolFacts
<1>5. Append(groups, Rest(b, SamplesOf[b])) = <<Rest(b, SamplesOf[b])>>
  OBVIOUS
<1>6. Admitting(s)
  BY <1>2, <1>5, QueuerFacts
<1>7. PICK g : g = IF m = t THEN <<>> ELSE <<Rest(b, t - m)>>
  OBVIOUS
<1>8. PICK R : R = {<<b, i>> : i \in 1..m}
  OBVIOUS
<1>9. Pumped(s).groups = g /\ Pumped(s).active = active + m /\ Range(Pumped(s).taken) = R
  <2>1. Pumped(s) = [groups |-> g, active |-> active + m, taken |-> Firsts(b, m)]
    BY <1>3, <1>4, <1>7 DEF Served
  <2>2. Range(Firsts(b, m)) = R
    BY <1>4, <1>8, FirstsFacts
  <2> QED BY <2>1, <2>2
<1>10. PICK P : P = {Range(g[i]) : i \in DOMAIN g}
  OBVIOUS
<1>11. leaf' = [l \in Leaves |-> IF l \in R THEN "pooled"
                                 ELSE IF l \in UNION P THEN "pending" ELSE leaf[l]]
  <2>1. leaf' = [l \in Leaves |-> IF l \in Range(Pumped(s).taken) THEN "pooled"
              ELSE IF l \in UNION {Range(Pumped(s).groups[i]) : i \in DOMAIN Pumped(s).groups}
              THEN "pending" ELSE leaf[l]]
    BY <1>6 DEF Admitting
  <2>2. {Range(Pumped(s).groups[i]) : i \in DOMAIN Pumped(s).groups} = P
    BY <1>9, <1>10
  <2> QED BY <1>9, <2>1, <2>2
<1>12. passed' = [c \in Branches |->
              IF \E i \in DOMAIN g : Head(g[i])[1] = c /\ ~\E l \in R : l[1] = c
              THEN passed[c] \cup {l[1] : l \in R} ELSE {}]
  <2>1. passed' = [c \in Branches |->
              IF \E i \in DOMAIN Pumped(s).groups : Head(Pumped(s).groups[i])[1] = c
                 /\ ~\E l \in Range(Pumped(s).taken) : l[1] = c
              THEN passed[c] \cup {l[1] : l \in Range(Pumped(s).taken)}
              ELSE {}]
    BY <1>6 DEF Admitting
  <2> QED BY <1>9, <2>1
<1>13. m # t => /\ Head(Rest(b, t - m))[1] = b
                /\ Range(Rest(b, t - m)) = {<<b, i>> : i \in (m + 1)..t}
  BY <1>4, RestAfter
<1>14. UNION P = {<<b, i>> : i \in (m + 1)..t}
  <2>1. CASE m = t
    <3>1. P = {}
      BY <1>7, <1>10, <2>1
    <3>2. (m + 1)..t = {}
      BY <1>4, <2>1
    <3> QED BY <3>1, <3>2
  <2>2. CASE m # t
    <3>1. P = {Range(Rest(b, t - m))}
      BY <1>7, <1>10, <2>2
    <3> QED BY <1>13, <2>2, <3>1
  <2> QED BY <2>1, <2>2
<1>15. ASSUME NEW l \in Leaves
       PROVE  (IF l \in R THEN "pooled" ELSE IF l \in UNION P THEN "pending" ELSE leaf[l])
              = IF l[1] # b THEN leaf[l] ELSE IF l[2] <= m THEN "pooled" ELSE "pending"
  <2>1. CASE l[1] # b
    BY <1>8, <1>14, <2>1
  <2>2. CASE l[1] = b
    <3>1. l = <<b, l[2]>> /\ l[2] \in 1..t
      BY <1>4, <2>2, LeafFacts
    <3>2. l \in R <=> l[2] <= m
      BY <1>4, <1>8, <3>1
    <3>3. l \in UNION P <=> ~(l[2] <= m)
      BY <1>4, <1>14, <3>1
    <3> QED BY <2>2, <3>2, <3>3
  <2> QED BY <2>1, <2>2
<1>16. leaf' = [l \in Leaves |-> IF l[1] # b THEN leaf[l]
                                 ELSE IF l[2] <= m THEN "pooled" ELSE "pending"]
  BY <1>11, <1>15
<1>17. ASSUME NEW c \in Branches
       PROVE  (IF \E i \in DOMAIN g : Head(g[i])[1] = c /\ ~\E l \in R : l[1] = c
               THEN passed[c] \cup {l[1] : l \in R} ELSE {}) = {}
  <2>1. SUFFICES ASSUME NEW i \in DOMAIN g, Head(g[i])[1] = c, ~\E l \in R : l[1] = c
                 PROVE  passed[c] \cup {l[1] : l \in R} = {}
    OBVIOUS
  <2>2. c = b
    BY <1>7, <1>13, <2>1
  <2>3. R = {}
    BY <1>8, <2>1, <2>2
  <2> QED BY <2>2, <2>3, QueuerFacts
<1>18. passed' = [c \in Branches |-> {}]
  BY <1>12, <1>17
<1>19. groups' = g /\ active' = active + m
  BY <1>6, <1>9 DEF Admitting
<1> QED BY <1>3, <1>4, <1>7, <1>16, <1>18, <1>19

LEMMA QueueAloneStep ==
    ASSUME RuntimeInv, NEW b \in Branches, QueueSamples(b), groups = <<>>
    PROVE  RuntimeInv'
<1>1. RuntimeTypeOK /\ QueueIsSound /\ TurnsAreKept /\ WorkersAreHeld
  BY DEF RuntimeInv
<1>2. PICK m \in 0..SamplesOf[b] :
          /\ active + m <= Workers /\ (m = SamplesOf[b] \/ active + m = Workers)
          /\ groups' = IF m = SamplesOf[b] THEN <<>> ELSE <<Rest(b, SamplesOf[b] - m)>>
          /\ active' = active + m /\ passed' = [c \in Branches |-> {}]
          /\ leaf' = [l \in Leaves |-> IF l[1] # b THEN leaf[l]
                                       ELSE IF l[2] <= m THEN "pooled" ELSE "pending"]
  BY QueueAlone
<1>3. PICK t \in Nat : t = SamplesOf[b] /\ m \in 0..t /\ m \in Nat /\ t > 0
  <2>1. SamplesOf[b] \in Nat /\ SamplesOf[b] > 0
    BY QueuerFacts
  <2> QED BY <2>1
<1>4. /\ branch[b] = "running" /\ branch' = [branch EXCEPT ![b] = "sampling"]
      /\ UNCHANGED <<workflow, stopped, main, cleaned, phase, port, hitches>>
      /\ \A l \in Leaves : l[1] = b => leaf[l] = "none"
  BY QueuerFacts
<1>5. branch'[b] = "sampling"
  BY <1>1, <1>4 DEF RuntimeTypeOK
<1>6. m = t => groups' = <<>>
  BY <1>2, <1>3
<1>7. m # t => /\ groups' = <<Rest(b, t - m)>> /\ t - m \in 1..t
               /\ Rest(b, t - m) \in Seq(Leaves) /\ Head(Rest(b, t - m))[1] = b
               /\ Range(Rest(b, t - m)) = {<<b, i>> : i \in (m + 1)..t}
  BY <1>2, <1>3, RestAfter
<1>8. DOMAIN groups' \subseteq {1} /\ (m # t => DOMAIN groups' = {1} /\ groups'[1] = Rest(b, t - m))
  BY <1>6, <1>7
<1>9. m = t => DOMAIN groups' = {}
  BY <1>6
<1>10. groups' \in Seq(Seq(Leaves))
  <2>1. CASE m = t
    BY <1>6, <2>1
  <2>2. CASE m # t
    <3>1. PICK r \in Seq(Leaves) : groups' = <<r>>
      BY <1>7, <2>2
    <3> QED BY <3>1
  <2> QED BY <2>1, <2>2
<1>11. QueueIsSound'
  <2>1. ASSUME NEW i \in DOMAIN groups' PROVE Holds(i, Owner(i))'
    <3>1. i = 1 /\ m # t
      BY <1>8, <1>9
    <3>2. Owner(i)' = b /\ groups'[i] = Rest(b, t - m) /\ t - m \in 1..t
      BY <1>7, <1>8, <3>1 DEF Owner
    <3>3. PICK n \in 1..SamplesOf[b] : groups'[i] = Rest(b, n)
      BY <1>3, <3>2
    <3> QED BY <1>5, <3>2, <3>3 DEF Holds, Rest
  <2>2. \A i, j \in DOMAIN groups' : i = j
    BY <1>8
  <2>3. ASSUME NEW l \in Leaves
        PROVE  leaf'[l] = "pending" <=> \E i \in DOMAIN groups' : l \in Range(groups'[i])
    <3>1. (\E i \in DOMAIN groups' : l \in Range(groups'[i]))
              <=> l \in {<<b, i>> : i \in (m + 1)..t}
      <4>1. CASE m = t
        <5>1. (m + 1)..t = {}
          BY <1>3, <4>1
        <5> QED BY <1>9, <4>1, <5>1
      <4>2. CASE m # t
        BY <1>7, <1>8, <4>2
      <4> QED BY <4>1, <4>2
    <3>2. CASE l[1] # b
      <4>1. leaf[l] # "pending"
        BY <1>1 DEF QueueIsSound
      <4> QED BY <1>2, <3>1, <3>2, <4>1
    <3>3. CASE l[1] = b
      <4>1. l = <<b, l[2]>> /\ l[2] \in 1..t
        BY <1>3, <3>3, LeafFacts
      <4>2. l \in {<<b, i>> : i \in (m + 1)..t} <=> ~(l[2] <= m)
        BY <1>3, <4>1
      <4> QED BY <1>2, <3>1, <3>3, <4>2
    <3> QED BY <3>2, <3>3
  <2> QED BY <2>1, <2>2, <2>3 DEF QueueIsSound
<1>12. TurnsAreKept'
  <2>1. \A c \in Branches : passed'[c] = {}
    BY <1>2
  <2>2. ASSUME NEW i \in DOMAIN groups', NEW j \in DOMAIN groups', i < j PROVE FALSE
    BY <1>8, <2>2
  <2> QED BY <2>1, <2>2 DEF TurnsAreKept
<1>13. WorkersAreHeld'
  <2>1. PICK T : T = {<<b, i>> : i \in 1..m}
    OBVIOUS
  <2>2. IsFiniteSet(T) /\ Cardinality(T) = m
    BY <1>3, <2>1, FirstsCount
  <2>3. InHand' = InHand \cup T /\ InHand \cap T = {}
    <3>1. ASSUME NEW l \in Leaves
          PROVE  /\ leaf'[l] \in {"pooled", "asking", "resulted"}
                        <=> leaf[l] \in {"pooled", "asking", "resulted"} \/ l \in T
                 /\ l \in T => leaf[l] = "none"
      <4>1. CASE l[1] # b
        BY <1>2, <2>1, <4>1
      <4>2. CASE l[1] = b
        <5>1. l = <<b, l[2]>> /\ l[2] \in 1..t
          BY <1>3, <4>2, LeafFacts
        <5>2. l \in T <=> l[2] <= m
          BY <1>3, <2>1, <5>1
        <5> QED BY <1>2, <1>4, <4>2, <5>2
      <4> QED BY <4>1, <4>2
    <3>2. T \subseteq Leaves
      BY <1>3, <2>1, LeafFacts
    <3> QED BY <3>1, <3>2 DEF InHand
  <2>4. IsFiniteSet(InHand) /\ active = Cardinality(InHand)
    BY <1>1 DEF WorkersAreHeld
  <2>5. IsFiniteSet(InHand \cup T) /\ Cardinality(InHand \cup T)
            = Cardinality(InHand) + Cardinality(T) - Cardinality(InHand \cap T)
    BY <2>2, <2>4, FS_Union
  <2>6. Cardinality(InHand \cap T) = 0
    BY <2>3, FS_EmptySet
  <2>7. active + m \in Nat /\ active + m - 0 = active + m
    BY <1>1, <1>3 DEF RuntimeTypeOK
  <2>8. IsFiniteSet(InHand') /\ Cardinality(InHand') = active + m
    BY <2>2, <2>3, <2>4, <2>5, <2>6, <2>7
  <2>9. WorkConserving'
    BY <1>2, <1>3, <1>6 DEF WorkConserving
  <2> QED BY <1>2, <2>8, <2>9 DEF WorkersAreHeld
<1>14. leaf' \in [Leaves -> {"none", "pending", "pooled", "asking", "resulted", "done"}]
       /\ \A l \in Leaves : l[1] # b => leaf'[l] = leaf[l]
  BY <1>1, <1>2 DEF RuntimeTypeOK
<1>15. active' \in Nat /\ passed' \in [Branches -> SUBSET Branches]
  BY <1>1, <1>2, <1>3 DEF RuntimeTypeOK
<1> QED BY <1>4, <1>10, <1>11, <1>12, <1>13, <1>14, <1>15, BranchSamples

\* What a worker that is given back does, by what the queue computes.
LEMMA ReleasedIs ==
    ASSUME NEW l \in Leaves, Released(l), NEW g, NEW a, NEW R,
           \E s : /\ s = [groups |-> groups, active |-> active - 1, taken |-> <<>>]
                  /\ Pumped(s).groups = g /\ Pumped(s).active = a /\ Range(Pumped(s).taken) = R
    PROVE  /\ groups' = g /\ active' = a
           /\ leaf' = [m \in Leaves |-> IF m = l THEN "done"
                                        ELSE IF m \in R THEN "pooled" ELSE leaf[m]]
           /\ passed' = [c \in Branches |->
                  IF \E i \in DOMAIN g : Head(g[i])[1] = c /\ ~\E m \in R : m[1] = c
                  THEN passed[c] \cup {m[1] : m \in R} ELSE {}]
<1>1. PICK s : /\ s = [groups |-> groups, active |-> active - 1, taken |-> <<>>]
               /\ Pumped(s).groups = g /\ Pumped(s).active = a /\ Range(Pumped(s).taken) = R
  OBVIOUS
<1>2. groups' = Pumped(s).groups /\ active' = Pumped(s).active
  BY <1>1 DEF Released
<1>3. leaf' = [m \in Leaves |-> IF m = l THEN "done"
              ELSE IF m \in Range(Pumped(s).taken) THEN "pooled" ELSE leaf[m]]
  BY <1>1 DEF Released
<1>4. passed' = [c \in Branches |->
              IF \E i \in DOMAIN Pumped(s).groups : Head(Pumped(s).groups[i])[1] = c
                 /\ ~\E m \in Range(Pumped(s).taken) : m[1] = c
              THEN passed[c] \cup {m[1] : m \in Range(Pumped(s).taken)}
              ELSE {}]
  BY <1>1 DEF Released
<1> QED BY <1>1, <1>2, <1>3, <1>4

LEMMA DoneQuietly ==
    ASSUME RuntimeInv, NEW l \in Leaves, LeafDone(l), groups = <<>>
    PROVE  /\ groups' = <<>> /\ active' = active - 1
           /\ leaf' = [leaf EXCEPT ![l] = "done"]
           /\ passed' = [c \in Branches |-> {}]
<1>1. PICK s : s = [groups |-> groups, active |-> active - 1, taken |-> <<>>]
  OBVIOUS
<1>2. Pumped(s) = s
  BY <1>1, PumpedIdle
<1>3. Pumped(s).groups = <<>> /\ Pumped(s).active = active - 1 /\ Range(Pumped(s).taken) = {}
  BY <1>1, <1>2 DEF Range
<1>4. Released(l)
  BY DEF LeafDone
<1>5. PICK g, a, R : g = <<>> /\ a = active - 1 /\ R = {}
  OBVIOUS
<1>6. \E t : /\ t = [groups |-> groups, active |-> active - 1, taken |-> <<>>]
             /\ Pumped(t).groups = g /\ Pumped(t).active = a /\ Range(Pumped(t).taken) = R
  BY <1>1, <1>3, <1>5
<1>7. /\ groups' = g /\ active' = a
      /\ leaf' = [m \in Leaves |-> IF m = l THEN "done"
                                   ELSE IF m \in R THEN "pooled" ELSE leaf[m]]
      /\ passed' = [c \in Branches |->
             IF \E i \in DOMAIN g : Head(g[i])[1] = c /\ ~\E m \in R : m[1] = c
             THEN passed[c] \cup {m[1] : m \in R} ELSE {}]
  BY <1>4, <1>6, ReleasedIs
<1>8. leaf' = [m \in Leaves |-> IF m = l THEN "done" ELSE leaf[m]]
  BY <1>5, <1>7
<1>9. leaf' = [leaf EXCEPT ![l] = "done"]
  BY <1>8 DEF RuntimeInv, RuntimeTypeOK
<1>10. DOMAIN g = {}
  BY <1>5
<1>11. passed' = [c \in Branches |-> {}]
  BY <1>7, <1>10
<1> QED BY <1>5, <1>7, <1>9, <1>11

\* The next leaf, h, is the first of the first group, the last k samples of o,
\* which goes to the end with what is left of it.
Serves(l, o, k, h) ==
    /\ k \in 1..SamplesOf[o] /\ groups[1] = Rest(o, k)
    /\ h = <<o, SamplesOf[o] - k + 1>> /\ leaf[h] = "pending"
    /\ groups' = IF k = 1 THEN Tail(groups) ELSE Append(Tail(groups), Rest(o, k - 1))
    /\ active' = active
    /\ leaf' = [m \in Leaves |-> IF m = l THEN "done"
                                 ELSE IF m = h THEN "pooled" ELSE leaf[m]]
    /\ passed' = [c \in Branches |->
           IF c # o /\ \E i \in DOMAIN groups' : Head(groups'[i])[1] = c
           THEN passed[c] \cup {o} ELSE {}]

LEMMA DoneServing ==
    ASSUME RuntimeInv, NEW l \in Leaves, LeafDone(l), groups # <<>>
    PROVE  \E o \in Branches, k \in Nat, h \in Leaves : Serves(l, o, k, h)
<1>1. RuntimeTypeOK /\ QueueIsSound /\ active = Workers
  BY DEF RuntimeInv, WorkersAreHeld, WorkConserving
<1>2. PICK s : s = [groups |-> groups, active |-> active - 1, taken |-> <<>>]
  OBVIOUS
<1>3. Pumped(s) = Pop(s)
  BY <1>1, <1>2, PumpedOne, PoolFacts
<1>4. 1 \in DOMAIN groups
  BY <1>1 DEF RuntimeTypeOK
<1>5. PICK o \in Branches : o = Owner(1) /\ \E k \in 1..SamplesOf[o] : groups[1] = Rest(o, k)
  BY <1>1, <1>4, GroupFacts
<1>6. PICK k \in Nat : k \in 1..SamplesOf[o] /\ groups[1] = Rest(o, k)
  BY <1>5, PoolFacts
<1>7. PICK h : h = Head(groups[1])
  OBVIOUS
<1>8. h \in Leaves /\ leaf[h] = "pending"
  BY <1>1, <1>4, <1>7, GroupFacts
<1>9. h = <<o, SamplesOf[o] - k + 1>> /\ h[1] = o
  BY <1>6, <1>7, RestFacts
<1>10. Tail(groups[1]) = Rest(o, k - 1) /\ (Rest(o, k - 1) = <<>> <=> k = 1)
  <2>1. Tail(groups[1]) = Rest(o, k - 1)
    BY <1>6, RestFacts
  <2>2. k = 1 => Rest(o, k - 1) = <<>>
    BY <1>6, RestFacts
  <2>3. k # 1 => k - 1 \in 1..SamplesOf[o]
    BY <1>6, PoolFacts
  <2>4. k # 1 => Rest(o, k - 1) # <<>>
    BY <2>3, RestFacts
  <2> QED BY <2>1, <2>2, <2>4
<1>11. PICK g : g = IF k = 1 THEN Tail(groups) ELSE Append(Tail(groups), Rest(o, k - 1))
  OBVIOUS
<1>12. /\ Pumped(s).groups = g /\ Pumped(s).active = active /\ Range(Pumped(s).taken) = {h}
  <2>1. s.groups = groups /\ s.active = active - 1 /\ s.taken = <<>>
    BY <1>2
  <2>2. Head(groups) = groups[1]
    OBVIOUS
  <2>3. Pop(s).groups = g
    BY <1>10, <1>11, <2>1, <2>2 DEF Pop
  <2>4. Pop(s).active = active
    BY <1>1, <2>1, PoolFacts DEF Pop
  <2>5. Pop(s).taken = <<h>>
    BY <1>7, <2>1, <2>2 DEF Pop
  <2> QED BY <1>3, <2>3, <2>4, <2>5 DEF Range
<1>13. PICK R : /\ R = {h} /\ groups' = g /\ active' = active
                /\ leaf' = [m \in Leaves |-> IF m = l THEN "done"
                                             ELSE IF m \in R THEN "pooled" ELSE leaf[m]]
                /\ passed' = [c \in Branches |->
                       IF \E i \in DOMAIN g : Head(g[i])[1] = c /\ ~\E m \in R : m[1] = c
                       THEN passed[c] \cup {m[1] : m \in R} ELSE {}]
  <2>1. Released(l)
    BY DEF LeafDone
  <2>2. PICK R : R = {h}
    OBVIOUS
  <2>3. PICK a : a = active
    OBVIOUS
  <2>4. \E t : /\ t = [groups |-> groups, active |-> active - 1, taken |-> <<>>]
               /\ Pumped(t).groups = g /\ Pumped(t).active = a /\ Range(Pumped(t).taken) = R
    BY <1>2, <1>12, <2>2, <2>3
  <2>5. /\ groups' = g /\ active' = a
        /\ leaf' = [m \in Leaves |-> IF m = l THEN "done"
                                     ELSE IF m \in R THEN "pooled" ELSE leaf[m]]
        /\ passed' = [c \in Branches |->
               IF \E i \in DOMAIN g : Head(g[i])[1] = c /\ ~\E m \in R : m[1] = c
               THEN passed[c] \cup {m[1] : m \in R} ELSE {}]
    BY <2>1, <2>4, ReleasedIs
  <2> QED BY <2>2, <2>3, <2>5
<1>14. {m[1] : m \in R} = {o}
  BY <1>9, <1>13
<1>15. passed' = [c \in Branches |->
              IF c # o /\ \E i \in DOMAIN g : Head(g[i])[1] = c THEN passed[c] \cup {o} ELSE {}]
  BY <1>9, <1>13, <1>14
<1>16. leaf' = [m \in Leaves |-> IF m = l THEN "done"
                                 ELSE IF m = h THEN "pooled" ELSE leaf[m]]
  BY <1>13
<1>17. passed' = [c \in Branches |->
              IF c # o /\ \E i \in DOMAIN groups' : Head(groups'[i])[1] = c
              THEN passed[c] \cup {o} ELSE {}]
  BY <1>13, <1>15
<1>18. Serves(l, o, k, h)
  BY <1>6, <1>8, <1>9, <1>11, <1>13, <1>16, <1>17 DEF Serves
<1> QED BY <1>8, <1>18

\* What stays when a leaf is done, given the queue, the turns and the workers.
LEMMA LeafGivenBack ==
    ASSUME RuntimeInv, NEW l \in Leaves, leaf[l] = "resulted", leaf'[l] = "done",
           UNCHANGED <<workflow, branch, main, cleaned, port, phase, stopped, hitches>>,
           leaf' \in [Leaves -> {"none", "pending", "pooled", "asking", "resulted", "done"}],
           \A m \in Leaves : m # l => \/ leaf'[m] = leaf[m]
                                      \/ leaf[m] = "pending" /\ leaf'[m] = "pooled",
           groups' \in Seq(Seq(Leaves)), active' \in Nat,
           passed' \in [Branches -> SUBSET Branches],
           QueueIsSound', TurnsAreKept', WorkersAreHeld'
    PROVE  RuntimeInv'
<1>1. RuntimeTypeOK'
  BY DEF RuntimeInv, RuntimeTypeOK
<1>2. SamplesHaveBranches'
  BY DEF RuntimeInv, SamplesHaveBranches
<1>3. NobodyLeavesWorkBehind'
  <2>1. \A q \in Questions : workflow[q] = "done" => \A b \in Children(q) : ~Busy(b)'
    BY DEF RuntimeInv, NobodyLeavesWorkBehind, Busy
  <2>2. ASSUME NEW b \in Branches, branch[b] = "done", NEW m \in LeavesOf(b)
        PROVE  leaf'[m] \in {"none", "resulted", "done"}
    <3>1. leaf[m] \in {"none", "resulted", "done"} /\ m \in Leaves
      BY <2>2, LeafFacts DEF RuntimeInv, NobodyLeavesWorkBehind
    <3> QED BY <3>1
  <2> QED BY <2>1, <2>2 DEF NobodyLeavesWorkBehind
<1>4. /\ Reached("coordinators")' = Reached("coordinators")
      /\ Reached("samples")' = Reached("samples") /\ Reached("dispatch")' = Reached("dispatch")
      /\ Reached("workflows")' = Reached("workflows")
  BY DEF Reached
<1>5. (\A q \in Questions : Alive(q)' <=> Alive(q)) /\ (\A b \in Branches : Busy(b)' <=> Busy(b))
  BY DEF Alive, Busy
<1>6. PoolsOutliveTheirUsers'
  <2>1. ~Reached("dispatch")
    BY DEF RuntimeInv, PoolsOutliveTheirUsers
  <2> QED BY <1>4, <1>5, <2>1 DEF RuntimeInv, PoolsOutliveTheirUsers
<1>7. CleanupSoFar'
  BY <1>4, <1>5 DEF RuntimeInv, CleanupSoFar
<1> QED BY <1>1, <1>2, <1>3, <1>6, <1>7 DEF RuntimeInv

LEMMA DoneQuietlyStep ==
    ASSUME RuntimeInv, NEW l \in Leaves, LeafDone(l), groups = <<>>
    PROVE  RuntimeInv'
<1>1. RuntimeTypeOK /\ QueueIsSound /\ WorkersAreHeld
  BY DEF RuntimeInv
<1>2. /\ leaf[l] = "resulted"
      /\ UNCHANGED <<workflow, branch, main, cleaned, port, phase, stopped, hitches>>
  BY DEF LeafDone, LeafFrame
<1>3. /\ groups' = <<>> /\ active' = active - 1
      /\ leaf' = [leaf EXCEPT ![l] = "done"]
      /\ passed' = [c \in Branches |-> {}]
  BY DoneQuietly
<1>4. leaf'[l] = "done" /\ \A m \in Leaves : m # l => leaf'[m] = leaf[m]
  BY <1>1, <1>3 DEF RuntimeTypeOK
<1>5. QueueIsSound'
  <2>1. \A m \in Leaves : leaf'[m] # "pending"
    BY <1>1, <1>4 DEF QueueIsSound
  <2> QED BY <1>3, <2>1 DEF QueueIsSound
<1>6. TurnsAreKept'
  BY <1>3 DEF TurnsAreKept
<1>7. l \in InHand /\ InHand' = InHand \ {l}
  BY <1>2, <1>4 DEF InHand
<1>8. IsFiniteSet(InHand \ {l}) /\ Cardinality(InHand \ {l}) = active - 1
  <2>1. IsFiniteSet(InHand) /\ active = Cardinality(InHand)
    BY <1>1 DEF WorkersAreHeld
  <2> QED BY <1>7, <2>1, FS_RemoveElement
<1>9. active' \in Nat /\ active' <= Workers
  <2>1. Cardinality(InHand \ {l}) \in Nat
    BY <1>8, FS_CardinalityType
  <2> QED BY <1>1, <1>3, <1>8, <2>1, PoolFacts DEF RuntimeTypeOK, WorkersAreHeld
<1>10. WorkersAreHeld'
  BY <1>3, <1>7, <1>8, <1>9 DEF WorkersAreHeld, WorkConserving
<1>11. leaf' \in [Leaves -> {"none", "pending", "pooled", "asking", "resulted", "done"}]
  BY <1>1, <1>3 DEF RuntimeTypeOK
<1>12. groups' \in Seq(Seq(Leaves)) /\ passed' \in [Branches -> SUBSET Branches]
  BY <1>3
<1> QED BY <1>2, <1>4, <1>5, <1>6, <1>9, <1>10, <1>11, <1>12, LeafGivenBack

\* How the groups stand after a turn: one place further, the served one last or gone.
LEMMA ServedQueue ==
    ASSUME RuntimeInv, NEW l \in Leaves, NEW o \in Branches, NEW k \in Nat, NEW h \in Leaves,
           groups # <<>>, Serves(l, o, k, h)
    PROVE  \E n \in Nat :
               /\ n > 0 /\ DOMAIN groups = 1..n /\ groups' \in Seq(Seq(Leaves))
               /\ DOMAIN groups' = IF k = 1 THEN 1..(n - 1) ELSE 1..n
               /\ \A i \in 1..(n - 1) : groups'[i] = groups[i + 1]
               /\ k # 1 => groups'[n] = Rest(o, k - 1) /\ k - 1 \in 1..SamplesOf[o]
<1>1. groups \in Seq(Seq(Leaves))
  BY DEF RuntimeInv, RuntimeTypeOK
<1>2. PICK n \in Nat : n = Len(groups) /\ n > 0 /\ DOMAIN groups = 1..n
  BY <1>1
<1>3. PICK tl : tl = Tail(groups)
  OBVIOUS
<1>4. tl \in Seq(Seq(Leaves)) /\ Len(tl) = n - 1 /\ \A i \in 1..(n - 1) : tl[i] = groups[i + 1]
  BY <1>1, <1>2, <1>3
<1>5. CASE k = 1
  <2>1. groups' = tl
    BY <1>3, <1>5 DEF Serves
  <2>2. DOMAIN tl = 1..(n - 1)
    BY <1>2, <1>4
  <2> QED BY <1>2, <1>4, <1>5, <2>1, <2>2
<1>6. CASE k # 1
  <2>1. PICK r : r = Rest(o, k - 1) /\ groups' = Append(tl, r)
    BY <1>3, <1>6 DEF Serves
  <2>2. k - 1 \in 1..SamplesOf[o]
    BY <1>6, PoolFacts DEF Serves
  <2>3. r \in Seq(Leaves)
    BY <2>1, <2>2, RestFacts
  <2>4. PICK q : q = Append(tl, r)
    OBVIOUS
  <2>5. /\ q \in Seq(Seq(Leaves)) /\ DOMAIN q = 1..n /\ q[n] = r
        /\ \A i \in 1..(n - 1) : q[i] = tl[i]
    <3>1. PICK p \in Nat : p = n - 1 /\ p + 1 = n /\ p = Len(tl)
      <4>1. n - 1 \in Nat /\ n - 1 + 1 = n
        BY <1>2
      <4> QED BY <1>4, <4>1
    <3>2. /\ q \in Seq(Seq(Leaves)) /\ DOMAIN q = 1..(p + 1) /\ q[p + 1] = r
          /\ \A i \in 1..p : q[i] = tl[i]
      BY <1>4, <2>3, <2>4, <3>1
    <3> QED BY <3>1, <3>2
  <2>6. \A i \in 1..(n - 1) : groups'[i] = groups[i + 1]
    BY <1>4, <2>1, <2>4, <2>5
  <2> QED BY <1>2, <1>6, <2>1, <2>2, <2>4, <2>5, <2>6
<1> QED BY <1>5, <1>6

LEMMA DoneServingStep ==
    ASSUME RuntimeInv, NEW l \in Leaves, LeafDone(l), groups # <<>>
    PROVE  RuntimeInv'
<1>1. RuntimeTypeOK /\ QueueIsSound /\ TurnsAreKept /\ WorkersAreHeld
  BY DEF RuntimeInv
<1>2. /\ leaf[l] = "resulted"
      /\ UNCHANGED <<workflow, branch, main, cleaned, port, phase, stopped, hitches>>
  BY DEF LeafDone, LeafFrame
<1>3. PICK o \in Branches, k \in Nat, h \in Leaves : Serves(l, o, k, h)
  BY DoneServing
<1>4. PICK n \in Nat :
          /\ n > 0 /\ DOMAIN groups = 1..n /\ groups' \in Seq(Seq(Leaves))
          /\ DOMAIN groups' = IF k = 1 THEN 1..(n - 1) ELSE 1..n
          /\ \A i \in 1..(n - 1) : groups'[i] = groups[i + 1]
          /\ k # 1 => groups'[n] = Rest(o, k - 1) /\ k - 1 \in 1..SamplesOf[o]
  BY <1>3, ServedQueue
<1>5. /\ k \in 1..SamplesOf[o] /\ groups[1] = Rest(o, k)
      /\ h = <<o, SamplesOf[o] - k + 1>> /\ leaf[h] = "pending"
      /\ active' = active
      /\ leaf' = [m \in Leaves |-> IF m = l THEN "done"
                                   ELSE IF m = h THEN "pooled" ELSE leaf[m]]
      /\ passed' = [c \in Branches |->
             IF c # o /\ \E i \in DOMAIN groups' : Head(groups'[i])[1] = c
             THEN passed[c] \cup {o} ELSE {}]
  BY <1>3 DEF Serves
<1>6. 1 \in DOMAIN groups /\ Owner(1) = o /\ branch[o] = "sampling"
  <2>1. Owner(1) = o
    BY <1>5, RestFacts DEF Owner
  <2> QED BY <1>1, <1>4, <2>1, GroupFacts
\* Every place but the last is held by a group that waits on, the last by o.
<1>7. ASSUME NEW i \in DOMAIN groups', i # n
      PROVE  /\ i \in 1..(n - 1) /\ i + 1 \in DOMAIN groups /\ groups'[i] = groups[i + 1]
             /\ Owner(i)' = Owner(i + 1) /\ Owner(i + 1) # o
  <2>1. i \in 1..(n - 1) /\ i + 1 \in DOMAIN groups /\ i + 1 # 1
    BY <1>4, <1>7
  <2>2. Owner(i + 1) # o
    BY <1>1, <1>6, <2>1 DEF QueueIsSound
  <2>3. groups'[i] = groups[i + 1]
    BY <1>4, <2>1
  <2>4. Owner(i)' = Owner(i + 1)
    BY <2>3 DEF Owner
  <2> QED BY <2>1, <2>2, <2>3, <2>4
<1>8. n \in DOMAIN groups' => /\ k # 1 /\ groups'[n] = Rest(o, k - 1)
                              /\ k - 1 \in 1..SamplesOf[o] /\ Owner(n)' = o
  <2>1. SUFFICES ASSUME n \in DOMAIN groups'
                 PROVE  /\ k # 1 /\ groups'[n] = Rest(o, k - 1)
                        /\ k - 1 \in 1..SamplesOf[o] /\ Owner(n)' = o
    OBVIOUS
  <2>2. k # 1
    BY <1>4, <2>1
  <2>3. Owner(n)' = o
    BY <1>4, <2>2, RestFacts DEF Owner
  <2> QED BY <1>4, <2>2, <2>3
<1>9. ASSUME NEW m \in Leaves
      PROVE  leaf'[m] = "pending" <=> \E i \in DOMAIN groups' : m \in Range(groups'[i])
  <2>1. leaf'[m] = "pending" <=> m # h /\ leaf[m] = "pending"
    BY <1>2, <1>5
  <2>2. PICK t \in Nat : t = SamplesOf[o] /\ k \in 1..t
    BY <1>5, PoolFacts
  <2>3. Range(groups[1]) = {<<o, i>> : i \in (t - k + 1)..t}
    BY <1>5, <2>2, RestFacts
  <2>4. k # 1 => Range(Rest(o, k - 1)) = {<<o, i>> : i \in (t - (k - 1) + 1)..t}
    BY <1>4, <2>2, RestFacts
  <2>5. h = <<o, t - k + 1>>
    BY <1>5, <2>2
  <2>6. m \in Range(groups[1]) /\ m # h <=> k # 1 /\ m \in Range(Rest(o, k - 1))
    <3>1. CASE k = 1
      <4>1. (t - k + 1)..t = {t} /\ t - k + 1 = t
        BY <2>2, <3>1
      <4> QED BY <2>3, <2>5, <3>1, <4>1
    <3>2. CASE k # 1
      <4>1. \A i : i \in (t - k + 1)..t /\ i # t - k + 1 <=> i \in (t - (k - 1) + 1)..t
        BY <2>2, <3>2
      <4> QED BY <2>3, <2>4, <2>5, <3>2, <4>1
    <3> QED BY <3>1, <3>2
  <2>7. ASSUME NEW i \in DOMAIN groups, i # 1, m \in Range(groups[i]) PROVE m # h
    <3>1. Owner(i) # o
      BY <1>1, <1>6, <2>7 DEF QueueIsSound
    <3>2. m[1] = Owner(i)
      BY <1>1, <2>7, GroupFacts
    <3> QED BY <1>5, <3>1, <3>2
  <2>8. ASSUME leaf'[m] = "pending" PROVE \E i \in DOMAIN groups' : m \in Range(groups'[i])
    <3>1. PICK i \in DOMAIN groups : m \in Range(groups[i])
      BY <1>1, <2>1, <2>8 DEF QueueIsSound
    <3>2. CASE i = 1
      <4>1. k # 1 /\ m \in Range(Rest(o, k - 1))
        BY <2>1, <2>6, <2>8, <3>1, <3>2
      <4>2. n \in DOMAIN groups'
        BY <1>4, <4>1
      <4> QED BY <1>4, <4>1, <4>2
    <3>3. CASE i # 1
      <4>1. PICK j \in 1..(n - 1) : i = j + 1
        <5>1. i \in 1..n
          BY <1>4
        <5>2. i - 1 \in 1..(n - 1) /\ i = (i - 1) + 1
          BY <3>3, <5>1
        <5> QED BY <5>2
      <4>2. j \in DOMAIN groups' /\ groups'[j] = groups[i]
        BY <1>4, <4>1
      <4> QED BY <3>1, <4>2
    <3> QED BY <3>2, <3>3
  <2>9. ASSUME NEW i \in DOMAIN groups', m \in Range(groups'[i]) PROVE leaf'[m] = "pending"
    <3>1. CASE i = n
      <4>1. m \in Range(groups[1]) /\ m # h
        BY <1>8, <2>6, <2>9, <3>1
      <4>2. leaf[m] = "pending"
        BY <1>1, <1>6, <4>1 DEF QueueIsSound
      <4> QED BY <2>1, <4>1, <4>2
    <3>2. CASE i # n
      <4>1. PICK j \in DOMAIN groups : j = i + 1 /\ groups'[i] = groups[j] /\ j # 1
        BY <1>4, <1>7, <3>2
      <4>2. leaf[m] = "pending" /\ m # h
        BY <1>1, <2>7, <2>9, <4>1 DEF QueueIsSound
      <4> QED BY <2>1, <4>2
    <3> QED BY <3>1, <3>2
  <2> QED BY <2>8, <2>9
<1>10. QueueIsSound'
  <2>1. ASSUME NEW i \in DOMAIN groups' PROVE Holds(i, Owner(i))'
    <3>1. CASE i = n
      <4>1. PICK j \in 1..SamplesOf[o] : groups'[i] = Rest(o, j)
        BY <1>8, <3>1
      <4>2. Owner(i)' = o
        BY <1>8, <3>1
      <4> QED BY <1>2, <1>6, <4>1, <4>2 DEF Holds, Rest
    <3>2. CASE i # n
      <4>1. PICK c : c = Owner(i + 1) /\ Holds(i + 1, c) /\ Owner(i)' = c
        BY <1>1, <1>7, <3>2 DEF QueueIsSound
      <4>2. groups'[i] = groups[i + 1]
        BY <1>7, <3>2
      <4> QED BY <1>2, <4>1, <4>2 DEF Holds, Rest
    <3> QED BY <3>1, <3>2
  <2>2. ASSUME NEW i \in DOMAIN groups', NEW j \in DOMAIN groups', Owner(i)' = Owner(j)'
        PROVE  i = j
    <3>1. CASE i = n \/ j = n
      BY <1>7, <1>8, <2>2, <3>1
    <3>2. CASE i # n /\ j # n
      <4>1. i + 1 = j + 1
        BY <1>1, <1>7, <2>2, <3>2 DEF QueueIsSound
      <4> QED BY <1>7, <3>2, <4>1
    <3> QED BY <3>1, <3>2
  <2> QED BY <1>9, <2>1, <2>2 DEF QueueIsSound
<1>11. TurnsAreKept'
  <2>1. ASSUME NEW i \in DOMAIN groups', NEW j \in DOMAIN groups', i < j
        PROVE  Owner(i)' \notin passed'[Owner(j)']
    <3>1. i # n
      BY <1>4, <2>1
    <3>2. CASE j = n
      <4>1. passed'[o] = {}
        BY <1>5
      <4> QED BY <1>8, <3>2, <4>1
    <3>3. CASE j # n
      <4>1. PICK c : c = Owner(j + 1) /\ c \in Branches /\ Owner(j)' = c
        BY <1>1, <1>7, <3>3, GroupFacts
      <4>2. PICK d : d = Owner(i + 1) /\ Owner(i)' = d /\ d # o
        BY <1>7, <3>1
      <4>3. i + 1 < j + 1
        BY <1>7, <2>1, <3>1, <3>3
      <4>4. d \notin passed[c]
        BY <1>1, <1>7, <3>1, <3>3, <4>1, <4>2, <4>3 DEF TurnsAreKept
      <4>5. passed'[c] \subseteq passed[c] \cup {o}
        BY <1>5, <4>1
      <4> QED BY <4>1, <4>2, <4>4, <4>5
    <3> QED BY <3>2, <3>3
  <2>2. ASSUME NEW c \in Branches, \A i \in DOMAIN groups' : Owner(i)' # c
        PROVE  passed'[c] = {}
    <3>1. ~\E i \in DOMAIN groups' : Head(groups'[i])[1] = c
      BY <2>2 DEF Owner
    <3> QED BY <1>5, <3>1
  <2> QED BY <2>1, <2>2 DEF TurnsAreKept
<1>12. h # l
  BY <1>2, <1>5
<1>13. WorkersAreHeld'
  <2>1. IsFiniteSet(InHand) /\ active = Cardinality(InHand) /\ active \in Nat /\ active = Workers
    BY <1>1 DEF WorkersAreHeld, WorkConserving, RuntimeTypeOK
  <2>2. l \in InHand /\ h \notin InHand
    BY <1>2, <1>5 DEF InHand
  <2>3. InHand' = (InHand \ {l}) \cup {h}
    BY <1>5, <1>12 DEF InHand
  <2>4. PICK T : T = InHand \ {l} /\ h \notin T
    BY <2>2
  <2>5. IsFiniteSet(T) /\ Cardinality(T) = active - 1
    BY <2>1, <2>2, <2>4, FS_RemoveElement
  <2>6. IsFiniteSet(T \cup {h}) /\ Cardinality(T \cup {h}) = Cardinality(T) + 1
    BY <2>4, <2>5, FS_AddElement
  <2>7. active - 1 + 1 = active
    BY <2>1
  <2>8. IsFiniteSet(InHand') /\ Cardinality(InHand') = active
    BY <2>3, <2>4, <2>5, <2>6, <2>7
  <2> QED BY <1>5, <2>1, <2>8, PoolFacts DEF WorkersAreHeld, WorkConserving
<1>14. /\ leaf' \in [Leaves -> {"none", "pending", "pooled", "asking", "resulted", "done"}]
       /\ leaf'[l] = "done"
       /\ \A m \in Leaves : m # l => \/ leaf'[m] = leaf[m]
                                     \/ leaf[m] = "pending" /\ leaf'[m] = "pooled"
  BY <1>1, <1>5 DEF RuntimeTypeOK
<1>15. active' \in Nat /\ passed' \in [Branches -> SUBSET Branches]
  BY <1>1, <1>5 DEF RuntimeTypeOK
<1> QED BY <1>2, <1>4, <1>10, <1>11, <1>13, <1>14, <1>15, LeafGivenBack

LEMMA RuntimeKeepsInv ==
    RuntimeInv /\ [RuntimeNext]_runtimeVars => RuntimeInv'
<1> SUFFICES ASSUME RuntimeInv, [RuntimeNext]_runtimeVars PROVE RuntimeInv'
  OBVIOUS
<1>1. ASSUME NEW q \in Questions, AwaitBranches(q) \/ EndWorkflow(q) PROVE RuntimeInv'
  BY <1>1, WorkflowStep
<1>2. ASSUME NEW t \in Tasks, NEW b \in Branches, SubmitBranch(t, b) PROVE RuntimeInv'
  BY <1>2, SubmitBranchStep
<1>3. ASSUME NEW b \in Branches, StartBranch(b) \/ EndBranch(b) PROVE RuntimeInv'
  BY <1>3, BranchStep
<1>4. ASSUME NEW b \in Branches, QueueSamples(b) PROVE RuntimeInv'
  BY <1>4, QueueAloneStep, QueueBehindStep
<1>5. ASSUME NEW l \in Leaves, LeafMoves(l) PROVE RuntimeInv'
  BY <1>5, TakeLeafStep, LeafResultStep, DoneQuietlyStep, DoneServingStep DEF LeafMoves
<1>6. ASSUME NEW l \in Leaves, Port(l) PROVE RuntimeInv'
  BY <1>6, PortStep
<1>7. ASSUME Main PROVE RuntimeInv'
  BY <1>7, BeginCloseStep, PerformStep, NextKindStep, ShutPoolStep, CloseDispatchStep DEF Main
<1>8. ASSUME NEW q \in Questions, SubmitWorkflow(q) PROVE RuntimeInv'
  BY <1>8, SubmitWorkflowStep
<1>9. CASE BeginClose \/ Interrupt
  BY <1>9, BeginCloseStep
<1>10. CASE Stop
  BY <1>10, StopStep
<1>11. CASE UNCHANGED runtimeVars
  <2>1. RuntimeTypeOK
    BY DEF RuntimeInv
  <2>2. UNCHANGED <<workflow, branch, groups, active, leaf, stopped, main, cleaned, phase, port,
                    passed, hitches>>
    BY <1>11 DEF runtimeVars, requests
  <2>3. /\ leaf' \in [Leaves -> {"none", "pending", "pooled", "asking", "resulted", "done"}]
        /\ stopped' \in BOOLEAN /\ hitches' \in 0..MaxHitches
        /\ phase' \in [Leaves -> {"new", "accepted", "admitted", "settled"}]
    BY <2>1, <2>2 DEF RuntimeTypeOK
  <2> QED BY <2>2, <2>3, HandStep
<1>12. ASSUME Progress PROVE RuntimeInv'
  BY <1>1, <1>2, <1>3, <1>4, <1>5, <1>6, <1>7, <1>12 DEF Progress
<1> QED BY <1>8, <1>9, <1>10, <1>11, <1>12 DEF RuntimeNext

\* The clean-up so far is in the order that is promised of it.
LEMMA CleanupIsInOrder ==
    ASSUME RuntimeInv PROVE CleanupAfterWork
<1>1. RuntimeTypeOK /\ main \in Range(Closing)
  BY DEF RuntimeInv, RuntimeTypeOK
<1>2. cleaned # {} => \A q \in Questions : ~Alive(q)
  BY DEF RuntimeInv, CleanupSoFar
<1>3. ASSUME NEW r \in Runners, NEW s \in Runners, <<r, "undo">> \in cleaned
      PROVE  <<s, "cleanup">> \in cleaned
  <2>1. main \notin {"running", "drain", "cleanup"}
    BY <1>3 DEF RuntimeInv, CleanupSoFar
  <2>2. CASE main \in {"undo", "clients"}
    BY <2>2 DEF RuntimeInv, CleanupSoFar
  <2>3. CASE Reached("workflows")
    BY <1>3, <2>3 DEF RuntimeInv, CleanupSoFar
  <2> QED BY <1>1, <2>1, <2>2, <2>3, MainFacts, ClosingRange
<1>4. ASSUME NEW r \in Runners, NEW s \in Runners, <<r, "client">> \in cleaned
      PROVE  <<s, "undo">> \in cleaned
  <2>1. main \notin {"running", "drain", "cleanup", "undo"}
    BY <1>4 DEF RuntimeInv, CleanupSoFar
  <2>2. CASE main = "clients"
    BY <2>2 DEF RuntimeInv, CleanupSoFar
  <2>3. CASE Reached("workflows")
    BY <1>4, <2>3 DEF RuntimeInv, CleanupSoFar
  <2> QED BY <1>1, <2>1, <2>2, <2>3, MainFacts, ClosingRange
<1>5. cleaned # {} /\ Reached("workflows") => cleaned = Runners \X {"cleanup", "undo", "client"}
  BY DEF RuntimeInv, CleanupSoFar
<1> QED BY <1>2, <1>3, <1>4, <1>5 DEF CleanupAfterWork

LEMMA RuntimeIsSound ==
    ASSUME RuntimeInv PROVE UnwindsInOrder
<1>1. CleanupAfterWork
  BY CleanupIsInOrder
<1>2. WorkersAreHeld
  BY DEF RuntimeInv
<1>3. LeavesAreCounted /\ WorkConserving
  BY <1>2 DEF WorkersAreHeld, LeavesAreCounted, InHand
<1> QED BY <1>1, <1>3 DEF RuntimeInv, UnwindsInOrder

\* No worker is idle while a group waits, none is counted twice, nobody leaves
\* before those it started, no pool is shut before its users are gone and the
\* process is cleaned up only then, in order (run_resources, sampling, runners).
THEOREM RuntimeUnwinds == RuntimeSpec => []UnwindsInOrder
<1>1. RuntimeInv => UnwindsInOrder
  BY RuntimeIsSound
<1> QED BY <1>1, RuntimeStarts, RuntimeKeepsInv, PTL DEF RuntimeSpec

\* Only a branch that queues, or a worker given back, admits leaves.
LEMMA WhoAdmits ==
    ASSUME RuntimeInv, RuntimeNext, NEW l \in Leaves, leaf[l] \in {"none", "pending"},
           leaf'[l] = "pooled"
    PROVE  \/ \E b \in Branches : QueueSamples(b)
           \/ \E m \in Leaves : LeafDone(m)
<1>1. leaf \in [Leaves -> {"none", "pending", "pooled", "asking", "resulted", "done"}]
  BY DEF RuntimeInv, RuntimeTypeOK
<1>2. leaf' # leaf
  OBVIOUS
<1>3. ASSUME NEW q \in Questions
      PROVE  ~(AwaitBranches(q) \/ EndWorkflow(q) \/ SubmitWorkflow(q))
  BY <1>2 DEF AwaitBranches, EndWorkflow, SubmitWorkflow, PoolFrame
<1>4. ASSUME NEW t \in Tasks, NEW b \in Branches PROVE ~SubmitBranch(t, b)
  BY <1>2 DEF SubmitBranch, PoolFrame
<1>5. ASSUME NEW b \in Branches PROVE ~(StartBranch(b) \/ EndBranch(b))
  BY <1>2 DEF StartBranch, EndBranch, PoolFrame
<1>6. ASSUME NEW m \in Leaves PROVE ~(TakeLeaf(m) \/ LeafResult(m) \/ Port(m))
  <2>1. ~TakeLeaf(m)
    BY <1>1 DEF TakeLeaf
  <2>2. ~LeafResult(m)
    BY <1>1 DEF LeafResult
  <2>3. ~Port(m)
    BY <1>2 DEF Port
  <2> QED BY <2>1, <2>2, <2>3
<1>7. ~Main
  BY <1>2 DEF Main, DrainRunners, Perform, NextKind, ShutPool, CloseDispatch, MainFrame
<1>8. ~(BeginClose \/ Interrupt \/ Stop)
  BY <1>2 DEF BeginClose, Interrupt, Stop, MainFrame, PoolFrame
<1> QED BY <1>3, <1>4, <1>5, <1>6, <1>7, <1>8 DEF RuntimeNext, Progress, LeafMoves

\* What GroupsAlternate says of one step.
Alternates ==
    \A g, h \in Branches :
        Admitted(g) /\ ~Admitted(h) /\ (\E l \in LeavesOf(h) : leaf[l] = "pending")
        => g \notin passed[h]

LEMMA StepsAlternate ==
    ASSUME RuntimeInv, RuntimeNext PROVE Alternates
<1> SUFFICES ASSUME NEW g \in Branches, NEW h \in Branches, Admitted(g), ~Admitted(h),
                    NEW w \in LeavesOf(h), leaf[w] = "pending"
             PROVE  g \notin passed[h]
  BY DEF Alternates
<1>1. PICK l \in Leaves : l[1] = g /\ leaf[l] \in {"none", "pending"} /\ leaf'[l] = "pooled"
  BY LeafFacts DEF Admitted
<1>2. g # h
  OBVIOUS
<1>3. RuntimeTypeOK /\ QueueIsSound /\ TurnsAreKept
  BY DEF RuntimeInv
<1>4. PICK j \in DOMAIN groups : Owner(j) = h
  <2>1. w \in Leaves /\ w[1] = h
    BY LeafFacts
  <2>2. PICK j \in DOMAIN groups : w \in Range(groups[j])
    BY <1>3, <2>1 DEF QueueIsSound
  <2> QED BY <1>3, <2>1, <2>2, GroupFacts
<1>5. groups # <<>>
  BY <1>4
<1>6. ASSUME NEW b \in Branches, QueueSamples(b) PROVE FALSE
  <2>1. leaf' = [m \in Leaves |-> IF m[1] = b THEN "pending" ELSE leaf[m]]
    BY <1>5, <1>6, QueueBehind
  <2> QED BY <1>1, <2>1
<1>7. ASSUME NEW m \in Leaves, LeafDone(m) PROVE g \notin passed[h]
  <2>1. PICK o \in Branches, k \in Nat, x \in Leaves : Serves(m, o, k, x)
    BY <1>5, <1>7, DoneServing
  <2>2. x[1] = o /\ leaf' = [n \in Leaves |-> IF n = m THEN "done"
                                              ELSE IF n = x THEN "pooled" ELSE leaf[n]]
    BY <2>1 DEF Serves
  <2>3. l = x /\ g = o
    BY <1>1, <2>2
  <2>4. Owner(1) = o
    BY <2>1, RestFacts DEF Serves, Owner
  <2>5. 1 \in DOMAIN groups /\ 1 < j
    <3>1. PICK n \in Nat : DOMAIN groups = 1..n
      BY <1>3 DEF RuntimeTypeOK
    <3>2. j # 1
      BY <1>2, <1>4, <2>3, <2>4
    <3> QED BY <1>4, <3>1, <3>2
  <2> QED BY <1>3, <1>4, <2>3, <2>4, <2>5 DEF TurnsAreKept
<1> QED BY <1>1, <1>6, <1>7, WhoAdmits

\* A worker that comes free serves each waiting group once before any of them
\* twice (_pump takes from the head and queues at the end).
THEOREM GroupsTakeTheirTurns == RuntimeSpec => GroupsAlternate
<1>1. RuntimeInv /\ [RuntimeNext]_runtimeVars => [Alternates]_runtimeVars
  BY StepsAlternate
<1>2. RuntimeSpec => [][Alternates]_runtimeVars
  BY <1>1, RuntimeStarts, RuntimeKeepsInv, PTL DEF RuntimeSpec
<1> QED BY <1>2 DEF GroupsAlternate, Alternates
=============================================================================
