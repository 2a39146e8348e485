---------------------------- MODULE DispatchProofs ----------------------------
(* Theorems about RequestDispatch for every number of requests and groups, every  *)
(* cap, and any number of stops, cancellations, redirects and failing callbacks.  *)
EXTENDS RequestDispatch, FiniteSetTheorems, SequenceTheorems,
        WellFoundedInduction, TLAPS

------------------------------------------------------------------------------
(* What the operators on queues return.                                          *)

\* A set of positions has a list in ascending order.
LEMMA AscendingExists ==
    ASSUME NEW n \in Nat, NEW K \in SUBSET (1..n)
    PROVE  Ascending(K) # {}
<1> DEFINE Unlisted == {m \in Nat : \E L \in SUBSET (1..m) : Ascending(L) = {}}
<1>1. SUFFICES ASSUME Unlisted # {} PROVE FALSE
  OBVIOUS
<1>2. PICK m \in Unlisted : \A k \in Unlisted : ~(k < m)
  <2>1. IsWellFoundedOn(OpToRel(<, Nat), Nat)
    BY NatLessThanWellFounded
  <2>2. PICK m \in Unlisted : \A k \in Unlisted : <<k, m>> \notin OpToRel(<, Nat)
    BY ZenonT(40), <1>1, <2>1, WFMin
  <2> QED BY <2>2 DEF OpToRel
<1>3. PICK L \in SUBSET (1..m) : Ascending(L) = {}
  OBVIOUS
<1>4. m \in Nat /\ m # 0
  <2>1. ASSUME m = 0 PROVE FALSE
    <3>1. 1..m = {}
      BY <2>1
    <3>2. L = {}
      BY <1>3, <3>1
    <3>3. Cardinality(L) = 0
      BY <3>2, FS_EmptySet
    <3>4. [i \in 1..0 |-> i] \in Ascending(L)
      BY <3>2, <3>3 DEF Ascending
    <3> QED BY <1>3, <3>4
  <2> QED BY <2>1
<1>5. m - 1 \in Nat /\ m - 1 \notin Unlisted
  BY <1>2, <1>4
<1>6. m \in L
  <2>1. ASSUME m \notin L PROVE L \in SUBSET (1..(m - 1))
    BY <1>4, <2>1
  <2> QED BY <1>3, <1>5, <2>1
<1> DEFINE M == L \ {m}
<1>7. M \in SUBSET (1..(m - 1))
  BY <1>4
<1>8. PICK e : e \in Ascending(M)
  BY <1>5, <1>7
<1>9. /\ IsFiniteSet(L) /\ IsFiniteSet(M)
      /\ Cardinality(M) \in Nat /\ Cardinality(L) = Cardinality(M) + 1
  <2>1. IsFiniteSet(1..m)
    BY <1>4, FS_Interval
  <2>2. IsFiniteSet(L) /\ IsFiniteSet(M)
    BY <2>1, FS_Subset
  <2>3. L = M \cup {m} /\ m \notin M
    BY <1>6
  <2> QED BY <2>2, <2>3, FS_AddElement, FS_CardinalityType
<1>10. PICK c \in Nat : c = Cardinality(M)
  BY <1>9
<1> DEFINE f == [i \in 1..(c + 1) |-> IF i = c + 1 THEN m ELSE e[i]]
<1>11. /\ e \in [1..c -> M] /\ Cardinality(L) = c + 1
       /\ \A i, j \in 1..c : i < j => e[i] < e[j]
       /\ \A k \in M : \E i \in 1..c : e[i] = k
  BY <1>8, <1>9, <1>10 DEF Ascending
<1> HIDE DEF M
<1>12. f \in [1..(c + 1) -> L]
  <2> SUFFICES ASSUME NEW i \in 1..(c + 1) PROVE (IF i = c + 1 THEN m ELSE e[i]) \in L
    OBVIOUS
  <2>1. CASE i = c + 1
    BY <1>6, <2>1
  <2>2. CASE i # c + 1
    <3>1. i \in 1..c
      BY <2>2
    <3>2. e[i] \in M
      BY <1>11, <3>1
    <3> QED BY <2>2, <3>2 DEF M
  <2> QED BY <2>1, <2>2
<1>13. \A i, j \in DOMAIN f : i < j => f[i] < f[j]
  <2> SUFFICES ASSUME NEW i \in 1..(c + 1), NEW j \in 1..(c + 1), i < j
               PROVE f[i] < f[j]
    OBVIOUS
  <2>1. i \in 1..c
    OBVIOUS
  <2>2. f[i] = e[i] /\ e[i] \in M
    BY <1>11, <2>1
  <2>3. e[i] \in 1..(m - 1)
    BY <1>7, <2>2
  <2>4. CASE j = c + 1
    <3>1. f[j] = m
      BY <2>4
    <3> QED BY <1>4, <2>2, <2>3, <3>1
  <2>5. CASE j # c + 1
    <3>1. j \in 1..c /\ f[j] = e[j]
      BY <2>5
    <3> QED BY <1>11, <2>1, <2>2, <3>1
  <2> QED BY <2>4, <2>5
<1>14. \A k \in L : \E i \in DOMAIN f : f[i] = k
  <2> SUFFICES ASSUME NEW k \in L PROVE \E i \in DOMAIN f : f[i] = k
    OBVIOUS
  <2>1. CASE k = m
    <3>1. c + 1 \in 1..(c + 1) /\ f[c + 1] = m
      OBVIOUS
    <3> QED BY <2>1, <3>1
  <2>2. CASE k # m
    <3>1. PICK i \in 1..c : e[i] = k
      BY <1>11, <2>2 DEF M
    <3>2. i \in 1..(c + 1) /\ f[i] = e[i]
      BY <3>1
    <3> QED BY <3>1, <3>2
  <2> QED BY <2>1, <2>2
<1>15. f \in Ascending(L)
  BY <1>11, <1>12, <1>13, <1>14 DEF Ascending
<1> QED BY <1>3, <1>15

\* p has what q has outside R, nothing else, and in the order of q.
Leaves(p, q, R) ==
    /\ \A i \in DOMAIN p : p[i] \notin R
    /\ \A i \in DOMAIN q : q[i] \notin R => \E k \in DOMAIN p : p[k] = q[i]
    /\ \E e \in [DOMAIN p -> DOMAIN q] :
          /\ \A i, j \in DOMAIN p : i < j => e[i] < e[j]
          /\ \A i \in DOMAIN p : p[i] = q[e[i]]

LEMMA WithoutLemma ==
    ASSUME NEW S, NEW q \in Seq(S), NEW R
    PROVE  Without(q, R) \in Seq(S) /\ Leaves(Without(q, R), q, R)
<1> DEFINE kept == {i \in DOMAIN q : q[i] \notin R}
           e == CHOOSE e \in Ascending(kept) : TRUE
           p == [i \in 1..Cardinality(kept) |-> q[e[i]]]
<1>1. Without(q, R) = p
  BY DEF Without
<1>2. Len(q) \in Nat /\ kept \in SUBSET (1..Len(q)) /\ DOMAIN q = 1..Len(q)
  OBVIOUS
<1>3. e \in Ascending(kept)
  <2>1. Ascending(kept) # {}
    BY <1>2, AscendingExists
  <2> QED BY <2>1
<1>4. Cardinality(kept) \in Nat
  <2>1. IsFiniteSet(1..Len(q))
    BY <1>2, FS_Interval
  <2>2. IsFiniteSet(kept)
    BY <1>2, <2>1, FS_Subset
  <2> QED BY <2>2, FS_CardinalityType
<1> HIDE DEF e
<1>5. e \in [1..Cardinality(kept) -> kept]
  BY <1>3 DEF Ascending
<1>6. DOMAIN p = 1..Cardinality(kept) /\ \A i \in DOMAIN p : p[i] = q[e[i]] /\ e[i] \in kept
  BY <1>5
<1>7. p \in Seq(S)
  <2>1. p \in [1..Cardinality(kept) -> S]
    BY <1>5
  <2> QED BY <1>4, <2>1, IsASeq
<1>8. \A i \in DOMAIN p : p[i] \notin R
  BY <1>6
<1>9. \A i \in DOMAIN q : q[i] \notin R => \E k \in DOMAIN p : p[k] = q[i]
  <2> SUFFICES ASSUME NEW i \in DOMAIN q, q[i] \notin R
               PROVE \E k \in DOMAIN p : p[k] = q[i]
    OBVIOUS
  <2>1. PICK k \in DOMAIN e : e[k] = i
    BY <1>3 DEF Ascending
  <2> QED BY <1>5, <1>6, <2>1
<1>10. e \in [DOMAIN p -> DOMAIN q] /\ \A i, j \in DOMAIN p : i < j => e[i] < e[j]
  BY <1>3, <1>5, <1>6 DEF Ascending
<1> HIDE DEF p
<1>11. Leaves(p, q, R)
  BY <1>6, <1>8, <1>9, <1>10 DEF Leaves
<1> QED BY <1>1, <1>7, <1>11

\* A rotation taken up at position i, with and without what is there.
LEMMA TurnedLemma ==
    ASSUME NEW S, NEW q \in Seq(S), NEW i \in DOMAIN q
    PROVE  LET n == Len(q)
               p == SubSeq(q, i, n) \o SubSeq(q, 1, i - 1)
           IN /\ p \in Seq(S) /\ Len(p) = n
              /\ \A k \in 1..n : p[k] = IF k <= n - i + 1 THEN q[i + k - 1]
                                                     ELSE q[k - (n - i + 1)]
<1> DEFINE n == Len(q)
           a == SubSeq(q, i, n)
           b == SubSeq(q, 1, i - 1)
<1>1. n \in Nat /\ i \in 1..n
  OBVIOUS
<1>2. a \in Seq(S) /\ Len(a) = n - i + 1 /\ \A k \in 1..(n - i + 1) : a[k] = q[i + k - 1]
  <2>1. \A k \in i..n : q[k] \in S
    BY <1>1
  <2> QED BY <1>1, <2>1, SubSeqProperties
<1>3. b \in Seq(S) /\ Len(b) = i - 1 /\ \A k \in 1..(i - 1) : b[k] = q[k]
  <2>1. \A k \in 1..(i - 1) : q[k] \in S
    BY <1>1
  <2>2. i - 1 \in Int /\ 1 \in Int
    BY <1>1
  <2>3. /\ b \in Seq(S) /\ Len(b) = IF 1 <= i - 1 THEN i - 1 - 1 + 1 ELSE 0
        /\ \A k \in 1..(i - 1 - 1 + 1) : b[k] = q[1 + k - 1]
    BY <2>1, <2>2, SubSeqProperties
  <2> QED BY <1>1, <2>3
<1> HIDE DEF a, b
<1>4. /\ a \o b \in Seq(S) /\ Len(a \o b) = Len(a) + Len(b)
      /\ \A k \in 1..(Len(a) + Len(b)) :
            (a \o b)[k] = IF k <= Len(a) THEN a[k] ELSE b[k - Len(a)]
  BY <1>2, <1>3, ConcatProperties
<1>5. Len(a) + Len(b) = n
  <2>1. Len(a) = n - i + 1 /\ Len(b) = i - 1
    BY <1>2, <1>3
  <2>2. (n - i + 1) + (i - 1) = n
    BY <1>1
  <2> QED BY <2>1, <2>2
<1>6. ASSUME NEW k \in 1..n
      PROVE (a \o b)[k] = IF k <= n - i + 1 THEN q[i + k - 1] ELSE q[k - (n - i + 1)]
  <2>1. CASE k <= n - i + 1
    <3>1. k \in 1..(n - i + 1)
      BY <1>1, <2>1
    <3> QED BY <1>2, <1>4, <1>5, <2>1, <3>1
  <2>2. CASE ~(k <= n - i + 1)
    <3>1. k - (n - i + 1) \in 1..(i - 1)
      BY <1>1, <2>2
    <3> QED BY <1>1, <1>2, <1>3, <1>4, <1>5, <2>2, <3>1
  <2> QED BY <2>1, <2>2
<1>7. SubSeq(q, i, Len(q)) \o SubSeq(q, 1, i - 1) = a \o b
  BY DEF a, b
<1> QED BY <1>4, <1>5, <1>6, <1>7

LEMMA RotatedLemma ==
    ASSUME TypeOK, NEW i \in DOMAIN rotation, NEW left
    PROVE  LET n == Len(rotation)
               p == Rotated(i, left)
           IN /\ p \in Seq(Groups)
              /\ Len(p) = IF left = <<>> THEN n - 1 ELSE n
              /\ \A k \in 1..Len(p) :
                    p[k] = IF k <= n - i THEN rotation[i + k]
                           ELSE IF k <= n - 1 THEN rotation[k - (n - i)]
                           ELSE rotation[i]
<1> DEFINE q == rotation
           n == Len(q)
           a == SubSeq(q, i + 1, n)
           b == SubSeq(q, 1, i - 1)
           c == IF left = <<>> THEN <<>> ELSE <<q[i]>>
<1>1. q \in Seq(Groups) /\ n \in Nat /\ i \in 1..n /\ q[i] \in Groups
  BY DEF TypeOK
<1>2. a \in Seq(Groups) /\ Len(a) = n - i /\ \A k \in 1..(n - i) : a[k] = q[i + k]
  <2>1. \A k \in (i + 1)..n : q[k] \in Groups
    BY <1>1
  <2>2. i + 1 \in Int /\ n \in Int
    BY <1>1
  <2>3. /\ a \in Seq(Groups) /\ Len(a) = IF i + 1 <= n THEN n - (i + 1) + 1 ELSE 0
        /\ \A k \in 1..(n - (i + 1) + 1) : a[k] = q[i + 1 + k - 1]
    BY SMTT(40), <2>1, <2>2, SubSeqProperties
  <2> QED BY <1>1, <2>3
<1>3. b \in Seq(Groups) /\ Len(b) = i - 1 /\ \A k \in 1..(i - 1) : b[k] = q[k]
  <2>1. \A k \in 1..(i - 1) : q[k] \in Groups
    BY <1>1
  <2>2. i - 1 \in Int /\ 1 \in Int
    BY <1>1
  <2>3. /\ b \in Seq(Groups) /\ Len(b) = IF 1 <= i - 1 THEN i - 1 - 1 + 1 ELSE 0
        /\ \A k \in 1..(i - 1 - 1 + 1) : b[k] = q[1 + k - 1]
    BY <2>1, <2>2, SubSeqProperties
  <2> QED BY <1>1, <2>3
<1>4. c \in Seq(Groups) /\ Len(c) = (IF left = <<>> THEN 0 ELSE 1)
      /\ (left # <<>> => c[1] = q[i])
  BY <1>1
<1>5. Rotated(i, left) = (a \o b) \o c
  BY DEF Rotated
<1> HIDE DEF a, b, c
<1>6. /\ a \o b \in Seq(Groups) /\ Len(a \o b) = n - 1
      /\ \A k \in 1..(n - 1) :
            (a \o b)[k] = IF k <= n - i THEN a[k] ELSE b[k - (n - i)]
  <2>1. Len(a) + Len(b) = n - 1
    BY <1>1, <1>2, <1>3
  <2>2. /\ a \o b \in Seq(Groups) /\ Len(a \o b) = Len(a) + Len(b)
        /\ \A k \in 1..(Len(a) + Len(b)) :
            (a \o b)[k] = IF k <= Len(a) THEN a[k] ELSE b[k - Len(a)]
    BY <1>2, <1>3, ConcatProperties
  <2> QED BY <1>2, <2>1, <2>2
<1> DEFINE d == a \o b
<1> HIDE DEF d
<1>7. /\ d \o c \in Seq(Groups) /\ Len(d \o c) = Len(d) + Len(c)
      /\ \A k \in 1..(Len(d) + Len(c)) :
            (d \o c)[k] = IF k <= Len(d) THEN d[k] ELSE c[k - Len(d)]
  BY ZenonT(40), <1>4, <1>6, ConcatProperties DEF d
<1>8. ASSUME NEW k \in 1..Len(d \o c)
      PROVE (d \o c)[k] = IF k <= n - i THEN q[i + k]
                           ELSE IF k <= n - 1 THEN q[k - (n - i)] ELSE q[i]
  <2>1. k \in 1..(Len(d) + Len(c)) /\ Len(d) = n - 1
    BY <1>6, <1>7 DEF d
  <2>2. CASE k <= n - i
    <3>1. k \in 1..(n - i) /\ k \in 1..(n - 1)
      BY <1>1, <2>1, <2>2
    <3> QED BY <1>2, <1>6, <1>7, <2>1, <2>2, <3>1 DEF d
  <2>3. CASE ~(k <= n - i) /\ k <= n - 1
    <3>1. k - (n - i) \in 1..(i - 1) /\ k \in 1..(n - 1)
      BY <1>1, <2>1, <2>3
    <3> QED BY <1>3, <1>6, <1>7, <2>1, <2>3, <3>1 DEF d
  <2>4. CASE ~(k <= n - 1)
    <3>1. Len(c) = 1 /\ k = n /\ left # <<>>
      BY <1>1, <1>4, <2>1, <2>4
    <3>2. ~(k <= n - i)
      BY <1>1, <3>1
    <3>3. (d \o c)[k] = c[1]
      BY <1>1, <1>7, <2>1, <3>1
    <3> QED BY <1>4, <2>4, <3>1, <3>2, <3>3
  <2> QED BY <2>2, <2>3, <2>4
<1>9. Len(d \o c) = IF left = <<>> THEN n - 1 ELSE n
  BY <1>1, <1>4, <1>6, <1>7 DEF d
<1>10. Rotated(i, left) = d \o c
  BY <1>5 DEF d
<1> QED BY <1>7, <1>8, <1>9, <1>10

------------------------------------------------------------------------------
(* The inductive invariant.                                                      *)

\* The account of one request, from where it is: its results so far, the one it
\* has, and the starts recorded for it.
Account(where, set, value, starts) ==
    /\ set = (IF where = "settled" THEN 1 ELSE 0)
    /\ value = "none" <=> where # "settled"
    /\ starts \in 0..1
    /\ where \in {"new", "posted", "queued", "created"} => starts = 0
    /\ where \in {"sent", "wire"} => starts = 1

AccountsSound ==
    \A r \in Requests : Account(stage[r], settles[r], result[r], recorded[r])

Admitted == {r \in Requests : stage[r] \in InFlight}

\* One task at a time is created and has not entered; the pump waits for it, and
\* keeps a permit for it.
EntrySound ==
    /\ active = Cardinality(Admitted) /\ active <= Cap
    /\ \A r \in Requests : stage[r] = "created" => pump = "await" /\ active < Cap
    /\ \A r, s \in Requests : stage[r] = "created" /\ stage[s] = "created" => r = s

\* Every posted request has its one callback in the inbox; what can still change
\* a request on the loop is ahead of the drain, and none of it is left once the
\* drain has begun.
InboxSound ==
    /\ \A i \in DOMAIN inbox : inbox[i].kind = "enqueue" =>
          /\ stage[inbox[i].of] = "posted"
          /\ \A j \in DOMAIN inbox : inbox[j] = inbox[i] => i = j
    /\ \A r \in Requests : stage[r] = "posted" =>
          \E i \in DOMAIN inbox : inbox[i] = [kind |-> "enqueue", of |-> r]
    /\ \A i, j \in DOMAIN inbox :
          inbox[i].kind = "drain" /\ i < j => inbox[j].kind = "cancel"
    /\ \A i \in DOMAIN inbox : inbox[i].kind = "drain" => drain = "posted"
    /\ drain \in {"waiting", "done"} =>
          \A i \in DOMAIN inbox : inbox[i].kind = "cancel"
    /\ drain = "posted" => \E i \in DOMAIN inbox : inbox[i].kind = "drain"

\* Closing: once drained, nothing is outstanding and the client is closed.
DrainSound ==
    /\ closed <=> drain # "none"
    /\ drain = "done" => /\ \A r \in Requests : stage[r] \in {"new", "settled"}
                         /\ client # "open" /\ pump = "gone"

Distinct(q) == \A i, j \in DOMAIN q : q[i] = q[j] => i = j

\* The queue of a group holds its queued requests, each once, and the rotation
\* the groups that have any: the pump finds every queued request.
QueuesSound ==
    /\ \A g \in Groups : Distinct(queues[g])
    /\ \A g \in Groups : \A i \in DOMAIN queues[g] :
          stage[queues[g][i]] = "queued" /\ GroupOf[queues[g][i]] = g
    /\ \A r \in Requests : stage[r] = "queued" =>
          \E i \in DOMAIN queues[GroupOf[r]] : queues[GroupOf[r]][i] = r
    /\ Distinct(rotation)
    /\ \A g \in Groups : queues[g] # <<>> <=> \E i \in DOMAIN rotation : rotation[i] = g

\* A group that was served while another had something ready is behind it.
Behind(turns, late) ==
    \A i, j \in DOMAIN turns : turns[j] \in late[turns[i]] => i < j

TurnsSound ==
    /\ Behind(rotation, passed)
    /\ \A h \in Groups : passed[h] # {} => Ready(h)

IInv ==
    /\ TypeOK
    /\ AccountsSound
    /\ EntrySound
    /\ InboxSound
    /\ DrainSound
    /\ QueuesSound
    /\ TurnsSound

Unserved == \A r \in Requests : ~(stage[r] = "queued" /\ stage'[r] = "created")

SameWhere(where) == \A r \in Requests : stage'[r] = where <=> stage[r] = where

------------------------------------------------------------------------------
(* What keeps the parts about the inbox, the queues and the turns.               *)

LEMMA SameInbox ==
    ASSUME IInv, UNCHANGED <<inbox, drain>>, SameWhere("posted")
    PROVE  InboxSound'
<1>1. TypeOK /\ InboxSound
  BY DEF IInv
<1>2. \A i \in DOMAIN inbox : inbox[i] \in Callbacks
  BY <1>1 DEF TypeOK
<1>3. \A m \in Callbacks : m.kind = "enqueue" => m.of \in Requests
  BY DEF Callbacks
<1> QED BY <1>1, <1>2, <1>3 DEF InboxSound, SameWhere

\* A message is posted behind all others; only a cancellation is once closed.
LEMMA PostedInbox ==
    ASSUME IInv, NEW m \in Callbacks, Post(m),
           m.kind # "cancel" => drain = "none",
           m.kind = "enqueue" => stage[m.of] # "posted",
           drain' = (IF m.kind = "drain" THEN "posted" ELSE drain),
           \A r \in Requests : stage'[r] = "posted" <=>
               stage[r] = "posted" \/ m = [kind |-> "enqueue", of |-> r]
    PROVE  InboxSound' /\ inbox' \in Seq(Callbacks)
<1>1. TypeOK /\ InboxSound
  BY DEF IInv
<1> DEFINE n == Len(inbox)
<1>2. /\ n \in Nat /\ inbox' \in Seq(Callbacks) /\ DOMAIN inbox = 1..n /\ DOMAIN inbox' = 1..(n + 1)
      /\ inbox'[n + 1] = m /\ \A i \in 1..n : inbox'[i] = inbox[i]
  BY <1>1, AppendProperties DEF TypeOK, Post
<1>3. \A i \in 1..n : inbox[i] \in Callbacks
  BY <1>1, <1>2 DEF TypeOK
<1>4. \A c \in Callbacks : c.kind = "enqueue" =>
          c.of \in Requests /\ c = [kind |-> "enqueue", of |-> c.of]
  BY DEF Callbacks
<1> HIDE DEF n
<1>5. \A i \in 1..(n + 1) : i \in 1..n \/ i = n + 1
  BY <1>2
<1>6. ASSUME NEW i \in 1..(n + 1), inbox'[i].kind = "enqueue"
      PROVE  stage'[inbox'[i].of] = "posted" /\ \A j \in 1..(n + 1) : inbox'[j] = inbox'[i] => i = j
  <2>1. \A k \in 1..n : inbox[k].kind = "enqueue" =>
            inbox[k].of \in Requests /\ stage[inbox[k].of] = "posted"
            /\ \A l \in 1..n : inbox[l] = inbox[k] => k = l
    BY <1>1, <1>2, <1>3, <1>4 DEF InboxSound
  <2>2. m.kind = "enqueue" => m.of \in Requests /\ stage'[m.of] = "posted"
    BY <1>4
  <2>3. \A k \in 1..n : inbox[k].kind = "enqueue" => inbox[k] # m
    BY <2>1
  <2> QED BY <1>2, <1>5, <1>6, <2>1, <2>2, <2>3
<1>7. \A r \in Requests : stage'[r] = "posted" =>
          \E i \in 1..(n + 1) : inbox'[i] = [kind |-> "enqueue", of |-> r]
  <2> SUFFICES ASSUME NEW r \in Requests, stage'[r] = "posted"
               PROVE \E i \in 1..(n + 1) : inbox'[i] = [kind |-> "enqueue", of |-> r]
    OBVIOUS
  <2>1. CASE stage[r] = "posted"
    <3>1. PICK i \in 1..n : inbox[i] = [kind |-> "enqueue", of |-> r]
      BY <1>1, <1>2, <2>1 DEF InboxSound
    <3>2. i \in 1..(n + 1)
      BY <1>2
    <3> QED BY <1>2, <3>1, <3>2
  <2>2. CASE stage[r] # "posted"
    <3>1. n + 1 \in 1..(n + 1)
      BY <1>2
    <3> QED BY <1>2, <2>2, <3>1
  <2> QED BY <2>1, <2>2
<1>8. \A i, j \in 1..(n + 1) :
          inbox'[i].kind = "drain" /\ i < j => inbox'[j].kind = "cancel"
  <2> SUFFICES ASSUME NEW i \in 1..(n + 1), NEW j \in 1..(n + 1),
                      inbox'[i].kind = "drain", i < j
               PROVE  inbox'[j].kind = "cancel"
    OBVIOUS
  <2>1. i \in 1..n
    BY <1>2
  <2>2. inbox[i].kind = "drain" /\ drain = "posted"
    BY <1>1, <1>2, <2>1 DEF InboxSound
  <2> QED BY <1>1, <1>2, <1>5, <2>1, <2>2 DEF InboxSound
<1>9. \A i \in 1..(n + 1) : inbox'[i].kind = "drain" => drain' = "posted"
  BY <1>1, <1>2, <1>5 DEF InboxSound
<1>10. drain' \in {"waiting", "done"} => \A i \in 1..(n + 1) : inbox'[i].kind = "cancel"
  BY <1>1, <1>2, <1>5 DEF InboxSound
<1>11. drain' = "posted" => \E i \in 1..(n + 1) : inbox'[i].kind = "drain"
  <2>1. \A i \in 1..n : i \in 1..(n + 1)
    BY <1>2
  <2>2. n + 1 \in 1..(n + 1)
    BY <1>2
  <2> QED BY <1>1, <1>2, <2>1, <2>2 DEF InboxSound
<1> QED BY <1>2, <1>6, <1>7, <1>8, <1>9, <1>10, <1>11 DEF InboxSound

\* The loop takes the oldest message.
LEMMA TakenInbox ==
    ASSUME IInv, inbox # <<>>, drain # "done", NEW m, m = Head(inbox),
           inbox' = Tail(inbox),
           drain' = (IF m.kind = "drain" THEN "waiting" ELSE drain),
           \A r \in Requests : stage'[r] = "posted" <=>
               stage[r] = "posted" /\ m # [kind |-> "enqueue", of |-> r]
    PROVE  InboxSound' /\ inbox' \in Seq(Callbacks)
<1>1. TypeOK /\ InboxSound
  BY DEF IInv
<1> DEFINE n == Len(inbox)
<1>2. /\ n \in Nat /\ n # 0 /\ inbox' \in Seq(Callbacks)
      /\ DOMAIN inbox = 1..n /\ DOMAIN inbox' = 1..(n - 1)
      /\ inbox[1] = m /\ \A i \in 1..(n - 1) : inbox'[i] = inbox[i + 1]
  BY <1>1, HeadTailProperties DEF TypeOK
<1>3. \A i \in 1..n : inbox[i] \in Callbacks
  BY <1>1, <1>2 DEF TypeOK
<1>4. \A c \in Callbacks : c.kind = "enqueue" =>
          c.of \in Requests /\ c = [kind |-> "enqueue", of |-> c.of]
  BY DEF Callbacks
<1> HIDE DEF n
<1>5. 1 \in 1..n /\ \A i \in 1..(n - 1) : i + 1 \in 1..n /\ i + 1 # 1 /\ 1 < i + 1
  BY <1>2
<1>6. ASSUME NEW i \in 1..(n - 1), inbox'[i].kind = "enqueue"
      PROVE  stage'[inbox'[i].of] = "posted" /\ \A j \in 1..(n - 1) : inbox'[j] = inbox'[i] => i = j
  <2>1. /\ inbox[i + 1].of \in Requests
        /\ inbox[i + 1] = [kind |-> "enqueue", of |-> inbox[i + 1].of]
        /\ stage[inbox[i + 1].of] = "posted"
        /\ \A l \in 1..n : inbox[l] = inbox[i + 1] => i + 1 = l
    BY <1>1, <1>2, <1>3, <1>4, <1>5, <1>6 DEF InboxSound
  <2>2. inbox[i + 1] # m
    BY <1>2, <1>5, <2>1
  <2>3. stage'[inbox'[i].of] = "posted"
    BY <1>2, <2>1, <2>2
  <2>4. ASSUME NEW j \in 1..(n - 1), inbox'[j] = inbox'[i] PROVE i = j
    <3>1. i + 1 = j + 1
      BY <1>2, <1>5, <2>1, <2>4
    <3> QED BY <1>2, <3>1
  <2> QED BY <2>3, <2>4
<1>7. \A r \in Requests : stage'[r] = "posted" =>
          \E i \in 1..(n - 1) : inbox'[i] = [kind |-> "enqueue", of |-> r]
  <2> SUFFICES ASSUME NEW r \in Requests, stage'[r] = "posted"
               PROVE \E i \in 1..(n - 1) : inbox'[i] = [kind |-> "enqueue", of |-> r]
    OBVIOUS
  <2>1. PICK i \in 1..n : inbox[i] = [kind |-> "enqueue", of |-> r]
    BY <1>1, <1>2 DEF InboxSound
  <2>2. i # 1
    BY <1>2, <2>1
  <2>3. i - 1 \in 1..(n - 1) /\ (i - 1) + 1 = i
    BY <1>2, <2>2
  <2>4. inbox'[i - 1] = inbox[i]
    BY <1>2, <2>3
  <2> QED BY <2>1, <2>3, <2>4
<1>8. \A i, j \in 1..(n - 1) :
          inbox'[i].kind = "drain" /\ i < j => inbox'[j].kind = "cancel"
  <2>1. \A i, j \in 1..(n - 1) : i < j => i + 1 < j + 1
    BY <1>2
  <2> QED BY <1>1, <1>2, <1>5, <2>1 DEF InboxSound
<1>9. m.kind = "drain" => \A i \in 1..(n - 1) : inbox'[i].kind = "cancel"
  BY <1>1, <1>2, <1>5 DEF InboxSound
<1>10. \A i \in 1..(n - 1) : inbox'[i].kind = "drain" => drain' = "posted"
  BY <1>1, <1>2, <1>5, <1>9 DEF InboxSound
<1>11. drain' \in {"waiting", "done"} => \A i \in 1..(n - 1) : inbox'[i].kind = "cancel"
  BY <1>1, <1>2, <1>5, <1>9 DEF InboxSound
<1>12. drain' = "posted" => \E i \in 1..(n - 1) : inbox'[i].kind = "drain"
  <2> SUFFICES ASSUME drain' = "posted" PROVE \E i \in 1..(n - 1) : inbox'[i].kind = "drain"
    OBVIOUS
  <2>1. drain = "posted" /\ m.kind # "drain"
    OBVIOUS
  <2>2. PICK i \in 1..n : inbox[i].kind = "drain"
    BY <1>1, <1>2, <2>1 DEF InboxSound
  <2>3. i - 1 \in 1..(n - 1) /\ (i - 1) + 1 = i
    BY <1>2, <2>1, <2>2
  <2>4. inbox'[i - 1] = inbox[i]
    BY <1>2, <2>3
  <2> QED BY <2>2, <2>3, <2>4
<1>13. DOMAIN inbox' = 1..(n - 1)
  BY <1>2
<1>14. \A i \in DOMAIN inbox' : inbox'[i].kind = "enqueue" =>
          /\ stage'[inbox'[i].of] = "posted"
          /\ \A j \in DOMAIN inbox' : inbox'[j] = inbox'[i] => i = j
  BY ZenonT(40), <1>6, <1>13
<1>15. \A r \in Requests : stage'[r] = "posted" =>
          \E i \in DOMAIN inbox' : inbox'[i] = [kind |-> "enqueue", of |-> r]
  BY <1>7, <1>13
<1>16. \A i, j \in DOMAIN inbox' :
          inbox'[i].kind = "drain" /\ i < j => inbox'[j].kind = "cancel"
  BY <1>8, <1>13
<1> QED BY <1>2, <1>10, <1>11, <1>12, <1>13, <1>14, <1>15, <1>16 DEF InboxSound

LEMMA SameQueues ==
    ASSUME IInv, UNCHANGED <<queues, rotation>>, SameWhere("queued")
    PROVE  QueuesSound'
<1>1. TypeOK /\ QueuesSound
  BY DEF IInv
<1>2. \A g \in Groups : \A i \in DOMAIN queues[g] : queues[g][i] \in Requests
  BY <1>1 DEF TypeOK
<1> QED BY <1>1, <1>2 DEF QueuesSound, SameWhere, Distinct

\* The turns are kept when no group is served and none with something ready falls
\* behind another.
LEMMA TurnsKept ==
    ASSUME IInv, Passing, Unserved,
           \A i, j \in DOMAIN rotation' : Ready(rotation'[i]) /\ j <= i =>
               \E k, l \in DOMAIN rotation :
                   /\ rotation[k] = rotation'[i] /\ rotation[l] = rotation'[j]
                   /\ l <= k,
           rotation' \in Seq(Groups)
    PROVE  passed' \in [Groups -> SUBSET Groups] /\ TurnsSound'
<1>1. TypeOK /\ TurnsSound
  BY DEF IInv
<1>2. ASSUME NEW h \in Groups
      PROVE  passed'[h] \subseteq passed[h] /\ (passed'[h] # {} => Ready(h) /\ Ready(h)')
  BY DEF Passing, Served, Unserved
<1>3. passed' \in [Groups -> SUBSET Groups]
  BY <1>1, <1>2 DEF TypeOK, Passing
<1>4. ASSUME NEW i \in DOMAIN rotation', NEW j \in DOMAIN rotation',
             rotation'[j] \in passed'[rotation'[i]]
      PROVE  i < j
  <2>1. rotation'[i] \in Groups
    OBVIOUS
  <2>2. Ready(rotation'[i]) /\ rotation'[j] \in passed[rotation'[i]]
    BY <1>2, <1>4, <2>1
  <2>3. i \in Int /\ j \in Int
    OBVIOUS
  <2>4. ASSUME j <= i PROVE FALSE
    <3>1. PICK k, l \in DOMAIN rotation :
              rotation[k] = rotation'[i] /\ rotation[l] = rotation'[j] /\ l <= k
      BY <2>2, <2>4
    <3>2. k < l
      BY <1>1, <2>2, <3>1 DEF TurnsSound, Behind
    <3>3. k \in Int /\ l \in Int
      BY <1>1 DEF TypeOK
    <3> QED BY <3>1, <3>2, <3>3
  <2> QED BY <2>3, <2>4
<1>5. \A h \in Groups : passed'[h] # {} => Ready(h)'
  BY <1>2
<1> QED BY <1>3, <1>4, <1>5 DEF TurnsSound, Behind

LEMMA SameTurns ==
    ASSUME IInv, Passing, Unserved, rotation' = rotation
    PROVE  passed' \in [Groups -> SUBSET Groups] /\ TurnsSound'
<1>1. rotation \in Seq(Groups)
  BY DEF IInv, TypeOK
<1>2. \A i, j \in DOMAIN rotation' : Ready(rotation'[i]) /\ j <= i =>
          \E k, l \in DOMAIN rotation :
              rotation[k] = rotation'[i] /\ rotation[l] = rotation'[j] /\ l <= k
  OBVIOUS
<1> QED BY <1>1, <1>2, TurnsKept

------------------------------------------------------------------------------
(* Steps that change the queues.                                                 *)

\* The condition of TurnsKept.
KeepsOrder ==
    \A i, j \in DOMAIN rotation' : Ready(rotation'[i]) /\ j <= i =>
        \E k, l \in DOMAIN rotation :
            /\ rotation[k] = rotation'[i] /\ rotation[l] = rotation'[j]
            /\ l <= k

\* A queue from which members were removed.
LEMMA RemovedFrom ==
    ASSUME NEW S, NEW q \in Seq(S), NEW R, Distinct(q)
    PROVE  Distinct(Without(q, R))
<1> DEFINE p == Without(q, R)
<1>1. p \in Seq(S) /\ Leaves(p, q, R)
  BY WithoutLemma
<1> HIDE DEF p
<1>2. PICK e \in [DOMAIN p -> DOMAIN q] :
          /\ \A i, j \in DOMAIN p : i < j => e[i] < e[j]
          /\ \A i \in DOMAIN p : p[i] = q[e[i]]
  BY <1>1 DEF Leaves
<1>3. ASSUME NEW i \in DOMAIN p, NEW j \in DOMAIN p, p[i] = p[j], i # j PROVE FALSE
  <2>1. e[i] = e[j] /\ e[i] \in 1..Len(q) /\ e[j] \in 1..Len(q)
    BY <1>2, <1>3 DEF Distinct
  <2>2. i \in 1..Len(p) /\ j \in 1..Len(p) /\ Len(p) \in Nat
    BY <1>1
  <2>3. i < j \/ j < i
    BY <1>3, <2>2
  <2>4. e[i] < e[j] \/ e[j] < e[i]
    BY <1>2, <2>3
  <2> QED BY <2>1, <2>4
<1>4. Distinct(p)
  BY <1>3 DEF Distinct
<1> QED BY <1>4 DEF p

LEMMA DequeuedLemma ==
    ASSUME IInv, NEW R, Dequeued(R),
           \A r \in Requests : stage'[r] = "queued" <=> stage[r] = "queued" /\ r \notin R
    PROVE  /\ queues' \in [Groups -> Seq(Requests)] /\ rotation' \in Seq(Groups)
           /\ QueuesSound' /\ KeepsOrder
<1>1. TypeOK /\ QueuesSound
  BY DEF IInv
<1>2. /\ queues \in [Groups -> Seq(Requests)] /\ rotation \in Seq(Groups)
      /\ GroupOf \in [Requests -> Groups]
  BY <1>1, GroupAssumption DEF TypeOK
<1>3. queues' = [g \in Groups |-> Without(queues[g], R)]
  BY DEF Dequeued
<1>4. ASSUME NEW g \in Groups
      PROVE  /\ queues'[g] = Without(queues[g], R) /\ queues'[g] \in Seq(Requests)
             /\ Distinct(queues'[g])
             /\ \A i \in DOMAIN queues'[g] : \E k \in DOMAIN queues[g] :
                   queues'[g][i] = queues[g][k] /\ queues'[g][i] \notin R
             /\ \A k \in DOMAIN queues[g] : queues[g][k] \notin R =>
                   \E i \in DOMAIN queues'[g] : queues'[g][i] = queues[g][k]
  <2>1. queues[g] \in Seq(Requests) /\ Distinct(queues[g])
    BY <1>1, <1>2 DEF QueuesSound
  <2> DEFINE p == Without(queues[g], R)
  <2>7. p \in Seq(Requests) /\ Leaves(p, queues[g], R)
    BY <2>1, WithoutLemma
  <2>2. /\ p \in Seq(Requests)
        /\ \A i \in DOMAIN p : p[i] \notin R
        /\ \A k \in DOMAIN queues[g] : queues[g][k] \notin R =>
              \E i \in DOMAIN p : p[i] = queues[g][k]
        /\ \E e \in [DOMAIN p -> DOMAIN queues[g]] : \A i \in DOMAIN p : p[i] = queues[g][e[i]]
    BY <2>7 DEF Leaves
  <2>3. Distinct(p)
    BY <2>1, RemovedFrom
  <2>4. queues'[g] = p
    BY <1>3
  <2> HIDE DEF p
  <2>5. \A i \in DOMAIN p : \E k \in DOMAIN queues[g] : p[i] = queues[g][k] /\ p[i] \notin R
    BY <2>2
  <2>6. p = Without(queues[g], R)
    BY DEF p
  <2> QED BY <2>2, <2>3, <2>4, <2>5, <2>6
<1>5. queues' \in [Groups -> Seq(Requests)]
  BY <1>3, <1>4
<1> DEFINE gone == {g \in Groups : queues'[g] = <<>>}
<1> HIDE DEF gone
<1> DEFINE t == Without(rotation, gone)
<1>6. rotation' = t
  BY DEF Dequeued, gone
<1>15. t \in Seq(Groups) /\ Leaves(t, rotation, gone)
  BY <1>2, WithoutLemma
<1>9. Distinct(t)
  BY <1>1, <1>2, RemovedFrom DEF QueuesSound
<1> HIDE DEF t
<1>7. /\ t \in Seq(Groups)
      /\ \A i \in DOMAIN t : t[i] \notin gone
      /\ \A k \in DOMAIN rotation : rotation[k] \notin gone =>
            \E i \in DOMAIN t : t[i] = rotation[k]
  BY <1>15 DEF Leaves
<1>8. PICK e \in [DOMAIN t -> DOMAIN rotation] :
          /\ \A i, j \in DOMAIN t : i < j => e[i] < e[j]
          /\ \A i \in DOMAIN t : t[i] = rotation[e[i]]
  BY <1>15 DEF Leaves
<1>10. KeepsOrder
  <2> SUFFICES ASSUME NEW i \in DOMAIN t, NEW j \in DOMAIN t, j <= i
               PROVE \E k, l \in DOMAIN rotation :
                         rotation[k] = t[i] /\ rotation[l] = t[j] /\ l <= k
    BY <1>6 DEF KeepsOrder
  <2>1. i \in 1..Len(t) /\ j \in 1..Len(t) /\ Len(t) \in Nat
    BY <1>7
  <2>2. e[i] \in DOMAIN rotation /\ e[j] \in DOMAIN rotation /\ Len(rotation) \in Nat
        /\ DOMAIN rotation = 1..Len(rotation)
    BY <1>2, <1>8
  <2>3. e[j] <= e[i]
    <3>1. CASE j = i
      BY <2>2, <3>1
    <3>2. CASE j # i
      <4>1. j < i
        BY <2>1, <3>2
      <4>2. e[j] < e[i]
        BY <1>8, <4>1
      <4> QED BY <2>2, <4>2
    <3> QED BY <3>1, <3>2
  <2> QED BY <1>8, <2>2, <2>3
<1>11. ASSUME NEW g \in Groups
       PROVE queues'[g] # <<>> <=> \E i \in DOMAIN t : t[i] = g
  <2>1. ASSUME queues'[g] # <<>> PROVE \E i \in DOMAIN t : t[i] = g
    <3>1. PICK i \in DOMAIN queues'[g] : TRUE
      BY <1>4, <2>1
    <3>2. queues[g] # <<>>
      BY <1>2, <1>4, <3>1
    <3>3. PICK k \in DOMAIN rotation : rotation[k] = g
      BY <1>1, <3>2 DEF QueuesSound
    <3> QED BY <1>7, <2>1, <3>3 DEF gone
  <2>2. ASSUME NEW i \in DOMAIN t, t[i] = g PROVE queues'[g] # <<>>
    BY <1>7, <2>2 DEF gone
  <2> QED BY <2>1, <2>2
<1>12. \A g \in Groups : \A i \in DOMAIN queues'[g] :
           stage'[queues'[g][i]] = "queued" /\ GroupOf[queues'[g][i]] = g
  <2> SUFFICES ASSUME NEW g \in Groups, NEW i \in DOMAIN queues'[g]
               PROVE  stage'[queues'[g][i]] = "queued" /\ GroupOf[queues'[g][i]] = g
    OBVIOUS
  <2>1. PICK k \in DOMAIN queues[g] : queues'[g][i] = queues[g][k] /\ queues'[g][i] \notin R
    BY <1>4
  <2>2. queues[g][k] \in Requests /\ stage[queues[g][k]] = "queued" /\ GroupOf[queues[g][k]] = g
    BY <1>1, <1>2 DEF QueuesSound
  <2> QED BY <2>1, <2>2
<1>13. ASSUME NEW r \in Requests, stage'[r] = "queued"
       PROVE \E i \in DOMAIN queues'[GroupOf[r]] : queues'[GroupOf[r]][i] = r
  <2>1. stage[r] = "queued" /\ r \notin R /\ GroupOf[r] \in Groups
    BY <1>2, <1>13
  <2>2. PICK k \in DOMAIN queues[GroupOf[r]] : queues[GroupOf[r]][k] = r
    BY <1>1, <2>1 DEF QueuesSound
  <2> QED BY <1>4, <2>1, <2>2
<1>14. QueuesSound'
  BY <1>4, <1>6, <1>9, <1>11, <1>12, <1>13 DEF QueuesSound, Distinct
<1> QED BY <1>5, <1>6, <1>7, <1>10, <1>14

LEMMA EnqueueLemma ==
    ASSUME IInv, NEW r \in Requests, stage[r] = "posted", Enqueue(r)
    PROVE  /\ queues' \in [Groups -> Seq(Requests)] /\ rotation' \in Seq(Groups)
           /\ QueuesSound' /\ KeepsOrder
<1>1. TypeOK /\ QueuesSound
  BY DEF IInv
<1>2. PICK g \in Groups : g = GroupOf[r]
  BY GroupAssumption
<1>3. /\ queues \in [Groups -> Seq(Requests)] /\ rotation \in Seq(Groups)
      /\ stage \in [Requests -> Stages] /\ GroupOf \in [Requests -> Groups]
  BY <1>1, GroupAssumption DEF TypeOK
<1>4. /\ stage' = [stage EXCEPT ![r] = "queued"]
      /\ queues' = [queues EXCEPT ![g] = Append(queues[g], r)]
      /\ rotation' = IF queues[g] = <<>> THEN Append(rotation, g) ELSE rotation
  BY <1>2 DEF Enqueue
<1>5. PICK q \in Seq(Requests) : q = queues[g]
  BY <1>3
<1>6. PICK p \in Seq(Requests) : p = Append(q, r)
  BY AppendProperties
<1>7. /\ p # <<>> /\ Len(q) \in Nat /\ Len(p) = Len(q) + 1 /\ p[Len(q) + 1] = r
      /\ \A i \in 1..Len(q) : p[i] = q[i]
  BY <1>6, AppendProperties
<1>8. queues'[g] = p /\ \A h \in Groups \ {g} : queues'[h] = queues[h]
  BY <1>3, <1>4, <1>5, <1>6
<1>9. queues' \in [Groups -> Seq(Requests)]
  BY <1>3, <1>4, <1>5, <1>6
<1>10. \A s \in Requests : stage'[s] = "queued" <=> s = r \/ stage[s] = "queued"
  BY <1>3, <1>4
<1>11. \A i \in 1..Len(q) : q[i] \in Requests /\ stage[q[i]] = "queued" /\ GroupOf[q[i]] = g
  BY <1>1, <1>5 DEF QueuesSound
<1>12. Distinct(p)
  <2>1. Distinct(q)
    BY <1>1, <1>5 DEF QueuesSound
  <2>2. \A i \in 1..Len(q) : q[i] # r
    BY <1>11
  <2>3. DOMAIN p = 1..(Len(q) + 1) /\ DOMAIN q = 1..Len(q)
    BY <1>7
  <2>4. \A i \in 1..(Len(q) + 1) : i \in 1..Len(q) \/ i = Len(q) + 1
    BY <1>7
  <2> QED BY <1>7, <2>1, <2>2, <2>3, <2>4 DEF Distinct
<1>13. \A h \in Groups : \A i \in DOMAIN queues'[h] :
           stage'[queues'[h][i]] = "queued" /\ GroupOf[queues'[h][i]] = h
  <2>1. ASSUME NEW i \in DOMAIN p PROVE stage'[p[i]] = "queued" /\ GroupOf[p[i]] = g
    <3>1. i \in 1..Len(q) \/ i = Len(q) + 1
      BY <1>7
    <3> QED BY <1>2, <1>7, <1>10, <1>11, <3>1
  <2>2. ASSUME NEW h \in Groups \ {g}, NEW i \in DOMAIN queues[h]
        PROVE  stage'[queues[h][i]] = "queued" /\ GroupOf[queues[h][i]] = h
    <3>1. queues[h][i] \in Requests /\ stage[queues[h][i]] = "queued" /\ GroupOf[queues[h][i]] = h
      BY <1>1, <1>3 DEF QueuesSound
    <3> QED BY <1>10, <3>1
  <2> QED BY <1>8, <2>1, <2>2
<1>14. ASSUME NEW s \in Requests, stage'[s] = "queued"
       PROVE  \E i \in DOMAIN queues'[GroupOf[s]] : queues'[GroupOf[s]][i] = s
  <2>1. CASE s = r
    <3>1. Len(q) + 1 \in DOMAIN p
      BY <1>7
    <3> QED BY <1>2, <1>7, <1>8, <2>1, <3>1
  <2>2. CASE s # r
    <3>1. PICK i \in DOMAIN queues[GroupOf[s]] : queues[GroupOf[s]][i] = s
      BY <1>1, <1>10, <1>14, <2>2 DEF QueuesSound
    <3>2. CASE GroupOf[s] = g
      <4>1. i \in 1..Len(q) /\ q[i] = s
        BY <1>5, <3>1, <3>2
      <4>2. i \in DOMAIN p
        BY <1>7, <4>1
      <4> QED BY <1>7, <1>8, <3>2, <4>1, <4>2
    <3>3. CASE GroupOf[s] # g
      <4>1. GroupOf[s] \in Groups \ {g}
        BY <1>3, <3>3
      <4> QED BY <1>8, <3>1, <4>1
    <3> QED BY <3>2, <3>3
  <2> QED BY <2>1, <2>2
<1>15. /\ rotation' \in Seq(Groups) /\ Distinct(rotation') /\ KeepsOrder
       /\ \A h \in Groups : queues'[h] # <<>> <=> \E i \in DOMAIN rotation' : rotation'[i] = h
  <2>1. CASE q = <<>>
    <3>1. PICK t \in Seq(Groups) : t = Append(rotation, g)
      BY <1>3, AppendProperties
    <3> DEFINE n == Len(rotation)
    <3>2. /\ n \in Nat /\ Len(t) = n + 1 /\ t[n + 1] = g /\ \A i \in 1..n : t[i] = rotation[i]
          /\ DOMAIN t = 1..(n + 1) /\ DOMAIN rotation = 1..n
      BY <1>3, <3>1, AppendProperties
    <3>3. rotation' = t
      BY <1>4, <1>5, <2>1, <3>1
    <3> HIDE DEF n
    <3>4. \A i \in 1..n : rotation[i] # g
      <4>1. queues[g] = <<>>
        BY <1>5, <2>1
      <4>2. ~(\E i \in DOMAIN rotation : rotation[i] = g)
        BY <1>1, <4>1 DEF QueuesSound
      <4> QED BY <3>2, <4>2
    <3>5. \A i \in 1..(n + 1) : i \in 1..n \/ i = n + 1
      BY <3>2
    <3>6. n + 1 \in 1..(n + 1) /\ \A i \in 1..n : i \in 1..(n + 1)
      BY <3>2
    <3>7. Distinct(t)
      <4>1. Distinct(rotation)
        BY <1>1 DEF QueuesSound
      <4> QED BY <3>2, <3>4, <3>5, <4>1 DEF Distinct
    <3>8. ~Ready(g)
      BY <1>5, <2>1 DEF Ready
    <3>9. KeepsOrder
      <4> SUFFICES ASSUME NEW i \in 1..(n + 1), NEW j \in 1..(n + 1), Ready(t[i]), j <= i
                   PROVE \E k, l \in DOMAIN rotation :
                             rotation[k] = t[i] /\ rotation[l] = t[j] /\ l <= k
        BY <3>2, <3>3 DEF KeepsOrder
      <4>1. i \in 1..n
        BY <3>2, <3>5, <3>8
      <4>2. j \in 1..n
        BY <3>2, <4>1
      <4> QED BY <3>2, <4>1, <4>2
    <3>10. ASSUME NEW h \in Groups PROVE queues'[h] # <<>> <=> \E i \in DOMAIN t : t[i] = h
      <4>1. CASE h = g
        BY <1>7, <1>8, <3>2, <3>6, <4>1
      <4>2. CASE h # g
        <5>1. queues[h] # <<>> <=> \E i \in 1..n : rotation[i] = h
          BY <1>1, <3>2 DEF QueuesSound
        <5> QED BY <1>8, <3>2, <3>5, <3>6, <4>2, <5>1
      <4> QED BY <4>1, <4>2
    <3> QED BY <3>3, <3>7, <3>9, <3>10
  <2>2. CASE q # <<>>
    <3>1. rotation' = rotation
      BY <1>4, <1>5, <2>2
    <3>2. Distinct(rotation) /\ \A h \in Groups :
              queues[h] # <<>> <=> \E i \in DOMAIN rotation : rotation[i] = h
      BY <1>1 DEF QueuesSound
    <3>3. \A h \in Groups : queues'[h] # <<>> <=> queues[h] # <<>>
      BY <1>5, <1>7, <1>8, <2>2
    <3>4. KeepsOrder
      BY <3>1 DEF KeepsOrder
    <3> QED BY <1>3, <3>1, <3>2, <3>3, <3>4
  <2> QED BY <2>1, <2>2
<1>16. \A h \in Groups : Distinct(queues'[h])
  BY <1>1, <1>8, <1>12 DEF QueuesSound
<1>17. QueuesSound'
  BY <1>13, <1>14, <1>15, <1>16 DEF QueuesSound, Distinct
<1> QED BY <1>9, <1>15, <1>17

\* p is q taken up at position i.
IsTurned(p, q, i) ==
    /\ Len(p) = Len(q)
    /\ \A k \in 1..Len(q) : p[k] = IF k <= Len(q) - i + 1 THEN q[i + k - 1]
                                   ELSE q[k - (Len(q) - i + 1)]

\* p has the members of q.
SameMembers(p, q) ==
    /\ \A k \in DOMAIN p : \E l \in DOMAIN q : p[k] = q[l]
    /\ \A l \in DOMAIN q : \E k \in DOMAIN p : p[k] = q[l]

\* Taking up a rotation elsewhere keeps its groups, each once.
LEMMA TurnedSound ==
    ASSUME NEW S, NEW q \in Seq(S), Distinct(q), NEW i \in DOMAIN q, NEW p \in Seq(S),
           IsTurned(p, q, i)
    PROVE  Distinct(p) /\ SameMembers(p, q)
<1>1. PICK n \in Nat : n = Len(q)
  OBVIOUS
<1>2. DOMAIN q = 1..n /\ DOMAIN p = 1..n /\ i \in 1..n
  BY <1>1 DEF IsTurned
<1> DEFINE old(k) == IF k <= n - i + 1 THEN i + k - 1 ELSE k - (n - i + 1)
<1>3. \A k \in 1..n : old(k) \in 1..n /\ p[k] = q[old(k)]
  BY <1>1, <1>2 DEF IsTurned
<1>4. \A k, l \in 1..n : old(k) = old(l) => k = l
  BY <1>2
<1>5. ASSUME NEW l \in 1..n PROVE \E k \in 1..n : old(k) = l
  <2>1. CASE l >= i
    <3>1. l - i + 1 \in 1..n /\ old(l - i + 1) = l
      BY <1>2, <2>1
    <3> QED BY <3>1
  <2>2. CASE l < i
    <3>1. l + (n - i + 1) \in 1..n /\ old(l + (n - i + 1)) = l
      BY <1>2, <2>2
    <3> QED BY <3>1
  <2> QED BY <1>2, <2>1, <2>2
<1> HIDE DEF old
<1>6. Distinct(p)
  <2>1. \A k, l \in 1..n : q[k] = q[l] => k = l
    BY <1>2 DEF Distinct
  <2>2. ASSUME NEW k \in 1..n, NEW l \in 1..n, p[k] = p[l] PROVE k = l
    <3>1. q[old(k)] = q[old(l)] /\ old(k) \in 1..n /\ old(l) \in 1..n
      BY <1>3, <2>2, Zenon
    <3>2. old(k) = old(l)
      BY <2>1, <3>1, Zenon
    <3> QED BY <1>4, <3>2, Zenon
  <2> QED BY <1>2, <2>2 DEF Distinct
<1>7. \A k \in DOMAIN p : \E l \in DOMAIN q : p[k] = q[l]
  BY <1>2, <1>3
<1>8. \A l \in DOMAIN q : \E k \in DOMAIN p : p[k] = q[l]
  BY <1>2, <1>3, <1>5
<1> QED BY <1>6, <1>7, <1>8 DEF SameMembers

\* Serving a group keeps the groups, without the one served if that was all it had.
LEMMA RotatedSound ==
    ASSUME TypeOK, Distinct(rotation), NEW i \in DOMAIN rotation, NEW left
    PROVE  LET p == Rotated(i, left) IN
           /\ Distinct(p)
           /\ \A g \in Groups : (\E k \in DOMAIN p : p[k] = g) <=>
                 /\ \E l \in DOMAIN rotation : rotation[l] = g
                 /\ left # <<>> \/ g # rotation[i]
<1> DEFINE p == Rotated(i, left)
<1>1. PICK n \in Nat : n = Len(rotation)
  BY DEF TypeOK
<1>2. DOMAIN rotation = 1..n /\ i \in 1..n
  BY <1>1 DEF TypeOK
<1> DEFINE old(k) == IF k <= n - i THEN i + k ELSE IF k <= n - 1 THEN k - (n - i) ELSE i
<1>3. PICK m \in Nat : m = IF left = <<>> THEN n - 1 ELSE n
  BY <1>2
<1>4. p \in Seq(Groups) /\ DOMAIN p = 1..m
  BY <1>1, <1>3, RotatedLemma
<1>5. \A k \in 1..m : p[k] = rotation[old(k)]
  BY <1>1, <1>3, RotatedLemma
<1>6. \A k \in 1..m : old(k) \in 1..n /\ (left # <<>> \/ old(k) # i)
  BY <1>2, <1>3
<1>7. \A k, l \in 1..m : old(k) = old(l) => k = l
  BY <1>2, <1>3
<1>8. ASSUME NEW l \in 1..n, left # <<>> \/ l # i PROVE \E k \in 1..m : old(k) = l
  <2>1. CASE l > i
    <3>1. l - i \in 1..m /\ old(l - i) = l
      BY <1>2, <1>3, <2>1
    <3> QED BY <3>1
  <2>2. CASE l < i
    <3>1. l + (n - i) \in 1..m /\ old(l + (n - i)) = l
      BY <1>2, <1>3, <2>2
    <3> QED BY <3>1
  <2>3. CASE l = i
    <3>1. n \in 1..m /\ old(n) = l
      BY <1>2, <1>3, <1>8, <2>3
    <3> QED BY <3>1
  <2> QED BY <1>2, <2>1, <2>2, <2>3
<1> HIDE DEF p, old
<1>9. Distinct(p)
  BY <1>2, <1>4, <1>5, <1>6, <1>7 DEF Distinct
<1>10. ASSUME NEW g \in Groups
       PROVE (\E k \in DOMAIN p : p[k] = g) <=>
                 /\ \E l \in DOMAIN rotation : rotation[l] = g
                 /\ left # <<>> \/ g # rotation[i]
  <2>1. ASSUME NEW k \in 1..m, p[k] = g
        PROVE /\ \E l \in 1..n : rotation[l] = g
              /\ left # <<>> \/ g # rotation[i]
    <3>1. old(k) \in 1..n /\ rotation[old(k)] = g
      BY <1>5, <1>6, <2>1
    <3>2. left # <<>> \/ old(k) # i
      BY <1>6
    <3> QED BY <1>2, <3>1, <3>2 DEF Distinct
  <2>2. ASSUME NEW l \in 1..n, rotation[l] = g, left # <<>> \/ g # rotation[i]
        PROVE \E k \in 1..m : p[k] = g
    <3>1. PICK k \in 1..m : old(k) = l
      BY <1>8, <2>2
    <3> QED BY <1>5, <2>2, <3>1
  <2> QED BY <1>2, <1>4, <2>1, <2>2
<1> QED BY <1>9, <1>10 DEF p

\* The first request of a ready group that may start is one of its queue.
LEMMA CandidateLemma ==
    ASSUME IInv, NEW g \in Groups, Ready(g)
    PROVE  \E k \in DOMAIN queues[g] : Candidate(g) = queues[g][k]
<1> DEFINE q == queues[g]
           Able == {k \in DOMAIN q : eligible[q[k]]}
<1>1. q \in Seq(Requests) /\ Able \subseteq Nat /\ Able # {}
  <2>1. q \in Seq(Requests)
    BY DEF IInv, TypeOK
  <2>2. DOMAIN q = 1..Len(q) /\ Len(q) \in Nat
    BY <2>1
  <2> QED BY <2>1, <2>2 DEF Ready
<1>2. PICK k \in Able : \A j \in Able : ~(j < k)
  <2> HIDE DEF Able
  <2>1. IsWellFoundedOn(OpToRel(<, Nat), Nat)
    BY NatLessThanWellFounded
  <2>2. PICK k \in Able : \A j \in Able : <<j, k>> \notin OpToRel(<, Nat)
    BY <1>1, <2>1, WFMin
  <2> QED BY <1>1, <2>2 DEF OpToRel
<1>3. k \in DOMAIN q /\ eligible[q[k]] /\ \A j \in 1..(k - 1) : ~eligible[q[j]]
  <2>1. DOMAIN q = 1..Len(q) /\ Len(q) \in Nat
    BY <1>1
  <2>2. \A j \in 1..(k - 1) : j \in DOMAIN q /\ j < k
    BY <2>1
  <2> QED BY <1>2, <2>2
<1> DEFINE first == CHOOSE i \in DOMAIN q :
                        eligible[q[i]] /\ \A j \in 1..(i - 1) : ~eligible[q[j]]
<1>4. first \in DOMAIN q
  BY <1>3
<1>5. Candidate(g) = q[first]
  BY DEF Candidate
<1> QED BY <1>4, <1>5

------------------------------------------------------------------------------
(* The pump starts a request, or puts it back for the pace.                     *)

\* What a start finds: a group in turn, and a queued request of it.
LEMMA StartFinds ==
    ASSUME IInv, NEW i \in Turn
    PROVE  \E g \in Groups, r \in Requests, left \in Seq(Requests) :
              /\ i \in DOMAIN rotation /\ g = rotation[i] /\ r = Candidate(g)
              /\ left = Without(queues[g], {r}) /\ Leaves(left, queues[g], {r})
              /\ Distinct(left)
              /\ stage[r] = "queued" /\ GroupOf[r] = g
              /\ \E k \in DOMAIN queues[g] : queues[g][k] = r
              /\ \A j \in 1..(i - 1) : ~Ready(rotation[j])
<1>1. TypeOK /\ QueuesSound
  BY DEF IInv
<1>2. i \in DOMAIN rotation /\ Ready(rotation[i]) /\ \A j \in 1..(i - 1) : ~Ready(rotation[j])
  BY DEF Turn
<1>3. PICK g \in Groups : g = rotation[i]
  BY <1>1, <1>2 DEF TypeOK
<1>4. queues[g] \in Seq(Requests) /\ Distinct(queues[g])
  BY <1>1 DEF TypeOK, QueuesSound
<1>5. PICK k \in DOMAIN queues[g] : Candidate(g) = queues[g][k]
  BY <1>2, <1>3, CandidateLemma
<1>6. PICK r \in Requests : r = queues[g][k]
  BY <1>4
<1>7. stage[r] = "queued" /\ GroupOf[r] = g
  BY <1>1, <1>6 DEF QueuesSound
<1>8. PICK left \in Seq(Requests) : left = Without(queues[g], {r}) /\ Leaves(left, queues[g], {r})
  BY <1>4, WithoutLemma
<1>9. Distinct(left)
  BY <1>4, <1>8, RemovedFrom
<1> QED BY <1>2, <1>3, <1>5, <1>6, <1>7, <1>8, <1>9

\* A request put back in front of the queue it was taken from.
LEMMA PutBackLemma ==
    ASSUME NEW S, NEW q \in Seq(S), NEW r \in S, \E k \in DOMAIN q : q[k] = r,
           NEW left \in Seq(S), Leaves(left, q, {r}), Distinct(left)
    PROVE  /\ <<r>> \o left \in Seq(S)
           /\ Distinct(<<r>> \o left) /\ SameMembers(<<r>> \o left, q)
<1> DEFINE m == <<r>> \o left
<1>1. PICK n \in Nat : n = Len(left) /\ DOMAIN left = 1..n
  OBVIOUS
<1>2. m \in Seq(S) /\ DOMAIN m = 1..(n + 1) /\ m[1] = r /\ \A k \in 1..n : m[k + 1] = left[k]
  <2>1. <<r>> \in Seq(S) /\ Len(<<r>>) = 1 /\ <<r>>[1] = r
    OBVIOUS
  <2>2. /\ m \in Seq(S) /\ Len(m) = 1 + n
        /\ \A k \in 1..(1 + n) : m[k] = IF k <= 1 THEN <<r>>[k] ELSE left[k - 1]
    BY <1>1, <2>1, ConcatProperties
  <2> HIDE DEF m
  <2>3. ASSUME NEW k \in 1..n PROVE m[k + 1] = left[k]
    <3>1. k + 1 \in 1..(1 + n) /\ ~(k + 1 <= 1) /\ (k + 1) - 1 = k
      BY <1>1
    <3> QED BY <2>2, <3>1
  <2>4. m[1] = r /\ DOMAIN m = 1..(n + 1)
    BY <1>1, <2>1, <2>2
  <2> QED BY <2>2, <2>3, <2>4
<1> HIDE DEF m
<1>3. /\ \A k \in 1..n : left[k] # r /\ \E l \in DOMAIN q : left[k] = q[l]
      /\ \A l \in DOMAIN q : q[l] = r \/ \E k \in 1..n : left[k] = q[l]
  BY <1>1 DEF Leaves
<1>4. \A k \in 1..(n + 1) : k = 1 \/ (k - 1 \in 1..n /\ m[k] = left[k - 1])
  <2> SUFFICES ASSUME NEW k \in 1..(n + 1), k # 1
               PROVE  k - 1 \in 1..n /\ m[k] = left[k - 1]
    OBVIOUS
  <2>1. k - 1 \in 1..n /\ (k - 1) + 1 = k
    BY <1>1
  <2> QED BY <1>2, <2>1
<1>5. ASSUME NEW k \in 1..(n + 1), NEW l \in 1..(n + 1), m[k] = m[l] PROVE k = l
  <2>1. CASE k = 1 /\ l = 1
    BY <2>1
  <2>2. CASE k = 1 /\ l # 1
    <3>1. l - 1 \in 1..n /\ m[l] = left[l - 1]
      BY <1>4, <2>2
    <3>2. left[l - 1] # r
      BY <1>3, <3>1
    <3> QED BY <1>2, <1>5, <2>2, <3>1, <3>2
  <2>3. CASE k # 1 /\ l = 1
    <3>1. k - 1 \in 1..n /\ m[k] = left[k - 1]
      BY <1>4, <2>3
    <3>2. left[k - 1] # r
      BY <1>3, <3>1
    <3> QED BY <1>2, <1>5, <2>3, <3>1, <3>2
  <2>4. CASE k # 1 /\ l # 1
    <3>1. left[k - 1] = left[l - 1] /\ k - 1 \in 1..n /\ l - 1 \in 1..n
      BY <1>4, <1>5, <2>4
    <3>2. k - 1 = l - 1
      BY <1>1, <3>1 DEF Distinct
    <3> QED BY <1>1, <3>2
  <2> QED BY <2>1, <2>2, <2>3, <2>4
<1>6. ASSUME NEW k \in 1..(n + 1) PROVE \E l \in DOMAIN q : m[k] = q[l]
  <2>1. CASE k = 1
    BY <1>2, <2>1
  <2>2. CASE k # 1
    <3>1. k - 1 \in 1..n /\ m[k] = left[k - 1]
      BY <1>4, <2>2
    <3> QED BY <1>3, <3>1
  <2> QED BY <2>1, <2>2
<1>7. ASSUME NEW l \in DOMAIN q PROVE \E k \in 1..(n + 1) : m[k] = q[l]
  <2>1. CASE q[l] = r
    <3>1. 1 \in 1..(n + 1)
      BY <1>1
    <3> QED BY <1>2, <2>1, <3>1
  <2>2. CASE q[l] # r
    <3>1. PICK k \in 1..n : left[k] = q[l]
      BY <1>3, <2>2
    <3>2. k + 1 \in 1..(n + 1) /\ m[k + 1] = left[k]
      BY <1>1, <1>2
    <3> QED BY <3>1, <3>2
  <2> QED BY <2>1, <2>2
<1>8. Distinct(m) /\ SameMembers(m, q)
  BY <1>2, <1>5, <1>6, <1>7 DEF Distinct, SameMembers
<1> QED BY <1>2, <1>8 DEF m

LEMMA NonEmpty ==
    ASSUME NEW S, NEW q \in Seq(S)
    PROVE  q # <<>> <=> \E k \in DOMAIN q : TRUE
<1>1. PICK n \in Nat : n = Len(q) /\ DOMAIN q = 1..n
  OBVIOUS
<1>2. q # <<>> <=> n # 0
  BY <1>1, EmptySeq
<1>3. n # 0 => 1 \in 1..n
  OBVIOUS
<1>4. n = 0 => ~\E k \in 1..n : TRUE
  OBVIOUS
<1> QED BY <1>1, <1>2, <1>3, <1>4

\* A queue and the rotation change their order alone.
LEMMA ReorderedSound ==
    ASSUME IInv, NEW g \in Groups,
           NEW m \in Seq(Requests), Distinct(m), SameMembers(m, queues[g]),
           NEW p \in Seq(Groups), Distinct(p), SameMembers(p, rotation),
           rotation' = p, queues' = [queues EXCEPT ![g] = m], UNCHANGED stage
    PROVE  queues' \in [Groups -> Seq(Requests)] /\ QueuesSound'
<1>1. TypeOK /\ QueuesSound
  BY DEF IInv
<1>2. queues \in [Groups -> Seq(Requests)]
  BY <1>1 DEF TypeOK
<1>3. queues'[g] = m /\ \A h \in Groups \ {g} : queues'[h] = queues[h]
  BY <1>2
<1>4. queues' \in [Groups -> Seq(Requests)]
  BY <1>2
<1>5. \A h \in Groups : SameMembers(queues'[h], queues[h]) /\ Distinct(queues'[h])
  <2> SUFFICES ASSUME NEW h \in Groups
               PROVE  SameMembers(queues'[h], queues[h]) /\ Distinct(queues'[h])
    OBVIOUS
  <2>1. CASE h = g
    BY <1>3, <2>1
  <2>2. CASE h # g
    <3>1. queues'[h] = queues[h] /\ Distinct(queues[h])
      BY <1>1, <1>3, <2>2 DEF QueuesSound
    <3>2. SameMembers(queues[h], queues[h])
      BY DEF SameMembers
    <3> QED BY <3>1, <3>2
  <2> QED BY <2>1, <2>2
<1>6. ASSUME NEW h \in Groups, NEW k \in DOMAIN queues'[h]
      PROVE  stage'[queues'[h][k]] = "queued" /\ GroupOf[queues'[h][k]] = h
  <2>1. PICK l \in DOMAIN queues[h] : queues'[h][k] = queues[h][l]
    BY <1>5, <1>6 DEF SameMembers
  <2>2. stage[queues[h][l]] = "queued" /\ GroupOf[queues[h][l]] = h
    BY <1>1 DEF QueuesSound
  <2> QED BY <2>1, <2>2
<1>7. ASSUME NEW s \in Requests, stage'[s] = "queued"
      PROVE  \E k \in DOMAIN queues'[GroupOf[s]] : queues'[GroupOf[s]][k] = s
  <2>1. PICK l \in DOMAIN queues[GroupOf[s]] : queues[GroupOf[s]][l] = s
    BY <1>1, <1>7 DEF QueuesSound
  <2>2. GroupOf[s] \in Groups
    BY GroupAssumption
  <2> QED BY <1>5, <2>1, <2>2 DEF SameMembers
<1>8. ASSUME NEW h \in Groups PROVE queues'[h] # <<>> <=> \E k \in DOMAIN p : p[k] = h
  <2>1. (\E k \in DOMAIN p : p[k] = h) <=> (\E l \in DOMAIN rotation : rotation[l] = h)
    BY DEF SameMembers
  <2>2. queues[h] # <<>> <=> \E l \in DOMAIN rotation : rotation[l] = h
    BY <1>1 DEF QueuesSound
  <2>3. queues[h] \in Seq(Requests) /\ queues'[h] \in Seq(Requests)
    BY <1>2, <1>4
  <2>4. queues[h] # <<>> <=> \E k \in DOMAIN queues[h] : TRUE
    BY <2>3, NonEmpty
  <2>5. queues'[h] # <<>> <=> \E k \in DOMAIN queues'[h] : TRUE
    BY <2>3, NonEmpty
  <2>6. (\E k \in DOMAIN queues[h] : TRUE) <=> (\E k \in DOMAIN queues'[h] : TRUE)
    BY <1>5 DEF SameMembers
  <2> QED BY <2>1, <2>2, <2>4, <2>5, <2>6
<1>9. QueuesSound'
  BY <1>5, <1>6, <1>7, <1>8 DEF QueuesSound, Distinct
<1> QED BY <1>4, <1>9

Turned(i) == SubSeq(rotation, i, Len(rotation)) \o SubSeq(rotation, 1, i - 1)

\* A rotation taken up at the first group with something ready.
LEMMA TurnedTurns ==
    ASSUME IInv, NEW i \in DOMAIN rotation, \A j \in 1..(i - 1) : ~Ready(rotation[j]),
           NEW p, p = Turned(i), rotation' = p
    PROVE  p \in Seq(Groups) /\ Distinct(p) /\ SameMembers(p, rotation) /\ KeepsOrder
<1>1. PICK n \in Nat : n = Len(rotation)
  BY DEF IInv, TypeOK
<1>2. rotation \in Seq(Groups) /\ Distinct(rotation) /\ DOMAIN rotation = 1..n /\ i \in 1..n
  BY <1>1 DEF IInv, TypeOK, QueuesSound
<1>3. p \in Seq(Groups) /\ IsTurned(p, rotation, i)
  BY <1>2, TurnedLemma DEF Turned, IsTurned
<1>4. Distinct(p) /\ SameMembers(p, rotation)
  BY <1>2, <1>3, TurnedSound
<1>5. /\ DOMAIN p = 1..n
      /\ \A k \in 1..n : p[k] = IF k <= n - i + 1 THEN rotation[i + k - 1]
                                 ELSE rotation[k - (n - i + 1)]
  BY <1>1, <1>3 DEF IsTurned
<1>6. ASSUME NEW a \in 1..n, NEW b \in 1..n, Ready(p[a]), b <= a
      PROVE  \E k, l \in 1..n : rotation[k] = p[a] /\ rotation[l] = p[b] /\ l <= k
  <2>1. a <= n - i + 1
    <3>1. ASSUME ~(a <= n - i + 1) PROVE FALSE
      <4>1. a - (n - i + 1) \in 1..(i - 1)
        BY <1>2, <3>1
      <4>2. p[a] = rotation[a - (n - i + 1)]
        BY <1>5, <3>1
      <4> QED BY <1>6, <4>1, <4>2
    <3> QED BY <3>1
  <2>2. b <= n - i + 1
    BY <1>2, <1>6, <2>1
  <2>3. i + a - 1 \in 1..n /\ i + b - 1 \in 1..n /\ i + b - 1 <= i + a - 1
    BY <1>2, <1>6, <2>1
  <2>4. p[a] = rotation[i + a - 1] /\ p[b] = rotation[i + b - 1]
    BY <1>5, <2>1, <2>2
  <2> QED BY <2>3, <2>4
<1>7. \A a, b \in DOMAIN p : Ready(p[a]) /\ b <= a =>
          \E k, l \in DOMAIN rotation : rotation[k] = p[a] /\ rotation[l] = p[b] /\ l <= k
  BY ZenonT(40), <1>2, <1>5, <1>6
<1>8. KeepsOrder
  BY <1>7 DEF KeepsOrder, Ready
<1> QED BY <1>3, <1>4, <1>8

\* Taken out of its queue; its group goes behind the others, or leaves.
LEMMA ServedQueues ==
    ASSUME IInv, NEW i \in DOMAIN rotation, NEW g \in Groups, g = rotation[i],
           NEW r \in Requests, stage[r] = "queued", GroupOf[r] = g,
           NEW left \in Seq(Requests), Leaves(left, queues[g], {r}), Distinct(left),
           rotation' = Rotated(i, left),
           queues' = [queues EXCEPT ![g] = left],
           stage' = [stage EXCEPT ![r] = "created"]
    PROVE  /\ queues' \in [Groups -> Seq(Requests)] /\ rotation' \in Seq(Groups)
           /\ QueuesSound'
<1>1. TypeOK /\ QueuesSound
  BY DEF IInv
<1>2. /\ rotation \in Seq(Groups) /\ Distinct(rotation)
      /\ queues \in [Groups -> Seq(Requests)] /\ stage \in [Requests -> Stages]
  BY <1>1 DEF TypeOK, QueuesSound
<1>3. PICK p \in Seq(Groups) : p = Rotated(i, left)
  BY <1>1, RotatedLemma
<1>4. /\ Distinct(p)
      /\ \A h \in Groups : (\E k \in DOMAIN p : p[k] = h) <=>
            /\ \E l \in DOMAIN rotation : rotation[l] = h
            /\ left # <<>> \/ h # rotation[i]
  BY <1>1, <1>2, <1>3, RotatedSound
<1>5. PICK q \in Seq(Requests) : q = queues[g]
  BY <1>2
<1>6. queues'[g] = left /\ \A h \in Groups \ {g} : queues'[h] = queues[h]
  BY <1>2
<1>7. queues' \in [Groups -> Seq(Requests)]
  BY <1>2
<1>8. /\ \A k \in DOMAIN left : left[k] # r /\ \E l \in DOMAIN q : left[k] = q[l]
      /\ \A l \in DOMAIN q : q[l] = r \/ \E k \in DOMAIN left : left[k] = q[l]
  BY <1>5 DEF Leaves
<1>9. \A s \in Requests : stage'[s] = "queued" <=> s # r /\ stage[s] = "queued"
  BY <1>2
<1>10. \A h \in Groups : Distinct(queues'[h])
  BY <1>1, <1>6 DEF QueuesSound
<1>11. ASSUME NEW h \in Groups, NEW k \in DOMAIN queues'[h]
       PROVE  stage'[queues'[h][k]] = "queued" /\ GroupOf[queues'[h][k]] = h
  <2>1. CASE h = g
    <3>1. left[k] # r /\ \E l \in DOMAIN q : left[k] = q[l]
      BY <1>6, <1>8, <2>1
    <3>2. left[k] \in Requests /\ stage[left[k]] = "queued" /\ GroupOf[left[k]] = g
      BY <1>1, <1>5, <3>1 DEF QueuesSound
    <3> QED BY <1>6, <1>9, <2>1, <3>1, <3>2
  <2>2. CASE h # g
    <3>1. queues'[h] = queues[h]
      BY <1>6, <2>2
    <3>2. queues[h][k] \in Requests /\ stage[queues[h][k]] = "queued" /\ GroupOf[queues[h][k]] = h
      BY <1>1, <1>2, <3>1 DEF QueuesSound
    <3> QED BY <1>9, <2>2, <3>1, <3>2
  <2> QED BY <2>1, <2>2
<1>12. ASSUME NEW s \in Requests, stage'[s] = "queued"
       PROVE  \E k \in DOMAIN queues'[GroupOf[s]] : queues'[GroupOf[s]][k] = s
  <2>1. s # r /\ stage[s] = "queued"
    BY <1>9, <1>12
  <2>2. PICK l \in DOMAIN queues[GroupOf[s]] : queues[GroupOf[s]][l] = s
    BY <1>1, <2>1 DEF QueuesSound
  <2>3. CASE GroupOf[s] = g
    BY <1>5, <1>6, <1>8, <2>1, <2>2, <2>3
  <2>4. CASE GroupOf[s] # g
    <3>1. GroupOf[s] \in Groups \ {g}
      BY <2>4, GroupAssumption
    <3> QED BY <1>6, <2>2, <3>1
  <2> QED BY <2>3, <2>4
<1>13. ASSUME NEW h \in Groups PROVE queues'[h] # <<>> <=> \E k \in DOMAIN p : p[k] = h
  <2>1. queues[h] # <<>> <=> \E l \in DOMAIN rotation : rotation[l] = h
    BY <1>1 DEF QueuesSound
  <2>2. CASE h = g
    BY <1>4, <1>6, <2>2
  <2>3. CASE h # g
    BY <1>4, <1>6, <2>1, <2>3
  <2> QED BY <2>2, <2>3
<1>14. QueuesSound'
  BY <1>3, <1>4, <1>10, <1>11, <1>12, <1>13 DEF QueuesSound, Distinct
<1> QED BY <1>3, <1>7, <1>14

\* The group that was served is behind every group that was ready all along.
LEMMA ServedTurns ==
    ASSUME IInv, Passing, NEW i \in DOMAIN rotation, NEW g \in Groups, g = rotation[i],
           NEW r \in Requests, stage[r] = "queued", GroupOf[r] = g,
           NEW left, rotation' = Rotated(i, left),
           \A j \in 1..(i - 1) : ~Ready(rotation[j]),
           stage' = [stage EXCEPT ![r] = "created"]
    PROVE  passed' \in [Groups -> SUBSET Groups] /\ TurnsSound'
<1>1. TypeOK /\ QueuesSound /\ TurnsSound
  BY DEF IInv
<1>2. PICK n \in Nat : n = Len(rotation)
  BY <1>1 DEF TypeOK
<1>3. rotation \in Seq(Groups) /\ Distinct(rotation) /\ DOMAIN rotation = 1..n /\ i \in 1..n
  BY <1>1, <1>2 DEF TypeOK, QueuesSound
<1>4. \A h \in Groups : Served(h) <=> h = g
  <2>1. stage'[r] = "created" /\ \A s \in Requests \ {r} : stage'[s] = stage[s]
    BY <1>1 DEF TypeOK
  <2> QED BY <2>1 DEF Served
<1>5. ASSUME NEW h \in Groups
      PROVE  /\ passed'[h] \subseteq passed[h] \cup {g}
             /\ passed'[h] # {} => Ready(h) /\ Ready(h)' /\ h # g
  <2>1. {f \in Groups : Served(f)} = {g}
    BY <1>4
  <2>2. passed'[h] = IF Ready(h) /\ Ready(h)' /\ ~Served(h)
                     THEN passed[h] \cup {f \in Groups : Served(f)} ELSE {}
    BY DEF Passing
  <2> QED BY <1>4, <2>1, <2>2
<1>6. passed' \in [Groups -> SUBSET Groups]
  BY <1>1, <1>5 DEF TypeOK, Passing
<1>7. PICK p \in Seq(Groups) : p = Rotated(i, left)
  BY <1>1, RotatedLemma
<1>8. PICK m \in Nat : m = IF left = <<>> THEN n - 1 ELSE n
  BY <1>3
<1>9. DOMAIN p = 1..m /\ m <= n
      /\ \A k \in 1..m : p[k] = IF k <= n - i THEN rotation[i + k]
                                 ELSE IF k <= n - 1 THEN rotation[k - (n - i)]
                                 ELSE rotation[i]
  <2>1. /\ Len(p) = IF left = <<>> THEN n - 1 ELSE n
        /\ \A k \in 1..Len(p) : p[k] = IF k <= n - i THEN rotation[i + k]
                                 ELSE IF k <= n - 1 THEN rotation[k - (n - i)]
                                 ELSE rotation[i]
    BY ZenonT(40), <1>1, <1>2, <1>7, RotatedLemma
  <2>2. DOMAIN p = 1..m /\ Len(p) = m /\ m <= n
    BY <1>7, <1>8, <2>1
  <2> QED BY <2>1, <2>2
<1>10. ASSUME NEW a \in 1..m, NEW b \in 1..m, p[b] \in passed'[p[a]]
       PROVE  a < b
  <2>1. p[a] \in Groups
    BY <1>7, <1>9
  <2>2. Ready(p[a]) /\ p[a] # g /\ (p[b] \in passed[p[a]] \/ p[b] = g)
    BY <1>5, <1>10, <2>1
  <2>3. a <= n - i
    <3>1. ASSUME ~(a <= n - i) PROVE FALSE
      <4>1. CASE a <= n - 1
        <5>1. a - (n - i) \in 1..(i - 1) /\ p[a] = rotation[a - (n - i)]
          BY <1>3, <1>9, <3>1, <4>1
        <5> QED BY <2>2, <5>1
      <4>2. CASE ~(a <= n - 1)
        BY <1>9, <2>2, <3>1, <4>2
      <4> QED BY <4>1, <4>2
    <3> QED BY <3>1
  <2>4. i + a \in 1..n /\ p[a] = rotation[i + a]
    BY <1>3, <1>9, <2>3
  <2>5. ASSUME b <= n - i PROVE a < b
    <3>1. i + b \in 1..n /\ i + b # i /\ p[b] = rotation[i + b]
      BY <1>3, <1>9, <2>5
    <3>2. p[b] # g
      BY <1>3, <3>1 DEF Distinct
    <3>3. i + a < i + b
      BY <1>1, <1>3, <2>2, <2>4, <3>1, <3>2 DEF TurnsSound, Behind
    <3> QED BY <1>3, <3>3
  <2>6. ASSUME ~(b <= n - i) PROVE a < b
    BY <1>3, <2>3, <2>6
  <2> QED BY <2>5, <2>6
<1>11. Behind(rotation', passed')
  BY <1>7, <1>9, <1>10 DEF Behind
<1>12. \A h \in Groups : passed'[h] # {} => Ready(h)'
  BY <1>5
<1> QED BY <1>6, <1>11, <1>12 DEF TurnsSound

------------------------------------------------------------------------------
(* The permits.                                                                  *)

LEMMA AdmittedFinite ==
    IsFiniteSet(Admitted) /\ Cardinality(Admitted) \in 0..Cardinality(Requests)
<1>1. Admitted \subseteq Requests /\ IsFiniteSet(Requests)
  BY RequestAssumption DEF Admitted
<1>2. /\ IsFiniteSet(Admitted) /\ Cardinality(Admitted) <= Cardinality(Requests)
      /\ Cardinality(Admitted) \in Nat /\ Cardinality(Requests) \in Nat
  BY <1>1, FS_Subset, FS_CardinalityType
<1> QED BY <1>2

LEMMA AdmittedFiniteNext ==
    IsFiniteSet(Admitted') /\ Cardinality(Admitted') \in 0..Cardinality(Requests)
<1>1. Admitted' \subseteq Requests /\ IsFiniteSet(Requests)
  BY RequestAssumption DEF Admitted
<1>2. /\ IsFiniteSet(Admitted') /\ Cardinality(Admitted') <= Cardinality(Requests)
      /\ Cardinality(Admitted') \in Nat /\ Cardinality(Requests) \in Nat
  BY <1>1, FS_Subset, FS_CardinalityType
<1> QED BY <1>2

LEMMA AdmitsOne ==
    ASSUME TypeOK, NEW r \in Requests, NEW where \in InFlight, stage[r] \notin InFlight,
           stage' = [stage EXCEPT ![r] = where]
    PROVE  Cardinality(Admitted') = Cardinality(Admitted) + 1
<1>1. Admitted' = Admitted \cup {r} /\ r \notin Admitted
  BY DEF TypeOK, Admitted
<1> QED BY <1>1, AdmittedFinite, FS_AddElement

LEMMA ReleasesOne ==
    ASSUME TypeOK, NEW r \in Requests, NEW where, where \notin InFlight, stage[r] \in InFlight,
           stage' = [stage EXCEPT ![r] = where]
    PROVE  Cardinality(Admitted') = Cardinality(Admitted) - 1
<1>1. Admitted' = Admitted \ {r} /\ r \in Admitted
  BY DEF TypeOK, Admitted
<1> QED BY <1>1, AdmittedFinite, FS_RemoveElement

LEMMA AdmitsSame ==
    ASSUME \A r \in Requests : stage'[r] \in InFlight <=> stage[r] \in InFlight
    PROVE  Admitted' = Admitted
BY DEF Admitted

------------------------------------------------------------------------------
(* The callers' steps.                                                           *)

\* Steps that change no request on its way.
LEMMA QuietSound ==
    ASSUME IInv, Passing,
           UNCHANGED <<closed, stage, queues, rotation, pump, active, drain, result,
                       recorded, settles>>,
           client' = client \/ ~closed
    PROVE  /\ AccountsSound' /\ EntrySound' /\ DrainSound' /\ QueuesSound' /\ TurnsSound'
           /\ passed' \in [Groups -> SUBSET Groups]
<1>1. AccountsSound' /\ DrainSound'
  BY DEF IInv, AccountsSound, DrainSound
<1>2. EntrySound'
  BY AdmitsSame DEF IInv, EntrySound
<1>3. QueuesSound'
  BY SameQueues DEF SameWhere
<1>4. TurnsSound' /\ passed' \in [Groups -> SUBSET Groups]
  BY SameTurns DEF Unserved
<1> QED BY <1>1, <1>2, <1>3, <1>4

LEMMA MessageTypes ==
    /\ [kind |-> "apply"] \in Callbacks /\ [kind |-> "drain"] \in Callbacks
    /\ \A r \in Requests : /\ [kind |-> "enqueue", of |-> r] \in Callbacks
                           /\ [kind |-> "cancel", of |-> r] \in Callbacks
BY DEF Callbacks

\* A stop sets the event and, unless closed, posts a message.
LEMMA StopAllInbox ==
    ASSUME IInv, StopAll \/ (stop' = TRUE /\ UNCHANGED inbox), UNCHANGED <<stage, drain>>
    PROVE  stop' \in BOOLEAN /\ InboxSound' /\ inbox' \in Seq(Callbacks)
<1>1. CASE UNCHANGED inbox
  <2>1. InboxSound'
    BY <1>1, SameInbox DEF SameWhere
  <2> QED BY <1>1, <2>1 DEF StopAll, IInv, TypeOK
<1>2. CASE ~closed /\ Post([kind |-> "apply"]) /\ stop' = TRUE
  <2>1. PICK m \in Callbacks : m = [kind |-> "apply"]
    BY MessageTypes
  <2>2. /\ m.kind = "apply" /\ Post(m) /\ drain = "none"
        /\ \A r \in Requests : m # [kind |-> "enqueue", of |-> r]
    BY <1>2, <2>1 DEF IInv, DrainSound
  <2>3. InboxSound' /\ inbox' \in Seq(Callbacks)
    BY <2>2, PostedInbox
  <2> QED BY <1>2, <2>3
<1> QED BY <1>1, <1>2 DEF StopAll

LEMMA TroubleTyped ==
    ASSUME TypeOK, Trouble
    PROVE  troubles' \in 0..MaxTroubles
BY BoundAssumption DEF TypeOK, Trouble

LEMMA SubmitSound ==
    ASSUME IInv, Passing, NEW r \in Requests, Submit(r)
    PROVE  IInv'
<1> USE DEF Submit
<1>1. PICK m \in Callbacks : m = [kind |-> "enqueue", of |-> r]
  BY MessageTypes
<1>2. m.kind = "enqueue" /\ m.of = r /\ Post(m) /\ drain = "none"
  BY <1>1 DEF IInv, DrainSound, Admissible
<1>3. stage \in [Requests -> Stages] /\ stage[r] = "new" /\ stage'[r] = "posted"
      /\ \A s \in Requests \ {r} : stage'[s] = stage[s]
  BY DEF IInv, TypeOK
<1>4. InboxSound' /\ inbox' \in Seq(Callbacks)
  <2>1. \A s \in Requests : stage'[s] = "posted" <=>
            stage[s] = "posted" \/ m = [kind |-> "enqueue", of |-> s]
    <3>1. \A s \in Requests : m = [kind |-> "enqueue", of |-> s] <=> s = r
      BY <1>1, <1>2
    <3> QED BY <1>3, <3>1
  <2> QED BY <1>2, <1>3, <2>1, PostedInbox DEF loop
<1>5. QueuesSound'
  BY <1>3, SameQueues DEF SameWhere, loop
<1>6. TurnsSound' /\ passed' \in [Groups -> SUBSET Groups]
  BY <1>3, SameTurns DEF Unserved, loop
<1>7. AccountsSound'
  BY <1>3 DEF IInv, AccountsSound, Account
<1>8. EntrySound'
  <2>1. \A s \in Requests : stage'[s] \in InFlight <=> stage[s] \in InFlight
    BY <1>3 DEF InFlight
  <2>2. Admitted' = Admitted
    BY <2>1, AdmitsSame
  <2> QED BY <1>3, <2>2 DEF IInv, EntrySound, loop
<1>9. DrainSound'
  BY <1>2 DEF IInv, DrainSound, loop
<1>10. TypeOK'
  BY <1>3, <1>4, <1>6 DEF IInv, TypeOK, loop, Stages, Outstanding
<1> QED BY <1>4, <1>5, <1>6, <1>7, <1>8, <1>9, <1>10 DEF IInv

LEMMA CancelCallSound ==
    ASSUME IInv, Passing, NEW r \in Requests, CancelCall(r)
    PROVE  IInv'
<1> USE DEF CancelCall
<1>1. PICK m \in Callbacks : m = [kind |-> "cancel", of |-> r]
  BY MessageTypes
<1>2. m.kind = "cancel" /\ Post(m) /\ \A s \in Requests : m # [kind |-> "enqueue", of |-> s]
  BY <1>1
<1>3. InboxSound' /\ inbox' \in Seq(Callbacks)
  BY <1>2, PostedInbox DEF loop
<1>4. /\ AccountsSound' /\ EntrySound' /\ DrainSound' /\ QueuesSound' /\ TurnsSound'
      /\ passed' \in [Groups -> SUBSET Groups]
  BY QuietSound DEF loop
<1>5. TypeOK'
  BY <1>3, <1>4, TroubleTyped DEF IInv, TypeOK, loop
<1> QED BY <1>3, <1>4, <1>5 DEF IInv

LEMMA FinishFailsSound ==
    ASSUME IInv, Passing, NEW r \in Requests, FinishFails(r)
    PROVE  IInv'
<1> USE DEF FinishFails
<1>1. stop' \in BOOLEAN /\ InboxSound' /\ inbox' \in Seq(Callbacks)
  BY StopAllInbox DEF loop
<1>2. /\ AccountsSound' /\ EntrySound' /\ DrainSound' /\ QueuesSound' /\ TurnsSound'
      /\ passed' \in [Groups -> SUBSET Groups]
  BY QuietSound DEF loop
<1>3. TypeOK'
  BY <1>1, <1>2, TroubleTyped DEF IInv, TypeOK, loop
<1> QED BY <1>1, <1>2, <1>3 DEF IInv

LEMMA StopSound ==
    ASSUME IInv, Passing, Stop
    PROVE  IInv'
<1> USE DEF Stop
<1>1. stop' \in BOOLEAN /\ InboxSound' /\ inbox' \in Seq(Callbacks)
  BY StopAllInbox DEF loop
<1>2. /\ AccountsSound' /\ EntrySound' /\ DrainSound' /\ QueuesSound' /\ TurnsSound'
      /\ passed' \in [Groups -> SUBSET Groups]
  BY QuietSound DEF loop
<1>3. TypeOK'
  BY <1>1, <1>2, TroubleTyped DEF IInv, TypeOK, loop
<1> QED BY <1>1, <1>2, <1>3 DEF IInv

LEMMA MakeClientSound ==
    ASSUME IInv, Passing, MakeClient
    PROVE  IInv'
<1> USE DEF MakeClient
<1>1. InboxSound'
  BY SameInbox DEF SameWhere
<1>2. /\ AccountsSound' /\ EntrySound' /\ DrainSound' /\ QueuesSound' /\ TurnsSound'
      /\ passed' \in [Groups -> SUBSET Groups]
  BY QuietSound
<1>3. TypeOK'
  BY <1>2 DEF IInv, TypeOK
<1> QED BY <1>1, <1>2, <1>3 DEF IInv

LEMMA CloseSound ==
    ASSUME IInv, Passing, Close
    PROVE  IInv'
<1> USE DEF Close
<1>1. PICK m \in Callbacks : m = [kind |-> "drain"]
  BY MessageTypes
<1>2. /\ m.kind = "drain" /\ Post(m) /\ drain = "none"
      /\ \A s \in Requests : m # [kind |-> "enqueue", of |-> s]
  BY <1>1 DEF IInv, DrainSound
<1>3. InboxSound' /\ inbox' \in Seq(Callbacks)
  BY <1>2, PostedInbox
<1>4. QueuesSound'
  BY SameQueues DEF SameWhere
<1>5. TurnsSound' /\ passed' \in [Groups -> SUBSET Groups]
  BY SameTurns DEF Unserved
<1>6. AccountsSound' /\ DrainSound'
  BY DEF IInv, AccountsSound, DrainSound
<1>7. EntrySound'
  BY AdmitsSame DEF IInv, EntrySound
<1>8. TypeOK'
  BY <1>3, <1>5 DEF IInv, TypeOK
<1> QED BY <1>3, <1>4, <1>5, <1>6, <1>7, <1>8 DEF IInv

------------------------------------------------------------------------------
(* The loop's steps.                                                             *)

\* Requests that are queued get a result without having been started.
LEMMA RejectedSound ==
    ASSUME IInv, NEW R \in SUBSET Requests, \A r \in R : stage[r] = "queued",
           stage' = [r \in Requests |-> IF r \in R THEN "settled" ELSE stage[r]],
           SetResults(R, "stopped"), UNCHANGED <<recorded, active>>,
           \A r \in Requests : stage[r] = "created" => pump' = pump
    PROVE  /\ AccountsSound' /\ EntrySound'
           /\ stage' \in [Requests -> Stages] /\ settles' \in [Requests -> 0..2]
           /\ result' \in [Requests -> {"none", "answered", "stopped"}]
           /\ SameWhere("posted") /\ Unserved
<1>1. TypeOK /\ AccountsSound /\ EntrySound
  BY DEF IInv
<1>2. ASSUME NEW r \in Requests
      PROVE /\ r \in R => stage[r] = "queued" /\ stage'[r] = "settled"
            /\ r \notin R => stage'[r] = stage[r]
            /\ r \in R => settles'[r] = settles[r] + 1 /\ result'[r] = "stopped"
            /\ r \notin R => settles'[r] = settles[r] /\ result'[r] = result[r]
            /\ stage[r] \in Stages
  BY <1>1 DEF SetResults, TypeOK
<1>3. ASSUME NEW r \in Requests
      PROVE Account(stage'[r], settles'[r], result'[r], recorded'[r])
  <2>1. Account(stage[r], settles[r], result[r], recorded[r])
    BY <1>1 DEF AccountsSound
  <2> QED BY <1>2, <2>1 DEF Account
<1>4. AccountsSound'
  BY <1>3 DEF AccountsSound
<1>5. \A r \in Requests : stage'[r] \in InFlight <=> stage[r] \in InFlight
  BY <1>2 DEF InFlight
<1>6. EntrySound'
  <2>1. Admitted' = Admitted
    BY <1>5, AdmitsSame
  <2>2. \A r \in Requests : stage'[r] = "created" => stage[r] = "created" /\ pump' = pump
    BY <1>2
  <2> QED BY <1>1, <2>1, <2>2 DEF EntrySound
<1>7. stage' \in [Requests -> Stages]
  BY <1>1 DEF TypeOK, Stages
<1>8. /\ settles' \in [Requests -> 0..2]
      /\ result' \in [Requests -> {"none", "answered", "stopped"}]
  <2>1. \A r \in Requests : settles'[r] \in 0..1
    BY <1>3 DEF Account
  <2>2. \A r \in Requests : settles'[r] \in 0..2
    BY <2>1
  <2> QED BY <1>1, <2>2 DEF SetResults, TypeOK
<1>9. SameWhere("posted") /\ Unserved
  BY <1>2 DEF SameWhere, Unserved
<1> QED BY <1>4, <1>6, <1>7, <1>8, <1>9

\* _cancel of some requests that are enqueued and not settled.
LEMMA CancelSound ==
    ASSUME IInv, Passing, NEW R \in SUBSET Work, Cancel(R),
           UNCHANGED <<closed, pump, active, recorded, client, drain>>, drain # "done"
    PROVE  /\ AccountsSound' /\ EntrySound' /\ DrainSound' /\ QueuesSound' /\ TurnsSound'
           /\ passed' \in [Groups -> SUBSET Groups]
           /\ stage' \in [Requests -> Stages] /\ settles' \in [Requests -> 0..2]
           /\ result' \in [Requests -> {"none", "answered", "stopped"}]
           /\ cancelling' \in [Requests -> BOOLEAN]
           /\ queues' \in [Groups -> Seq(Requests)] /\ rotation' \in Seq(Groups)
           /\ SameWhere("posted")
<1>1. PICK Q \in SUBSET Requests : Q = Rejectable(R)
  BY DEF Rejectable, Work
<1>2. \A r \in Q : stage[r] = "queued"
  BY <1>1 DEF Rejectable
<1>3. /\ stage' = [r \in Requests |-> IF r \in Q THEN "settled" ELSE stage[r]]
      /\ Dequeued(Q) /\ SetResults(Q, "stopped")
      /\ cancelling' = [r \in Requests |->
            cancelling[r] \/ (r \in R /\ stage[r] \in {"created"} \cup InFlight)]
  BY <1>1, <1>2 DEF Cancel
<1>4. /\ AccountsSound' /\ EntrySound'
      /\ stage' \in [Requests -> Stages] /\ settles' \in [Requests -> 0..2]
      /\ result' \in [Requests -> {"none", "answered", "stopped"}]
      /\ SameWhere("posted") /\ Unserved
  BY <1>2, <1>3, RejectedSound
<1>5. \A r \in Requests : stage'[r] = "queued" <=> stage[r] = "queued" /\ r \notin Q
  BY <1>3
<1>6. /\ queues' \in [Groups -> Seq(Requests)] /\ rotation' \in Seq(Groups)
      /\ QueuesSound' /\ KeepsOrder
  BY <1>3, <1>5, DequeuedLemma
<1>7. TurnsSound' /\ passed' \in [Groups -> SUBSET Groups]
  BY <1>4, <1>6, TurnsKept DEF KeepsOrder
<1>8. DrainSound'
  BY DEF IInv, DrainSound
<1>9. cancelling' \in [Requests -> BOOLEAN]
  BY <1>3 DEF IInv, TypeOK
<1> QED BY <1>4, <1>6, <1>7, <1>8, <1>9

LEMMA RunCallbackSound ==
    ASSUME IInv, Passing, RunCallback
    PROVE  IInv'
<1>1. PICK m \in Callbacks : m = Head(inbox)
  BY HeadTailProperties DEF RunCallback, IInv, TypeOK
<1>2. /\ inbox # <<>> /\ drain # "done" /\ inbox' = Tail(inbox)
      /\ UNCHANGED <<stop, closed, pump, paced, active, asked, recorded, troubles>>
  BY DEF RunCallback
<1>3. ASSUME m.kind = "enqueue", Enqueue(m.of),
             UNCHANGED <<cancelling, result, settles, client, drain>>
      PROVE  IInv'
  <2>1. PICK r \in Requests : r = m.of /\ m = [kind |-> "enqueue", of |-> r]
    BY <1>3 DEF Callbacks
  <2>2. stage[r] = "posted"
    <3>1. inbox[1] = m /\ 1 \in DOMAIN inbox
      BY <1>1, <1>2 DEF IInv, TypeOK
    <3> QED BY <1>3, <2>1, <3>1 DEF IInv, InboxSound
  <2>3. /\ stage \in [Requests -> Stages] /\ stage'[r] = "queued"
        /\ \A s \in Requests \ {r} : stage'[s] = stage[s]
    BY <1>3, <2>1 DEF Enqueue, IInv, TypeOK
  <2>4. InboxSound' /\ inbox' \in Seq(Callbacks)
    <3>1. \A s \in Requests : stage'[s] = "posted" <=>
              stage[s] = "posted" /\ m # [kind |-> "enqueue", of |-> s]
      <4>1. \A s \in Requests : m = [kind |-> "enqueue", of |-> s] <=> s = r
        BY <2>1
      <4> QED BY <2>3, <4>1
    <3> QED BY <1>1, <1>2, <1>3, <3>1, TakenInbox
  <2>5. /\ queues' \in [Groups -> Seq(Requests)] /\ rotation' \in Seq(Groups)
        /\ QueuesSound' /\ KeepsOrder
    BY <1>3, <2>1, <2>2, EnqueueLemma
  <2>6. TurnsSound' /\ passed' \in [Groups -> SUBSET Groups]
    <3>1. Unserved
      BY <2>2, <2>3 DEF Unserved
    <3> QED BY <2>5, <3>1, TurnsKept DEF KeepsOrder
  <2>7. AccountsSound'
    BY <1>2, <1>3, <2>2, <2>3 DEF IInv, AccountsSound, Account
  <2>8. EntrySound'
    <3>1. \A s \in Requests : stage'[s] \in InFlight <=> stage[s] \in InFlight
      BY <2>2, <2>3 DEF InFlight
    <3>2. Admitted' = Admitted
      BY <3>1, AdmitsSame
    <3> QED BY <1>2, <2>3, <3>2 DEF IInv, EntrySound
  <2>9. DrainSound'
    BY <1>2, <1>3 DEF IInv, DrainSound
  <2>10. eligible' \in [Requests -> BOOLEAN] /\ stage' \in [Requests -> Stages]
    BY <1>3, <2>1 DEF Enqueue, IInv, TypeOK, Stages, Outstanding
  <2>11. TypeOK'
    BY <1>2, <1>3, <2>4, <2>5, <2>6, <2>10 DEF IInv, TypeOK
  <2> QED BY <2>4, <2>5, <2>6, <2>7, <2>8, <2>9, <2>11 DEF IInv
<1>4. ASSUME NEW R \in SUBSET Work, Cancel(R), m.kind \in {"cancel", "apply"},
             UNCHANGED <<eligible, client, drain>>
      PROVE  IInv'
  <2>1. /\ AccountsSound' /\ EntrySound' /\ DrainSound' /\ QueuesSound' /\ TurnsSound'
        /\ passed' \in [Groups -> SUBSET Groups]
        /\ stage' \in [Requests -> Stages] /\ settles' \in [Requests -> 0..2]
        /\ result' \in [Requests -> {"none", "answered", "stopped"}]
        /\ cancelling' \in [Requests -> BOOLEAN]
        /\ queues' \in [Groups -> Seq(Requests)] /\ rotation' \in Seq(Groups)
        /\ SameWhere("posted")
    BY <1>2, <1>4, CancelSound
  <2>2. \A s \in Requests : m # [kind |-> "enqueue", of |-> s]
    BY <1>4
  <2>3. InboxSound' /\ inbox' \in Seq(Callbacks)
    BY <1>1, <1>2, <1>4, <2>1, <2>2, TakenInbox DEF SameWhere
  <2>4. TypeOK'
    BY <1>2, <1>4, <2>1, <2>3 DEF IInv, TypeOK
  <2> QED BY <2>1, <2>3, <2>4 DEF IInv
<1>5. ASSUME m.kind = "drain", drain' = "waiting",
             UNCHANGED <<eligible, queues, rotation, stage, cancelling, result,
                         settles, client>>
      PROVE  IInv'
  <2>1. \A s \in Requests : m # [kind |-> "enqueue", of |-> s]
    BY <1>5
  <2>2. InboxSound' /\ inbox' \in Seq(Callbacks)
    BY <1>1, <1>2, <1>5, <2>1, TakenInbox
  <2>3. drain = "posted"
    <3>1. inbox[1] = m /\ 1 \in DOMAIN inbox
      BY <1>1, <1>2 DEF IInv, TypeOK
    <3> QED BY <1>5, <3>1 DEF IInv, InboxSound
  <2>4. QueuesSound'
    BY <1>5, SameQueues DEF SameWhere
  <2>5. TurnsSound' /\ passed' \in [Groups -> SUBSET Groups]
    BY <1>5, SameTurns DEF Unserved
  <2>6. AccountsSound' /\ DrainSound'
    BY <1>2, <1>5, <2>3 DEF IInv, AccountsSound, DrainSound
  <2>7. EntrySound'
    BY <1>2, <1>5, AdmitsSame DEF IInv, EntrySound
  <2>8. TypeOK'
    BY <1>2, <1>5, <2>2, <2>5 DEF IInv, TypeOK
  <2> QED BY <2>2, <2>4, <2>5, <2>6, <2>7, <2>8 DEF IInv
<1>6. \/ /\ m.kind = "enqueue" /\ Enqueue(m.of)
         /\ UNCHANGED <<cancelling, result, settles, client, drain>>
      \/ /\ m.kind = "cancel" /\ Cancel({m.of} \cap Work)
         /\ UNCHANGED <<eligible, client, drain>>
      \/ /\ m.kind = "apply" /\ Cancel(Work)
         /\ UNCHANGED <<eligible, client, drain>>
      \/ /\ m.kind = "drain" /\ drain' = "waiting"
         /\ UNCHANGED <<eligible, queues, rotation, stage, cancelling, result,
                        settles, client>>
  BY <1>1 DEF RunCallback
<1>7. {m.of} \cap Work \in SUBSET Work /\ Work \in SUBSET Work
  OBVIOUS
<1> QED BY <1>3, <1>4, <1>5, <1>6, <1>7

LEMMA DrainDoneSound ==
    ASSUME IInv, Passing, DrainDone
    PROVE  IInv'
<1> USE DEF DrainDone, control
<1>1. \A r \in Requests : stage[r] \in {"new", "settled"}
  <2> SUFFICES ASSUME NEW r \in Requests PROVE stage[r] \in {"new", "settled"}
    OBVIOUS
  <2>1. stage[r] \in Stages /\ r \notin Work
    BY DEF IInv, TypeOK, Drained
  <2>2. stage[r] # "posted"
    BY DEF IInv, InboxSound
  <2> QED BY <2>1, <2>2 DEF Work, Stages, Outstanding, InFlight
<1>2. InboxSound'
  <2>1. \A i \in DOMAIN inbox : inbox[i].kind = "cancel"
    BY DEF IInv, InboxSound
  <2> QED BY <1>1, <2>1 DEF InboxSound
<1>3. QueuesSound'
  BY SameQueues DEF SameWhere
<1>4. TurnsSound' /\ passed' \in [Groups -> SUBSET Groups]
  BY SameTurns DEF Unserved
<1>5. AccountsSound' /\ DrainSound'
  BY <1>1 DEF IInv, AccountsSound, DrainSound
<1>6. EntrySound'
  BY <1>1, AdmitsSame DEF IInv, EntrySound
<1>7. TypeOK'
  BY <1>4 DEF IInv, TypeOK
<1> QED BY <1>2, <1>3, <1>4, <1>5, <1>6, <1>7 DEF IInv

LEMMA PumpRejectsSound ==
    ASSUME IInv, Passing, PumpRejects
    PROVE  IInv'
<1> USE DEF PumpRejects, control
<1>1. PICK R \in SUBSET Requests : R = {r \in Requests : stage[r] = "queued"}
  OBVIOUS
<1>2. /\ stage' = [r \in Requests |-> IF r \in R THEN "settled" ELSE stage[r]]
      /\ Dequeued(R) /\ SetResults(R, "stopped")
  BY <1>1
<1>3. \A r \in R : stage[r] = "queued"
  BY <1>1
<1>4. /\ AccountsSound' /\ EntrySound'
      /\ stage' \in [Requests -> Stages] /\ settles' \in [Requests -> 0..2]
      /\ result' \in [Requests -> {"none", "answered", "stopped"}]
      /\ SameWhere("posted") /\ Unserved
  BY <1>2, <1>3, RejectedSound
<1>5. \A r \in Requests : stage'[r] = "queued" <=> stage[r] = "queued" /\ r \notin R
  BY <1>2
<1>6. /\ queues' \in [Groups -> Seq(Requests)] /\ rotation' \in Seq(Groups)
      /\ QueuesSound' /\ KeepsOrder
  BY <1>2, <1>5, DequeuedLemma
<1>7. TurnsSound' /\ passed' \in [Groups -> SUBSET Groups]
  BY <1>4, <1>6, TurnsKept DEF KeepsOrder
<1>8. DrainSound'
  BY DEF IInv, DrainSound
<1>9. InboxSound'
  BY <1>4, SameInbox
<1>10. TypeOK'
  BY <1>4, <1>6, <1>7 DEF IInv, TypeOK
<1> QED BY <1>4, <1>6, <1>7, <1>8, <1>9, <1>10 DEF IInv

LEMMA PumpStartsSound ==
    ASSUME IInv, Passing, PumpStarts
    PROVE  IInv'
<1>1. /\ pump = "run" /\ active < Cap /\ ~stop
      /\ UNCHANGED <<control, eligible, paced, client, drain, cancelling, active,
                     asked, result, recorded, settles, troubles>>
  BY DEF PumpStarts, Room
<1>2. PICK i \in Turn :
          LET g == rotation[i]
              r == Candidate(g)
              left == Without(queues[g], {r})
          IN IF paced
             THEN /\ rotation' = Turned(i)
                  /\ queues' = [queues EXCEPT ![g] = <<r>> \o left]
                  /\ UNCHANGED <<pump, stage>>
             ELSE /\ pump' = "await"
                  /\ rotation' = Rotated(i, left)
                  /\ queues' = [queues EXCEPT ![g] = left]
                  /\ stage' = [stage EXCEPT ![r] = "created"]
  BY DEF PumpStarts, Turned
<1>3. PICK g \in Groups, r \in Requests, left \in Seq(Requests) :
          /\ i \in DOMAIN rotation /\ g = rotation[i] /\ r = Candidate(g)
          /\ left = Without(queues[g], {r}) /\ Leaves(left, queues[g], {r})
          /\ Distinct(left)
          /\ stage[r] = "queued" /\ GroupOf[r] = g
          /\ \E k \in DOMAIN queues[g] : queues[g][k] = r
          /\ \A j \in 1..(i - 1) : ~Ready(rotation[j])
  BY StartFinds
<1>4. CASE paced
  <2>1. /\ rotation' = Turned(i) /\ queues' = [queues EXCEPT ![g] = <<r>> \o left]
        /\ UNCHANGED <<pump, stage>>
    BY <1>2, <1>3, <1>4
  <2>2. queues[g] \in Seq(Requests)
    BY DEF IInv, TypeOK
  <2>3. PICK m \in Seq(Requests) : m = <<r>> \o left /\ Distinct(m) /\ SameMembers(m, queues[g])
    BY <1>3, <2>2, PutBackLemma
  <2>4. PICK p : p = Turned(i)
    OBVIOUS
  <2>5. p \in Seq(Groups) /\ Distinct(p) /\ SameMembers(p, rotation) /\ KeepsOrder
    BY <1>3, <2>1, <2>4, TurnedTurns
  <2>6. queues' \in [Groups -> Seq(Requests)] /\ QueuesSound'
    BY <2>1, <2>3, <2>4, <2>5, ReorderedSound
  <2>7. TurnsSound' /\ passed' \in [Groups -> SUBSET Groups]
    BY <2>1, <2>4, <2>5, TurnsKept DEF KeepsOrder, Unserved
  <2>8. InboxSound'
    BY <1>1, <2>1, SameInbox DEF SameWhere, control
  <2>9. AccountsSound' /\ DrainSound'
    BY <1>1, <2>1 DEF IInv, AccountsSound, DrainSound, control
  <2>10. EntrySound'
    BY <1>1, <2>1, AdmitsSame DEF IInv, EntrySound
  <2>11. TypeOK'
    BY <1>1, <2>1, <2>4, <2>5, <2>6, <2>7 DEF IInv, TypeOK, control
  <2> QED BY <2>6, <2>7, <2>8, <2>9, <2>10, <2>11 DEF IInv
<1>5. CASE ~paced
  <2>1. /\ pump' = "await" /\ rotation' = Rotated(i, left)
        /\ queues' = [queues EXCEPT ![g] = left]
        /\ stage' = [stage EXCEPT ![r] = "created"]
    BY <1>2, <1>3, <1>5
  <2>2. /\ queues' \in [Groups -> Seq(Requests)] /\ rotation' \in Seq(Groups)
        /\ QueuesSound'
    BY <1>3, <2>1, ServedQueues
  <2>3. TurnsSound' /\ passed' \in [Groups -> SUBSET Groups]
    BY <1>3, <2>1, ServedTurns
  <2>4. /\ stage \in [Requests -> Stages] /\ stage'[r] = "created"
        /\ \A s \in Requests \ {r} : stage'[s] = stage[s]
    BY <2>1 DEF IInv, TypeOK
  <2>5. InboxSound'
    <3>1. SameWhere("posted")
      BY <1>3, <2>4 DEF SameWhere
    <3> QED BY <1>1, <3>1, SameInbox DEF control
  <2>6. AccountsSound'
    BY <1>1, <1>3, <2>4 DEF IInv, AccountsSound, Account
  <2>7. DrainSound'
    <3>1. drain # "done"
      BY <1>3 DEF IInv, DrainSound
    <3> QED BY <1>1, <3>1 DEF IInv, DrainSound, control
  <2>8. EntrySound'
    <3>1. \A s \in Requests : stage'[s] \in InFlight <=> stage[s] \in InFlight
      BY <1>3, <2>4 DEF InFlight
    <3>2. Admitted' = Admitted
      BY <3>1, AdmitsSame
    <3>3. \A s \in Requests : stage'[s] = "created" <=> s = r
      BY <1>1, <2>4 DEF IInv, EntrySound
    <3> QED BY <1>1, <2>1, <3>2, <3>3 DEF IInv, EntrySound
  <2>9. TypeOK'
    BY <1>1, <2>1, <2>2, <2>3 DEF IInv, TypeOK, control, Stages, Outstanding
  <2> QED BY <2>2, <2>3, <2>5, <2>6, <2>7, <2>8, <2>9 DEF IInv
<1> QED BY <1>4, <1>5

LEMMA BackoffElapsesSound ==
    ASSUME IInv, Passing, NEW r \in Requests, BackoffElapses(r)
    PROVE  IInv'
<1> USE DEF BackoffElapses, control
<1>1. InboxSound'
  BY SameInbox DEF SameWhere
<1>2. /\ AccountsSound' /\ EntrySound' /\ DrainSound' /\ QueuesSound' /\ TurnsSound'
      /\ passed' \in [Groups -> SUBSET Groups]
  BY QuietSound
<1>3. TypeOK'
  BY <1>2 DEF IInv, TypeOK
<1> QED BY <1>1, <1>2, <1>3 DEF IInv

LEMMA PaceElapsesSound ==
    ASSUME IInv, Passing, PaceElapses
    PROVE  IInv'
<1> USE DEF PaceElapses, control
<1>1. InboxSound'
  BY SameInbox DEF SameWhere
<1>2. /\ AccountsSound' /\ EntrySound' /\ DrainSound' /\ QueuesSound' /\ TurnsSound'
      /\ passed' \in [Groups -> SUBSET Groups]
  BY QuietSound
<1>3. TypeOK'
  BY <1>2 DEF IInv, TypeOK
<1> QED BY <1>1, <1>2, <1>3 DEF IInv

------------------------------------------------------------------------------
(* The tasks' steps.                                                             *)

\* A task moves its own request, and touches neither inbox, queues nor drain.
LEMMA TaskSound ==
    ASSUME IInv, Passing, TaskFrame, NEW r \in Requests, NEW where \in InFlight \cup {"settled"},
           stage[r] \in {"created"} \cup InFlight,
           stage' = [stage EXCEPT ![r] = where]
    PROVE  /\ InboxSound' /\ DrainSound' /\ QueuesSound' /\ TurnsSound'
           /\ passed' \in [Groups -> SUBSET Groups] /\ stage' \in [Requests -> Stages]
<1> USE DEF TaskFrame
<1>1. /\ stage \in [Requests -> Stages] /\ stage'[r] = where
      /\ \A s \in Requests \ {r} : stage'[s] = stage[s]
  BY DEF IInv, TypeOK
<1>2. SameWhere("posted") /\ SameWhere("queued") /\ Unserved
  BY <1>1 DEF SameWhere, Unserved, InFlight
<1>3. InboxSound'
  BY <1>2, SameInbox
<1>4. QueuesSound'
  BY <1>2, SameQueues
<1>5. TurnsSound' /\ passed' \in [Groups -> SUBSET Groups]
  BY <1>2, SameTurns
<1>6. DrainSound'
  <2>1. drain # "done"
    BY DEF IInv, DrainSound, InFlight
  <2> QED BY <2>1 DEF IInv, DrainSound
<1>7. stage' \in [Requests -> Stages]
  BY <1>1 DEF Stages, Outstanding, InFlight
<1> QED BY <1>3, <1>4, <1>5, <1>6, <1>7

\* A task that ends settles its request and gives its permit back.
LEMMA LeaveSound ==
    ASSUME IInv, NEW r \in Requests, NEW value \in {"answered", "stopped"},
           stage[r] \in InFlight, Leave(r, value), UNCHANGED <<pump, recorded>>
    PROVE  /\ AccountsSound' /\ EntrySound'
           /\ stage' = [stage EXCEPT ![r] = "settled"]
           /\ active' \in 0..Cardinality(Requests)
           /\ settles' \in [Requests -> 0..2]
           /\ result' \in [Requests -> {"none", "answered", "stopped"}]
<1>1. /\ stage' = [stage EXCEPT ![r] = "settled"] /\ active' = active - 1
      /\ SetResults({r}, value)
  BY DEF Leave
<1>2. /\ stage'[r] = "settled" /\ \A s \in Requests \ {r} : stage'[s] = stage[s]
      /\ settles'[r] = settles[r] + 1 /\ result'[r] = value
      /\ \A s \in Requests \ {r} : settles'[s] = settles[s] /\ result'[s] = result[s]
  BY <1>1 DEF IInv, TypeOK, SetResults
<1>3. ASSUME NEW s \in Requests
      PROVE Account(stage'[s], settles'[s], result'[s], recorded'[s])
  <2>1. Account(stage[s], settles[s], result[s], recorded[s])
    BY DEF IInv, AccountsSound
  <2>2. CASE s = r
    BY <1>2, <2>1, <2>2 DEF Account, InFlight
  <2>3. CASE s # r
    BY <1>2, <2>1, <2>3
  <2> QED BY <2>2, <2>3
<1>4. AccountsSound'
  BY <1>3 DEF AccountsSound
<1>5. settles' \in [Requests -> 0..2]
  <2>1. \A s \in Requests : settles'[s] \in 0..2
    BY <1>3 DEF Account
  <2> QED BY <1>1, <2>1 DEF SetResults
<1>6. result' \in [Requests -> {"none", "answered", "stopped"}]
  BY <1>1 DEF IInv, TypeOK, SetResults
<1>7. "settled" \notin InFlight
  BY DEF InFlight
<1>8. Cardinality(Admitted') = Cardinality(Admitted) - 1
  BY <1>1, <1>7, ReleasesOne DEF IInv
<1>9. active' = Cardinality(Admitted') /\ active' \in 0..Cardinality(Requests)
  BY <1>1, <1>8, AdmittedFiniteNext DEF IInv, EntrySound
<1>10. EntrySound'
  <2>1. active' <= Cap /\ (active < Cap => active' < Cap)
    BY <1>1, CapAssumption DEF IInv, EntrySound, TypeOK
  <2>2. \A s \in Requests : stage'[s] = "created" => stage[s] = "created"
    BY <1>2
  <2> QED BY <1>9, <2>1, <2>2 DEF IInv, EntrySound
<1> QED BY <1>1, <1>4, <1>5, <1>6, <1>9, <1>10

LEMMA EnterSound ==
    ASSUME IInv, Passing, NEW r \in Requests, Enter(r)
    PROVE  IInv'
<1> USE DEF Enter
<1>1. stage[r] = "created" /\ pump = "await" /\ active < Cap /\ pump' = "run"
      /\ \A s \in Requests : stage[s] = "created" => s = r
  BY DEF IInv, EntrySound
<1>2. CASE cancelling[r] \/ stop
  <2>1. stage' = [stage EXCEPT ![r] = "settled"] /\ SetResults({r}, "stopped")
        /\ UNCHANGED <<active, paced>>
    BY <1>2
  <2>2. /\ InboxSound' /\ DrainSound' /\ QueuesSound' /\ TurnsSound'
        /\ passed' \in [Groups -> SUBSET Groups] /\ stage' \in [Requests -> Stages]
    BY <1>1, <2>1, TaskSound
  <2>3. /\ stage'[r] = "settled" /\ \A s \in Requests \ {r} : stage'[s] = stage[s]
        /\ settles'[r] = settles[r] + 1 /\ result'[r] = "stopped"
        /\ \A s \in Requests \ {r} : settles'[s] = settles[s] /\ result'[s] = result[s]
    BY <2>1 DEF IInv, TypeOK, SetResults
  <2>4. ASSUME NEW s \in Requests
        PROVE Account(stage'[s], settles'[s], result'[s], recorded'[s])
    <3>1. Account(stage[s], settles[s], result[s], recorded[s])
      BY DEF IInv, AccountsSound
    <3>2. CASE s = r
      BY <1>1, <2>3, <3>1, <3>2 DEF Account
    <3>3. CASE s # r
      BY <2>3, <3>1, <3>3
    <3> QED BY <3>2, <3>3
  <2>5. AccountsSound'
    BY <2>4 DEF AccountsSound
  <2>6. EntrySound'
    <3>1. \A s \in Requests : stage'[s] \in InFlight <=> stage[s] \in InFlight
      BY <1>1, <2>3 DEF InFlight
    <3>2. Admitted' = Admitted
      BY <3>1, AdmitsSame
    <3>3. \A s \in Requests : stage'[s] # "created"
      BY <1>1, <2>3
    <3> QED BY <2>1, <3>2, <3>3 DEF IInv, EntrySound
  <2>7. /\ settles' \in [Requests -> 0..2]
        /\ result' \in [Requests -> {"none", "answered", "stopped"}]
    <3>1. \A s \in Requests : settles'[s] \in 0..2
      BY <2>4 DEF Account
    <3> QED BY <2>1, <3>1 DEF SetResults, IInv, TypeOK
  <2>8. TypeOK'
    BY <1>1, <2>1, <2>2, <2>7 DEF IInv, TypeOK, TaskFrame
  <2> QED BY <2>2, <2>5, <2>6, <2>8 DEF IInv
<1>3. CASE ~(cancelling[r] \/ stop)
  <2>1. stage' = [stage EXCEPT ![r] = "prep"] /\ active' = active + 1 /\ paced' = TRUE
        /\ UNCHANGED <<result, settles>>
    BY <1>3
  <2>2. "prep" \in InFlight /\ "created" \notin InFlight
    BY DEF InFlight
  <2>3. /\ InboxSound' /\ DrainSound' /\ QueuesSound' /\ TurnsSound'
        /\ passed' \in [Groups -> SUBSET Groups] /\ stage' \in [Requests -> Stages]
    BY <1>1, <2>1, <2>2, TaskSound
  <2>4. /\ stage'[r] = "prep" /\ \A s \in Requests \ {r} : stage'[s] = stage[s]
    BY <2>1 DEF IInv, TypeOK
  <2>5. AccountsSound'
    BY <1>1, <2>1, <2>4 DEF IInv, AccountsSound, Account
  <2>6. Cardinality(Admitted') = Cardinality(Admitted) + 1
    BY <1>1, <2>1, <2>2, AdmitsOne DEF IInv
  <2>7. active' = Cardinality(Admitted') /\ active' \in 0..Cardinality(Requests)
    BY <2>1, <2>6, AdmittedFiniteNext DEF IInv, EntrySound
  <2>8. EntrySound'
    <3>1. active' <= Cap
      BY <1>1, <2>1, CapAssumption DEF IInv, TypeOK
    <3>2. \A s \in Requests : stage'[s] # "created"
      BY <1>1, <2>4
    <3> QED BY <2>7, <3>1, <3>2 DEF EntrySound
  <2>9. TypeOK'
    BY <1>1, <2>1, <2>3, <2>7 DEF IInv, TypeOK, TaskFrame
  <2> QED BY <2>3, <2>5, <2>8, <2>9 DEF IInv
<1> QED BY <1>2, <1>3

\* A task that goes on under the permit it has.
LEMMA GoesOnSound ==
    ASSUME IInv, NEW r \in Requests, stage[r] \in InFlight, NEW where \in InFlight,
           stage' = [stage EXCEPT ![r] = where],
           recorded' = [recorded EXCEPT ![r] = 1],
           UNCHANGED <<pump, active, result, settles>>
    PROVE  AccountsSound' /\ EntrySound' /\ recorded' \in [Requests -> 0..(MaxTroubles + 1)]
<1>1. /\ stage'[r] = where /\ \A s \in Requests \ {r} : stage'[s] = stage[s]
      /\ recorded'[r] = 1 /\ \A s \in Requests \ {r} : recorded'[s] = recorded[s]
  BY DEF IInv, TypeOK
<1>2. AccountsSound'
  BY <1>1 DEF IInv, AccountsSound, Account, InFlight
<1>3. \A s \in Requests : stage'[s] \in InFlight <=> stage[s] \in InFlight
  BY <1>1
<1>4. EntrySound'
  <2>1. Admitted' = Admitted
    BY <1>3, AdmitsSame
  <2>2. \A s \in Requests : stage'[s] = "created" => stage[s] = "created"
    BY <1>1 DEF InFlight
  <2> QED BY <2>1, <2>2 DEF IInv, EntrySound
<1>5. recorded' \in [Requests -> 0..(MaxTroubles + 1)]
  <2>1. 1 \in 0..(MaxTroubles + 1)
    BY BoundAssumption
  <2> QED BY <2>1 DEF IInv, TypeOK
<1> QED BY <1>2, <1>4, <1>5

LEMMA BeforeSendSound ==
    ASSUME IInv, Passing, NEW r \in Requests, BeforeSend(r)
    PROVE  IInv'
<1>1. /\ stage[r] = "prep" /\ stage[r] \in InFlight /\ TaskFrame
      /\ UNCHANGED <<pump, paced, cancelling>>
  BY DEF BeforeSend, Running, InFlight
<1>2. ASSUME NEW value \in {"answered", "stopped"}, Leave(r, value), UNCHANGED recorded,
             stop' \in BOOLEAN, troubles' \in 0..MaxTroubles
      PROVE  IInv'
  <2>1. /\ AccountsSound' /\ EntrySound'
        /\ stage' = [stage EXCEPT ![r] = "settled"]
        /\ active' \in 0..Cardinality(Requests)
        /\ settles' \in [Requests -> 0..2]
        /\ result' \in [Requests -> {"none", "answered", "stopped"}]
    BY <1>1, <1>2, LeaveSound
  <2>2. /\ InboxSound' /\ DrainSound' /\ QueuesSound' /\ TurnsSound'
        /\ passed' \in [Groups -> SUBSET Groups] /\ stage' \in [Requests -> Stages]
    BY <1>1, <2>1, TaskSound
  <2>3. TypeOK'
    BY <1>1, <1>2, <2>1, <2>2 DEF IInv, TypeOK, TaskFrame
  <2> QED BY <2>1, <2>2, <2>3 DEF IInv
<1>3. ASSUME recorded' = [recorded EXCEPT ![r] = IF MustRecord(r) THEN @ + 1 ELSE @],
             stage' = [stage EXCEPT ![r] = "sent"],
             UNCHANGED <<stop, active, result, settles, troubles>>
      PROVE  IInv'
  <2>1. recorded[r] \in 0..1 /\ recorded \in [Requests -> 0..(MaxTroubles + 1)]
    BY DEF IInv, TypeOK, AccountsSound, Account
  <2>2. recorded' = [recorded EXCEPT ![r] = 1]
    <3>1. (IF MustRecord(r) THEN recorded[r] + 1 ELSE recorded[r]) = 1
      BY <2>1 DEF MustRecord
    <3> QED BY <1>3, <2>1, <3>1
  <2>3. "sent" \in InFlight
    BY DEF InFlight
  <2>4. AccountsSound' /\ EntrySound' /\ recorded' \in [Requests -> 0..(MaxTroubles + 1)]
    BY <1>1, <1>3, <2>2, <2>3, GoesOnSound
  <2>5. /\ InboxSound' /\ DrainSound' /\ QueuesSound' /\ TurnsSound'
        /\ passed' \in [Groups -> SUBSET Groups] /\ stage' \in [Requests -> Stages]
    BY <1>1, <1>3, <2>3, TaskSound
  <2>6. TypeOK'
    BY <1>1, <1>3, <2>4, <2>5 DEF IInv, TypeOK, TaskFrame
  <2> QED BY <2>4, <2>5, <2>6 DEF IInv
<1>4. stop \in BOOLEAN /\ troubles \in 0..MaxTroubles
  BY DEF IInv, TypeOK
<1>5. Trouble => troubles' \in 0..MaxTroubles
  BY TroubleTyped DEF IInv
<1> QED BY <1>2, <1>3, <1>4, <1>5 DEF BeforeSend

LEMMA WireStartSound ==
    ASSUME IInv, Passing, NEW r \in Requests, WireStart(r)
    PROVE  IInv'
<1>1. /\ stage[r] = "sent" /\ stage[r] \in InFlight /\ TaskFrame
      /\ UNCHANGED <<stop, pump, paced, cancelling, recorded, troubles>>
  BY DEF WireStart, Running, InFlight
<1>2. CASE Leave(r, "stopped")
  <2>1. /\ AccountsSound' /\ EntrySound'
        /\ stage' = [stage EXCEPT ![r] = "settled"]
        /\ active' \in 0..Cardinality(Requests)
        /\ settles' \in [Requests -> 0..2]
        /\ result' \in [Requests -> {"none", "answered", "stopped"}]
    BY <1>1, <1>2, LeaveSound
  <2>2. /\ InboxSound' /\ DrainSound' /\ QueuesSound' /\ TurnsSound'
        /\ passed' \in [Groups -> SUBSET Groups] /\ stage' \in [Requests -> Stages]
    BY <1>1, <2>1, TaskSound
  <2>3. TypeOK'
    BY <1>1, <2>1, <2>2 DEF IInv, TypeOK, TaskFrame
  <2> QED BY <2>1, <2>2, <2>3 DEF IInv
<1>3. CASE stage' = [stage EXCEPT ![r] = "wire"] /\ UNCHANGED <<active, result, settles>>
  <2>1. recorded' = [recorded EXCEPT ![r] = 1]
    BY <1>1 DEF IInv, TypeOK, AccountsSound, Account
  <2>2. "wire" \in InFlight
    BY DEF InFlight
  <2>3. AccountsSound' /\ EntrySound' /\ recorded' \in [Requests -> 0..(MaxTroubles + 1)]
    BY <1>1, <1>3, <2>1, <2>2, GoesOnSound
  <2>4. /\ InboxSound' /\ DrainSound' /\ QueuesSound' /\ TurnsSound'
        /\ passed' \in [Groups -> SUBSET Groups] /\ stage' \in [Requests -> Stages]
    BY <1>1, <1>3, <2>2, TaskSound
  <2>5. TypeOK'
    BY <1>1, <1>3, <2>3, <2>4 DEF IInv, TypeOK, TaskFrame
  <2> QED BY <2>3, <2>4, <2>5 DEF IInv
<1> QED BY <1>2, <1>3 DEF WireStart

LEMMA RedirectSound ==
    ASSUME IInv, Passing, NEW r \in Requests, Redirect(r)
    PROVE  IInv'
<1>1. /\ stage[r] = "wire" /\ stage[r] \in InFlight /\ TaskFrame
      /\ stage' = [stage EXCEPT ![r] = "prep"]
      /\ UNCHANGED <<stop, pump, paced, cancelling, active, result, recorded, settles>>
  BY DEF Redirect, Running, InFlight
<1>2. troubles' \in 0..MaxTroubles
  BY TroubleTyped DEF Redirect, IInv
<1>3. recorded' = [recorded EXCEPT ![r] = 1]
  BY <1>1 DEF IInv, TypeOK, AccountsSound, Account
<1>4. "prep" \in InFlight
  BY DEF InFlight
<1>5. AccountsSound' /\ EntrySound' /\ recorded' \in [Requests -> 0..(MaxTroubles + 1)]
  BY <1>1, <1>3, <1>4, GoesOnSound
<1>6. /\ InboxSound' /\ DrainSound' /\ QueuesSound' /\ TurnsSound'
      /\ passed' \in [Groups -> SUBSET Groups] /\ stage' \in [Requests -> Stages]
  BY <1>1, <1>4, TaskSound
<1>7. TypeOK'
  BY <1>1, <1>2, <1>5, <1>6 DEF IInv, TypeOK, TaskFrame
<1> QED BY <1>5, <1>6, <1>7 DEF IInv

\* An answer, an error, the deadline or a cancellation ends a task.
LEMMA EndsSound ==
    ASSUME IInv, Passing, NEW r \in Requests, Respond(r) \/ CancelLands(r)
    PROVE  IInv'
<1>1. PICK value \in {"answered", "stopped"} : Leave(r, value)
  BY DEF Respond, CancelLands
<1>2. /\ stage[r] \in InFlight /\ TaskFrame /\ stop' \in {stop, TRUE}
      /\ UNCHANGED <<pump, paced, cancelling, recorded, troubles>>
  BY DEF Respond, CancelLands, Running
<1>3. /\ AccountsSound' /\ EntrySound'
      /\ stage' = [stage EXCEPT ![r] = "settled"]
      /\ active' \in 0..Cardinality(Requests)
      /\ settles' \in [Requests -> 0..2]
      /\ result' \in [Requests -> {"none", "answered", "stopped"}]
  BY <1>1, <1>2, LeaveSound
<1>4. /\ InboxSound' /\ DrainSound' /\ QueuesSound' /\ TurnsSound'
      /\ passed' \in [Groups -> SUBSET Groups] /\ stage' \in [Requests -> Stages]
  BY <1>2, <1>3, TaskSound
<1>5. TypeOK'
  BY <1>2, <1>3, <1>4 DEF IInv, TypeOK, TaskFrame
<1> QED BY <1>3, <1>4, <1>5 DEF IInv

------------------------------------------------------------------------------
(* The invariant of the specification.                                           *)

LEMMA InitSound == Init => IInv
<1> SUFFICES ASSUME Init PROVE IInv
  OBVIOUS
<1> USE DEF Init
<1>1. TypeOK
  <2>1. 0 \in 0..Cardinality(Requests)
    BY RequestAssumption, FS_CardinalityType
  <2>2. 0 \in 0..MaxTroubles /\ 0 \in 0..(MaxTroubles + 1) /\ 0 \in 0..2
    BY BoundAssumption
  <2>3. /\ inbox \in Seq(Callbacks) /\ rotation \in Seq(Groups)
        /\ queues \in [Groups -> Seq(Requests)]
    BY EmptySeq
  <2> QED BY <2>1, <2>2, <2>3 DEF TypeOK, Stages, Outstanding
<1>2. AccountsSound
  BY DEF AccountsSound, Account
<1>3. EntrySound
  <2>1. Admitted = {}
    BY DEF Admitted, InFlight
  <2> QED BY <2>1, FS_EmptySet, CapAssumption DEF EntrySound
<1>4. InboxSound /\ DrainSound
  BY DEF InboxSound, DrainSound
<1>5. QueuesSound /\ TurnsSound
  BY DEF QueuesSound, TurnsSound, Behind, Distinct
<1> QED BY <1>1, <1>2, <1>3, <1>4, <1>5 DEF IInv

LEMMA StutterSound ==
    ASSUME IInv, UNCHANGED vars
    PROVE  IInv'
<1> USE DEF vars, core, control, loop
<1>1. TypeOK' /\ AccountsSound' /\ DrainSound'
  BY DEF IInv, TypeOK, AccountsSound, DrainSound
<1>2. EntrySound'
  BY AdmitsSame DEF IInv, EntrySound
<1>3. InboxSound'
  BY SameInbox DEF SameWhere
<1>4. QueuesSound'
  BY SameQueues DEF SameWhere
<1>5. TurnsSound'
  BY DEF IInv, TypeOK, TurnsSound, Behind, Ready
<1> QED BY <1>1, <1>2, <1>3, <1>4, <1>5 DEF IInv

LEMMA NextSound == IInv /\ [Next]_vars => IInv'
<1> SUFFICES ASSUME IInv, [Next]_vars PROVE IInv'
  OBVIOUS
<1>1. CASE UNCHANGED vars
  BY <1>1, StutterSound
<1>2. CASE Environment /\ Passing
  BY <1>2, SubmitSound, CancelCallSound, FinishFailsSound, StopSound, MakeClientSound,
     CloseSound DEF Environment
<1>3. CASE Progress /\ Passing
  <2>1. CASE RunCallback \/ DrainDone
    BY <1>3, <2>1, RunCallbackSound, DrainDoneSound
  <2>2. CASE Pump
    BY <1>3, <2>2, PumpRejectsSound, PumpStartsSound, PaceElapsesSound,
       BackoffElapsesSound DEF Pump
  <2>3. ASSUME NEW r \in Requests, Task(r) PROVE IInv'
    BY <1>3, <2>3, EnterSound, BeforeSendSound, WireStartSound, RedirectSound,
       EndsSound DEF Task
  <2> QED BY <1>3, <2>1, <2>2, <2>3 DEF Progress
<1> QED BY <1>1, <1>2, <1>3 DEF Next

LEMMA InvariantHolds == Spec => []IInv
<1> QED BY InitSound, NextSound, PTL DEF Spec

LEMMA InvariantSuffices == IInv => RequestsAreAccounted
<1> SUFFICES ASSUME IInv PROVE RequestsAreAccounted
  OBVIOUS
<1>1. ASSUME NEW r \in Requests
      PROVE  /\ settles[r] <= 1
             /\ settles[r] = 1 <=> stage[r] = "settled"
             /\ settles[r] = 1 <=> result[r] # "none"
             /\ recorded[r] <= 1
             /\ stage[r] \in {"sent", "wire"} => recorded[r] = 1
  BY DEF IInv, AccountsSound, Account
<1>2. SettledOnce /\ RecordedOnceBeforeSend
  BY <1>1 DEF SettledOnce, RecordedOnceBeforeSend
<1>3. PermitsAreReturned
  BY DEF IInv, EntrySound, PermitsAreReturned, Admitted
<1>4. DrainLosesNothing
  BY DEF IInv, TypeOK, DrainSound, InboxSound, DrainLosesNothing
<1> QED BY <1>2, <1>3, <1>4 DEF RequestsAreAccounted, IInv

\* Through every interleaving of callers, callbacks, the pump, tasks, stops and
\* closing, for any number of requests and any cap, each accepted request has one
\* result, at most one recorded start, made before anything is sent, and one permit
\* that it gives back; a drained loop has forgotten none.
THEOREM RequestsStayAccounted == Spec => []RequestsAreAccounted
<1> QED BY InvariantHolds, InvariantSuffices, PTL

\* _pump finds every queued request: it is in the queue of its group, and its group
\* is in the rotation, each exactly once.
THEOREM QueuedIsFound == Spec => []QueuesSound
<1>1. IInv => QueuesSound
  BY DEF IInv
<1> QED BY <1>1, InvariantHolds, PTL

LEMMA TurnsStep ==
    ASSUME IInv, Next
    PROVE  \A g, h \in Groups : Served(g) /\ g # h /\ Ready(h) => g \notin passed[h]
<1> SUFFICES ASSUME NEW g \in Groups, NEW h \in Groups, Served(g), g # h, Ready(h),
                    g \in passed[h]
             PROVE  FALSE
  OBVIOUS
<1>1. TypeOK /\ QueuesSound /\ TurnsSound
  BY DEF IInv
<1>2. PICK s \in Requests : GroupOf[s] = g /\ stage[s] = "queued" /\ stage'[s] = "created"
  BY DEF Served
<1>3. PumpStarts /\ ~paced
  BY <1>1, <1>2 DEF Next, Progress, Environment, Pump, Task, Submit, CancelCall, FinishFails,
     Stop, MakeClient, Close, RunCallback, Enqueue, Cancel, DrainDone, PumpRejects,
     PumpStarts, PaceElapses, BackoffElapses, Enter, BeforeSend, WireStart, Redirect,
     Respond, CancelLands, Leave, TypeOK
<1>4. PICK i \in Turn : stage' = [stage EXCEPT ![Candidate(rotation[i])] = "created"]
  BY <1>3 DEF PumpStarts
<1>5. /\ i \in DOMAIN rotation /\ GroupOf[Candidate(rotation[i])] = rotation[i]
      /\ Candidate(rotation[i]) \in Requests
      /\ \A j \in 1..(i - 1) : ~Ready(rotation[j])
  BY StartFinds
<1>6. rotation[i] = g
  BY <1>1, <1>2, <1>4, <1>5 DEF TypeOK
<1>7. PICK k \in DOMAIN rotation : rotation[k] = h
  <2>1. queues[h] # <<>>
    BY <1>1 DEF Ready, TypeOK
  <2> QED BY <1>1, <2>1 DEF QueuesSound
<1>8. k < i
  BY <1>1, <1>5, <1>6, <1>7 DEF TurnsSound, Behind
<1>9. k \in 1..(i - 1)
  BY <1>1, <1>5, <1>7, <1>8 DEF TypeOK
<1> QED BY <1>5, <1>7, <1>9

\* The pump serves the groups in turn: none starts two requests while another has
\* one ready to start all along, however many groups, requests and retries.
THEOREM GroupsTakeTurns == Spec => TurnsAlternate
<1>1. IInv /\ [Next]_vars =>
        [\A g, h \in Groups : Served(g) /\ g # h /\ Ready(h) => g \notin passed[h]]_vars
  BY TurnsStep
<1> QED BY <1>1, InvariantHolds, PTL DEF Spec, TurnsAlternate

------------------------------------------------------------------------------
(* The dispatcher implements the port: the safety part of ImplementsPort.        *)

PhaseOf(where) == IF where \in {"posted", "queued", "created"} THEN "accepted"
                  ELSE IF where \in InFlight THEN "admitted" ELSE where

Phase == [r \in Requests |-> PhaseOf(stage[r])]

PortIs == IF drain = "done" THEN "shut" ELSE IF closed THEN "closing" ELSE "open"

LEMMA PortInit ==
    ASSUME Init
    PROVE  Port!Init
BY DEF Init, Port!Init, InFlight

\* Steps that move no request from one phase to another.
LEMMA PortStutters ==
    ASSUME \A r \in Requests : PhaseOf(stage'[r]) = PhaseOf(stage[r]),
           UNCHANGED <<stop, closed, drain>>
    PROVE  UNCHANGED Port!vars
<1>1. Phase' = Phase /\ PortIs' = PortIs /\ stop' = stop
  BY DEF Phase, PortIs
<1> QED BY <1>1 DEF Port!vars, Phase, PhaseOf, PortIs

LEMMA PortStops ==
    ASSUME UNCHANGED <<stage, closed, drain>>, stop' = TRUE
    PROVE  Port!Next
<1>1. Phase' = Phase /\ PortIs' = PortIs
  BY DEF Phase, PortIs
<1>2. Port!Stop
  BY <1>1 DEF Port!Stop, Phase, PhaseOf, PortIs
<1> QED BY <1>2 DEF Port!Next

\* Outstanding requests settle, and the run may stop with them.
LEMMA PortSettles ==
    ASSUME TypeOK, NEW R \in SUBSET Requests, \A r \in R : stage[r] \in Outstanding,
           \A r \in Requests : stage'[r] = IF r \in R THEN "settled" ELSE stage[r],
           stop' \in {stop, TRUE}, UNCHANGED <<closed, drain>>
    PROVE  Port!Next
<1>1. Phase' = [r \in Requests |-> IF r \in R THEN "settled" ELSE Phase[r]]
  BY DEF Phase, PhaseOf, InFlight
<1>2. \A r \in R : Phase[r] \in {"accepted", "admitted"}
  BY DEF Phase, PhaseOf, Outstanding
<1>3. PortIs' = PortIs
  BY DEF PortIs
<1>4. R \subseteq Port!InPhase("accepted") \cup Port!InPhase("admitted")
  BY <1>2 DEF Port!InPhase, Phase, PhaseOf
<1>5. Port!Settle(R)
  BY <1>1, <1>3, <1>4 DEF Port!Settle, Phase, PhaseOf, PortIs
<1> QED BY <1>5 DEF Port!Next

LEMMA PortEnvironment ==
    ASSUME IInv, Environment
    PROVE  Port!Next \/ UNCHANGED Port!vars
<1>1. ASSUME NEW r \in Requests, Submit(r) PROVE Port!Next
  <2>1. /\ stage[r] = "new" /\ ~stop /\ ~closed /\ drain # "done"
        /\ stage' = [stage EXCEPT ![r] = "posted"] /\ UNCHANGED <<stop, closed, drain>>
    BY <1>1 DEF Submit, Admissible, loop, IInv, DrainSound
  <2>2. Phase[r] = "new" /\ PortIs = "open" /\ PortIs' = PortIs
    BY <2>1 DEF Phase, PhaseOf, PortIs, InFlight
  <2>3. Phase' = [Phase EXCEPT ![r] = "accepted"]
    BY <2>1 DEF Phase, PhaseOf, IInv, TypeOK
  <2>4. Port!Accept(r)
    BY <2>1, <2>2, <2>3 DEF Port!Accept, Phase, PhaseOf, PortIs
  <2> QED BY <2>4 DEF Port!Next
<1>2. ASSUME NEW r \in Requests, CancelCall(r) PROVE UNCHANGED Port!vars
  BY <1>2, PortStutters DEF CancelCall, loop
<1>3. ASSUME NEW r \in Requests, FinishFails(r) PROVE Port!Next
  BY <1>3, PortStops DEF FinishFails, StopAll, loop
<1>4. CASE Stop
  BY <1>4, PortStops DEF Stop, StopAll, loop
<1>5. CASE MakeClient
  BY <1>5, PortStops, PortStutters DEF MakeClient
<1>6. CASE Close
  <2>1. /\ ~closed /\ closed' = TRUE /\ drain # "done" /\ drain' = "posted"
        /\ UNCHANGED <<stop, stage>>
    BY <1>6 DEF Close, IInv, DrainSound
  <2>2. PortIs = "open" /\ PortIs' = "closing" /\ Phase' = Phase
    BY <2>1 DEF PortIs, Phase
  <2>3. Port!Close
    BY <2>1, <2>2 DEF Port!Close, Phase, PhaseOf, PortIs
  <2> QED BY <2>3 DEF Port!Next
<1> QED BY <1>1, <1>2, <1>3, <1>4, <1>5, <1>6 DEF Environment

LEMMA PortCallback ==
    ASSUME IInv, RunCallback
    PROVE  Port!Next \/ UNCHANGED Port!vars
<1>1. PICK m \in Callbacks : m = Head(inbox)
  BY HeadTailProperties DEF RunCallback, IInv, TypeOK
<1>2. inbox # <<>> /\ drain # "done" /\ UNCHANGED <<stop, closed>>
  BY DEF RunCallback
<1>3. ASSUME m.kind = "enqueue", Enqueue(m.of), UNCHANGED drain
      PROVE  UNCHANGED Port!vars
  <2>1. m.of \in Requests
    BY <1>3 DEF Callbacks
  <2>2. stage[m.of] = "posted"
    <3>1. inbox[1] = m /\ 1 \in DOMAIN inbox
      BY <1>1, <1>2 DEF IInv, TypeOK
    <3> QED BY <1>3, <3>1 DEF IInv, InboxSound
  <2>3. \A r \in Requests : PhaseOf(stage'[r]) = PhaseOf(stage[r])
    BY <1>3, <2>1, <2>2 DEF Enqueue, PhaseOf, IInv, TypeOK
  <2> QED BY <1>2, <1>3, <2>3, PortStutters
<1>4. ASSUME NEW R \in SUBSET Work, Cancel(R), UNCHANGED drain
      PROVE  Port!Next
  <2>1. PICK Q \in SUBSET Requests : Q = Rejectable(R)
    BY DEF Rejectable, Work
  <2>2. \A r \in Q : stage[r] = "queued"
    BY <2>1 DEF Rejectable
  <2>3. stage' = [r \in Requests |-> IF r \in Q THEN "settled" ELSE stage[r]]
    BY <1>4, <2>1, <2>2 DEF Cancel
  <2>4. TypeOK /\ \A r \in Q : stage[r] \in Outstanding
    BY <2>2 DEF IInv, Outstanding
  <2> QED BY <1>2, <1>4, <2>3, <2>4, PortSettles
<1>5. ASSUME m.kind = "drain", drain' = "waiting", UNCHANGED stage
      PROVE  UNCHANGED Port!vars
  <2>1. PortIs' = PortIs /\ Phase' = Phase
    BY <1>2, <1>5 DEF PortIs, Phase
  <2> QED BY <1>2, <2>1 DEF Port!vars, Phase, PhaseOf, PortIs
<1>6. \/ m.kind = "enqueue" /\ Enqueue(m.of) /\ UNCHANGED drain
      \/ Cancel({m.of} \cap Work) /\ UNCHANGED drain
      \/ Cancel(Work) /\ UNCHANGED drain
      \/ m.kind = "drain" /\ drain' = "waiting" /\ UNCHANGED stage
  BY <1>1 DEF RunCallback
<1>7. {m.of} \cap Work \in SUBSET Work /\ Work \in SUBSET Work
  OBVIOUS
<1> QED BY <1>3, <1>4, <1>5, <1>6, <1>7

LEMMA PortDrain ==
    ASSUME IInv, DrainDone
    PROVE  Port!Next
<1>1. /\ drain = "waiting" /\ drain' = "done" /\ closed /\ Work = {}
      /\ UNCHANGED <<stop, closed, stage>>
  BY DEF DrainDone, Drained, control, IInv, DrainSound
<1>2. \A r \in Requests : stage[r] \in {"new", "settled"}
  <2> SUFFICES ASSUME NEW r \in Requests PROVE stage[r] \in {"new", "settled"}
    OBVIOUS
  <2>1. stage[r] \in Stages /\ r \notin Work
    BY <1>1 DEF IInv, TypeOK
  <2>2. stage[r] # "posted"
    BY <1>1 DEF IInv, InboxSound
  <2> QED BY <2>1, <2>2 DEF Work, Stages, Outstanding, InFlight
<1>3. PortIs = "closing" /\ PortIs' = "shut" /\ Phase' = Phase
  BY <1>1 DEF PortIs, Phase
<1>4. Port!InPhase("accepted") \cup Port!InPhase("admitted") = {}
  BY <1>2 DEF Port!InPhase, InFlight
<1>5. Port!Shut
  BY <1>1, <1>3, <1>4 DEF Port!Shut, Phase, PhaseOf, PortIs
<1> QED BY <1>5 DEF Port!Next

LEMMA PortPump ==
    ASSUME IInv, Pump
    PROVE  Port!Next \/ UNCHANGED Port!vars
<1>1. CASE PumpRejects
  <2>1. PICK R \in SUBSET Requests : R = {r \in Requests : stage[r] = "queued"}
    OBVIOUS
  <2>2. stage' = [r \in Requests |-> IF r \in R THEN "settled" ELSE stage[r]]
        /\ UNCHANGED <<stop, closed, drain>>
    BY <1>1, <2>1 DEF PumpRejects, control
  <2>3. TypeOK /\ \A r \in R : stage[r] \in Outstanding
    BY <2>1 DEF IInv, Outstanding
  <2> QED BY <2>2, <2>3, PortSettles
<1>2. CASE PumpStarts
  <2>1. PICK i \in Turn : stage' = [stage EXCEPT ![Candidate(rotation[i])] = "created"]
                          \/ UNCHANGED stage
    BY <1>2 DEF PumpStarts
  <2>2. stage[Candidate(rotation[i])] = "queued"
    BY StartFinds
  <2>3. \A r \in Requests : PhaseOf(stage'[r]) = PhaseOf(stage[r])
    BY <2>1, <2>2 DEF PhaseOf, IInv, TypeOK
  <2> QED BY <1>2, <2>3, PortStutters DEF PumpStarts, control
<1>3. CASE PaceElapses
  BY <1>3, PortStutters DEF PaceElapses, control
<1>4. ASSUME NEW r \in Requests, BackoffElapses(r) PROVE UNCHANGED Port!vars
  BY <1>4, PortStutters DEF BackoffElapses, control
<1> QED BY <1>1, <1>2, <1>3, <1>4 DEF Pump

LEMMA PortTask ==
    ASSUME IInv, NEW r \in Requests, Task(r)
    PROVE  Port!Next \/ UNCHANGED Port!vars
<1>1. TypeOK /\ stage \in [Requests -> Stages]
  BY DEF IInv, TypeOK
<1>2. UNCHANGED <<closed, drain>>
  BY DEF Task, Enter, BeforeSend, WireStart, Redirect, Respond, CancelLands, TaskFrame
<1>3. ASSUME stage[r] \in Outstanding, stage' = [stage EXCEPT ![r] = "settled"],
             stop' \in {stop, TRUE}
      PROVE  Port!Next
  <2>1. \A s \in Requests : stage'[s] = IF s \in {r} THEN "settled" ELSE stage[s]
    BY <1>1, <1>3
  <2> QED BY <1>1, <1>2, <1>3, <2>1, PortSettles
<1>4. ASSUME NEW where \in InFlight, stage[r] \in InFlight,
             stage' = [stage EXCEPT ![r] = where], UNCHANGED stop
      PROVE  UNCHANGED Port!vars
  <2>1. \A s \in Requests : PhaseOf(stage'[s]) = PhaseOf(stage[s])
    BY <1>1, <1>4 DEF PhaseOf, InFlight
  <2> QED BY <1>2, <1>4, <2>1, PortStutters
<1>5. CASE Enter(r) /\ stage' = [stage EXCEPT ![r] = "prep"]
  <2>1. stage[r] = "created" /\ active < Cap /\ active = Cardinality(Admitted) /\ UNCHANGED stop
    BY <1>5 DEF Enter, IInv, EntrySound
  <2>2. Phase[r] = "accepted" /\ Phase' = [Phase EXCEPT ![r] = "admitted"] /\ PortIs' = PortIs
    BY <1>1, <1>2, <1>5, <2>1 DEF Phase, PhaseOf, PortIs, InFlight
  <2>3. \A s \in Requests : PhaseOf(stage[s]) = "admitted" <=> stage[s] \in InFlight
    BY <1>1 DEF PhaseOf, Stages, Outstanding, InFlight
  <2>4. Port!InPhase("admitted") = {s \in Requests : PhaseOf(stage[s]) = "admitted"}
    BY DEF Port!InPhase, PhaseOf
  <2>5. Port!InPhase("admitted") = Admitted
    BY <2>3, <2>4 DEF Admitted
  <2>6. Port!Cardinality(Port!InPhase("admitted")) < Cap
    BY <2>1, <2>5 DEF Cardinality, Port!Cardinality
  <2>7. Port!Admit(r)
    BY <2>1, <2>2, <2>6 DEF Port!Admit, Phase, PhaseOf, PortIs
  <2> QED BY <2>7 DEF Port!Next
<1>6. CASE Enter(r) /\ stage' = [stage EXCEPT ![r] = "settled"]
  BY <1>3, <1>6 DEF Enter, Outstanding
<1>7. CASE BeforeSend(r)
  <2>1. stage[r] = "prep"
    BY <1>7 DEF BeforeSend, Running
  <2> QED BY <1>3, <1>4, <1>7, <2>1 DEF BeforeSend, Leave, Outstanding, InFlight
<1>8. CASE WireStart(r)
  <2>1. stage[r] = "sent" /\ UNCHANGED stop
    BY <1>8 DEF WireStart, Running
  <2> QED BY <1>3, <1>4, <1>8, <2>1 DEF WireStart, Leave, Outstanding, InFlight
<1>9. CASE Redirect(r)
  BY <1>4, <1>9 DEF Redirect, Running, InFlight
<1>10. CASE Respond(r) \/ CancelLands(r)
  BY <1>3, <1>10 DEF Respond, CancelLands, Leave, Running, Outstanding
<1>11. Enter(r) => stage' \in {[stage EXCEPT ![r] = "prep"], [stage EXCEPT ![r] = "settled"]}
  BY DEF Enter
<1> QED BY <1>5, <1>6, <1>7, <1>8, <1>9, <1>10, <1>11 DEF Task

LEMMA PortStep == IInv /\ [Next]_vars => [Port!Next]_(Port!vars)
<1> SUFFICES ASSUME IInv, [Next]_vars PROVE Port!Next \/ UNCHANGED Port!vars
  OBVIOUS
<1>1. CASE UNCHANGED vars
  BY <1>1, PortStutters DEF vars, core, control, loop
<1>2. CASE Environment
  BY <1>2, PortEnvironment
<1>3. CASE Progress
  <2>1. ASSUME NEW r \in Requests, Task(r) PROVE Port!Next \/ UNCHANGED Port!vars
    BY <2>1, PortTask
  <2> QED BY <1>3, <2>1, PortCallback, PortDrain, PortPump DEF Progress
<1> QED BY <1>1, <1>2, <1>3 DEF Next

\* Every behaviour of the loop, its queues, tasks and callbacks is one of the port:
\* acceptance, admission under the cap, one settlement of each request, stopping,
\* closing and a shutdown with nothing outstanding, in the port's order.
THEOREM PortIsImplemented == Spec => Port!Init /\ [][Port!Next]_(Port!vars)
<1>1. Init => Port!Init
  BY PortInit
<1> QED BY <1>1, PortStep, InvariantHolds, PTL DEF Spec
=============================================================================
