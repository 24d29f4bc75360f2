-------------------------- MODULE StreamLimiter_proofs -------------------------
(***************************************************************************)
(* Theorems about StreamLimiter, for every finite set of requests, every    *)
(* set of threads, semaphores and operations, and every limit.              *)
(***************************************************************************)
EXTENDS StreamLimiter, FiniteSetTheorems, SequenceTheorems, TLAPS

----------------------------------------------------------------------------
(* Queues. *)

(* A queue without its i-th element. *)
LEMMA WithoutQueue ==
  ASSUME NEW S, NEW q \in Seq(S), NEW i \in 1 .. Len(q)
  PROVE  /\ Without(q, i) \in Seq(S)
         /\ Len(Without(q, i)) = Len(q) - 1
         /\ \A j \in 1 .. Len(q) - 1 :
              Without(q, i)[j] = IF j < i THEN q[j] ELSE q[j + 1]
<1> DEFINE a == SubSeq(q, 1, i - 1)
           b == SubSeq(q, i + 1, Len(q))
<1>1. /\ a \in Seq(S) /\ Len(a) = i - 1
      /\ \A j \in 1 .. i - 1 : a[j] = q[j]
  <2>1. \A j \in 1 .. i - 1 : q[j] \in S
    OBVIOUS
  <2>2. 1 \in Int /\ i - 1 \in Int
    OBVIOUS
  <2>3. /\ a \in Seq(S)
        /\ Len(a) = IF 1 <= i - 1 THEN (i - 1) - 1 + 1 ELSE 0
        /\ \A j \in 1 .. (i - 1) - 1 + 1 : a[j] = q[1 + j - 1]
    BY <2>1, <2>2, SubSeqProperties
  <2>4. ((i - 1) - 1) + 1 = i - 1
    OBVIOUS
  <2>5. (IF 1 <= i - 1 THEN (i - 1) - 1 + 1 ELSE 0) = i - 1
    OBVIOUS
  <2> HIDE DEF a
  <2> QED
    BY <2>3, <2>4, <2>5
<1>2. /\ b \in Seq(S) /\ Len(b) = Len(q) - i
      /\ \A j \in 1 .. Len(q) - i : b[j] = q[i + j]
  <2>1. \A j \in i + 1 .. Len(q) : q[j] \in S
    OBVIOUS
  <2>2. i + 1 \in Int /\ Len(q) \in Int
    OBVIOUS
  <2>3. /\ b \in Seq(S)
        /\ Len(b) = IF i + 1 <= Len(q) THEN Len(q) - (i + 1) + 1 ELSE 0
        /\ \A j \in 1 .. Len(q) - (i + 1) + 1 : b[j] = q[i + 1 + j - 1]
    BY <2>1, <2>2, SubSeqProperties
  <2> HIDE DEF b
  <2> QED
    BY <2>3
<1>3. Without(q, i) = a \o b
  BY DEF Without
<1> HIDE DEF a, b
<1>4. /\ a \o b \in Seq(S)
      /\ Len(a \o b) = Len(a) + Len(b)
      /\ \A j \in 1 .. Len(a) + Len(b) :
           (a \o b)[j] = IF j <= Len(a) THEN a[j] ELSE b[j - Len(a)]
  BY <1>1, <1>2, ConcatProperties
<1>5. ASSUME NEW j \in 1 .. Len(q) - 1
      PROVE  (a \o b)[j] = IF j < i THEN q[j] ELSE q[j + 1]
  <2>1. CASE j < i
    <3>1. j \in 1 .. i - 1 /\ j \in 1 .. Len(a) + Len(b) /\ j <= Len(a)
      BY <1>1, <1>2, <2>1
    <3>2. (a \o b)[j] = a[j] /\ a[j] = q[j]
      BY <1>1, <1>4, <3>1
    <3> QED
      BY <2>1, <3>2
  <2>2. CASE ~(j < i)
    <3>1. (a \o b)[j] = b[j - Len(a)]
      BY <1>1, <1>2, <1>4, <2>2
    <3>2. j - Len(a) \in 1 .. Len(q) - i /\ i + (j - Len(a)) = j + 1
      BY <1>1, <2>2
    <3>3. b[j - Len(a)] = q[j + 1]
      BY <1>2, <3>2
    <3> QED
      BY <2>2, <3>1, <3>3
  <2> QED
    BY <2>1, <2>2
<1> QED
  BY <1>1, <1>2, <1>3, <1>4, <1>5

(* A queue without its first element. *)
LEMMA TailQueue ==
  ASSUME NEW S, NEW q \in Seq(S), q # <<>>
  PROVE  /\ 1 \in 1 .. Len(q) /\ Head(q) = q[1] /\ Head(q) \in S
         /\ Tail(q) \in Seq(S)
         /\ Len(Tail(q)) = Len(q) - 1
         /\ \A j \in 1 .. Len(q) - 1 : Tail(q)[j] = q[j + 1]
  BY EmptySeq, HeadTailProperties

(* The first waiter leaves the queue. *)
LEMMA ListsTail ==
  ASSUME NEW S, NEW q \in Seq(S), NEW W, q # <<>>, Lists(q, W)
  PROVE  Head(q) \in W /\ Lists(Tail(q), W \ {Head(q)})
<1>1. /\ 1 \in 1 .. Len(q) /\ Head(q) = q[1]
      /\ Tail(q) \in Seq(S) /\ Len(Tail(q)) = Len(q) - 1
      /\ \A j \in 1 .. Len(q) - 1 : Tail(q)[j] = q[j + 1]
  BY TailQueue
<1>2. DOMAIN q = 1 .. Len(q) /\ DOMAIN Tail(q) = 1 .. Len(q) - 1
  BY <1>1
<1>3. Head(q) \in W
  BY <1>1, <1>2 DEF Lists
<1>4. ASSUME NEW i \in 1 .. Len(q) - 1
      PROVE  Tail(q)[i] \in W \ {Head(q)}
  <2>1. i + 1 \in 1 .. Len(q) /\ i + 1 # 1
    OBVIOUS
  <2>2. q[i + 1] \in W /\ q[i + 1] # q[1]
    BY <1>1, <1>2, <2>1 DEF Lists
  <2> QED
    BY <1>1, <2>2
<1>5. ASSUME NEW i \in 1 .. Len(q) - 1, NEW j \in 1 .. Len(q) - 1,
             Tail(q)[i] = Tail(q)[j]
      PROVE  i = j
  <2>1. q[i + 1] = q[j + 1]
    BY <1>1, <1>5
  <2>2. i + 1 \in 1 .. Len(q) /\ j + 1 \in 1 .. Len(q)
    OBVIOUS
  <2>3. i + 1 = j + 1
    BY <1>2, <2>1, <2>2 DEF Lists
  <2> QED
    BY <2>3
<1>6. ASSUME NEW r \in W \ {Head(q)}
      PROVE  \E i \in 1 .. Len(q) - 1 : Tail(q)[i] = r
  <2>1. PICK i \in 1 .. Len(q) : q[i] = r
    BY <1>2 DEF Lists
  <2>2. i # 1
    BY <1>1, <2>1
  <2>3. i - 1 \in 1 .. Len(q) - 1 /\ (i - 1) + 1 = i
    BY <2>2
  <2>4. Tail(q)[i - 1] = q[(i - 1) + 1]
    BY <1>1, <2>3
  <2> QED
    BY <2>1, <2>3, <2>4
<1> QED
  BY <1>2, <1>3, <1>4, <1>5, <1>6 DEF Lists

(* A waiter joins the queue. *)
LEMMA ListsAppend ==
  ASSUME NEW S, NEW q \in Seq(S), NEW W, NEW r \in S, r \notin W, Lists(q, W)
  PROVE  Append(q, r) \in Seq(S) /\ Lists(Append(q, r), W \cup {r})
<1>1. /\ Append(q, r) \in Seq(S)
      /\ DOMAIN q = 1 .. Len(q)
      /\ DOMAIN Append(q, r) = 1 .. Len(q) + 1
      /\ Append(q, r)[Len(q) + 1] = r
      /\ \A i \in 1 .. Len(q) : Append(q, r)[i] = q[i]
      /\ Len(q) \in Nat
  OBVIOUS
<1>2. \A i \in 1 .. Len(q) + 1 : i \in 1 .. Len(q) \/ i = Len(q) + 1
  BY <1>1
<1>3. \A i \in 1 .. Len(q) : q[i] \in W
  BY <1>1 DEF Lists
<1>4. \A i \in 1 .. Len(q) + 1 : Append(q, r)[i] \in W \cup {r}
  BY <1>1, <1>2, <1>3
<1>5. ASSUME NEW i \in 1 .. Len(q) + 1, NEW j \in 1 .. Len(q) + 1,
             Append(q, r)[i] = Append(q, r)[j]
      PROVE  i = j
  BY <1>1, <1>2, <1>3, <1>5 DEF Lists
<1>6. ASSUME NEW p \in W \cup {r}
      PROVE  \E i \in 1 .. Len(q) + 1 : Append(q, r)[i] = p
  <2>1. CASE p = r
    BY <1>1, <2>1
  <2>2. CASE p \in W
    <3>1. PICK i \in 1 .. Len(q) : q[i] = p
      BY <1>1, <2>2 DEF Lists
    <3>2. i \in 1 .. Len(q) + 1
      OBVIOUS
    <3> QED
      BY <1>1, <3>1, <3>2
  <2> QED
    BY <2>1, <2>2
<1> QED
  BY <1>1, <1>4, <1>5, <1>6 DEF Lists

(* A waiter gives up. *)
LEMMA ListsWithout ==
  ASSUME NEW S, NEW q \in Seq(S), NEW W, NEW i \in DOMAIN q, Lists(q, W)
  PROVE  Without(q, i) \in Seq(S) /\ Lists(Without(q, i), W \ {q[i]})
<1> DEFINE w == Without(q, i)
<1>1. i \in 1 .. Len(q) /\ DOMAIN q = 1 .. Len(q)
  OBVIOUS
<1>2. /\ w \in Seq(S) /\ Len(w) = Len(q) - 1
      /\ \A j \in 1 .. Len(q) - 1 : w[j] = IF j < i THEN q[j] ELSE q[j + 1]
  BY <1>1, WithoutQueue
<1> HIDE DEF w
<1>3. DOMAIN w = 1 .. Len(q) - 1
  BY <1>2
<1> DEFINE at(j) == IF j < i THEN j ELSE j + 1
<1>4. \A j \in 1 .. Len(q) - 1 :
        at(j) \in 1 .. Len(q) /\ at(j) # i /\ w[j] = q[at(j)]
  BY <1>1, <1>2
<1>5. \A j, k \in 1 .. Len(q) - 1 : at(j) = at(k) => j = k
  BY <1>1
<1>6. \A k \in 1 .. Len(q) : k # i => \E j \in 1 .. Len(q) - 1 : at(j) = k
  <2> SUFFICES ASSUME NEW k \in 1 .. Len(q), k # i
               PROVE  \E j \in 1 .. Len(q) - 1 : at(j) = k
    OBVIOUS
  <2>1. CASE k < i
    <3>1. k \in 1 .. Len(q) - 1 /\ at(k) = k
      BY <1>1, <2>1
    <3> QED
      BY <3>1
  <2>2. CASE ~(k < i)
    <3>1. k - 1 \in 1 .. Len(q) - 1 /\ at(k - 1) = k
      BY <1>1, <2>2
    <3> QED
      BY <3>1
  <2> QED
    BY <2>1, <2>2
<1> HIDE DEF at
<1>7. \A j \in 1 .. Len(q) - 1 : w[j] \in W \ {q[i]}
  BY <1>1, <1>4 DEF Lists
<1>8. \A j, k \in 1 .. Len(q) - 1 : w[j] = w[k] => j = k
  BY <1>1, <1>4, <1>5 DEF Lists
<1>9. ASSUME NEW r \in W \ {q[i]} PROVE \E j \in 1 .. Len(q) - 1 : w[j] = r
  <2>1. PICK k \in 1 .. Len(q) : q[k] = r
    BY <1>1 DEF Lists
  <2>2. k # i
    BY <2>1
  <2>3. PICK j \in 1 .. Len(q) - 1 : at(j) = k
    BY <1>6, <2>2
  <2> QED
    BY <1>4, <2>1, <2>3
<1> QED
  BY <1>2, <1>3, <1>7, <1>8, <1>9 DEF Lists, w

----------------------------------------------------------------------------
(* Holders of permits. *)

(* Holders of a semaphore are finitely many. *)
LEMMA HoldersFinite ==
  ASSUME NEW s
  PROVE  IsFiniteSet(Holders(s)) /\ Cardinality(Holders(s)) \in Nat
<1>1. Holders(s) \subseteq Request
  BY DEF Holders
<1> QED
  BY <1>1, LimiterAssumption, FS_Subset, FS_CardinalityType

(* At first no semaphore is in use. *)
LEMMA InitInv == Init => IInv
<1> SUFFICES ASSUME Init PROVE IInv
  OBVIOUS
<1>1. TypeOK
  <2>1. kind \in [Request -> {"get", "head", "bytes", "forward"}]
    BY LimiterAssumption DEF Init
  <2>2. permits \in [Sem -> 0 .. Max]
    BY LimiterAssumption DEF Init
  <2>3. waiters \in [Sem -> Seq(Request)]
    BY DEF Init
  <2> QED
    BY <2>1, <2>2, <2>3 DEF Init, TypeOK, Pcs
<1>2. QueueInv
  <2>1. \A s \in Sem : waiters[s] = <<>> /\ Waiting(s) = {}
    BY DEF Init, Waiting
  <2>2. Lists(<<>>, {})
    BY DEF Lists
  <2> QED
    BY <2>1, <2>2 DEF QueueInv
<1>3. MineInv
  BY DEF Init, MineInv
<1>4. \A s \in Sem : Holders(s) = {}
  BY DEF Init, Holders
<1>5. PermitsConserved
  <2>1. ASSUME NEW s \in Sem PROVE permits[s] + Cardinality(Holders(s)) = Max
    <3>1. permits[s] = Max
      BY DEF Init
    <3>2. Cardinality(Holders(s)) = 0
      BY <1>4, FS_EmptySet
    <3> QED
      BY <3>1, <3>2, LimiterAssumption
  <2> QED
    BY <2>1 DEF PermitsConserved
<1> QED
  BY <1>1, <1>2, <1>3, <1>5 DEF IInv

----------------------------------------------------------------------------
(* What a step does to one semaphore. *)

Kept(s) ==
  /\ Holders(s)' = Holders(s)
  /\ Waiting(s)' = Waiting(s)
  /\ waiters'[s] = waiters[s]
  /\ permits'[s] = permits[s]

Entered(s, r) ==
  /\ r \notin Holders(s) \cup Waiting(s)
  /\ permits[s] > 0
  /\ Holders(s)' = Holders(s) \cup {r}
  /\ Waiting(s)' = Waiting(s)
  /\ waiters'[s] = waiters[s]
  /\ permits'[s] = permits[s] - 1

Queued(s, r) ==
  /\ r \notin Holders(s) \cup Waiting(s)
  /\ permits[s] = 0
  /\ Holders(s)' = Holders(s)
  /\ Waiting(s)' = Waiting(s) \cup {r}
  /\ waiters'[s] = Append(waiters[s], r)
  /\ permits'[s] = permits[s]

Left(s, r) ==
  /\ r \in Holders(s)
  /\ waiters[s] = <<>>
  /\ Holders(s)' = Holders(s) \ {r}
  /\ Waiting(s)' = Waiting(s)
  /\ waiters'[s] = waiters[s]
  /\ permits'[s] = permits[s] + 1

HandedOver(s, r) ==
  /\ r \in Holders(s)
  /\ waiters[s] # <<>>
  /\ Holders(s)' = (Holders(s) \ {r}) \cup {Head(waiters[s])}
  /\ Waiting(s)' = Waiting(s) \ {Head(waiters[s])}
  /\ waiters'[s] = Tail(waiters[s])
  /\ permits'[s] = permits[s]

GaveUp(s, r) ==
  /\ Holders(s)' = Holders(s)
  /\ Waiting(s)' = Waiting(s) \ {r}
  /\ \E i \in DOMAIN waiters[s] :
       waiters[s][i] = r /\ waiters'[s] = Without(waiters[s], i)
  /\ permits'[s] = permits[s]

Effect(s) ==
  \/ Kept(s)
  \/ \E r \in Request :
       \/ Entered(s, r) \/ Queued(s, r) \/ Left(s, r)
       \/ HandedOver(s, r) \/ GaveUp(s, r)

(* Each of these effects keeps the queue in order. *)
LEMMA EffectKeepsQueue ==
  ASSUME IInv, NEW s \in Sem, Effect(s)
  PROVE  /\ waiters'[s] \in Seq(Request)
         /\ Lists(waiters'[s], Waiting(s)')
         /\ waiters'[s] # <<>> => permits'[s] = 0
<1>1. /\ waiters[s] \in Seq(Request) /\ permits[s] \in Nat
      /\ Lists(waiters[s], Waiting(s))
      /\ waiters[s] # <<>> => permits[s] = 0
  BY LimiterAssumption DEF IInv, TypeOK, QueueInv
<1>2. CASE Kept(s)
  BY <1>1, <1>2 DEF Kept
<1>3. ASSUME NEW r \in Request, Entered(s, r)
      PROVE  waiters'[s] = waiters[s] /\ Waiting(s)' = Waiting(s) /\ waiters[s] = <<>>
  BY <1>1, <1>3 DEF Entered
<1>4. ASSUME NEW r \in Request, Queued(s, r)
      PROVE  /\ waiters'[s] \in Seq(Request)
             /\ Lists(waiters'[s], Waiting(s)') /\ permits'[s] = 0
  <2>1. r \notin Waiting(s)
    BY <1>4 DEF Queued
  <2>2. /\ Append(waiters[s], r) \in Seq(Request)
        /\ Lists(Append(waiters[s], r), Waiting(s) \cup {r})
    BY <1>1, <2>1, ListsAppend
  <2> QED
    BY <1>4, <2>2 DEF Queued
<1>5. ASSUME NEW r \in Request, Left(s, r)
      PROVE  waiters'[s] = waiters[s] /\ Waiting(s)' = Waiting(s) /\ waiters[s] = <<>>
  BY <1>5 DEF Left
<1>6. ASSUME NEW r \in Request, HandedOver(s, r)
      PROVE  /\ waiters'[s] \in Seq(Request)
             /\ Lists(waiters'[s], Waiting(s)') /\ permits'[s] = 0
  <2>1. Tail(waiters[s]) \in Seq(Request)
    BY <1>1, <1>6, TailQueue DEF HandedOver
  <2>2. Lists(Tail(waiters[s]), Waiting(s) \ {Head(waiters[s])})
    BY <1>1, <1>6, ListsTail DEF HandedOver
  <2> QED
    BY <1>1, <1>6, <2>1, <2>2 DEF HandedOver
<1>7. ASSUME NEW r \in Request, GaveUp(s, r)
      PROVE  /\ waiters'[s] \in Seq(Request)
             /\ Lists(waiters'[s], Waiting(s)') /\ permits'[s] = 0
  <2>1. PICK i \in DOMAIN waiters[s] :
          waiters[s][i] = r /\ waiters'[s] = Without(waiters[s], i)
    BY <1>7 DEF GaveUp
  <2>2. /\ Without(waiters[s], i) \in Seq(Request)
        /\ Lists(Without(waiters[s], i), Waiting(s) \ {waiters[s][i]})
    BY <1>1, ListsWithout
  <2>3. waiters[s] # <<>>
    BY <1>1, EmptySeq
  <2> QED
    BY <1>1, <1>7, <2>1, <2>2, <2>3 DEF GaveUp
<1> QED
  BY <1>1, <1>2, <1>3, <1>4, <1>5, <1>6, <1>7 DEF Effect

(* Each of these effects conserves the permits. *)
LEMMA EffectConserves ==
  ASSUME IInv, NEW s \in Sem, Effect(s)
  PROVE  /\ permits'[s] \in 0 .. Max
         /\ permits'[s] + Cardinality(Holders(s)') = Max
<1> DEFINE H == Holders(s)
<1>1. /\ permits[s] \in 0 .. Max /\ permits[s] + Cardinality(H) = Max
      /\ Max \in Nat
  BY LimiterAssumption DEF IInv, TypeOK, PermitsConserved
<1>2. IsFiniteSet(H) /\ Cardinality(H) \in Nat
  BY HoldersFinite
<1>3. \A r : r \notin H => Cardinality(H \cup {r}) = Cardinality(H) + 1
  BY <1>2, FS_AddElement
<1>4. \A r \in H : /\ IsFiniteSet(H \ {r}) /\ Cardinality(H \ {r}) \in Nat
                   /\ Cardinality(H \ {r}) = Cardinality(H) - 1
  BY <1>2, FS_RemoveElement, FS_CardinalityType
<1>5. CASE Kept(s)
  BY <1>1, <1>5 DEF Kept
<1>6. ASSUME NEW r \in Request, Entered(s, r)
      PROVE  permits'[s] \in 0 .. Max /\ permits'[s] + Cardinality(Holders(s)') = Max
  <2>1. Cardinality(Holders(s)') = Cardinality(H) + 1
    BY <1>3, <1>6 DEF Entered
  <2>2. permits'[s] = permits[s] - 1 /\ permits[s] > 0
    BY <1>6 DEF Entered
  <2> HIDE DEF H
  <2> QED
    BY <1>1, <1>2, <2>1, <2>2
<1>7. ASSUME NEW r \in Request, Left(s, r)
      PROVE  permits'[s] \in 0 .. Max /\ permits'[s] + Cardinality(Holders(s)') = Max
  <2>1. /\ Cardinality(Holders(s)') = Cardinality(H) - 1
        /\ Cardinality(Holders(s)') \in Nat
    BY <1>4, <1>7 DEF Left
  <2>2. permits'[s] = permits[s] + 1
    BY <1>7 DEF Left
  <2> HIDE DEF H
  <2> QED
    BY <1>1, <1>2, <2>1, <2>2
<1>8. ASSUME NEW r \in Request, HandedOver(s, r)
      PROVE  permits'[s] = permits[s] /\ Cardinality(Holders(s)') = Cardinality(H)
  <2> DEFINE h == Head(waiters[s])
  <2>1. h \in Waiting(s)
    BY <1>8, ListsTail DEF IInv, TypeOK, QueueInv, HandedOver
  <2>2. h \notin H \ {r}
    BY <2>1 DEF Waiting, Holders
  <2>3. Cardinality((H \ {r}) \cup {h}) = Cardinality(H \ {r}) + 1
    BY <1>4, <1>8, <2>2, FS_AddElement DEF HandedOver
  <2>4. Cardinality(H \ {r}) = Cardinality(H) - 1
    BY <1>4, <1>8 DEF HandedOver
  <2>5. Holders(s)' = (H \ {r}) \cup {h} /\ permits'[s] = permits[s]
    BY <1>8 DEF HandedOver
  <2> HIDE DEF H, h
  <2> QED
    BY <1>2, <2>3, <2>4, <2>5
<1>9. ASSUME NEW r \in Request, Queued(s, r) \/ GaveUp(s, r)
      PROVE  permits'[s] = permits[s] /\ Holders(s)' = H
  BY <1>9 DEF Queued, GaveUp
<1> QED
  BY <1>1, <1>5, <1>6, <1>7, <1>8, <1>9 DEF Effect
----------------------------------------------------------------------------
(* Every step has one of these effects on every semaphore. *)

(* A step that moves request r, which neither holds nor waits for a permit  *)
(* before or after it, and touches no semaphore.                            *)
LEMMA QuietStep ==
  ASSUME IInv, NEW r \in Request,
         permits' = permits, waiters' = waiters, kind' = kind,
         \A q \in Request : q # r => mine'[q] = mine[q] /\ pc'[q] = pc[q],
         \A s \in Sem : /\ (r \in Holders(s)' <=> r \in Holders(s))
                       /\ (r \in Waiting(s)' <=> r \in Waiting(s))
  PROVE  \A s \in Sem : Effect(s)
<1> SUFFICES ASSUME NEW s \in Sem PROVE Kept(s)
  BY DEF Effect
<1>1. \A q \in Request : q \in Holders(s)' <=> q \in Holders(s)
  BY DEF Holders
<1>2. \A q \in Request : q \in Waiting(s)' <=> q \in Waiting(s)
  BY DEF Waiting
<1>3. /\ Holders(s) \subseteq Request /\ Waiting(s) \subseteq Request
      /\ Holders(s)' \subseteq Request /\ Waiting(s)' \subseteq Request
  BY DEF Holders, Waiting
<1> QED
  BY <1>1, <1>2, <1>3 DEF Kept

(* A holder drops its permit. *)
LEMMA ReleaseEffect ==
  ASSUME IInv, NEW r \in Request, NEW to \in {"done", "body"},
         mine[r] \in Sem, r \in Holders(mine[r]),
         to = "body" => kind[r] # "get",
         ReleasePermit(r, to), kind' = kind, mine' = mine
  PROVE  /\ \A s \in Sem : Effect(s)
         /\ permits' = [s \in Sem |-> permits'[s]]
         /\ waiters' = [s \in Sem |-> waiters'[s]]
         /\ pc' \in [Request -> Pcs]
<1> DEFINE m == mine[r]
           h == Head(waiters[m])
<1>1. /\ permits \in [Sem -> 0 .. Max] /\ waiters \in [Sem -> Seq(Request)]
      /\ pc \in [Request -> Pcs] /\ to \in Pcs
  BY DEF IInv, TypeOK, Pcs
<1>2. pc[r] # "queued"
  BY DEF Holders
<1>3. CASE waiters[m] = <<>>
  <2>1. /\ permits' = [permits EXCEPT ![m] = @ + 1] /\ waiters' = waiters
        /\ pc' = [pc EXCEPT ![r] = to]
    BY <1>3 DEF ReleasePermit, Goto
  <2>2. ASSUME NEW s \in Sem, s # m PROVE Kept(s)
    <3>1. Holders(s)' = Holders(s) /\ Waiting(s)' = Waiting(s)
      BY <1>1, <2>1, <2>2 DEF Holders, Waiting
    <3> QED
      BY <1>1, <2>1, <2>2, <3>1 DEF Kept
  <2>3. Left(m, r)
    <3>1. Holders(m)' = Holders(m) \ {r}
      BY <1>1, <2>1 DEF Holders
    <3>2. Waiting(m)' = Waiting(m)
      BY <1>1, <1>2, <2>1 DEF Waiting
    <3> QED
      BY <1>1, <1>3, <2>1, <3>1, <3>2 DEF Left
  <2>4. \A s \in Sem : Effect(s)
    BY <2>2, <2>3 DEF Effect
  <2> QED
    BY <1>1, <2>1, <2>4
<1>4. CASE waiters[m] # <<>>
  <2>1. /\ permits' = permits /\ waiters' = [waiters EXCEPT ![m] = Tail(@)]
        /\ pc' = [pc EXCEPT ![r] = to, ![h] = "granted"]
    BY <1>4 DEF ReleasePermit, Goto
  <2>2. h \in Waiting(m)
    BY <1>1, <1>4, ListsTail DEF IInv, QueueInv
  <2>3. h \in Request /\ h # r /\ mine[h] = m /\ pc[h] = "queued"
    BY <1>2, <2>2 DEF Waiting
  <2>4. /\ pc'[r] = to /\ pc'[h] = "granted"
        /\ \A q \in Request : q # r /\ q # h => pc'[q] = pc[q]
    BY <1>1, <2>1, <2>3
  <2> HIDE DEF h
  <2>5. ASSUME NEW s \in Sem, s # m PROVE Kept(s)
    <3>1. Holders(s)' = Holders(s) /\ Waiting(s)' = Waiting(s)
      BY <2>3, <2>4, <2>5 DEF Holders, Waiting
    <3> QED
      BY <1>1, <2>1, <2>5, <3>1 DEF Kept
  <2>6. HandedOver(m, r)
    <3>1. Holders(m)' = (Holders(m) \ {r}) \cup {h}
      BY <2>3, <2>4 DEF Holders
    <3>2. Waiting(m)' = Waiting(m) \ {h}
      BY <1>2, <2>3, <2>4 DEF Waiting
    <3> QED
      BY <1>1, <1>4, <2>1, <3>1, <3>2 DEF HandedOver, h
  <2>7. \A s \in Sem : Effect(s)
    BY <2>5, <2>6 DEF Effect
  <2>8. pc' \in [Request -> Pcs]
    BY <1>1, <2>1 DEF Pcs
  <2> QED
    BY <1>1, <2>1, <2>7, <2>8
<1> QED
  BY <1>3, <1>4

(* Acquire_owned is polled for the first time. *)
LEMMA AcquireEffect ==
  ASSUME IInv, NEW r \in Request, Acquire(r)
  PROVE  /\ \A s \in Sem : Effect(s)
         /\ permits' = [s \in Sem |-> permits'[s]]
         /\ waiters' = [s \in Sem |-> waiters'[s]]
         /\ pc' \in [Request -> Pcs]
<1> DEFINE m == mine[r]
<1>1. /\ permits \in [Sem -> 0 .. Max] /\ waiters \in [Sem -> Seq(Request)]
      /\ pc \in [Request -> Pcs]
  BY DEF IInv, TypeOK
<1>2. m \in Sem /\ pc[r] = "acquire"
  BY DEF Acquire, IInv, MineInv
<1>3. r \notin Holders(m) \cup Waiting(m)
  BY <1>2 DEF Holders, Waiting
<1>4. kind' = kind /\ mine' = mine
  BY DEF Acquire
<1>5. CASE permits[m] > 0
  <2>1. /\ permits' = [permits EXCEPT ![m] = @ - 1] /\ waiters' = waiters
        /\ pc' = [pc EXCEPT ![r] = "headers"]
    BY <1>1, <1>2, <1>5 DEF Acquire, Goto
  <2>2. ASSUME NEW s \in Sem, s # m PROVE Kept(s)
    <3>1. Holders(s)' = Holders(s) /\ Waiting(s)' = Waiting(s)
      BY <1>1, <1>4, <2>1, <2>2 DEF Holders, Waiting
    <3> QED
      BY <1>1, <2>1, <2>2, <3>1 DEF Kept
  <2>3. Entered(m, r)
    <3>1. Holders(m)' = Holders(m) \cup {r}
      BY <1>1, <1>4, <2>1 DEF Holders
    <3>2. Waiting(m)' = Waiting(m)
      BY <1>1, <1>2, <1>4, <2>1 DEF Waiting
    <3> QED
      BY <1>1, <1>2, <1>3, <1>5, <2>1, <3>1, <3>2 DEF Entered
  <2>4. \A s \in Sem : Effect(s)
    BY <2>2, <2>3 DEF Effect
  <2> QED
    BY <1>1, <2>1, <2>4 DEF Pcs
<1>6. CASE permits[m] = 0
  <2>1. /\ permits' = permits /\ waiters' = [waiters EXCEPT ![m] = Append(@, r)]
        /\ pc' = [pc EXCEPT ![r] = "queued"]
    BY <1>1, <1>2, <1>6 DEF Acquire, Goto
  <2>2. ASSUME NEW s \in Sem, s # m PROVE Kept(s)
    <3>1. Holders(s)' = Holders(s) /\ Waiting(s)' = Waiting(s)
      BY <1>1, <1>4, <2>1, <2>2 DEF Holders, Waiting
    <3> QED
      BY <1>1, <2>1, <2>2, <3>1 DEF Kept
  <2>3. Queued(m, r)
    <3>1. Holders(m)' = Holders(m)
      BY <1>1, <1>2, <1>4, <2>1 DEF Holders
    <3>2. Waiting(m)' = Waiting(m) \cup {r}
      BY <1>1, <1>4, <2>1 DEF Waiting
    <3> QED
      BY <1>1, <1>2, <1>3, <1>6, <2>1, <3>1, <3>2 DEF Queued
  <2>4. \A s \in Sem : Effect(s)
    BY <2>2, <2>3 DEF Effect
  <2> QED
    BY <1>1, <2>1, <2>4 DEF Pcs
<1> QED
  BY <1>1, <1>2, <1>5, <1>6

(* A waiting handler is dropped. *)
LEMMA DropQueuedEffect ==
  ASSUME IInv, NEW r \in Request, DropQueued(r)
  PROVE  /\ \A s \in Sem : Effect(s)
         /\ permits' = [s \in Sem |-> permits'[s]]
         /\ waiters' = [s \in Sem |-> waiters'[s]]
         /\ pc' \in [Request -> Pcs]
<1> DEFINE m == mine[r]
<1>1. /\ permits \in [Sem -> 0 .. Max] /\ waiters \in [Sem -> Seq(Request)]
      /\ pc \in [Request -> Pcs]
  BY DEF IInv, TypeOK
<1>2. m \in Sem /\ pc[r] = "queued"
  BY DEF DropQueued, IInv, MineInv
<1>3. PICK i \in DOMAIN waiters[m] :
        /\ waiters[m][i] = r
        /\ waiters' = [waiters EXCEPT ![m] = Without(@, i)]
  BY DEF DropQueued
<1>4. /\ kind' = kind /\ mine' = mine /\ permits' = permits
      /\ pc' = [pc EXCEPT ![r] = "done"]
  BY DEF DropQueued, Goto
<1>5. ASSUME NEW s \in Sem, s # m PROVE Kept(s)
  <2>1. Holders(s)' = Holders(s) /\ Waiting(s)' = Waiting(s)
    BY <1>1, <1>4, <1>5 DEF Holders, Waiting
  <2> QED
    BY <1>1, <1>3, <1>4, <1>5, <2>1 DEF Kept
<1>6. GaveUp(m, r)
  <2>1. Holders(m)' = Holders(m)
    BY <1>1, <1>2, <1>4 DEF Holders
  <2>2. Waiting(m)' = Waiting(m) \ {r}
    BY <1>1, <1>4 DEF Waiting
  <2>3. waiters'[m] = Without(waiters[m], i)
    BY <1>1, <1>2, <1>3
  <2> QED
    BY <1>3, <1>4, <2>1, <2>2, <2>3 DEF GaveUp
<1>7. \A s \in Sem : Effect(s)
  BY <1>5, <1>6 DEF Effect
<1> QED
  BY <1>1, <1>3, <1>4, <1>7 DEF Pcs

(* No step changes what a request's operation is; each step has an effect   *)
(* on every semaphore, and its variables keep their types.                  *)
LEMMA StepEffect ==
  ASSUME IInv, NEW r \in Request, Step(r)
  PROVE  /\ \A s \in Sem : Effect(s)
         /\ permits' = [s \in Sem |-> permits'[s]]
         /\ waiters' = [s \in Sem |-> waiters'[s]]
         /\ pc' \in [Request -> Pcs]
         /\ mine' \in [Request -> Sem \cup {None}]
         /\ entry' \in Sem \cup {None}
         /\ MineInv'
<1>1. /\ permits = [s \in Sem |-> permits[s]]
      /\ waiters = [s \in Sem |-> waiters[s]]
      /\ pc \in [Request -> Pcs]
      /\ mine \in [Request -> Sem \cup {None}]
      /\ kind \in [Request -> {"get", "head", "bytes", "forward"}]
      /\ entry \in Sem \cup {None}
      /\ None \notin Sem
  BY LimiterAssumption DEF IInv, TypeOK
<1>2. MineInv
  BY DEF IInv
<1> DEFINE Done ==
      /\ \A s \in Sem : Effect(s)
      /\ permits' = [s \in Sem |-> permits'[s]]
      /\ waiters' = [s \in Sem |-> waiters'[s]]
      /\ pc' \in [Request -> Pcs]
      /\ mine' \in [Request -> Sem \cup {None}]
      /\ entry' \in Sem \cup {None}
      /\ MineInv'
<1>3. CASE Start(r)
  <2>1. /\ pc[r] = "idle" /\ UNCHANGED <<entry, permits, waiters, kind, mine>>
        /\ pc' = [pc EXCEPT ![r] = IF kind[r] = "forward" THEN "headers" ELSE "lookup"]
    BY <1>3 DEF Start, Goto
  <2>2. /\ \A q \in Request : q # r => pc'[q] = pc[q]
        /\ pc'[r] = IF kind[r] = "forward" THEN "headers" ELSE "lookup"
        /\ pc' \in [Request -> Pcs]
    BY <1>1, <2>1 DEF Pcs
  <2>3. MineInv'
    BY <1>1, <1>2, <2>1, <2>2 DEF MineInv
  <2>4. mine[r] = None
    BY <1>2, <2>1 DEF MineInv
  <2>5. \A s \in Sem : Effect(s)
    BY <1>1, <2>1, <2>2, <2>4, QuietStep DEF Holders, Waiting
  <2> QED
    BY <1>1, <2>1, <2>2, <2>3, <2>5
<1>4. CASE Lookup(r)
  <2>1. /\ pc[r] = "lookup" /\ UNCHANGED <<entry, permits, waiters, kind>>
        /\ pc' = [pc EXCEPT ![r] = IF entry = None THEN "insert" ELSE "acquire"]
        /\ mine' = [mine EXCEPT ![r] = entry]
    BY <1>4 DEF Lookup, Goto
  <2>2. /\ \A q \in Request : q # r => pc'[q] = pc[q] /\ mine'[q] = mine[q]
        /\ pc'[r] = IF entry = None THEN "insert" ELSE "acquire"
        /\ mine'[r] = entry
        /\ pc' \in [Request -> Pcs]
        /\ mine' \in [Request -> Sem \cup {None}]
    BY <1>1, <2>1 DEF Pcs
  <2>3. MineInv'
    BY <1>1, <1>2, <2>1, <2>2 DEF MineInv
  <2>4. \A s \in Sem : Effect(s)
    BY <1>1, <2>1, <2>2, QuietStep DEF Holders, Waiting
  <2> QED
    BY <1>1, <2>1, <2>2, <2>3, <2>4
<1>5. CASE Insert(r)
  <2>1. /\ pc[r] = "insert" /\ UNCHANGED <<permits, waiters, kind>>
        /\ pc' = [pc EXCEPT ![r] = "acquire"]
    BY <1>5 DEF Insert, Goto
  <2>2. PICK t \in Sem : entry' = t /\ mine' = [mine EXCEPT ![r] = t]
    BY <1>5 DEF Insert
  <2>3. /\ \A q \in Request : q # r => pc'[q] = pc[q] /\ mine'[q] = mine[q]
        /\ pc'[r] = "acquire" /\ mine'[r] = t
        /\ pc' \in [Request -> Pcs]
        /\ mine' \in [Request -> Sem \cup {None}]
    BY <1>1, <2>1, <2>2 DEF Pcs
  <2>4. MineInv'
    BY <1>1, <1>2, <2>1, <2>3 DEF MineInv
  <2>5. \A s \in Sem : Effect(s)
    BY <1>1, <2>1, <2>3, QuietStep DEF Holders, Waiting
  <2> QED
    BY <1>1, <2>1, <2>2, <2>3, <2>4, <2>5
<1>6. CASE Acquire(r)
  <2>1. /\ pc[r] = "acquire" /\ UNCHANGED <<entry, kind, mine>>
        /\ \E to \in {"headers", "queued"} : pc' = [pc EXCEPT ![r] = to]
    BY <1>6 DEF Acquire, Goto
  <2>2. mine[r] \in Sem /\ kind[r] # "forward"
    BY <1>2, <2>1 DEF MineInv
  <2>3. MineInv'
    BY <1>1, <1>2, <2>1, <2>2 DEF MineInv
  <2> QED
    BY <1>1, <1>6, <2>1, <2>3, AcquireEffect
<1>7. CASE Granted(r)
  <2>1. /\ pc[r] = "granted" /\ UNCHANGED <<entry, permits, waiters, kind, mine>>
        /\ pc' = [pc EXCEPT ![r] = "headers"]
    BY <1>7 DEF Granted, Goto
  <2>2. /\ \A q \in Request : q # r => pc'[q] = pc[q]
        /\ pc'[r] = "headers" /\ pc' \in [Request -> Pcs]
    BY <1>1, <2>1 DEF Pcs
  <2>3. MineInv'
    BY <1>1, <1>2, <2>1, <2>2 DEF MineInv
  <2>4. \A s \in Sem : Effect(s)
    BY <1>1, <2>1, <2>2, QuietStep DEF Holders, Waiting
  <2> QED
    BY <1>1, <2>1, <2>2, <2>3, <2>4
<1>8. CASE DropQueued(r)
  <2>1. /\ pc[r] = "queued" /\ UNCHANGED <<entry, kind, mine>>
        /\ pc' = [pc EXCEPT ![r] = "done"]
    BY <1>8 DEF DropQueued, Goto
  <2>2. MineInv'
    BY <1>1, <1>2, <2>1 DEF MineInv
  <2> QED
    BY <1>1, <1>8, <2>1, <2>2, DropQueuedEffect
<1>9. ASSUME NEW to \in {"done", "body"}, ReleasePermit(r, to),
             UNCHANGED <<entry, kind, mine>>,
             \/ pc[r] \in {"granted", "headers"}
             \/ pc[r] = "body" /\ kind[r] = "get",
             kind[r] # "forward",
             to = "body" => kind[r] # "get"
      PROVE  Done
  <2>1. mine[r] \in Sem /\ r \in Holders(mine[r])
    BY <1>2, <1>9 DEF MineInv, Holders
  <2>2. /\ \A s \in Sem : Effect(s)
        /\ permits' = [s \in Sem |-> permits'[s]]
        /\ waiters' = [s \in Sem |-> waiters'[s]]
        /\ pc' \in [Request -> Pcs]
    BY <1>9, <2>1, ReleaseEffect
  <2>3. \A q \in Request :
          \/ pc'[q] = pc[q]
          \/ pc'[q] = to /\ q = r
          \/ pc'[q] = "granted" /\ pc[q] = "queued"
    <3>1. CASE waiters[mine[r]] = <<>>
      BY <1>1, <1>9, <3>1 DEF ReleasePermit, Goto
    <3>2. CASE waiters[mine[r]] # <<>>
      <4>1. Head(waiters[mine[r]]) \in Waiting(mine[r])
        BY <2>1, <3>2, ListsTail DEF IInv, TypeOK, QueueInv
      <4>2. pc[Head(waiters[mine[r]])] = "queued"
        BY <4>1 DEF Waiting
      <4>3. pc' = [pc EXCEPT ![r] = to, ![Head(waiters[mine[r]])] = "granted"]
        BY <1>9, <3>2 DEF ReleasePermit, Goto
      <4> QED
        BY <1>1, <4>2, <4>3
    <3> QED
      BY <3>1, <3>2
  <2>4. MineInv'
    BY <1>1, <1>2, <1>9, <2>1, <2>3 DEF MineInv
  <2> QED
    BY <1>1, <1>9, <2>2, <2>4
<1>10. ASSUME NEW to \in {"done", "body"}, Goto(r, to),
              UNCHANGED <<entry, permits, waiters, kind, mine>>,
              \/ /\ pc[r] = "headers" /\ kind[r] = "forward"
              \/ /\ pc[r] = "headers" /\ kind[r] = "get" /\ to = "body"
              \/ /\ pc[r] = "body" /\ kind[r] # "get" /\ to = "done"
       PROVE  Done
  <2>1. /\ \A q \in Request : q # r => pc'[q] = pc[q]
        /\ pc'[r] = to /\ pc' \in [Request -> Pcs]
    BY <1>1, <1>10 DEF Goto, Pcs
  <2>2. MineInv'
    BY <1>1, <1>2, <1>10, <2>1 DEF MineInv
  <2>3. \A s \in Sem : (r \in Holders(s)' <=> r \in Holders(s))
                     /\ (r \in Waiting(s)' <=> r \in Waiting(s))
    BY <1>1, <1>2, <1>10, <2>1 DEF MineInv, Holders, Waiting
  <2>4. \A s \in Sem : Effect(s)
    BY <1>10, <2>1, <2>3, QuietStep
  <2> QED
    BY <1>1, <1>10, <2>1, <2>2, <2>4
<1>11. CASE HeadersArrive(r)
  BY <1>1, <1>2, <1>9, <1>10, <1>11 DEF HeadersArrive
<1>12. CASE RequestFails(r)
  BY <1>9, <1>10, <1>12 DEF RequestFails
<1>13. CASE BodyEnds(r)
  BY <1>1, <1>9, <1>10, <1>13 DEF BodyEnds
<1>14. CASE DropGranted(r)
  <2>1. kind[r] # "forward" /\ pc[r] = "granted"
    BY <1>2, <1>14 DEF DropGranted, MineInv
  <2> QED
    BY <1>9, <1>14, <2>1 DEF DropGranted
<1> QED
  BY <1>3, <1>4, <1>5, <1>6, <1>7, <1>8, <1>11, <1>12, <1>13, <1>14 DEF Step

(* The invariant is inductive. *)
LEMMA NextInv == IInv /\ [Next]_vars => IInv'
<1> SUFFICES ASSUME IInv, [Next]_vars PROVE IInv'
  OBVIOUS
<1>1. ASSUME NEW r \in Request, Step(r) PROVE IInv'
  <2>1. /\ \A s \in Sem : Effect(s)
        /\ permits' = [s \in Sem |-> permits'[s]]
        /\ waiters' = [s \in Sem |-> waiters'[s]]
        /\ pc' \in [Request -> Pcs]
        /\ mine' \in [Request -> Sem \cup {None}]
        /\ entry' \in Sem \cup {None}
        /\ MineInv'
    BY <1>1, StepEffect
  <2>2. QueueInv' /\ \A s \in Sem : waiters'[s] \in Seq(Request)
    BY <2>1, EffectKeepsQueue DEF QueueInv
  <2>3. PermitsConserved' /\ \A s \in Sem : permits'[s] \in 0 .. Max
    BY <2>1, EffectConserves DEF PermitsConserved
  <2>4. kind' = kind /\ thread' = thread
    BY <1>1 DEF Step, Start, Lookup, Insert, Acquire, Granted, HeadersArrive,
                RequestFails, BodyEnds, DropQueued, DropGranted
  <2>5. permits' \in [Sem -> 0 .. Max]
    BY <2>1, <2>3
  <2>6. waiters' \in [Sem -> Seq(Request)]
    BY <2>1, <2>2
  <2>7. TypeOK'
    BY <2>1, <2>4, <2>5, <2>6 DEF IInv, TypeOK
  <2> QED
    BY <2>1, <2>2, <2>3, <2>7 DEF IInv
<1>2. CASE UNCHANGED vars
  BY <1>2, ZenonT(60) DEF IInv, TypeOK, QueueInv, MineInv, PermitsConserved, Holders,
              Waiting, Pcs, vars
<1> QED
  BY <1>1, <1>2 DEF Next

----------------------------------------------------------------------------
(* Results. *)

(* The variables keep their types: in particular a semaphore never has more *)
(* than its Max permits, so no path gives one back that it did not take.    *)
THEOREM TypeCorrect == Spec => []TypeOK
<1>1. IInv => TypeOK
  BY DEF IInv
<1> QED
  BY <1>1, InitInv, NextInv, PTL DEF Spec

(* Permits that are held and permits that are left are always Max: nothing  *)
(* that happens to an upstream request loses one.                           *)
THEOREM PermitsStayConserved == Spec => []PermitsConserved
<1>1. IInv => PermitsConserved
  BY DEF IInv
<1> QED
  BY <1>1, InitInv, NextInv, PTL DEF Spec

(* Initially the watched semaphore's slots are free. *)
LEMMA SlotsInit == Init => Slots!Init
  BY DEF Init, Slots!Init, Holders, Waiting

(* An effect on the watched semaphore is a step of HostSlots or none. *)
LEMMA SlotsStep ==
  ASSUME IInv, Effect(Watched)
  PROVE  [Slots!Next]_<<Holders(Watched), Waiting(Watched)>>
<1>1. /\ permits[Watched] \in Nat
      /\ permits[Watched] + Cardinality(Holders(Watched)) = Max
      /\ Cardinality(Holders(Watched)) \in Nat /\ Max \in Nat
      /\ waiters[Watched] \in Seq(Request)
      /\ Lists(waiters[Watched], Waiting(Watched))
  BY LimiterAssumption, HoldersFinite DEF IInv, TypeOK, QueueInv, PermitsConserved
<1>2. Slots!Full <=> permits[Watched] = 0
  <2>1. Slots!Cardinality(Holders(Watched)) = Cardinality(Holders(Watched))
    BY DEF Slots!Cardinality, Cardinality
  <2> HIDE DEF Holders
  <2> QED
    BY <1>1, <2>1 DEF Slots!Full
<1>3. CASE Kept(Watched)
  BY <1>3 DEF Kept
<1>4. ASSUME NEW r \in Request, Entered(Watched, r) PROVE Slots!Next
  <2>1. Slots!Enter(r)
    BY <1>1, <1>2, <1>4 DEF Entered, Slots!Enter
  <2> QED
    BY <2>1 DEF Slots!Next
<1>5. ASSUME NEW r \in Request, Queued(Watched, r) PROVE Slots!Next
  <2>1. Slots!Wait(r)
    BY <1>2, <1>5 DEF Queued, Slots!Wait
  <2> QED
    BY <2>1 DEF Slots!Next
<1>6. ASSUME NEW r \in Request, Left(Watched, r) PROVE Slots!Next
  <2>1. Waiting(Watched) = {}
    BY <1>1, <1>6 DEF Left, Lists
  <2>2. Slots!Leave(r)
    BY <1>6, <2>1 DEF Left, Slots!Leave
  <2> QED
    BY <2>2 DEF Slots!Next
<1>7. ASSUME NEW r \in Request, HandedOver(Watched, r) PROVE Slots!Next
  <2>1. Head(waiters[Watched]) \in Waiting(Watched)
    BY <1>1, <1>7, ListsTail DEF HandedOver
  <2>2. Slots!HandOver(r, Head(waiters[Watched]))
    BY <1>7, <2>1 DEF HandedOver, Slots!HandOver
  <2>3. Head(waiters[Watched]) \in Request
    BY <2>1 DEF Waiting
  <2> QED
    BY <2>2, <2>3 DEF Slots!Next
<1>8. ASSUME NEW r \in Request, GaveUp(Watched, r) PROVE Slots!Next
  <2>1. r \in Waiting(Watched)
    BY <1>1, <1>8 DEF GaveUp, Lists
  <2>2. Slots!GiveUp(r)
    BY <1>8, <2>1 DEF GaveUp, Slots!GiveUp
  <2> QED
    BY <2>2 DEF Slots!Next
<1> QED
  BY <1>3, <1>4, <1>5, <1>6, <1>7, <1>8 DEF Effect

(* Each semaphore implements HostSlots: at most Max requests pass it at a   *)
(* time, one waits only while Max others pass, and a slot that frees goes   *)
(* to a waiting request.                                                    *)
THEOREM ImplementsSlots == Spec => SemaphoreKeepsPromise
<1>1. IInv /\ [Next]_vars => [Slots!Next]_<<Holders(Watched), Waiting(Watched)>>
  <2> SUFFICES ASSUME IInv, [Next]_vars
               PROVE  [Slots!Next]_<<Holders(Watched), Waiting(Watched)>>
    OBVIOUS
  <2>1. ASSUME NEW r \in Request, Step(r) PROVE Effect(Watched)
    BY <2>1, StepEffect, LimiterAssumption
  <2>2. CASE UNCHANGED vars
    BY <2>2 DEF Holders, Waiting, vars
  <2> QED
    BY <2>1, <2>2, SlotsStep DEF Next
<1> QED
  BY <1>1, InitInv, NextInv, SlotsInit, PTL
     DEF Spec, SemaphoreKeepsPromise, Slots!Spec, Slots!vars

----------------------------------------------------------------------------
(* The host's streams, whatever semaphore they hold. *)

(* Each semaphore was created by a thread, no two by the same one, and none *)
(* by a thread that is about to create one.                                 *)
Used == {s \in Sem : \E r \in Request : mine[r] = s}

Creating(r) == pc[r] \in {"lookup", "insert"}

Created(creator) ==
  /\ \A s, t \in Used : creator[s] = creator[t] => s = t
  /\ \A r \in Request, s \in Used : pc[r] = "insert" => creator[s] # thread[r]

CreatorInv ==
  /\ entry # None => entry \in Used
  /\ entry = None => Used = {}
  /\ \A q, r \in Request : Creating(q) /\ Creating(r) /\ thread[q] = thread[r] => q = r
  /\ \E creator \in [Used -> Thread] : Created(creator)

LEMMA CreatorInit == Init => CreatorInv
<1> SUFFICES ASSUME Init PROVE CreatorInv
  OBVIOUS
<1>1. Used = {} /\ entry = None /\ \A r \in Request : pc[r] = "idle"
  BY LimiterAssumption DEF Init, Used
<1>2. [s \in Used |-> s] \in [Used -> Thread] /\ Created([s \in Used |-> s])
  BY <1>1 DEF Created
<1> QED BY <1>1, <1>2 DEF CreatorInv, Creating

(* A step that neither looks up nor creates a semaphore. *)
LEMMA CreatorsKept ==
  ASSUME CreatorInv, UNCHANGED <<entry, mine, thread>>,
         \A r \in Request : Creating(r)' => pc'[r] = pc[r] /\ Creating(r)
  PROVE  CreatorInv'
<1>1. Used' = Used
  BY DEF Used
<1>2. PICK creator \in [Used -> Thread] : Created(creator)
  BY DEF CreatorInv
<1>3. Created(creator)'
  BY <1>1, <1>2 DEF Created, Creating
<1> QED BY <1>1, <1>2, <1>3 DEF CreatorInv

(* A request that goes anywhere but into host_semaphore creates nothing. *)
LEMMA LeavesCreators ==
  ASSUME CreatorInv, IInv, UNCHANGED <<entry, mine, thread>>, NEW r \in Request,
         \A q \in Request : \/ pc'[q] = pc[q]
                           \/ pc'[q] \in {"headers", "body", "done", "queued", "granted"}
  PROVE  CreatorInv'
BY CreatorsKept DEF Creating

LEMMA StartKeepsCreators ==
  ASSUME CreatorInv, IInv, NEW r \in Request, Running(r), Start(r)
  PROVE  CreatorInv'
<1>1. /\ UNCHANGED <<entry, mine, thread>> /\ pc' \in [Request -> Pcs]
      /\ pc'[r] \in {"headers", "lookup"}
      /\ \A q \in Request : q # r => pc'[q] = pc[q]
  BY DEF Start, Goto, IInv, TypeOK, Pcs
<1>2. Used' = Used
  BY <1>1 DEF Used
<1>3. PICK creator \in [Used -> Thread] : Created(creator)
  BY DEF CreatorInv
<1>4. Created(creator)'
  BY <1>1, <1>2, <1>3 DEF Created
<1>5. \A q, t \in Request : Creating(q)' /\ Creating(t)' /\ thread'[q] = thread'[t] => q = t
  BY <1>1 DEF CreatorInv, Creating, Running
<1> QED BY <1>1, <1>2, <1>3, <1>4, <1>5 DEF CreatorInv

(* A request that finds the host's semaphore uses one that was created; one *)
(* that does not find it is the first.                                      *)
LEMMA LookupKeepsCreators ==
  ASSUME CreatorInv, IInv, NEW r \in Request, Lookup(r)
  PROVE  CreatorInv'
<1>1. /\ pc[r] = "lookup" /\ mine[r] = None /\ UNCHANGED <<entry, thread>>
      /\ mine' = [mine EXCEPT ![r] = entry] /\ mine \in [Request -> Sem \cup {None}]
      /\ pc'[r] = IF entry = None THEN "insert" ELSE "acquire"
      /\ \A q \in Request : q # r => pc'[q] = pc[q]
  BY DEF Lookup, Goto, IInv, TypeOK, MineInv
<1>2. Used' = Used
  BY <1>1, LimiterAssumption DEF Used, CreatorInv
<1>3. PICK creator \in [Used -> Thread] : Created(creator)
  BY DEF CreatorInv
<1>4. Created(creator)'
  BY <1>1, <1>2, <1>3 DEF Created, CreatorInv
<1>5. \A q, t \in Request : Creating(q)' /\ Creating(t)' /\ thread'[q] = thread'[t] => q = t
  BY <1>1 DEF CreatorInv, Creating
<1> QED BY <1>1, <1>2, <1>3, <1>4, <1>5 DEF CreatorInv

(* A semaphore is created by a thread that has not created one.             *)
LEMMA InsertKeepsCreators ==
  ASSUME CreatorInv, IInv, NEW r \in Request, Insert(r)
  PROVE  CreatorInv'
<1>1. PICK s \in Sem : /\ \A q \in Request : mine[q] # s
                       /\ entry' = s /\ mine' = [mine EXCEPT ![r] = s]
  BY DEF Insert
<1>2. /\ pc[r] = "insert" /\ mine[r] = None /\ UNCHANGED thread
      /\ mine \in [Request -> Sem \cup {None}] /\ thread[r] \in Thread
      /\ pc'[r] = "acquire" /\ \A q \in Request : q # r => pc'[q] = pc[q]
  BY DEF Insert, Goto, IInv, TypeOK, MineInv
<1>3. s \notin Used /\ Used' = Used \cup {s}
  BY <1>1, <1>2, LimiterAssumption DEF Used
<1>4. PICK creator \in [Used -> Thread] : Created(creator)
  BY DEF CreatorInv
<1>5. PICK next \in [Used' -> Thread] :
        \A t \in Used' : next[t] = IF t = s THEN thread[r] ELSE creator[t]
  <2>1. [t \in Used' |-> IF t = s THEN thread[r] ELSE creator[t]] \in [Used' -> Thread]
    BY <1>2, <1>3, <1>4
  <2> QED BY <2>1
<1>6. \A q \in Request : q # r /\ pc[q] = "insert" => thread[q] # thread[r]
  BY <1>2 DEF CreatorInv, Creating
<1>7. Created(next)'
  <2>1. \A t, u \in Used' : next[t] = next[u] => t = u
    BY <1>2, <1>3, <1>4, <1>5 DEF Created
  <2>2. \A q \in Request, t \in Used' : pc'[q] = "insert" => next[t] # thread'[q]
    BY <1>2, <1>3, <1>4, <1>5, <1>6 DEF Created
  <2> QED BY <2>1, <2>2 DEF Created
<1>8. \A q, t \in Request : Creating(q)' /\ Creating(t)' /\ thread'[q] = thread'[t] => q = t
  BY <1>2 DEF CreatorInv, Creating
<1> QED BY <1>1, <1>3, <1>5, <1>7, <1>8, LimiterAssumption DEF CreatorInv

LEMMA NextCreators == IInv /\ CreatorInv /\ [Next]_vars => CreatorInv'
<1> SUFFICES ASSUME IInv, CreatorInv, [Next]_vars PROVE CreatorInv'
  OBVIOUS
<1>1. ASSUME NEW r \in Request, Running(r), Step(r) PROVE CreatorInv'
  <2> USE DEF IInv, TypeOK
  <2>1. ASSUME UNCHANGED <<entry, mine, thread>>,
               \E to \in {"headers", "body", "done", "queued"} : Goto(r, to) \/ ReleasePermit(r, to)
        PROVE  CreatorInv'
    <3>1. \A q \in Request : \/ pc'[q] = pc[q]
                            \/ pc'[q] \in {"headers", "body", "done", "queued", "granted"}
      BY <2>1 DEF Goto, ReleasePermit
    <3> QED BY <2>1, <3>1, LeavesCreators
  <2>2. CASE Start(r)
    BY <1>1, <2>2, StartKeepsCreators
  <2>3. CASE Lookup(r)
    BY <2>3, LookupKeepsCreators
  <2>4. CASE Insert(r)
    BY <2>4, InsertKeepsCreators
  <2>5. CASE Acquire(r)
    BY <2>1, <2>5 DEF Acquire
  <2>6. CASE Granted(r)
    BY <2>1, <2>6 DEF Granted
  <2>7. CASE HeadersArrive(r)
    BY <2>1, <2>7 DEF HeadersArrive
  <2>8. CASE RequestFails(r)
    BY <2>1, <2>8 DEF RequestFails
  <2>9. CASE BodyEnds(r)
    BY <2>1, <2>9 DEF BodyEnds
  <2>10. CASE DropQueued(r)
    BY <2>1, <2>10 DEF DropQueued
  <2>11. CASE DropGranted(r)
    BY <2>1, <2>11 DEF DropGranted
  <2> QED
    BY <1>1, <2>2, <2>3, <2>4, <2>5, <2>6, <2>7, <2>8, <2>9, <2>10, <2>11 DEF Step
<1>2. CASE UNCHANGED vars
  BY <1>2, CreatorsKept DEF vars, Creating
<1> QED BY <1>1, <1>2 DEF Next

(* A set with at most n elements can be numbered up to n. *)
LEMMA Numbered ==
  ASSUME NEW S, IsFiniteSet(S), NEW n \in Nat, Cardinality(S) <= n
  PROVE  \E f \in [S -> 1 .. n] : \A x, y \in S : f[x] = f[y] => x = y
<1>1. Cardinality(S) \in Nat /\ ExistsBijection(1 .. Cardinality(S), S)
  BY FS_CardinalityType
<1>2. PICK g \in [1 .. Cardinality(S) -> S] : \A x \in S : \E k \in 1 .. Cardinality(S) : g[k] = x
  BY <1>1 DEF ExistsBijection, Bijection, Surjection
<1> DEFINE f == [x \in S |-> CHOOSE k \in 1 .. Cardinality(S) : g[k] = x]
<1>3. \A x \in S : f[x] \in 1 .. Cardinality(S) /\ g[f[x]] = x
  BY <1>2
<1>4. 1 .. Cardinality(S) \subseteq 1 .. n
  BY <1>1
<1>5. f \in [S -> 1 .. n]
  BY <1>3, <1>4
<1> HIDE DEF f
<1>6. \A x, y \in S : f[x] = f[y] => x = y
  BY <1>3
<1> QED BY <1>5, <1>6

(* The streams of the host fit the permits of one semaphore per thread. *)
LEMMA StreamsFit ==
  ASSUME IInv, CreatorInv
  PROVE  StreamsPerThread
<1> DEFINE All == UNION {Holders(s) : s \in Sem}
           Places == Thread \X (1 .. Max)
<1>1. PICK creator \in [Used -> Thread] : \A s, t \in Used : creator[s] = creator[t] => s = t
  BY DEF CreatorInv, Created
<1>2. \A s \in Sem : \E f \in [Holders(s) -> 1 .. Max] :
        \A x, y \in Holders(s) : f[x] = f[y] => x = y
  <2> TAKE s \in Sem
  <2>1. /\ IsFiniteSet(Holders(s)) /\ Cardinality(Holders(s)) \in Nat
        /\ permits[s] \in Nat /\ permits[s] + Cardinality(Holders(s)) = Max /\ Max \in Nat
    BY HoldersFinite, LimiterAssumption DEF IInv, TypeOK, PermitsConserved
  <2>2. Cardinality(Holders(s)) <= Max
    BY <2>1
  <2> QED BY <2>1, <2>2, Numbered
<1> DEFINE number == [s \in Sem |-> CHOOSE f \in [Holders(s) -> 1 .. Max] :
                        \A x, y \in Holders(s) : f[x] = f[y] => x = y]
           place == [r \in All |-> <<creator[mine[r]], number[mine[r]][r]>>]
<1>3. \A s \in Sem : /\ number[s] \in [Holders(s) -> 1 .. Max]
                    /\ \A x, y \in Holders(s) : number[s][x] = number[s][y] => x = y
  BY <1>2
<1>4. \A r \in All : r \in Request /\ mine[r] \in Used /\ mine[r] \in Sem /\ r \in Holders(mine[r])
  BY DEF Holders, Used
<1> HIDE DEF number, All
<1>5. place \in [All -> Places]
  BY <1>1, <1>3, <1>4
<1>6. \A x, y \in All : place[x] = place[y] => x = y
  BY <1>1, <1>3, <1>4
<1>7. place \in Injection(All, Places)
  BY <1>5, <1>6 DEF Injection, IsInjective
<1>8. /\ IsFiniteSet(Places)
      /\ Cardinality(Places) = Cardinality(Thread) * Max
      /\ Cardinality(Thread) \in Nat
  <2>1. IsFiniteSet(1 .. Max) /\ Cardinality(1 .. Max) = Max
    BY LimiterAssumption, FS_Interval
  <2> QED BY <2>1, LimiterAssumption, FS_Product, FS_CardinalityType
<1> HIDE DEF place, Places
<1>9. Cardinality(All) <= Cardinality(Places)
  BY <1>7, <1>8, FS_Injection
<1>10. Cardinality(Thread) * Max = Max * Cardinality(Thread)
  BY <1>8, LimiterAssumption
<1> QED BY <1>8, <1>9, <1>10 DEF StreamsPerThread, All

(* host_semaphore looks up and inserts in two steps, and still a host never *)
(* sees more than Max streams per worker thread.                            *)
THEOREM StreamsStayPerThread == Spec => []StreamsPerThread
<1>1. Init => IInv /\ CreatorInv
  BY InitInv, CreatorInit
<1>2. (IInv /\ CreatorInv) /\ [Next]_vars => (IInv /\ CreatorInv)'
  BY NextInv, NextCreators
<1>3. IInv /\ CreatorInv => StreamsPerThread
  BY StreamsFit
<1> QED BY <1>1, <1>2, <1>3, PTL DEF Spec

=============================================================================
